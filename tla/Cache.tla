------------------------------- MODULE Cache -------------------------------
(***************************************************************************)
(* pkg/cache: images kept in two external stores without a transaction: a  *)
(* document per image in MongoDB (its information, by which invalidations  *)
(* find it) and an object per image in Minio (its bytes, by which requests *)
(* find it).                                                               *)
(*                                                                         *)
(* A handler looks an image up (CacheService.Get) and, when it is not      *)
(* there, has it processed and saves it (CacheService.Save) in a goroutine *)
(* of its own, with the context of the request.  An invalidator is a call  *)
(* of InvalidationService.Invalidate.  One step is one call of an external *)
(* store: it may be refused, or done with its answer lost, and a call with *)
(* a cancelled context is refused.  The process of the server may be       *)
(* killed between any two steps; the stores are left as they are.          *)
(*                                                                         *)
(* An image stands for a request signature with its processor.  What an    *)
(* object holds is the epoch of its source at which it was processed.      *)
(***************************************************************************)
EXTENDS Integers, FiniteSets, Sequences, SequencesExt

CONSTANTS
    Handlers, Invalidators,
    Images, Sources,
    SourceOf,   \* the source of each image
    MaxEpoch,   \* bound: how often a source changes
    Cancels,    \* may the context of a save be cancelled?
    Crashes,    \* may the process be killed?
    OneStream,  \* is one stream per image assumed while it is read?  The late
                \* disposal of DataHub!DisposedAfterUse may break that
    Faults      \* <<call, outcome>>: the failures of the external stores

\* The calls of a save, of its rollback and of an invalidation.
Calls    == {"find", "insert", "stat", "put"} \cup
            {"undoDelete", "undoStat", "undoRemove"} \cup
            {"list", "delete", "statEntry", "remove"}
Failures == {"refused", "lost"}
Epochs   == 0..MaxEpoch
None     == -1

ASSUME ImagesAssumption == SourceOf \in [Images -> Sources]
ASSUME EpochsAssumption == MaxEpoch \in Nat
ASSUME ModeAssumption   == {Cancels, Crashes, OneStream} \subseteq BOOLEAN
ASSUME FaultsAssumption == Faults \subseteq Calls \X Failures
ASSUME ProcsAssumption  == Handlers \cap Invalidators = {}

VARIABLES
    infos,      \* documents in the collection cachedImages, per image
    object,     \* the epoch of the image's object in the bucket, or None
    epoch,      \* of each source: external
    up,         \* is there a process of the server?
    pc,         \* where each handler and invalidator is
    image,      \* the image each of them works on
    version,    \* the epoch each handler's image was processed at
    held,       \* handlers whose save still reads the image's stream
    cancelled,  \* handlers whose context is cancelled
    stranded,   \* history: was what the last save that was alone had
                \* written not rolled back?
    urls,       \* the sources each invalidator has still to do
    todo,       \* the entries it has still to delete, per image
    done,       \* DoneInvalidations
    since,      \* history: the epochs at which its invalidation began
    alone,      \* history: did each save and invalidation find a consistent
                \* cache and has it had it to itself?
    fresh       \* history: the epoch at which an invalidation that was
                \* alone, of each source, began

stores  == <<infos, object>>
saves   == <<image, version, held, cancelled, stranded, alone>>
work    == <<urls, todo, done, since>>
vars    == <<infos, object, epoch, up, pc, image, version, held, cancelled, stranded,
             alone, urls, todo, done, since, fresh>>

Procs == Handlers \cup Invalidators

HandlerLabels ==
    {"idle", "serve", "process", "find", "insert", "stat", "put",
     "undoInfo", "undoStat", "undoObject"}

InvalidatorLabels == {"idle", "list", "entries", "statEntry", "removeEntry", "record"}

Init ==
    /\ infos = [i \in Images |-> 0]
    /\ object = [i \in Images |-> None]
    /\ epoch = [s \in Sources |-> 0]
    /\ up = TRUE
    /\ pc = [p \in Procs |-> "idle"]
    /\ image \in [Procs -> Images]
    /\ \A p, q \in Procs : image[p] = image[q]
    /\ version = [h \in Handlers |-> 0]
    /\ held = {}
    /\ cancelled = {}
    /\ stranded = FALSE
    /\ urls = [v \in Invalidators |-> <<>>]
    /\ todo = [v \in Invalidators |-> [i \in Images |-> 0]]
    /\ done = [v \in Invalidators |-> {}]
    /\ since = [v \in Invalidators |-> epoch]
    /\ alone = [p \in Procs |-> FALSE]
    /\ fresh = epoch

At(p, l)   == pc[p] = l
Goto(p, l) == pc' = [pc EXCEPT ![p] = l]

\* What may happen to a call of p; a cancelled context lets none through.
Outcomes(p, name) ==
    IF p \in cancelled THEN {"refused"}
    ELSE {"ok"} \cup {f \in Failures : <<name, f>> \in Faults}

Stored(i) == object[i] # None

\* A delete whose DeletedCount nobody looks at.
DeleteOneMutant(i) == infos' = [infos EXCEPT ![i] = @ - 1]

\* One DeleteOne, which removes one document if there is one.
DeleteOne(i) == infos' = [infos EXCEPT ![i] = IF @ > 0 THEN @ - 1 ELSE 0]

\* The image's object and one document of it, both or neither.
Together(i) == infos[i] = IF Stored(i) THEN 1 ELSE 0

\* A save or an invalidation begins; those under way are not alone any more.
Begin(p) ==
    /\ alone' = [q \in Procs |->
                   /\ q = p
                   /\ \A r \in Procs : At(r, "idle")
                   /\ \A i \in Images : Together(i)]
    /\ stranded' = FALSE

----------------------------------------------------------------------------
(* Requests.  While the stream of an image exists, a handler that asks for *)
(* the image reads that stream and neither looks it up nor saves it.       *)

Streamed(i) == \E h \in held : image[h] = i

\* CacheService.Get finds no object, and the handler goes on to process.
Get(h, i) ==
    /\ At(h, "idle")
    /\ OneStream => ~ Streamed(i)
    /\ ~ Stored(i)
    /\ Goto(h, "process")
    /\ image' = [image EXCEPT ![h] = i]
    /\ held' = held \cup {h}
    /\ Begin(h)
    /\ UNCHANGED <<stores, epoch, version, cancelled, work, fresh>>

\* It finds one, and a goroutine copies it into the stream.
GetStored(h, i) ==
    /\ At(h, "idle")
    /\ OneStream => ~ Streamed(i)
    /\ Stored(i)
    /\ Goto(h, "serve")
    /\ image' = [image EXCEPT ![h] = i]
    /\ held' = held \cup {h}
    /\ UNCHANGED <<stores, epoch, version, cancelled, stranded, alone, work, fresh>>

\* CacheService.Save is over, and its deferred Close of the stream.
Leave(h) ==
    /\ Goto(h, "idle")
    /\ held' = held \ {h}
    /\ cancelled' = cancelled \ {h}
    /\ version' = [version EXCEPT ![h] = 0]
    /\ alone' = [alone EXCEPT ![h] = FALSE]
    /\ UNCHANGED image

End(h) == Leave(h) /\ UNCHANGED stranded

\* What the save of h has written may remain: the answer of its InsertOne is
\* lost, or a call of its rollback is refused.
Strand(h) == stranded' = (stranded \/ alone[h])

\* The copy ends, with the object or with an error if it was removed.
Serve(h) == At(h, "serve") /\ End(h) /\ UNCHANGED <<stores, epoch, work, fresh>>

\* The image is rendered from the source as it is now, or cannot be.
Process(h) ==
    /\ At(h, "process")
    /\ \/ /\ Goto(h, "find")
          /\ version' = [version EXCEPT ![h] = epoch[SourceOf[image[h]]]]
          /\ UNCHANGED <<image, held, cancelled, stranded, alone>>
       \/ End(h)
    /\ UNCHANGED <<stores, epoch, work, fresh>>

\* A FindOne any answer of which is taken for no document.
FindInfoMutant(h) ==
    /\ At(h, "find")
    /\ Goto(h, "insert")
    /\ UNCHANGED <<stores, epoch, saves, work, fresh>>

\* cachedImagesRepository.CreateCachedImageInfo, its FindOne.
FindInfo(h) ==
    /\ At(h, "find")
    /\ \E o \in Outcomes(h, "find") :
         IF o = "ok" /\ infos[image[h]] = 0
         THEN Goto(h, "insert") /\ UNCHANGED saves
         ELSE End(h)
    /\ UNCHANGED <<stores, epoch, work, fresh>>

\* Its InsertOne; on an error Save returns without undoing anything.
InsertInfo(h) ==
    /\ At(h, "insert")
    /\ \E o \in Outcomes(h, "insert") :
         /\ \/ o = "ok" /\ Goto(h, "stat") /\ UNCHANGED saves
            \/ o = "refused" /\ End(h)
            \/ o = "lost" /\ Leave(h) /\ Strand(h)
         /\ infos' = IF o = "refused" THEN infos
                     ELSE [infos EXCEPT ![image[h]] = @ + 1]
    /\ UNCHANGED <<object, epoch, work, fresh>>

\* cachedImagesStorage.Save refuses an image whose object exists.
StatObject(h) ==
    /\ At(h, "stat")
    /\ \E o \in Outcomes(h, "stat") :
         Goto(h, IF o = "ok" /\ ~ Stored(image[h]) THEN "put" ELSE "undoInfo")
    /\ UNCHANGED <<stores, epoch, saves, work, fresh>>

\* A Save that leaves the document where it is when the upload fails.
PutObjectMutant(h) ==
    /\ At(h, "put")
    /\ \E o \in Outcomes(h, "put") :
         object' = IF o = "refused" THEN object
                   ELSE [object EXCEPT ![image[h]] = version[h]]
    /\ End(h)
    /\ UNCHANGED <<infos, epoch, work, fresh>>

\* A put that is refused stands also for a stream that ended in an error.
\* Either way the stream is closed, before any rollback.
PutObject(h) ==
    /\ At(h, "put")
    /\ \E o \in Outcomes(h, "put") :
         /\ object' = IF o = "refused" THEN object
                      ELSE [object EXCEPT ![image[h]] = version[h]]
         /\ IF o = "ok" THEN End(h)
            ELSE /\ Goto(h, "undoInfo")
                 /\ held' = held \ {h}
                 /\ UNCHANGED <<image, version, cancelled, stranded, alone>>
    /\ UNCHANGED <<infos, epoch, work, fresh>>

----------------------------------------------------------------------------
(* The rollback of CacheService.Save, its errors ignored                   *)

UndoInfo(h) ==
    /\ At(h, "undoInfo")
    /\ Goto(h, "undoStat")
    /\ \E o \in Outcomes(h, "undoDelete") :
         IF o = "refused"
         THEN Strand(h) /\ UNCHANGED infos
         ELSE DeleteOne(image[h]) /\ UNCHANGED stranded
    /\ UNCHANGED <<object, epoch, image, version, held, cancelled, alone, work, fresh>>

UndoStat(h) ==
    /\ At(h, "undoStat")
    /\ \E o \in Outcomes(h, "undoStat") :
         IF o = "ok" /\ Stored(image[h])
         THEN Goto(h, "undoObject") /\ UNCHANGED saves
         ELSE IF o = "ok" THEN End(h) ELSE Leave(h) /\ Strand(h)
    /\ UNCHANGED <<stores, epoch, work, fresh>>

UndoObject(h) ==
    /\ At(h, "undoObject")
    /\ \E o \in Outcomes(h, "undoRemove") :
         IF o = "refused"
         THEN UNCHANGED object /\ Leave(h) /\ Strand(h)
         ELSE object' = [object EXCEPT ![image[h]] = None] /\ End(h)
    /\ UNCHANGED <<infos, epoch, work, fresh>>

\* The request is answered, or its minute is over, before its save is.
Cancel(h) ==
    /\ Cancels
    /\ h \notin cancelled
    /\ pc[h] \in HandlerLabels \ {"idle", "serve", "process"}
    /\ cancelled' = cancelled \cup {h}
    /\ UNCHANGED <<stores, epoch, pc, image, version, held, stranded, alone, work, fresh>>

\* Somebody publishes a new version of a source image.
Publish(s) ==
    /\ epoch[s] < MaxEpoch
    /\ epoch' = [epoch EXCEPT ![s] = @ + 1]
    /\ UNCHANGED <<stores, pc, saves, work, fresh>>

----------------------------------------------------------------------------
(* InvalidationService.Invalidate: CacheService.InvalidateAllEntriesForURL *)
(* for each URL in turn, until one fails, then the record of it all.       *)

Invalidate(v, us) ==
    /\ At(v, "idle")
    /\ Goto(v, "list")
    /\ urls' = [urls EXCEPT ![v] = us]
    /\ since' = [since EXCEPT ![v] = epoch]
    /\ Begin(v)
    /\ UNCHANGED <<stores, epoch, image, version, held, cancelled, todo, done, fresh>>

\* cachedImagesRepository.GetCachedImageInfosOfSource
ListEntries(v) ==
    /\ At(v, "list")
    /\ \E o \in Outcomes(v, "list") :
         IF o = "ok"
         THEN /\ Goto(v, "entries")
              /\ todo' = [todo EXCEPT ![v] = [i \in Images |->
                            IF SourceOf[i] = Head(urls[v]) THEN infos[i] ELSE 0]]
         ELSE Goto(v, "record") /\ UNCHANGED todo
    /\ UNCHANGED <<stores, epoch, saves, urls, done, since, fresh>>

Fail(v) == Goto(v, "record")

DeleteInfo(v, i) ==
    /\ At(v, "entries")
    /\ todo[v][i] > 0
    /\ image' = [image EXCEPT ![v] = i]
    /\ \E o \in Outcomes(v, "delete") :
         /\ IF o = "ok" /\ infos[i] > 0 THEN Goto(v, "statEntry") ELSE Fail(v)
         /\ IF o = "refused" THEN UNCHANGED infos ELSE DeleteOne(i)
    /\ UNCHANGED <<object, epoch, version, held, cancelled, stranded, alone, work, fresh>>

StatEntry(v) ==
    /\ At(v, "statEntry")
    /\ \E o \in Outcomes(v, "statEntry") :
         IF o = "ok" /\ Stored(image[v]) THEN Goto(v, "removeEntry") ELSE Fail(v)
    /\ UNCHANGED <<stores, epoch, saves, work, fresh>>

\* An invalidation that goes on whatever Minio answered.
RemoveEntryMutant(v) ==
    /\ At(v, "removeEntry")
    /\ \E o \in Outcomes(v, "remove") :
         object' = IF o = "refused" THEN object ELSE [object EXCEPT ![image[v]] = None]
    /\ Goto(v, "entries")
    /\ todo' = [todo EXCEPT ![v][image[v]] = @ - 1]
    /\ UNCHANGED <<infos, epoch, saves, urls, done, since, fresh>>

RemoveEntry(v) ==
    /\ At(v, "removeEntry")
    /\ \E o \in Outcomes(v, "remove") :
         /\ IF o = "refused" THEN UNCHANGED object
            ELSE object' = [object EXCEPT ![image[v]] = None]
         /\ IF o = "ok"
            THEN Goto(v, "entries") /\ todo' = [todo EXCEPT ![v][image[v]] = @ - 1]
            ELSE Fail(v) /\ UNCHANGED todo
    /\ UNCHANGED <<infos, epoch, saves, urls, done, since, fresh>>

\* One deleted entry is taken for all of them.
NextURLMutant(v) ==
    /\ At(v, "entries")
    /\ done' = [done EXCEPT ![v] = @ \cup {Head(urls[v])}]
    /\ urls' = [urls EXCEPT ![v] = Tail(@)]
    /\ Goto(v, IF Len(urls[v]) = 1 THEN "record" ELSE "list")
    /\ UNCHANGED <<stores, epoch, saves, todo, since, fresh>>

\* The entries of a URL are done; the next one, or the record.
NextURL(v) ==
    /\ At(v, "entries")
    /\ \A i \in Images : todo[v][i] = 0
    /\ done' = [done EXCEPT ![v] = @ \cup {Head(urls[v])}]
    /\ urls' = [urls EXCEPT ![v] = Tail(@)]
    /\ Goto(v, IF Len(urls[v]) = 1 THEN "record" ELSE "list")
    /\ UNCHANGED <<stores, epoch, saves, todo, since, fresh>>

\* CreateInvalidation; what is recorded is returned whether it fails or not,
\* and the variables of the call are gone.
Record(v) ==
    /\ At(v, "record")
    /\ Goto(v, "idle")
    /\ fresh' = [s \in Sources |->
                   IF alone[v] /\ s \in done[v] THEN since[v][s] ELSE fresh[s]]
    /\ urls' = [urls EXCEPT ![v] = <<>>]
    /\ todo' = [todo EXCEPT ![v] = [i \in Images |-> 0]]
    /\ done' = [done EXCEPT ![v] = {}]
    /\ since' = [since EXCEPT ![v] = [s \in Sources |-> 0]]
    /\ alone' = [alone EXCEPT ![v] = FALSE]
    /\ UNCHANGED <<stores, epoch, image, version, held, cancelled, stranded>>

\* The process is killed: handlers and invalidators are gone, with whatever
\* they had still to save, roll back, delete or record.
Crash ==
    /\ Crashes
    /\ up /\ up' = FALSE
    /\ pc' = [p \in Procs |-> "idle"]
    /\ version' = [h \in Handlers |-> 0]
    /\ held' = {}
    /\ cancelled' = {}
    /\ stranded' = FALSE
    /\ urls' = [v \in Invalidators |-> <<>>]
    /\ todo' = [v \in Invalidators |-> [i \in Images |-> 0]]
    /\ done' = [v \in Invalidators |-> {}]
    /\ since' = [v \in Invalidators |-> [s \in Sources |-> 0]]
    /\ alone' = [p \in Procs |-> FALSE]
    /\ UNCHANGED <<stores, epoch, image, fresh>>

Restart ==
    /\ ~ up
    /\ up' = TRUE
    /\ UNCHANGED <<stores, epoch, pc, saves, work, fresh>>

----------------------------------------------------------------------------
Handle(h) ==
    \/ \E i \in Images : Get(h, i) \/ GetStored(h, i)
    \/ Serve(h)
    \/ Process(h) \/ FindInfo(h) \/ InsertInfo(h) \/ StatObject(h) \/ PutObject(h)
    \/ UndoInfo(h) \/ UndoStat(h) \/ UndoObject(h)
    \/ Cancel(h)

\* The URLs of a request: any of the sources, in any order.
Requests == {us \in SeqOf(Sources, Cardinality(Sources)) :
               us # <<>> /\ IsInjective(us)}

RunInvalidation(v) ==
    \/ \E us \in Requests : Invalidate(v, us)
    \/ ListEntries(v) \/ StatEntry(v) \/ RemoveEntry(v) \/ NextURL(v) \/ Record(v)
    \/ \E i \in Images : DeleteInfo(v, i)

\* The steps of a process, while there is one.
Serving == (\E h \in Handlers : Handle(h)) \/ (\E v \in Invalidators : RunInvalidation(v))

Next ==
    \/ up /\ Serving /\ UNCHANGED up
    \/ (\E s \in Sources : Publish(s)) /\ UNCHANGED up
    \/ Crash \/ Restart

Spec == Init /\ [][Next]_vars

----------------------------------------------------------------------------
StoreTypes ==
    /\ infos \in [Images -> Nat]
    /\ object \in [Images -> Epochs \cup {None}]
    /\ epoch \in [Sources -> Epochs]
    /\ fresh \in [Sources -> Epochs]
    /\ up \in BOOLEAN

ProcTypes ==
    /\ pc \in [Procs -> HandlerLabels \cup InvalidatorLabels]
    /\ \A h \in Handlers : pc[h] \in HandlerLabels
    /\ \A v \in Invalidators : pc[v] \in InvalidatorLabels
    /\ image \in [Procs -> Images]
    /\ version \in [Handlers -> Epochs]
    /\ held \subseteq Handlers
    /\ cancelled \subseteq Handlers
    /\ alone \in [Procs -> BOOLEAN]

WorkTypes ==
    /\ urls \in [Invalidators -> Seq(Sources)]
    /\ \A v \in Invalidators :
         pc[v] \in {"list", "entries", "statEntry", "removeEntry"} => urls[v] # <<>>
    /\ \A v \in Invalidators :
         pc[v] \in {"statEntry", "removeEntry"} => todo[v][image[v]] > 0
    /\ todo \in [Invalidators -> [Images -> Nat]]
    /\ done \in [Invalidators -> SUBSET Sources]
    /\ since \in [Invalidators -> [Sources -> Epochs]]

\* Every variable has its type; an invalidator that works on a URL or
\* on an entry has one.  The loops in Invalidate rely on it.
TypeOK == StoreTypes /\ ProcTypes /\ WorkTypes /\ stranded \in BOOLEAN

\* An image has at most one document in MongoDB, although FindOne and
\* InsertOne of CreateCachedImageInfo are two calls and no index is unique:
\* this rests on OneStream, one save of an image at a time.
InfosUnique == \A i \in Images : infos[i] <= 1

Rest == \A p \in Procs : At(p, "idle")

(***************************************************************************)
(* A save that found a consistent cache to itself and ends, its process    *)
(* not killed, leaves its image in both stores or in neither, whichever of *)
(* its calls failed or got no answer (cache_service.go:50), except in the  *)
(* two cases the code has no answer to: the answer of InsertOne is lost,   *)
(* after which nothing is rolled back (cache_service.go:42), or a call of  *)
(* the rollback is refused, as all are once the context is cancelled       *)
(* (cache_service.go:51, handlers.go:19).                                  *)
(***************************************************************************)
SaveIsWhole ==
    [][up' =>
         \A h \in Handlers :
           alone[h] /\ ~ At(h, "idle") /\ pc'[h] = "idle" =>
               stranded' \/ Together(image[h])'
      ]_vars

\* An image whose information was saved has its object.  When Save fails, it
\* deletes the information again (cache_service.go:50); otherwise the image
\* is never found by Get and never saved again.
InfosHaveObjects == Rest => \A i \in Images : infos[i] > 0 => Stored(i)

\* Once a source was invalidated while nobody processed an image, no image
\* is served that was processed from the source as it was before: neither the
\* failures of that invalidation nor those of later saves bring one back.
\* One that overlaps with a save of an older image may: Invalidations has it.
NothingStale ==
    \A i \in Images : Stored(i) => object[i] >= fresh[SourceOf[i]]

\* An invalidation that had a consistent cache to itself did delete every
\* image of the URLs it reports as done, however many failed after them.  Of
\* an object that was without a document before it says nothing.
DoneIsGone ==
    \A v \in Invalidators : At(v, "record") /\ alone[v] =>
        \A i \in Images : SourceOf[i] \in done[v] => infos[i] = 0 /\ ~ Stored(i)
=============================================================================
