---------------------------- MODULE CacheProofs ----------------------------
(***************************************************************************)
(* Theorems about Cache, for any handlers, invalidators and images and any *)
(* failures of the stores and crashes: types, that an image has one        *)
(* document when the hub keeps one stream per image, and what an           *)
(* invalidation or a save that had the cache to itself has achieved.       *)
(***************************************************************************)
EXTENDS Cache, SequenceTheorems, TLAPS

\* The variables that the documents depend on, typed.
DocumentTypes ==
    /\ infos \in [Images -> Nat]
    /\ pc \in [Procs -> HandlerLabels \cup InvalidatorLabels]
    /\ \A h \in Handlers : pc[h] \in HandlerLabels
    /\ image \in [Procs -> Images]
    /\ held \subseteq Handlers

\* The part of Save that reads the stream, up to and with the upload.
Reading == {"process", "find", "insert", "stat", "put"}

\* Whoever is in it holds the image's stream, and nobody else does: the
\* FindOne of one save and its InsertOne have no other save between them.
OneReader ==
    /\ \A h \in Handlers : pc[h] \in Reading => h \in held
    /\ \A g, h \in held : image[g] = image[h] => g = h

NoDocument == \A h \in Handlers : pc[h] = "insert" => infos[image[h]] = 0

DocumentInv == DocumentTypes /\ OneReader /\ NoDocument /\ InfosUnique

----------------------------------------------------------------------------
\* Nothing is stored or held at first.
LEMMA DocumentInit == Init => DocumentInv
  BY DEF Init, DocumentInv, DocumentTypes, OneReader, NoDocument, InfosUnique,
         Reading, HandlerLabels, Procs

\* Each step of a save keeps its image's document single.
LEMMA HandlerKeepsDocument ==
    ASSUME OneStream, DocumentInv, NEW h \in Handlers, Handle(h)
    PROVE  DocumentInv'
  <1> USE ProcsAssumption
      DEF DocumentInv, DocumentTypes, OneReader, NoDocument, InfosUnique, Reading,
          HandlerLabels, Procs, At, Goto, stores, saves, work
  <1>1. ASSUME NEW i \in Images, Get(h, i) PROVE DocumentInv'
    BY <1>1 DEF Get, Streamed
  <1>2. ASSUME NEW i \in Images, GetStored(h, i) PROVE DocumentInv'
    BY <1>2 DEF GetStored, Streamed
  <1>3. CASE Serve(h)
    BY <1>3 DEF Serve, End, Leave, Strand
  <1>4. CASE Process(h)
    BY <1>4 DEF Process, End, Leave, Strand
  <1>5. CASE FindInfo(h)
    BY <1>5 DEF FindInfo, End, Leave, Strand
  <1>6. CASE InsertInfo(h)
    BY <1>6 DEF InsertInfo, End, Leave, Strand
  <1>7. CASE StatObject(h)
    BY <1>7 DEF StatObject
  <1>8. CASE PutObject(h)
    BY <1>8 DEF PutObject, End, Leave, Strand
  <1>9. CASE UndoInfo(h)
    BY <1>9 DEF UndoInfo, DeleteOne
  <1>10. CASE UndoStat(h)
    BY <1>10 DEF UndoStat, End, Leave, Strand
  <1>11. CASE UndoObject(h)
    BY <1>11 DEF UndoObject, End, Leave, Strand
  <1>12. CASE Cancel(h)
    BY <1>12 DEF Cancel
  <1>13. QED
    BY <1>1, <1>2, <1>3, <1>4, <1>5, <1>6, <1>7, <1>8, <1>9, <1>10, <1>11,
       <1>12 DEF Handle

\* An invalidation only takes documents away.
LEMMA InvalidatorKeepsDocument ==
    ASSUME DocumentInv, NEW v \in Invalidators, RunInvalidation(v)
    PROVE  DocumentInv'
  <1> USE ProcsAssumption
      DEF DocumentInv, DocumentTypes, OneReader, NoDocument, InfosUnique, Reading,
          InvalidatorLabels, Procs, At, Goto, Fail, stores, saves, work
  <1>1. ASSUME NEW us, Invalidate(v, us) PROVE DocumentInv'
    BY <1>1 DEF Invalidate
  <1>2. CASE ListEntries(v)
    BY <1>2 DEF ListEntries
  <1>3. ASSUME NEW i \in Images, DeleteInfo(v, i) PROVE DocumentInv'
    BY <1>3 DEF DeleteInfo, DeleteOne
  <1>4. CASE StatEntry(v)
    BY <1>4 DEF StatEntry
  <1>5. CASE RemoveEntry(v)
    BY <1>5 DEF RemoveEntry
  <1>6. CASE NextURL(v)
    BY <1>6 DEF NextURL
  <1>7. CASE Record(v)
    BY <1>7 DEF Record
  <1>8. QED
    BY <1>1, <1>2, <1>3, <1>4, <1>5, <1>6, <1>7 DEF RunInvalidation

\* While the hub keeps one stream per image, an image has at most one
\* document in MongoDB, whatever fails, is cancelled or is invalidated.
THEOREM DocumentsUnique == ASSUME OneStream PROVE Spec => []InfosUnique
  <1>1. DocumentInv /\ [Next]_vars => DocumentInv'
    <2> SUFFICES ASSUME DocumentInv, [Next]_vars PROVE DocumentInv'
      OBVIOUS
    <2>1. CASE UNCHANGED vars
      BY <2>1 DEF vars, DocumentInv, DocumentTypes, OneReader, NoDocument, InfosUnique
    <2>2. ASSUME NEW h \in Handlers, Handle(h) PROVE DocumentInv'
      BY <2>2, HandlerKeepsDocument, OneStream
    <2>3. ASSUME NEW v \in Invalidators, RunInvalidation(v) PROVE DocumentInv'
      BY <2>3, InvalidatorKeepsDocument
    <2>4. ASSUME NEW s \in Sources, Publish(s) PROVE DocumentInv'
      BY <2>4 DEF Publish, stores, saves, work, DocumentInv, DocumentTypes,
                  OneReader, NoDocument, InfosUnique
    <2>5. CASE Crash
      BY <2>5 DEF Crash, stores, DocumentInv, DocumentTypes, OneReader, NoDocument,
                  InfosUnique, Reading, HandlerLabels, InvalidatorLabels, Procs
    <2>6. CASE Restart
      BY <2>6 DEF Restart, stores, saves, work, DocumentInv, DocumentTypes,
                  OneReader, NoDocument, InfosUnique
    <2>7. QED
      BY <2>1, <2>2, <2>3, <2>4, <2>5, <2>6 DEF Next, Serving
  <1>2. DocumentInv => InfosUnique
    BY DEF DocumentInv
  <1>3. QED
    BY <1>1, <1>2, DocumentInit, PTL DEF Spec

----------------------------------------------------------------------------
(* Invalidations that have a consistent cache to themselves                *)

\* While somebody is alone, the others are idle or copy an object.
OthersWait ==
    \A p \in Procs : alone[p] =>
        /\ ~ At(p, "idle")
        /\ \A q \in Procs \ {p} : pc[q] \in {"idle", "serve"}

\* What the invalidation has still to delete of the image i is what there is.
Ahead(v, i) ==
    /\ Together(i)
    /\ SourceOf[i] = Head(urls[v]) => todo[v][i] = infos[i]

\* The entry it is about has lost its document, and is not of a source done.
Between(v, j) ==
    /\ infos[j] = 0
    /\ SourceOf[j] \notin done[v]
    /\ SourceOf[j] = Head(urls[v]) => todo[v][j] = 1
    /\ \A i \in Images \ {j} : Ahead(v, i)

Progress(v) ==
    /\ At(v, "list") => \A i \in Images : Together(i)
    /\ At(v, "entries") => \A i \in Images : Ahead(v, i)
    /\ pc[v] \in {"statEntry", "removeEntry"} => Between(v, image[v])
    /\ \A i \in Images : SourceOf[i] \in done[v] => infos[i] = 0 /\ ~ Stored(i)

\* No epoch is ahead of its source, and no save of an older one is under way.
NoneAhead ==
    /\ \A s \in Sources : fresh[s] <= epoch[s]
    /\ \A v \in Invalidators : \A s \in Sources : since[v][s] <= epoch[s]
    /\ \A h \in Handlers : pc[h] \in {"find", "insert", "stat", "put"} =>
         version[h] >= fresh[SourceOf[image[h]]]

StaleInv ==
    /\ TypeOK
    /\ OthersWait
    /\ \A v \in Invalidators : At(v, "idle") => done[v] = {}
    /\ \A v \in Invalidators : alone[v] => Progress(v)
    /\ NoneAhead
    /\ NothingStale

\* The requests are sequences of sources.
LEMMA RequestsAreSeqs == \A us \in Requests : us \in Seq(Sources) /\ us # <<>>
  BY DEF Requests, SeqOf

\* Nothing is there at first.
LEMMA TypesInit == Init => TypeOK
  <1> SUFFICES ASSUME Init PROVE TypeOK
    OBVIOUS
  <1> USE ImagesAssumption, EpochsAssumption, ProcsAssumption DEF Init
  <1>1. 0 \in Epochs
    BY DEF Epochs
  <1>2. StoreTypes /\ ProcTypes /\ WorkTypes
    BY <1>1 DEF StoreTypes, ProcTypes, WorkTypes, Procs, HandlerLabels, InvalidatorLabels
  <1>3. stranded \in BOOLEAN
    OBVIOUS
  <1>4. QED
    BY <1>2, <1>3 DEF TypeOK

\* A handler's step does not touch what invalidators work on.
LEMMA HandlerTypes == ASSUME TypeOK, NEW h \in Handlers, Handle(h), UNCHANGED up
                      PROVE  TypeOK'
  <1> USE ProcsAssumption DEF TypeOK, Procs, At, Goto, stores, saves, work
  <1>0. 0 \in Epochs
    BY EpochsAssumption DEF Epochs
  <1>1. WorkTypes'
    <2>1. UNCHANGED work /\ \A v \in Invalidators : pc'[v] = pc[v] /\ image'[v] = image[v]
      <3>1. CASE \E i \in Images : Get(h, i)
        BY <1>0, <3>1 DEF Get, Begin, ProcTypes
      <3>2. CASE \E i \in Images : GetStored(h, i)
        BY <1>0, <3>2 DEF GetStored, ProcTypes
      <3>3. CASE Serve(h)
        BY <1>0, <3>3 DEF Serve, End, Leave, Strand, ProcTypes
      <3>4. CASE Process(h)
        BY <1>0, <3>4 DEF Process, End, Leave, Strand, ProcTypes
      <3>5. CASE FindInfo(h)
        BY <1>0, <3>5 DEF FindInfo, End, Leave, Strand, ProcTypes
      <3>6. CASE InsertInfo(h)
        BY <1>0, <3>6 DEF InsertInfo, End, Leave, Strand, ProcTypes
      <3>7. CASE StatObject(h)
        BY <1>0, <3>7 DEF StatObject, ProcTypes
      <3>8. CASE PutObject(h)
        BY <1>0, <3>8 DEF PutObject, End, Leave, Strand, ProcTypes
      <3>9. CASE UndoInfo(h)
        BY <1>0, <3>9 DEF UndoInfo, DeleteOne, ProcTypes
      <3>10. CASE UndoStat(h)
        BY <1>0, <3>10 DEF UndoStat, End, Leave, Strand, ProcTypes
      <3>11. CASE UndoObject(h)
        BY <1>0, <3>11 DEF UndoObject, End, Leave, Strand, ProcTypes
      <3>12. CASE Cancel(h)
        BY <1>0, <3>12 DEF Cancel, ProcTypes
      <3>13. QED
        BY <3>1, <3>2, <3>3, <3>4, <3>5, <3>6, <3>7, <3>8, <3>9, <3>10, <3>11, <3>12 DEF Handle
    <2>2. QED
      BY <2>1 DEF WorkTypes
  <1>2. StoreTypes'
    <2>1. CASE \E i \in Images : Get(h, i)
      BY <1>0, <2>1 DEF Get, Begin, StoreTypes, ProcTypes
    <2>2. CASE \E i \in Images : GetStored(h, i)
      BY <1>0, <2>2 DEF GetStored, StoreTypes, ProcTypes
    <2>3. CASE Serve(h)
      BY <1>0, <2>3 DEF Serve, End, Leave, Strand, StoreTypes, ProcTypes
    <2>4. CASE Process(h)
      BY <1>0, <2>4 DEF Process, End, Leave, Strand, StoreTypes, ProcTypes
    <2>5. CASE FindInfo(h)
      BY <1>0, <2>5 DEF FindInfo, End, Leave, Strand, StoreTypes, ProcTypes
    <2>6. CASE InsertInfo(h)
      BY <1>0, <2>6 DEF InsertInfo, End, Leave, Strand, StoreTypes, ProcTypes
    <2>7. CASE StatObject(h)
      BY <1>0, <2>7 DEF StatObject, StoreTypes, ProcTypes
    <2>8. CASE PutObject(h)
      BY <1>0, <2>8 DEF PutObject, End, Leave, Strand, StoreTypes, ProcTypes
    <2>9. CASE UndoInfo(h)
      BY <1>0, <2>9 DEF UndoInfo, DeleteOne, StoreTypes, ProcTypes
    <2>10. CASE UndoStat(h)
      BY <1>0, <2>10 DEF UndoStat, End, Leave, Strand, StoreTypes, ProcTypes
    <2>11. CASE UndoObject(h)
      BY <1>0, <2>11 DEF UndoObject, End, Leave, Strand, StoreTypes, ProcTypes
    <2>12. CASE Cancel(h)
      BY <1>0, <2>12 DEF Cancel, StoreTypes, ProcTypes
    <2>13. QED
      BY <2>1, <2>2, <2>3, <2>4, <2>5, <2>6, <2>7, <2>8, <2>9, <2>10, <2>11, <2>12 DEF Handle
  <1>3. ProcTypes'
    <2>1. CASE \E i \in Images : Get(h, i)
      BY <1>0, <2>1, ImagesAssumption DEF Get, Begin, ProcTypes, StoreTypes, HandlerLabels
    <2>2. CASE \E i \in Images : GetStored(h, i)
      BY <1>0, <2>2, ImagesAssumption DEF GetStored, ProcTypes, StoreTypes, HandlerLabels
    <2>3. CASE Serve(h)
      BY <1>0, <2>3, ImagesAssumption DEF Serve, End, Leave, Strand, ProcTypes, StoreTypes,
         HandlerLabels
    <2>4. CASE Process(h)
      <3>1. epoch[SourceOf[image[h]]] \in Epochs
        BY ImagesAssumption DEF ProcTypes, StoreTypes
      <3>2. CASE End(h)
        BY <1>0, <2>4, <3>2 DEF Process, End, Leave, Strand, ProcTypes, HandlerLabels
      <3>3. CASE Goto(h, "find")
        BY <2>4, <3>1, <3>3 DEF Process, End, Leave, Strand, ProcTypes, HandlerLabels
      <3>4. QED
        BY <2>4, <3>2, <3>3 DEF Process
    <2>5. CASE FindInfo(h)
      BY <1>0, <2>5, ImagesAssumption DEF FindInfo, End, Leave, Strand, ProcTypes,
         StoreTypes, HandlerLabels
    <2>6. CASE InsertInfo(h)
      <3>1. (Goto(h, "stat") /\ UNCHANGED saves) \/ Leave(h)
        BY <2>6 DEF InsertInfo, End
      <3>2. CASE Goto(h, "stat") /\ UNCHANGED saves
        BY <3>2 DEF ProcTypes, HandlerLabels
      <3>3. CASE Leave(h)
        BY <1>0, <3>3 DEF Leave, ProcTypes, HandlerLabels
      <3>4. QED
        BY <3>1, <3>2, <3>3
    <2>7. CASE StatObject(h)
      BY <1>0, <2>7, ImagesAssumption DEF StatObject, ProcTypes, StoreTypes, HandlerLabels
    <2>8. CASE PutObject(h)
      BY <1>0, <2>8, ImagesAssumption DEF PutObject, End, Leave, Strand, ProcTypes,
         StoreTypes, HandlerLabels
    <2>9. CASE UndoInfo(h)
      BY <1>0, <2>9, ImagesAssumption DEF UndoInfo, DeleteOne, ProcTypes, StoreTypes,
         HandlerLabels
    <2>10. CASE UndoStat(h)
      BY <1>0, <2>10, ImagesAssumption DEF UndoStat, End, Leave, Strand, ProcTypes,
         StoreTypes, HandlerLabels
    <2>11. CASE UndoObject(h)
      BY <1>0, <2>11, ImagesAssumption DEF UndoObject, End, Leave, Strand, ProcTypes,
         StoreTypes, HandlerLabels
    <2>12. CASE Cancel(h)
      BY <1>0, <2>12, ImagesAssumption DEF Cancel, ProcTypes, StoreTypes, HandlerLabels
    <2>13. QED
      BY <2>1, <2>2, <2>3, <2>4, <2>5, <2>6, <2>7, <2>8, <2>9, <2>10, <2>11, <2>12 DEF Handle
  <1>4. stranded' \in BOOLEAN
    <2>1. UNCHANGED stranded \/ stranded' = FALSE \/ Strand(h)
      BY DEF Handle, Get, Begin, GetStored, Serve, Process, FindInfo, InsertInfo, StatObject,
             PutObject, UndoInfo, UndoStat, UndoObject, Cancel, End
    <2>2. Strand(h) => stranded' \in BOOLEAN
      BY Zenon DEF Strand
    <2>3. QED
      BY <2>1, <2>2
  <1>5. QED
    BY <1>1, <1>2, <1>3, <1>4

\* An invalidator's step leaves the saves alone.
LEMMA InvalidatorTypes ==
    ASSUME TypeOK, NEW v \in Invalidators, RunInvalidation(v), UNCHANGED up
    PROVE  TypeOK'
  <1> USE ProcsAssumption DEF TypeOK, Procs, At, Goto, stores, saves, work
  <1>0. 0 \in Epochs
    BY EpochsAssumption DEF Epochs
  <1>1. StoreTypes'
    <2>1. CASE \E us \in Requests : Invalidate(v, us)
      BY <1>0, <2>1 DEF Invalidate, Begin, StoreTypes, ProcTypes, WorkTypes
    <2>2. CASE ListEntries(v)
      BY <1>0, <2>2 DEF ListEntries, StoreTypes, ProcTypes, WorkTypes
    <2>3. CASE \E i \in Images : DeleteInfo(v, i)
      BY <1>0, <2>3 DEF DeleteInfo, DeleteOne, Fail, StoreTypes, ProcTypes, WorkTypes
    <2>4. CASE StatEntry(v)
      BY <1>0, <2>4 DEF StatEntry, Fail, StoreTypes, ProcTypes, WorkTypes
    <2>5. CASE RemoveEntry(v)
      BY <1>0, <2>5 DEF RemoveEntry, Fail, StoreTypes, ProcTypes, WorkTypes
    <2>6. CASE NextURL(v)
      BY <1>0, <2>6 DEF NextURL, StoreTypes, ProcTypes, WorkTypes
    <2>7. CASE Record(v)
      BY <1>0, <2>7 DEF Record, StoreTypes, ProcTypes, WorkTypes
    <2>8. QED
      BY <2>1, <2>2, <2>3, <2>4, <2>5, <2>6, <2>7 DEF RunInvalidation
  <1>2. ProcTypes'
    <2>1. CASE \E us \in Requests : Invalidate(v, us)
      BY <1>0, <2>1 DEF Invalidate, Begin, ProcTypes, InvalidatorLabels
    <2>2. CASE ListEntries(v)
      BY <1>0, <2>2 DEF ListEntries, ProcTypes, InvalidatorLabels
    <2>3. CASE \E i \in Images : DeleteInfo(v, i)
      BY <1>0, <2>3 DEF DeleteInfo, DeleteOne, Fail, ProcTypes, InvalidatorLabels
    <2>4. CASE StatEntry(v)
      BY <1>0, <2>4 DEF StatEntry, Fail, ProcTypes, InvalidatorLabels
    <2>5. CASE RemoveEntry(v)
      BY <1>0, <2>5 DEF RemoveEntry, Fail, ProcTypes, InvalidatorLabels
    <2>6. CASE NextURL(v)
      BY <1>0, <2>6 DEF NextURL, ProcTypes, InvalidatorLabels
    <2>7. CASE Record(v)
      BY <1>0, <2>7 DEF Record, ProcTypes, InvalidatorLabels
    <2>8. QED
      BY <2>1, <2>2, <2>3, <2>4, <2>5, <2>6, <2>7 DEF RunInvalidation
  <1>3. WorkTypes'
    <2>1. CASE \E us \in Requests : Invalidate(v, us)
      BY <1>0, <2>1, RequestsAreSeqs DEF Invalidate, Begin, WorkTypes, ProcTypes,
         StoreTypes, InvalidatorLabels
    <2>2. CASE ListEntries(v)
      <3>1. todo' \in [Invalidators -> [Images -> Nat]]
        <4> DEFINE Listed == [i \in Images |->
                                IF SourceOf[i] = Head(urls[v]) THEN infos[i] ELSE 0]
        <4>1. UNCHANGED todo \/ todo' = [todo EXCEPT ![v] = Listed]
          BY <2>2 DEF ListEntries
        <4>2. Listed \in [Images -> Nat]
          BY DEF StoreTypes
        <4> HIDE DEF Listed
        <4>3. QED
          BY <4>1, <4>2 DEF WorkTypes
      <3>2. \A w \in Invalidators :
              /\ pc'[w] \notin {"idle", "record"} => pc[w] \notin {"idle", "record"}
              /\ pc'[w] \in {"statEntry", "removeEntry"} => w # v /\ pc'[w] = pc[w]
        BY <2>2 DEF ListEntries, ProcTypes, InvalidatorLabels
      <3>3. \A w \in Invalidators \ {v} : todo'[w] = todo[w]
        BY <2>2 DEF ListEntries, WorkTypes
      <3>4. UNCHANGED <<urls, image, done, since>>
        BY <2>2 DEF ListEntries
      <3>5. \A w \in Invalidators : pc[w] \in InvalidatorLabels
        BY DEF ProcTypes
      <3>6. QED
        BY <3>1, <3>2, <3>3, <3>4, <3>5 DEF WorkTypes, InvalidatorLabels
    <2>3. CASE \E i \in Images : DeleteInfo(v, i)
      BY <1>0, <2>3, RequestsAreSeqs DEF DeleteInfo, DeleteOne, Fail, WorkTypes, ProcTypes,
         StoreTypes, InvalidatorLabels
    <2>4. CASE StatEntry(v)
      BY <1>0, <2>4, RequestsAreSeqs DEF StatEntry, Fail, WorkTypes, ProcTypes, StoreTypes,
         InvalidatorLabels
    <2>5. CASE RemoveEntry(v)
      <3>1. \/ pc' = [pc EXCEPT ![v] = "record"] /\ UNCHANGED todo
            \/ /\ pc' = [pc EXCEPT ![v] = "entries"]
               /\ todo' = [todo EXCEPT ![v][image[v]] = @ - 1]
        BY <2>5 DEF RemoveEntry, Fail
      <3>8. pc[v] = "removeEntry" /\ image[v] \in Images
        BY <2>5 DEF RemoveEntry, ProcTypes
      <3>2. todo[v][image[v]] \in Nat \ {0} /\ urls[v] # <<>>
        BY <3>8 DEF WorkTypes
      <3>3. todo' \in [Invalidators -> [Images -> Nat]]
        <4>1. todo[v] \in [Images -> Nat]
          BY DEF WorkTypes
        <4>2. [todo[v] EXCEPT ![image[v]] = @ - 1] \in [Images -> Nat]
          BY <3>2, <3>8, <4>1
        <4>3. QED
          BY <3>1, <4>2 DEF WorkTypes
      <3>4. UNCHANGED <<urls, image, done, since>>
        BY <2>5 DEF RemoveEntry
      <3>5. \A w \in Invalidators \ {v} : todo'[w] = todo[w] /\ pc'[w] = pc[w]
        BY <3>1 DEF WorkTypes, ProcTypes
      <3>6. pc'[v] \in {"record", "entries"}
        BY <3>1 DEF ProcTypes
      <3>7. QED
        BY <3>2, <3>3, <3>4, <3>5, <3>6 DEF WorkTypes
    <2>6. CASE NextURL(v)
      <3>1. urls[v] \in Seq(Sources) /\ urls[v] # <<>>
        BY <2>6 DEF NextURL, WorkTypes
      <3>2. /\ Head(urls[v]) \in Sources /\ Tail(urls[v]) \in Seq(Sources)
        BY <3>1, HeadTailProperties
      <3>6. Len(urls[v]) # 1 => Tail(urls[v]) # <<>>
        <4>1. Len(Tail(urls[v])) = Len(urls[v]) - 1 /\ Len(urls[v]) \in Nat
          BY <3>1, HeadTailProperties
        <4>2. \A t : t = <<>> => Len(t) = 0
          OBVIOUS
        <4>3. Tail(urls[v]) = <<>> => Len(Tail(urls[v])) = 0
          BY <4>2, Zenon
        <4>4. QED
          BY <4>1, <4>3
      <3>3. /\ urls' \in [Invalidators -> Seq(Sources)]
            /\ done' \in [Invalidators -> SUBSET Sources]
        BY <2>6, <3>2 DEF NextURL, WorkTypes
      <3>4. ASSUME NEW w \in Invalidators,
                   pc'[w] \in {"list", "entries", "statEntry", "removeEntry"}
            PROVE  urls'[w] # <<>>
        BY <2>6, <3>6, <3>4 DEF NextURL, WorkTypes, ProcTypes
      <3>5. ASSUME NEW w \in Invalidators, pc'[w] \in {"statEntry", "removeEntry"}
            PROVE  todo'[w][image'[w]] > 0
        BY <2>6, <3>5 DEF NextURL, WorkTypes, ProcTypes
      <3>7. QED
        BY <2>6, <3>3, <3>4, <3>5 DEF NextURL, WorkTypes
    <2>7. CASE Record(v)
      <3>1. /\ urls' \in [Invalidators -> Seq(Sources)]
            /\ todo' \in [Invalidators -> [Images -> Nat]]
            /\ done' \in [Invalidators -> SUBSET Sources]
        BY <2>7 DEF Record, WorkTypes
      <3>2. since' \in [Invalidators -> [Sources -> Epochs]]
        BY <1>0, <2>7 DEF Record, WorkTypes
      <3>3. ASSUME NEW w \in Invalidators,
                   pc'[w] \in {"list", "entries", "statEntry", "removeEntry"}
            PROVE  urls'[w] # <<>>
        BY <2>7, <3>3 DEF Record, WorkTypes, ProcTypes
      <3>4. ASSUME NEW w \in Invalidators, pc'[w] \in {"statEntry", "removeEntry"}
            PROVE  todo'[w][image'[w]] > 0
        BY <2>7, <3>4 DEF Record, WorkTypes, ProcTypes
      <3>5. QED
        BY <3>1, <3>2, <3>3, <3>4 DEF WorkTypes
    <2>8. QED
      BY <2>1, <2>2, <2>3, <2>4, <2>5, <2>6, <2>7 DEF RunInvalidation
  <1>4. stranded' \in BOOLEAN
    BY DEF RunInvalidation, Invalidate, Begin, ListEntries, StatEntry, RemoveEntry, NextURL,
           Record, DeleteInfo
  <1>5. QED
    BY <1>1, <1>2, <1>3, <1>4

\* Every step keeps the types.
LEMMA TypesStep == TypeOK /\ [Next]_vars => TypeOK'
  <1> SUFFICES ASSUME TypeOK, [Next]_vars PROVE TypeOK'
    OBVIOUS
  <1>1. CASE UNCHANGED vars
    <2>1. StoreTypes'
      BY <1>1 DEF vars, TypeOK, StoreTypes
    <2>2. ProcTypes'
      BY <1>1 DEF vars, TypeOK, ProcTypes
    <2>3. WorkTypes'
      BY <1>1 DEF vars, TypeOK, WorkTypes
    <2>4. stranded' \in BOOLEAN
      BY <1>1 DEF vars, TypeOK
    <2>5. QED
      BY <2>1, <2>2, <2>3, <2>4 DEF TypeOK
  <1>2. CASE up /\ Serving /\ UNCHANGED up
    BY <1>2, HandlerTypes, InvalidatorTypes DEF Serving
  <1>3. ASSUME NEW s \in Sources, Publish(s), UNCHANGED up PROVE TypeOK'
    <2>1. epoch' \in [Sources -> Epochs]
      BY <1>3, EpochsAssumption DEF Publish, TypeOK, StoreTypes, Epochs
    <2>2. StoreTypes' /\ ProcTypes' /\ WorkTypes'
      BY <1>3, <2>1 DEF Publish, stores, saves, work, TypeOK, StoreTypes,
                        ProcTypes, WorkTypes
    <2>3. stranded' \in BOOLEAN
      BY <1>3 DEF Publish, saves, TypeOK
    <2>4. QED
      BY <2>2, <2>3 DEF TypeOK
  <1>4. CASE Crash
    <2>1. 0 \in Epochs
      BY EpochsAssumption DEF Epochs
    <2>2. StoreTypes'
      BY <1>4 DEF Crash, stores, TypeOK, StoreTypes
    <2>3. ProcTypes'
      BY <1>4, <2>1 DEF Crash, TypeOK, ProcTypes, Procs, HandlerLabels, InvalidatorLabels
    <2>4. WorkTypes'
      BY <1>4, <2>1 DEF Crash, TypeOK, WorkTypes, Procs
    <2>5. stranded' \in BOOLEAN
      BY <1>4 DEF Crash
    <2>6. QED
      BY <2>2, <2>3, <2>4, <2>5 DEF TypeOK
  <1>5. CASE Restart
    <2>1. StoreTypes' /\ ProcTypes' /\ WorkTypes'
      BY <1>5 DEF Restart, stores, saves, work, TypeOK, StoreTypes, ProcTypes, WorkTypes
    <2>2. stranded' \in BOOLEAN
      BY <1>5 DEF Restart, saves, TypeOK
    <2>3. QED
      BY <2>1, <2>2 DEF TypeOK
  <1>6. QED
    BY <1>1, <1>2, <1>3, <1>4, <1>5 DEF Next

\* The stores, the handlers and the invalidators have their types, and no
\* invalidation works on a URL or an entry that it does not have.
THEOREM CacheTypes == Spec => []TypeOK
  BY TypesInit, TypesStep, PTL DEF Spec

----------------------------------------------------------------------------
\* A handler's step while an invalidation is alone.
LEMMA HandlerKeepsProgress ==
    ASSUME StaleInv, NEW h \in Handlers, Handle(h), NEW v \in Invalidators, alone'[v]
    PROVE  alone[v] /\ Progress(v)'
  <1> USE ProcsAssumption DEF Procs, At, Goto, stores, saves, work
  <1>1. v # h /\ v \in Procs /\ h \in Procs
    OBVIOUS
  <1>2. pc \in [Procs -> HandlerLabels \cup InvalidatorLabels] /\ alone \in [Procs -> BOOLEAN]
    BY DEF StaleInv, TypeOK, ProcTypes
  <1>3. alone[v]
    BY <1>1, <1>2
       DEF Handle, Get, GetStored, Serve, Process, FindInfo, InsertInfo, StatObject,
           PutObject, UndoInfo, UndoStat, UndoObject, Cancel, Begin, End, Leave, Strand
  <1>4. pc[h] \in {"idle", "serve"}
    BY <1>1, <1>3 DEF StaleInv, OthersWait
  <1>5. (\E i \in Images : GetStored(h, i)) \/ Serve(h)
    BY <1>1, <1>4
       DEF Handle, Get, Process, FindInfo, InsertInfo, StatObject, PutObject, UndoInfo,
           UndoStat, UndoObject, Cancel, Begin
  <1>6. /\ UNCHANGED <<infos, object, urls, todo, done>>
        /\ pc'[v] = pc[v] /\ image'[v] = image[v]
    BY <1>1, <1>2, <1>5 DEF GetStored, Serve, End, Leave, Strand, StaleInv, TypeOK, ProcTypes
  <1>7. Progress(v)
    BY <1>3 DEF StaleInv
  <1>8. QED
    BY <1>3, <1>6, <1>7 DEF Progress, Between, Ahead, Together, Stored

\* A handler's step leaves nothing stale behind.
LEMMA HandlerKeepsFresh ==
    ASSUME StaleInv, NEW h \in Handlers, Handle(h), UNCHANGED up
    PROVE  StaleInv'
  <1> USE ProcsAssumption DEF Procs, At, Goto, stores, saves, work
  <1>1. TypeOK /\ TypeOK'
    BY HandlerTypes DEF StaleInv
  <1>2. OthersWait'
    <2>1. ASSUME NEW p \in Procs, alone'[p]
          PROVE  pc'[p] # "idle" /\ \A q \in Procs \ {p} : pc'[q] \in {"idle", "serve"}
      <3>1. CASE \E i \in Images : Get(h, i)
        BY <1>1, <3>1, <2>1 DEF Get, Begin, StaleInv, OthersWait, TypeOK, ProcTypes
      <3>2. CASE \E i \in Images : GetStored(h, i)
        BY <1>1, <3>2, <2>1 DEF GetStored, StaleInv, OthersWait, TypeOK, ProcTypes
      <3>3. CASE Serve(h)
        BY <1>1, <3>3, <2>1 DEF Serve, End, Leave, Strand, StaleInv, OthersWait, TypeOK,
           ProcTypes
      <3>4. CASE Process(h)
        BY <1>1, <3>4, <2>1 DEF Process, End, Leave, Strand, StaleInv, OthersWait, TypeOK,
           ProcTypes
      <3>5. CASE FindInfo(h)
        BY <1>1, <3>5, <2>1 DEF FindInfo, End, Leave, Strand, StaleInv, OthersWait, TypeOK,
           ProcTypes
      <3>6. CASE InsertInfo(h)
        BY <1>1, <3>6, <2>1 DEF InsertInfo, End, Leave, Strand, StaleInv, OthersWait,
           TypeOK, ProcTypes
      <3>7. CASE StatObject(h)
        BY <1>1, <3>7, <2>1 DEF StatObject, StaleInv, OthersWait, TypeOK, ProcTypes
      <3>8. CASE PutObject(h)
        BY <1>1, <3>8, <2>1 DEF PutObject, End, Leave, Strand, StaleInv, OthersWait, TypeOK,
           ProcTypes
      <3>9. CASE UndoInfo(h)
        BY <1>1, <3>9, <2>1 DEF UndoInfo, DeleteOne, StaleInv, OthersWait, TypeOK, ProcTypes
      <3>10. CASE UndoStat(h)
        BY <1>1, <3>10, <2>1 DEF UndoStat, End, Leave, Strand, StaleInv, OthersWait, TypeOK,
           ProcTypes
      <3>11. CASE UndoObject(h)
        BY <1>1, <3>11, <2>1 DEF UndoObject, End, Leave, Strand, StaleInv, OthersWait,
           TypeOK, ProcTypes
      <3>12. CASE Cancel(h)
        BY <1>1, <3>12, <2>1 DEF Cancel, StaleInv, OthersWait, TypeOK, ProcTypes
      <3>13. QED
        BY <3>1, <3>2, <3>3, <3>4, <3>5, <3>6, <3>7, <3>8, <3>9, <3>10, <3>11, <3>12 DEF Handle
    <2>2. QED
      BY <2>1 DEF OthersWait
  <1>3. ASSUME NEW v \in Invalidators, pc'[v] = "idle" PROVE done'[v] = {}
    <2>1. UNCHANGED done /\ pc'[v] = pc[v]
      <3>1. CASE \E i \in Images : Get(h, i)
        BY <1>1, <3>1 DEF Get, Begin, TypeOK, ProcTypes
      <3>2. CASE \E i \in Images : GetStored(h, i)
        BY <1>1, <3>2 DEF GetStored, TypeOK, ProcTypes
      <3>3. CASE Serve(h)
        BY <1>1, <3>3 DEF Serve, End, Leave, Strand, TypeOK, ProcTypes
      <3>4. CASE Process(h)
        BY <1>1, <3>4 DEF Process, End, Leave, Strand, TypeOK, ProcTypes
      <3>5. CASE FindInfo(h)
        BY <1>1, <3>5 DEF FindInfo, End, Leave, Strand, TypeOK, ProcTypes
      <3>6. CASE InsertInfo(h)
        BY <1>1, <3>6 DEF InsertInfo, End, Leave, Strand, TypeOK, ProcTypes
      <3>7. CASE StatObject(h)
        BY <1>1, <3>7 DEF StatObject, TypeOK, ProcTypes
      <3>8. CASE PutObject(h)
        BY <1>1, <3>8 DEF PutObject, End, Leave, Strand, TypeOK, ProcTypes
      <3>9. CASE UndoInfo(h)
        BY <1>1, <3>9 DEF UndoInfo, DeleteOne, TypeOK, ProcTypes
      <3>10. CASE UndoStat(h)
        BY <1>1, <3>10 DEF UndoStat, End, Leave, Strand, TypeOK, ProcTypes
      <3>11. CASE UndoObject(h)
        BY <1>1, <3>11 DEF UndoObject, End, Leave, Strand, TypeOK, ProcTypes
      <3>12. CASE Cancel(h)
        BY <1>1, <3>12 DEF Cancel, TypeOK, ProcTypes
      <3>13. QED
        BY <3>1, <3>2, <3>3, <3>4, <3>5, <3>6, <3>7, <3>8, <3>9, <3>10, <3>11, <3>12 DEF Handle
    <2>2. QED
      BY <1>3, <2>1 DEF StaleInv
  <1>4. ASSUME NEW v \in Invalidators, alone'[v] PROVE Progress(v)'
    BY <1>4, HandlerKeepsProgress
  <1>5. NoneAhead'
    <2>1. CASE \E i \in Images : Get(h, i)
      BY <1>1, <2>1 DEF Get, Begin, StaleInv, NoneAhead, TypeOK, ProcTypes
    <2>2. CASE \E i \in Images : GetStored(h, i)
      BY <1>1, <2>2 DEF GetStored, StaleInv, NoneAhead, TypeOK, ProcTypes
    <2>3. CASE Serve(h)
      BY <1>1, <2>3 DEF Serve, End, Leave, Strand, StaleInv, NoneAhead, TypeOK, ProcTypes
    <2>4. CASE Process(h)
      <3>1. UNCHANGED <<epoch, since, fresh, image>>
        BY <2>4 DEF Process, End, Leave, Strand
      <3>2. epoch[SourceOf[image[h]]] >= fresh[SourceOf[image[h]]]
        <4>1. SourceOf[image[h]] \in Sources
          BY <1>1, ImagesAssumption DEF TypeOK, ProcTypes
        <4>2. QED
          BY <1>1, <4>1, EpochsAssumption DEF StaleInv, NoneAhead, TypeOK, StoreTypes, Epochs
      <3>3. \A g \in Handlers \ {h} : pc'[g] = pc[g] /\ version'[g] = version[g]
        BY <1>1, <2>4 DEF Process, End, Leave, Strand, TypeOK, ProcTypes
      <3>4. pc'[h] \in {"find", "insert", "stat", "put"} =>
              version'[h] = epoch[SourceOf[image[h]]]
        BY <1>1, <2>4 DEF Process, End, Leave, Strand, TypeOK, ProcTypes
      <3>5. QED
        BY <3>1, <3>2, <3>3, <3>4 DEF StaleInv, NoneAhead
    <2>5. CASE FindInfo(h)
      BY <1>1, <2>5 DEF FindInfo, End, Leave, Strand, StaleInv, NoneAhead, TypeOK, ProcTypes
    <2>6. CASE InsertInfo(h)
      BY <1>1, <2>6 DEF InsertInfo, End, Leave, Strand, StaleInv, NoneAhead, TypeOK, ProcTypes
    <2>7. CASE StatObject(h)
      BY <1>1, <2>7 DEF StatObject, StaleInv, NoneAhead, TypeOK, ProcTypes
    <2>8. CASE PutObject(h)
      BY <1>1, <2>8 DEF PutObject, End, Leave, Strand, StaleInv, NoneAhead, TypeOK, ProcTypes
    <2>9. CASE UndoInfo(h)
      BY <1>1, <2>9 DEF UndoInfo, DeleteOne, StaleInv, NoneAhead, TypeOK, ProcTypes
    <2>10. CASE UndoStat(h)
      BY <1>1, <2>10 DEF UndoStat, End, Leave, Strand, StaleInv, NoneAhead, TypeOK, ProcTypes
    <2>11. CASE UndoObject(h)
      BY <1>1, <2>11 DEF UndoObject, End, Leave, Strand, StaleInv, NoneAhead, TypeOK, ProcTypes
    <2>12. CASE Cancel(h)
      BY <1>1, <2>12 DEF Cancel, StaleInv, NoneAhead, TypeOK, ProcTypes
    <2>13. QED
      BY <2>1, <2>2, <2>3, <2>4, <2>5, <2>6, <2>7, <2>8, <2>9, <2>10, <2>11, <2>12 DEF Handle
  <1>6. NothingStale'
    <2>1. CASE \E i \in Images : Get(h, i)
      BY <1>1, <2>1 DEF Get, Begin, StaleInv, NothingStale, NoneAhead, Stored, TypeOK,
         StoreTypes, ProcTypes
    <2>2. CASE \E i \in Images : GetStored(h, i)
      BY <1>1, <2>2 DEF GetStored, StaleInv, NothingStale, NoneAhead, Stored, TypeOK,
         StoreTypes, ProcTypes
    <2>3. CASE Serve(h)
      BY <1>1, <2>3 DEF Serve, End, Leave, Strand, StaleInv, NothingStale, NoneAhead,
         Stored, TypeOK, StoreTypes, ProcTypes
    <2>4. CASE Process(h)
      BY <1>1, <2>4 DEF Process, End, Leave, Strand, StaleInv, NothingStale, NoneAhead,
         Stored, TypeOK, StoreTypes, ProcTypes
    <2>5. CASE FindInfo(h)
      BY <1>1, <2>5 DEF FindInfo, End, Leave, Strand, StaleInv, NothingStale, NoneAhead,
         Stored, TypeOK, StoreTypes, ProcTypes
    <2>6. CASE InsertInfo(h)
      BY <1>1, <2>6 DEF InsertInfo, End, Leave, Strand, StaleInv, NothingStale, NoneAhead,
         Stored, TypeOK, StoreTypes, ProcTypes
    <2>7. CASE StatObject(h)
      BY <1>1, <2>7 DEF StatObject, StaleInv, NothingStale, NoneAhead, Stored, TypeOK,
         StoreTypes, ProcTypes
    <2>8. CASE PutObject(h)
      BY <1>1, <2>8 DEF PutObject, End, Leave, Strand, StaleInv, NothingStale, NoneAhead,
         Stored, TypeOK, StoreTypes, ProcTypes
    <2>9. CASE UndoInfo(h)
      BY <1>1, <2>9 DEF UndoInfo, DeleteOne, StaleInv, NothingStale, NoneAhead, Stored,
         TypeOK, StoreTypes, ProcTypes
    <2>10. CASE UndoStat(h)
      BY <1>1, <2>10 DEF UndoStat, End, Leave, Strand, StaleInv, NothingStale, NoneAhead,
         Stored, TypeOK, StoreTypes, ProcTypes
    <2>11. CASE UndoObject(h)
      BY <1>1, <2>11 DEF UndoObject, End, Leave, Strand, StaleInv, NothingStale, NoneAhead,
         Stored, TypeOK, StoreTypes, ProcTypes
    <2>12. CASE Cancel(h)
      BY <1>1, <2>12 DEF Cancel, StaleInv, NothingStale, NoneAhead, Stored, TypeOK,
         StoreTypes, ProcTypes
    <2>13. QED
      BY <2>1, <2>2, <2>3, <2>4, <2>5, <2>6, <2>7, <2>8, <2>9, <2>10, <2>11, <2>12 DEF Handle
  <1>7. QED
    BY <1>1, <1>2, <1>3, <1>4, <1>5, <1>6 DEF StaleInv

\* A step of an invalidation that is alone keeps its progress.
LEMMA InvalidatorKeepsProgress ==
    ASSUME StaleInv, TypeOK', NEW v \in Invalidators, RunInvalidation(v), alone'[v]
    PROVE  Progress(v)'
  <1> USE ProcsAssumption DEF Procs, At, Goto, Fail, stores, saves, work
  <1>1. TypeOK
    BY DEF StaleInv
  <1> USE <1>1 DEF TypeOK
  <1>2. CASE \E us \in Requests : Invalidate(v, us)
    <2>1. /\ \A i \in Images : Together(i)
          /\ done[v] = {} /\ UNCHANGED done /\ pc'[v] = "list"
          /\ UNCHANGED stores
      BY <1>2 DEF Invalidate, Begin, StaleInv, ProcTypes
    <2>2. QED
      BY <2>1 DEF Progress, Together, Stored
  <1>3. ASSUME ~ At(v, "idle") PROVE alone[v]
    BY <1>3 DEF RunInvalidation, Invalidate, ListEntries, StatEntry, RemoveEntry,
                NextURL, Record, DeleteInfo, ProcTypes
  <1>11. ASSUME ~ At(v, "idle") PROVE Progress(v)
    BY <1>3, <1>11 DEF StaleInv
  <1>4. CASE ListEntries(v)
    <2>1. Progress(v) /\ At(v, "list")
      BY <1>4, <1>11 DEF ListEntries
    <2>2. UNCHANGED <<infos, object, urls, done>>
      BY <1>4 DEF ListEntries
    <2>3. \/ pc'[v] = "record"
          \/ /\ pc'[v] = "entries"
             /\ \A i \in Images : SourceOf[i] = Head(urls[v]) => todo'[v][i] = infos[i]
      BY <1>4 DEF ListEntries, ProcTypes, WorkTypes
    <2>4. QED
      BY <2>1, <2>2, <2>3 DEF Progress, Ahead, Together, Stored
  <1>5. ASSUME NEW j \in Images, DeleteInfo(v, j) PROVE Progress(v)'
    <2>1. Progress(v) /\ At(v, "entries") /\ Ahead(v, j) /\ todo[v][j] > 0
      BY <1>5, <1>11 DEF DeleteInfo, Progress
    <2>2. UNCHANGED <<object, urls, todo, done>>
      BY <1>5 DEF DeleteInfo
    <2>3. \A i \in Images \ {j} : infos'[i] = infos[i]
      BY <1>5 DEF DeleteInfo, DeleteOne, StoreTypes
    <2>4. infos[j] \in {0, 1} /\ (infos[j] = 0 => infos'[j] = 0)
      BY <1>5, <2>1 DEF DeleteInfo, DeleteOne, StoreTypes, Ahead, Together
    <2>5. \/ pc'[v] = "record"
          \/ pc'[v] = "statEntry" /\ image'[v] = j /\ infos[j] = 1 /\ infos'[j] = 0
      BY <1>5, <2>4 DEF DeleteInfo, DeleteOne, StoreTypes, ProcTypes
    <2>6. \A i \in Images : SourceOf[i] \in done[v] => infos'[i] = 0 /\ ~ Stored(i)
      BY <2>1, <2>3, <2>4 DEF Progress
    <2>7. CASE pc'[v] = "record"
      BY <2>2, <2>6, <2>7 DEF Progress, Stored
    <2>8. CASE pc'[v] = "statEntry"
      <3>1. image'[v] = j /\ infos[j] = 1 /\ infos'[j] = 0
        BY <2>5, <2>8
      <3>2. SourceOf[j] \notin done[v]
        BY <2>1, <3>1 DEF Progress
      <3>3. SourceOf[j] = Head(urls[v]) => todo[v][j] = 1
        BY <2>1, <3>1 DEF Ahead
      <3>4. \A i \in Images \ {j} : Ahead(v, i)'
        BY <2>1, <2>2, <2>3 DEF Progress, Ahead, Together, Stored
      <3>5. Between(v, j)'
        BY <2>2, <3>1, <3>2, <3>3, <3>4 DEF Between
      <3>6. QED
        BY <2>2, <2>6, <2>8, <3>1, <3>5 DEF Progress, Stored, Between, Ahead, Together
    <2>9. QED
      BY <2>5, <2>7, <2>8
  <1>6. CASE StatEntry(v)
    <2>1. Progress(v) /\ At(v, "statEntry") /\ pc'[v] \in {"removeEntry", "record"}
      BY <1>6, <1>11 DEF StatEntry, ProcTypes
    <2>2. UNCHANGED <<infos, object, urls, todo, done, image>>
      BY <1>6 DEF StatEntry
    <2>3. QED
      BY <2>1, <2>2 DEF Progress, Between, Ahead, Together, Stored
  <1>7. CASE RemoveEntry(v)
    <2> DEFINE j == image[v]
    <2>1. Progress(v) /\ At(v, "removeEntry") /\ Between(v, j) /\ j \in Images
      BY <1>7, <1>11 DEF RemoveEntry, Progress, ProcTypes
    <2>2. UNCHANGED <<infos, urls, done, image>>
      BY <1>7 DEF RemoveEntry
    <2>3. \A i \in Images \ {j} : object'[i] = object[i] /\ todo'[v][i] = todo[v][i]
      BY <1>7, <2>1 DEF RemoveEntry, StoreTypes, WorkTypes
    <2>4. \A i \in Images : SourceOf[i] \in done[v] => infos[i] = 0 /\ ~ Stored(i)'
      BY <2>1, <2>2, <2>3 DEF Progress, Between, Stored
    <2>5. \/ pc'[v] = "record"
          \/ pc'[v] = "entries" /\ object'[j] = None /\ todo'[v][j] = todo[v][j] - 1
      BY <1>7, <2>1 DEF RemoveEntry, StoreTypes, ProcTypes, WorkTypes
    <2>6. CASE pc'[v] = "record"
      BY <2>2, <2>4, <2>6 DEF Progress
    <2>7. CASE pc'[v] = "entries"
      <3>1. Ahead(v, j)'
        BY <2>1, <2>2, <2>5, <2>7 DEF Between, Ahead, Together, Stored
      <3>2. \A i \in Images \ {j} : Ahead(v, i)'
        BY <2>1, <2>2, <2>3 DEF Between, Ahead, Together, Stored
      <3>3. QED
        BY <2>2, <2>4, <2>7, <3>1, <3>2 DEF Progress, Ahead, Together, Stored
    <2>8. QED
      BY <2>5, <2>6, <2>7
  <1>8. CASE NextURL(v)
    <2>1. /\ Progress(v) /\ At(v, "entries")
          /\ \A i \in Images : Ahead(v, i) /\ todo[v][i] = 0
      BY <1>8, <1>11 DEF NextURL, Progress
    <2>2. UNCHANGED <<infos, object, todo>> /\ pc'[v] \in {"list", "record"}
      BY <1>8 DEF NextURL, ProcTypes
    <2>3. done'[v] = done[v] \cup {Head(urls[v])}
      BY <1>8 DEF NextURL, WorkTypes
    <2>4. \A i \in Images : SourceOf[i] \in done'[v] => infos[i] = 0 /\ ~ Stored(i)
      BY <2>1, <2>3 DEF Progress, Ahead, Together
    <2>5. QED
      BY <2>1, <2>2, <2>4 DEF Progress, Ahead, Together, Stored
  <1>9. CASE Record(v)
    BY <1>9 DEF Record, ProcTypes
  <1>10. QED
    BY <1>2, <1>4, <1>5, <1>6, <1>7, <1>8, <1>9 DEF RunInvalidation

\* A step of an invalidation leaves nothing stale behind that it reports.
LEMMA InvalidatorKeepsFresh ==
    ASSUME StaleInv, NEW v \in Invalidators, RunInvalidation(v), UNCHANGED up
    PROVE  StaleInv'
  <1> USE ProcsAssumption DEF Procs, At, Goto, Fail, stores, saves, work
  <1>1. TypeOK /\ TypeOK'
    BY InvalidatorTypes DEF StaleInv
  <1>2. \A p \in Procs \ {v} : pc'[p] = pc[p]
    BY <1>1 DEF RunInvalidation, Invalidate, ListEntries, StatEntry, RemoveEntry,
                NextURL, Record, DeleteInfo, TypeOK, ProcTypes
  <1>3. \A w \in Invalidators : alone'[w] => Progress(w)'
    <2>1. \A w \in Invalidators \ {v} : ~ alone'[w]
      <3>1. CASE At(v, "idle")
        BY <3>1 DEF RunInvalidation, Invalidate, ListEntries, StatEntry, RemoveEntry,
                    NextURL, Record, DeleteInfo, Begin
      <3>2. CASE ~ At(v, "idle")
        <4>1. \A w \in Invalidators : alone'[w] => alone[w]
          BY <1>1, <3>2 DEF RunInvalidation, Invalidate, ListEntries, StatEntry,
                            RemoveEntry, NextURL, Record, DeleteInfo, TypeOK, ProcTypes
        <4>2. pc[v] \notin {"idle", "serve"}
          BY <1>1, <3>2 DEF TypeOK, ProcTypes, InvalidatorLabels
        <4>3. QED
          BY <4>1, <4>2 DEF StaleInv, OthersWait
      <3>3. QED
        BY <3>1, <3>2
    <2>2. QED
      BY <1>1, <2>1, InvalidatorKeepsProgress
  <1>4. ASSUME NEW p \in Procs, alone'[p]
        PROVE  pc'[p] # "idle" /\ \A q \in Procs \ {p} : pc'[q] \in {"idle", "serve"}
    <2>1. CASE At(v, "idle")
      BY <1>1, <1>4, <2>1
         DEF RunInvalidation, Invalidate, ListEntries, StatEntry, RemoveEntry,
             NextURL, Record, DeleteInfo, Begin, TypeOK, ProcTypes
    <2>2. CASE ~ At(v, "idle")
      <3>1. alone[p] /\ (p = v => pc'[v] # "idle")
        BY <1>1, <1>4, <2>2 DEF RunInvalidation, Invalidate, ListEntries, StatEntry,
                          RemoveEntry, NextURL, Record, DeleteInfo, TypeOK, ProcTypes
      <3>2. pc[v] \notin {"idle", "serve"}
        BY <1>1, <2>2 DEF TypeOK, ProcTypes, InvalidatorLabels
      <3>3. p = v /\ \A q \in Procs \ {p} : pc[q] \in {"idle", "serve"}
        BY <3>1, <3>2 DEF StaleInv, OthersWait
      <3>4. QED
        BY <1>2, <3>1, <3>3
    <2>3. QED
      BY <2>1, <2>2
  <1>5. ASSUME NEW w \in Invalidators, pc'[w] = "idle" PROVE done'[w] = {}
    <2>1. CASE w # v
      <3>1. done'[w] = done[w]
        BY <1>1, <2>1
           DEF RunInvalidation, Invalidate, ListEntries, StatEntry, RemoveEntry,
               NextURL, Record, DeleteInfo, TypeOK, WorkTypes
      <3>2. QED
        BY <1>2, <1>5, <2>1, <3>1 DEF StaleInv
    <2>2. CASE w = v
      <3>1. Record(v)
        BY <1>1, <1>5, <2>2
           DEF RunInvalidation, Invalidate, ListEntries, StatEntry, RemoveEntry,
               NextURL, DeleteInfo, TypeOK, ProcTypes
      <3>2. QED
        BY <1>1, <2>2, <3>1 DEF Record, TypeOK, WorkTypes
    <2>3. QED
      BY <2>1, <2>2
  <1>6. \A h \in Handlers : pc'[h] = pc[h] /\ image'[h] = image[h] /\ version'[h] = version[h]
    BY <1>1, <1>2
       DEF RunInvalidation, Invalidate, ListEntries, StatEntry, RemoveEntry,
           NextURL, Record, DeleteInfo, TypeOK, ProcTypes
  <1>7. NoneAhead' /\ NothingStale'
    <2>1. CASE Record(v)
      <3>1. /\ UNCHANGED <<object, epoch>>
            /\ \A s \in Sources : fresh'[s] = IF alone[v] /\ s \in done[v] THEN since[v][s]
                                            ELSE fresh[s]
            /\ \A w \in Invalidators : \A s \in Sources : since'[w][s] \in {since[w][s], 0}
        BY <1>1, <2>1 DEF Record, TypeOK, WorkTypes, StoreTypes
      <3>2. \A s \in Sources : epoch[s] \in Nat
        BY <1>1, EpochsAssumption DEF TypeOK, StoreTypes, Epochs
      <3>3. alone[v] => \A h \in Handlers : pc[h] \in {"idle", "serve"}
        BY DEF StaleInv, OthersWait
      <3>4. alone[v] => \A i \in Images : SourceOf[i] \in done[v] => ~ Stored(i)
        BY DEF StaleInv, Progress
      <3>5. \A i \in Images : SourceOf[i] \in Sources
        BY ImagesAssumption
      <3>6. NothingStale'
        BY <3>1, <3>4, <3>5 DEF StaleInv, NothingStale, Stored
      <3>7. ASSUME NEW h \in Handlers, pc[h] \in {"find", "insert", "stat", "put"}
            PROVE  version[h] >= fresh'[SourceOf[image[h]]]
        <4>1. image[h] \in Images /\ ~ alone[v]
          BY <1>1, <3>3, <3>7 DEF TypeOK, ProcTypes
        <4>2. QED
          BY <3>1, <3>5, <3>7, <4>1 DEF StaleInv, NoneAhead
      <3>8. NoneAhead'
        BY <1>6, <3>1, <3>2, <3>7 DEF StaleInv, NoneAhead
      <3>9. QED
        BY <3>6, <3>8
    <2>2. CASE ~ Record(v)
      <3>1. UNCHANGED <<epoch, fresh>>
        BY <2>2 DEF RunInvalidation, Invalidate, ListEntries, StatEntry, RemoveEntry,
                    NextURL, DeleteInfo
      <3>2. \A i \in Images : object'[i] = object[i] \/ object'[i] = None
        BY <1>1, <2>2
           DEF RunInvalidation, Invalidate, ListEntries, StatEntry, RemoveEntry,
               NextURL, DeleteInfo, TypeOK, StoreTypes, ProcTypes
      <3>3. \A w \in Invalidators : \A s \in Sources :
              since'[w][s] = since[w][s] \/ since'[w][s] = epoch[s]
        BY <1>1, <2>2
           DEF RunInvalidation, Invalidate, ListEntries, StatEntry, RemoveEntry,
               NextURL, DeleteInfo, TypeOK, WorkTypes
      <3>4. \A s \in Sources : epoch[s] \in Int
        BY <1>1, EpochsAssumption DEF TypeOK, StoreTypes, Epochs
      <3>5. NoneAhead'
        BY <1>6, <3>1, <3>3, <3>4 DEF StaleInv, NoneAhead
      <3>6. NothingStale'
        BY <3>1, <3>2 DEF StaleInv, NothingStale, Stored
      <3>7. QED
        BY <3>5, <3>6
    <2>3. QED
      BY <2>1, <2>2
  <1>8. QED
    BY <1>1, <1>3, <1>4, <1>5, <1>7 DEF StaleInv, OthersWait

\* Nothing is stale at first.
LEMMA StaleInit == Init => StaleInv
  <1> SUFFICES ASSUME Init PROVE StaleInv
    OBVIOUS
  <1>1. TypeOK
    BY TypesInit
  <1>2. OthersWait /\ \A v \in Invalidators : done[v] = {} /\ ~ alone[v]
    BY DEF Init, OthersWait, Procs
  <1>3. NoneAhead /\ NothingStale
    BY ImagesAssumption, ProcsAssumption
       DEF Init, NoneAhead, NothingStale, Stored, Procs, None
  <1>4. QED
    BY <1>1, <1>2, <1>3 DEF StaleInv

\* No step of the server, and no crash, leaves anything stale.
LEMMA StaleStep == StaleInv /\ [Next]_vars => StaleInv'
  <1> SUFFICES ASSUME StaleInv, [Next]_vars PROVE StaleInv'
    OBVIOUS
  <1>1. TypeOK /\ TypeOK'
    BY TypesStep DEF StaleInv
  <1>2. CASE UNCHANGED vars \/ Restart
    BY <1>1, <1>2
       DEF vars, Restart, stores, saves, work, StaleInv, OthersWait, Progress, Between,
           Ahead, Together, Stored, NoneAhead, NothingStale, At
  <1>3. CASE up /\ Serving /\ UNCHANGED up
    BY <1>3, HandlerKeepsFresh, InvalidatorKeepsFresh DEF Serving
  <1>4. ASSUME NEW s \in Sources, Publish(s) PROVE StaleInv'
    <2> USE <1>4 DEF Publish, stores, saves, work
    <2>1. \A t \in Sources : epoch'[t] >= epoch[t] /\ epoch[t] \in Int /\ epoch'[t] \in Int
      BY <1>1, EpochsAssumption DEF TypeOK, StoreTypes, Epochs
    <2>2. \A t \in Sources : fresh[t] \in Int /\ \A v \in Invalidators : since[v][t] \in Int
      BY <1>1, EpochsAssumption DEF TypeOK, StoreTypes, WorkTypes, Epochs
    <2>3. NoneAhead'
      BY <2>1, <2>2 DEF StaleInv, NoneAhead
    <2>4. QED
      BY <1>1, <2>3 DEF StaleInv, OthersWait, Progress, Between, Ahead, Together, Stored,
                        NothingStale, At
  <1>5. CASE Crash
    <2> USE <1>5 DEF Crash, stores
    <2>1. OthersWait' /\ \A v \in Invalidators : done'[v] = {} /\ ~ alone'[v]
      BY DEF OthersWait, Procs
    <2>2. \A s \in Sources : epoch[s] >= 0
      BY <1>1, EpochsAssumption DEF TypeOK, StoreTypes, Epochs
    <2>3. NoneAhead'
      BY <2>2, ProcsAssumption DEF StaleInv, NoneAhead, Procs
    <2>4. NothingStale'
      BY DEF StaleInv, NothingStale, Stored
    <2>5. QED
      BY <1>1, <2>1, <2>3, <2>4 DEF StaleInv
  <1>6. QED
    BY <1>2, <1>3, <1>4, <1>5 DEF Next

\* The invariant holds of every state.
LEMMA StaleInvariant == Spec => []StaleInv
  BY StaleInit, StaleStep, PTL DEF Spec

\* An invalidation that found a consistent cache to itself has deleted every
\* image of the URLs it reports as done.
THEOREM DoneIsGoneHolds == Spec => []DoneIsGone
  <1>1. StaleInv => DoneIsGone
    BY DEF StaleInv, Progress, DoneIsGone
  <1>2. QED
    BY <1>1, StaleInvariant, PTL

\* Neither a failure nor a crash nor a later save brings an image back that
\* was processed before an invalidation that had the cache to itself.
THEOREM NothingStaleHolds == Spec => []NothingStale
  <1>1. StaleInv => NothingStale
    BY DEF StaleInv
  <1>2. QED
    BY <1>1, StaleInvariant, PTL

----------------------------------------------------------------------------
(* Saves that have a consistent cache to themselves                        *)

\* Where a save that is alone has brought its image.
Saved(h) ==
    LET i == image[h]
    IN  /\ pc[h] \in {"process", "find"} => Together(i)
        /\ At(h, "insert") => infos[i] = 0 /\ ~ Stored(i)
        /\ pc[h] \in {"stat", "put"} => infos[i] = 1 /\ ~ Stored(i)
        /\ At(h, "undoInfo") => infos[i] = 1
        /\ At(h, "undoStat") => infos[i] = 0
        /\ At(h, "undoObject") => infos[i] = 0 /\ Stored(i)

WholeInv ==
    /\ StaleInv
    /\ \A h \in Handlers : alone[h] => ~ At(h, "serve") /\ (stranded \/ Saved(h))

\* A step of a save, as far as the save that is alone is concerned.
LEMMA HandlerKeepsSaved ==
    ASSUME WholeInv, TypeOK', NEW g \in Handlers, Handle(g),
           NEW h \in Handlers, alone[h] \/ alone'[h]
    PROVE  /\ alone'[h] => ~ At(h, "serve")' /\ (stranded' \/ Saved(h)')
           /\ pc'[h] = "idle" => stranded' \/ Together(image[h])'
  <1> USE ProcsAssumption DEF At, Goto, Procs, stores, saves, work
  <1>1. TypeOK /\ h \in Procs /\ g \in Procs
    BY DEF WholeInv, StaleInv
  <1>2. CASE ~ alone[h]
    <2>1. Get(g, image'[g]) /\ g = h
      BY <1>1, <1>2 DEF TypeOK, ProcTypes, Handle, Get, GetStored, Serve, Process, FindInfo,
                   InsertInfo, StatObject, PutObject, UndoInfo, UndoStat, UndoObject,
                   Cancel, Begin, End, Leave, Strand
    <2>2. QED
      BY <1>1, <2>1 DEF Get, Begin, Saved, Together, Stored, TypeOK, ProcTypes
  <1>3. CASE alone[h] /\ g # h
    <2>1. pc[g] \in {"idle", "serve"}
      BY <1>1, <1>3 DEF WholeInv, StaleInv, OthersWait
    <2>2. (\E i \in Images : Get(g, i)) \/ (\E i \in Images : GetStored(g, i)) \/ Serve(g)
      BY <2>1 DEF Handle, Process, FindInfo, InsertInfo, StatObject, PutObject, UndoInfo,
                  UndoStat, UndoObject, Cancel, HandlerLabels
    <2>3. UNCHANGED stores /\ pc'[h] = pc[h] /\ image'[h] = image[h]
      BY <1>1, <1>3, <2>2 DEF Get, GetStored, Serve, End, Leave, TypeOK, ProcTypes
    <2>4. pc[h] \notin {"idle", "serve"} /\ (stranded \/ Saved(h))
      BY <1>1, <1>3 DEF WholeInv, StaleInv, OthersWait
    <2>5. alone'[h] => stranded' = stranded
      BY <1>1, <1>3, <2>2 DEF Get, Begin, GetStored, Serve, End
    <2>6. QED
      BY <2>3, <2>4, <2>5 DEF Saved, Together, Stored
  <1>4. CASE alone[h] /\ g = h
    <2> USE <1>1, <1>4 DEF TypeOK, StoreTypes, ProcTypes
    <2>1. pc[h] \notin {"idle", "serve"} /\ image[h] \in Images
      BY DEF WholeInv, StaleInv, OthersWait
    <2>2. (stranded => stranded') /\ pc'[h] # "serve"
      BY <2>1 DEF Handle, Get, GetStored, Serve, Process, FindInfo, InsertInfo, StatObject,
                  PutObject, UndoInfo, UndoStat, UndoObject, Cancel, End, Leave, Strand
    <2> SUFFICES ASSUME ~ stranded'
                 PROVE  /\ alone'[h] => Saved(h)'
                        /\ pc'[h] = "idle" => Together(image[h])'
      BY <2>2
    <2>3. Saved(h)
      BY <2>2 DEF WholeInv
    <2>4. CASE Process(h)
      BY <2>3, <2>4 DEF Process, End, Leave, Saved, Together, Stored
    <2>5. CASE FindInfo(h)
      BY <2>3, <2>5 DEF FindInfo, End, Leave, Saved, Together, Stored
    <2>6. CASE InsertInfo(h)
      <3>1. pc[h] = "insert" /\ infos[image[h]] = 0 /\ ~ Stored(image[h])
        BY <2>3, <2>6 DEF InsertInfo, Saved
      <3>2. /\ UNCHANGED <<object, image>>
            /\ \/ pc'[h] = "stat" /\ infos'[image[h]] = 1
               \/ End(h) /\ UNCHANGED infos
        BY <2>6, <3>1 DEF InsertInfo, End, Leave, Strand
      <3>3. QED
        BY <3>1, <3>2 DEF End, Leave, Saved, Together, Stored
    <2>7. CASE StatObject(h)
      BY <2>3, <2>7 DEF StatObject, Saved, Together, Stored
    <2>8. CASE PutObject(h)
      <3>1. pc[h] = "put" /\ infos[image[h]] = 1 /\ ~ Stored(image[h])
        BY <2>3, <2>8 DEF PutObject, Saved
      <3>2. UNCHANGED <<infos, image>>
        BY <2>8 DEF PutObject, End, Leave
      <3>3. PICK o \in Outcomes(h, "put") :
              /\ object' = IF o = "refused" THEN object
                           ELSE [object EXCEPT ![image[h]] = version[h]]
              /\ o = "ok" => End(h)
              /\ o # "ok" => pc' = [pc EXCEPT ![h] = "undoInfo"]
        BY <2>8 DEF PutObject
      <3>4. CASE o = "ok"
        <4>1. object'[image[h]] = version[h] /\ version[h] # None
          BY <2>1, <3>3, <3>4, EpochsAssumption DEF Epochs, None
        <4>2. QED
          BY <3>1, <3>2, <3>3, <3>4, <4>1 DEF End, Leave, Together, Stored
      <3>5. CASE o # "ok"
        BY <3>1, <3>2, <3>3, <3>5 DEF Saved
      <3>6. QED
        BY <3>4, <3>5
    <2>9. CASE UndoInfo(h)
      <3>1. DeleteOne(image[h]) /\ pc'[h] = "undoStat" /\ UNCHANGED image
        BY <2>9 DEF UndoInfo, Strand
      <3>2. infos'[image[h]] = 0
        BY <2>1, <2>3, <2>9, <3>1 DEF UndoInfo, DeleteOne, Saved
      <3>3. QED
        BY <3>1, <3>2 DEF Saved
    <2>10. CASE UndoStat(h)
      BY <2>3, <2>10 DEF UndoStat, End, Leave, Strand, Saved, Together, Stored
    <2>11. CASE UndoObject(h)
      BY <2>3, <2>11 DEF UndoObject, End, Leave, Strand, Saved, Together, Stored
    <2>12. CASE Cancel(h)
      BY <2>1, <2>3, <2>12 DEF Cancel, Saved, Together, Stored
    <2>13. QED
      BY <2>1, <2>4, <2>5, <2>6, <2>7, <2>8, <2>9, <2>10, <2>11, <2>12
         DEF Handle, Get, GetStored, Serve
  <1>5. QED
    BY <1>2, <1>3, <1>4

\* Saves that are alone stay on their way to both stores or to neither.
LEMMA WholeStep ==
    ASSUME WholeInv, [Next]_vars
    PROVE  /\ WholeInv'
           /\ up' => \A h \in Handlers :
                       alone[h] /\ ~ At(h, "idle") /\ pc'[h] = "idle" =>
                           stranded' \/ Together(image[h])'
  <1> USE ProcsAssumption DEF Procs
  <1>1. StaleInv /\ StaleInv'
    BY StaleStep DEF WholeInv
  <1>2. TypeOK /\ TypeOK' /\ OthersWait
    BY <1>1 DEF StaleInv
  <1>3. ASSUME NEW h \in Handlers, alone[h] \/ alone'[h]
        PROVE  /\ alone'[h] => ~ At(h, "serve")' /\ (stranded' \/ Saved(h)')
               /\ up' => (~ At(h, "idle") /\ pc'[h] = "idle" =>
                            stranded' \/ Together(image[h])')
    <2>1. ASSUME NEW g \in Handlers, Handle(g)
          PROVE  /\ alone'[h] => ~ At(h, "serve")' /\ (stranded' \/ Saved(h)')
                 /\ pc'[h] = "idle" => stranded' \/ Together(image[h])'
      BY <1>2, <1>3, <2>1, HandlerKeepsSaved
    <2>2. CASE \E v \in Invalidators : RunInvalidation(v)
      <3>1. PICK v \in Invalidators : RunInvalidation(v)
        BY <2>2
      <3>2. pc'[h] = pc[h] /\ (alone'[h] => alone[h])
        BY <1>2, <3>1
           DEF TypeOK, ProcTypes, At, Goto, Fail, saves, Begin, RunInvalidation, Invalidate,
               ListEntries, StatEntry, RemoveEntry, NextURL, Record, DeleteInfo
      <3>3. alone[h]
        BY <1>3, <3>2
      <3>4. pc[v] = "idle"
        BY <1>2, <3>3 DEF OthersWait, TypeOK, ProcTypes, InvalidatorLabels
      <3>5. \E us \in Requests : Invalidate(v, us)
        BY <3>1, <3>4 DEF RunInvalidation, ListEntries, StatEntry, RemoveEntry, NextURL,
                          Record, DeleteInfo, At
      <3>6. ~ alone'[h]
        BY <3>5 DEF Invalidate, Begin
      <3>7. QED
        BY <3>2, <3>6 DEF At
    <2>3. CASE Crash
      BY <2>3 DEF Crash
    <2>4. CASE UNCHANGED <<stores, pc, image, alone, stranded>>
      BY <1>3, <2>4 DEF WholeInv, stores, Saved, Together, Stored, At
    <2>5. QED
      BY <2>1, <2>2, <2>3, <2>4
         DEF Next, Serving, Publish, Restart, vars, stores, saves, At
  <1>4. QED
    BY <1>1, <1>3 DEF WholeInv

(***************************************************************************)
(* A save that found a consistent cache to itself leaves its image in both *)
(* stores or in neither, for any failures of the stores, cancellations and *)
(* restarts, unless the answer of its InsertOne was lost or a call of its  *)
(* rollback was refused (cache_service.go:42 and 51).                      *)
(***************************************************************************)
THEOREM SaveIsWholeHolds == Spec => SaveIsWhole
  <1> DEFINE Whole == up' => \A h \in Handlers :
                       alone[h] /\ ~ At(h, "idle") /\ pc'[h] = "idle" =>
                           stranded' \/ Together(image[h])'
  <1>1. Init => WholeInv
    <2> SUFFICES ASSUME Init PROVE WholeInv
      OBVIOUS
    <2>1. \A h \in Handlers : ~ alone[h]
      BY DEF Init, Procs
    <2>2. QED
      BY <2>1, StaleInit DEF WholeInv
  <1>2. WholeInv /\ [Next]_vars => WholeInv' /\ [Whole]_vars
    BY WholeStep
  <1>3. QED
    BY <1>1, <1>2, PTL DEF Spec, SaveIsWhole
=============================================================================
