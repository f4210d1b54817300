------------------------------ MODULE Storage ------------------------------
(***************************************************************************)
(* pkg/hub/storage: the in-memory store of byte streams of the data hub.   *)
(*                                                                         *)
(* A storage.Storage is three concurrent structures, each safe by itself:  *)
(*   - resourceList: the bytes of every stream, under a RWMutex;           *)
(*   - notificationHub: one monitor goroutine that owns the topics, i.e.   *)
(*     which readers wait for news of a stream;                            *)
(*   - readersList: a reference count per stream, under a mutex that is    *)
(*     held while a released stream is handed to the disposer goroutine.   *)
(* Every storage operation is a sequence of calls to them, and nothing     *)
(* makes the sequence atomic.  This module has one action per call.        *)
(*                                                                         *)
(* A client is one end of a stream, in the hands of one goroutine: the     *)
(* writer that Create returned to, or a StreamReader.  The following are   *)
(* single steps: a critical section of a mutex that does not block inside, *)
(* and a request to the monitor with its processing and its answer (the    *)
(* monitor handles one request at a time and never blocks on an answer:    *)
(* module NotificationHub checks this, and that it refines TopicRegistry,  *)
(* whose steps are the ones used here).                                    *)
(*                                                                         *)
(* Data: a stream's bytes are a sequence of chunks, and a chunk is         *)
(* represented by the tag of the writer that wrote it, which is all that   *)
(* the properties tell apart.                                              *)
(***************************************************************************)
EXTENDS Naturals, Sequences, FiniteSets

CONSTANTS
    Clients,     \* writers and readers, each used by one goroutine
    Streams,     \* stream IDs (the signatures of requests)
    NoClient, NoStream,
    Absent,      \* a key that a Go map does not hold
    MaxBirths,   \* bound: how often a resource of a stream is created
    MaxChunks,   \* bound: chunks in a resource
    AllowCancel  \* may the context of StartMonitors be cancelled?

ASSUME ClientsAssumption == IsFiniteSet(Clients) /\ NoClient \notin Clients
ASSUME StreamsAssumption == NoStream \notin Streams
ASSUME BoundsAssumption  == MaxBirths \in Nat /\ MaxChunks \in Nat
ASSUME CancelAssumption  == AllowCancel \in BOOLEAN

\* Incarnations of a stream; 0 is that of a client that does not write.
Tags   == 0 .. MaxBirths
Errors == {"nil", "EOF", "failed", "unknown", "canceled"}

\* What Close forwards to the readers: nil, or the error of a fetch.
ForwardedErrors == {"nil", "failed"}

Resource == [data: Seq(Tags), closed: BOOLEAN, errorToForward: ForwardedErrors]

ASSUME AbsentAssumption ==
    /\ Absent \notin Resource
    /\ \A listeners \in SUBSET Clients : listeners # Absent

NewResource == [data |-> <<>>, closed |-> FALSE, errorToForward |-> "nil"]

VARIABLES
    resources,  \* resourceList.resources
    topics,     \* notificationHub.topics: the listeners of each topic
    readers,    \* readersList.readers (0: no entry)
    lockedBy,   \* the client inside readersList.lock while it blocks there
    disposing,  \* the stream ID the disposer received and not yet disposed
    alive,      \* "ctx" not cancelled; "monitor", "disposer" not returned
    pc,         \* where each client is in its operation
    stream,     \* the stream of its handle
    tag,        \* which birth of the stream a writer writes
    got,        \* what a reader has read; its offset is Len(got)
    result,     \* the error of a reader's last ReadAt; what a writer forwards
    births      \* history: resources created so far, per stream

store  == <<resources, topics, readers, lockedBy, disposing, alive, births>>
client == <<pc, stream, tag, got, result>>
vars   == <<store, client>>

Labels ==
    {"idle",
     "register", "undo", "retain",             \* Create
     "writing", "notify", "closeTopic",        \* Write, Close
     "drop", "releasing",                      \* readersList.Closed
     "exists", "open",                         \* GetStreamReader
     "retry", "listen", "waiting", "finished"} \* ReadAt

----------------------------------------------------------------------------
(* Helpers *)

Exists(s)   == resources[s] # Absent
Writable(s) == Exists(s) /\ ~ resources[s].closed
Listeners(s) == IF topics[s] = Absent THEN {} ELSE topics[s]

At(c, l)    == pc[c] = l
Goto(c, l)  == pc' = [pc EXCEPT ![c] = l]

\* The goroutine of c obtains a handle on stream s, or starts to.
Enter(c, l, s, t) ==
    /\ pc' = [pc EXCEPT ![c] = l]
    /\ stream' = [stream EXCEPT ![c] = s]
    /\ tag' = [tag EXCEPT ![c] = t]
    /\ UNCHANGED <<got, result>>

\* A handle that is given up and still refers to its stream.
LeaveMutant(c) ==
    /\ pc' = [pc EXCEPT ![c] = "idle"]
    /\ UNCHANGED stream
    /\ tag' = [tag EXCEPT ![c] = 0]
    /\ got' = [got EXCEPT ![c] = <<>>]
    /\ result' = [result EXCEPT ![c] = "nil"]

\* The handle of c is gone: its operation returned for the last time.
Leave(c) ==
    /\ pc' = [pc EXCEPT ![c] = "idle"]
    /\ stream' = [stream EXCEPT ![c] = NoStream]
    /\ tag' = [tag EXCEPT ![c] = 0]
    /\ got' = [got EXCEPT ![c] = <<>>]
    /\ result' = [result EXCEPT ![c] = "nil"]

----------------------------------------------------------------------------

Init ==
    /\ resources = [s \in Streams |-> Absent]
    /\ topics = [s \in Streams |-> Absent]
    /\ readers = [s \in Streams |-> 0]
    /\ lockedBy = NoClient
    /\ disposing = NoStream
    /\ alive = {"ctx", "monitor", "disposer"}
    /\ births = [s \in Streams |-> 0]
    /\ pc = [c \in Clients |-> "idle"]
    /\ stream = [c \in Clients |-> NoStream]
    /\ tag = [c \in Clients |-> 0]
    /\ got = [c \in Clients |-> <<>>]
    /\ result = [c \in Clients |-> "nil"]

----------------------------------------------------------------------------
(* Create.  When the resource exists Create returns ErrStreamAlreadyExists *)
(* and changes nothing: no step.                                           *)

CreateResource(c, s) ==
    /\ At(c, "idle")
    /\ births[s] < MaxBirths
    /\ ~ Exists(s)
    /\ resources' = [resources EXCEPT ![s] = NewResource]
    /\ births' = [births EXCEPT ![s] = @ + 1]
    /\ Enter(c, "register", s, births[s] + 1)
    /\ UNCHANGED <<topics, readers, lockedBy, disposing, alive>>

\* Without the check for an existing topic, Create takes over the topic.
RegisterTopicMutant(c) ==
    /\ At(c, "register")
    /\ "monitor" \in alive
    /\ topics' = [topics EXCEPT ![stream[c]] = {}]
    /\ Goto(c, "retain")
    /\ UNCHANGED <<resources, readers, lockedBy, disposing, alive, births,
                   stream, tag, got, result>>

\* notificationHub.RegisterTopic: an existing topic makes Create fail.
RegisterTopic(c) ==
    /\ At(c, "register")
    /\ "monitor" \in alive
    /\ \/ /\ topics[stream[c]] = Absent
          /\ topics' = [topics EXCEPT ![stream[c]] = {}]
          /\ Goto(c, "retain")
       \/ /\ topics[stream[c]] # Absent
          /\ Goto(c, "undo")
          /\ UNCHANGED topics
    /\ UNCHANGED <<resources, readers, lockedBy, disposing, alive, births,
                   stream, tag, got, result>>

\* resourceList.Dispose after a failed RegisterTopic; Create returns an error.
UndoCreate(c) ==
    /\ At(c, "undo")
    /\ resources' = [resources EXCEPT ![stream[c]] = Absent]
    /\ Leave(c)
    /\ UNCHANGED <<topics, readers, lockedBy, disposing, alive, births>>

\* A Create that takes no reference for the writer.
RetainMutant(c) ==
    /\ At(c, "retain")
    /\ lockedBy = NoClient
    /\ Goto(c, "writing")
    /\ UNCHANGED <<store, stream, tag, got, result>>

\* readersList.Created by Create: the writer counts as a reader.
Retain(c) ==
    /\ At(c, "retain")
    /\ lockedBy = NoClient
    /\ readers' = [readers EXCEPT ![stream[c]] = @ + 1]
    /\ Goto(c, "writing")
    /\ UNCHANGED <<resources, topics, lockedBy, disposing, alive, births,
                   stream, tag, got, result>>

----------------------------------------------------------------------------
(* Write.  On a closed or unknown resource it returns an error and changes *)
(* nothing: no step.  An empty chunk (n = 0) notifies all the same.        *)

Write(c, n) ==
    LET s == stream[c] IN
    /\ At(c, "writing")
    /\ Writable(s)
    /\ Len(resources[s].data) + n <= MaxChunks
    /\ resources' = IF n = 0 THEN resources
                    ELSE [resources EXCEPT ![s].data = Append(@, tag[c])]
    /\ Goto(c, "notify")
    /\ UNCHANGED <<topics, readers, lockedBy, disposing, alive, births,
                   stream, tag, got, result>>

\* A monitor that keeps the listeners it has already answered.
SendNotificationMutant(c) ==
    LET woken == Listeners(stream[c]) IN
    /\ At(c, "notify")
    /\ "monitor" \in alive
    /\ pc' = [d \in Clients |-> IF d = c THEN "writing"
                                ELSE IF d \in woken THEN "retry" ELSE pc[d]]
    /\ UNCHANGED <<store, stream, tag, got, result>>

\* notificationHub.SendNotification: every listener is answered and dropped.
\* The error of a missing topic is ignored by Write.
SendNotification(c) ==
    LET s == stream[c]
        woken == Listeners(s)
    IN
    /\ At(c, "notify")
    /\ "monitor" \in alive
    /\ pc' = [d \in Clients |-> IF d = c THEN "writing"
                                ELSE IF d \in woken THEN "retry" ELSE pc[d]]
    /\ topics' = IF topics[s] = Absent THEN topics
                 ELSE [topics EXCEPT ![s] = {}]
    /\ UNCHANGED <<resources, readers, lockedBy, disposing, alive, births,
                   stream, tag, got, result>>

----------------------------------------------------------------------------
(* Close: the resource first, then the topic, then the writer's reference. *)

Close(c, e) ==
    LET s == stream[c] IN
    /\ At(c, "writing")
    /\ Writable(s)
    /\ resources' = [resources EXCEPT ![s].closed = TRUE,
                                      ![s].errorToForward = e]
    /\ result' = [result EXCEPT ![c] = e]
    /\ Goto(c, "closeTopic")
    /\ UNCHANGED <<topics, readers, lockedBy, disposing, alive, births,
                   stream, tag, got>>

\* ErrStreamAlreadyClosed and ErrUnknownStream return before the topic is
\* closed and before the writer's reference is dropped.
CloseRejected(c) ==
    /\ At(c, "writing")
    /\ ~ Writable(stream[c])
    /\ Leave(c)
    /\ UNCHANGED store

\* A CloseTopic that forgets to answer the listeners.
CloseTopicMutant(c) ==
    /\ At(c, "closeTopic")
    /\ "monitor" \in alive
    /\ Goto(c, "drop")
    /\ topics' = [topics EXCEPT ![stream[c]] = Absent]
    /\ UNCHANGED <<resources, readers, lockedBy, disposing, alive, births,
                   stream, tag, got, result>>

\* notificationHub.CloseTopic: the listeners get the forwarded error; one
\* that gets nil reads again.
CloseTopic(c) ==
    LET s == stream[c]
        woken == Listeners(s)
        next == IF result[c] = "nil" THEN "retry" ELSE "finished"
    IN
    /\ At(c, "closeTopic")
    /\ "monitor" \in alive
    /\ pc' = [d \in Clients |-> IF d = c THEN "drop"
                                ELSE IF d \in woken THEN next ELSE pc[d]]
    /\ result' = [d \in Clients |-> IF d \in woken THEN result[c]
                                    ELSE result[d]]
    /\ topics' = [topics EXCEPT ![s] = Absent]
    /\ UNCHANGED <<resources, readers, lockedBy, disposing, alive, births,
                   stream, tag, got>>

----------------------------------------------------------------------------
(* readersList.Closed, by a writer after CloseTopic, by StreamReader.Close *)
(* and by a GetStreamReader that found no resource.  The last reference    *)
(* is handed to the disposer on an unbuffered channel, inside the mutex.   *)

\* A Closed that forgets to tell the disposer.
DropReferenceMutant(c) ==
    LET s == stream[c] IN
    /\ At(c, "drop")
    /\ lockedBy = NoClient
    /\ readers' = [readers EXCEPT ![s] = IF @ > 0 THEN @ - 1 ELSE 0]
    /\ Leave(c)
    /\ UNCHANGED <<resources, topics, lockedBy, disposing, alive, births>>

\* A missing entry (errReaderDoesNotExist) is left alone.
DropReference(c) ==
    LET s == stream[c] IN
    /\ At(c, "drop")
    /\ lockedBy = NoClient
    /\ readers' = [readers EXCEPT ![s] = IF @ > 0 THEN @ - 1 ELSE 0]
    /\ IF readers[s] = 1
       THEN /\ lockedBy' = c
            /\ Goto(c, "releasing")
            /\ UNCHANGED <<stream, tag, got, result>>
       ELSE /\ Leave(c)
            /\ UNCHANGED lockedBy
    /\ UNCHANGED <<resources, topics, disposing, alive, births>>

\* A Closed that returns without unlocking.
ReleaseMutant(c) ==
    /\ At(c, "releasing")
    /\ "disposer" \in alive
    /\ disposing = NoStream
    /\ disposing' = stream[c]
    /\ Leave(c)
    /\ UNCHANGED <<resources, topics, readers, alive, births, lockedBy>>

\* The send on streamReleased meets the receive of an idle disposer.
Release(c) ==
    /\ At(c, "releasing")
    /\ "disposer" \in alive
    /\ disposing = NoStream
    /\ disposing' = stream[c]
    /\ lockedBy' = NoClient
    /\ Leave(c)
    /\ UNCHANGED <<resources, topics, readers, alive, births>>

\* resourceList.Dispose by the disposer.
Dispose ==
    /\ disposing # NoStream
    /\ resources' = [resources EXCEPT ![disposing] = Absent]
    /\ disposing' = NoStream
    /\ UNCHANGED <<topics, readers, lockedBy, alive, births, client>>

----------------------------------------------------------------------------
(* GetStreamReader: count first, then look.                                *)

GetStreamReader(c, s) ==
    /\ At(c, "idle")
    /\ lockedBy = NoClient
    /\ readers' = [readers EXCEPT ![s] = @ + 1]
    /\ Enter(c, "exists", s, 0)
    /\ UNCHANGED <<resources, topics, lockedBy, disposing, alive, births>>

CheckExists(c) ==
    /\ At(c, "exists")
    /\ Goto(c, IF Exists(stream[c]) THEN "open" ELSE "drop")
    /\ UNCHANGED <<store, stream, tag, got, result>>

----------------------------------------------------------------------------
(* StreamReader.ReadAt, at the offset Len(got).  "open" is a reader with   *)
(* no call under way; a call that waited reads again from "retry".         *)

Finish(c, e) ==
    /\ Goto(c, "finished")
    /\ result' = [result EXCEPT ![c] = e]
    /\ UNCHANGED got

\* A ReadAt that reports the end of a closed resource too early.
ReadAtMutant(c) ==
    LET s == stream[c]
        r == resources[s]
    IN
    /\ pc[c] \in {"open", "retry"}
    /\ \/ /\ ~ Exists(s)
          /\ Finish(c, "unknown")
       \/ /\ Exists(s)
          /\ r.closed
          /\ Finish(c, "EOF")
       \/ /\ Writable(s)
          /\ Len(got[c]) < Len(r.data)
          /\ got' = [got EXCEPT ![c] = Append(@, r.data[Len(@) + 1])]
          /\ Goto(c, "open")
          /\ UNCHANGED result
       \/ /\ Writable(s)
          /\ Len(got[c]) >= Len(r.data)
          /\ Goto(c, "listen")
          /\ UNCHANGED <<got, result>>
    /\ UNCHANGED <<store, stream, tag>>

ReadAt(c) ==
    LET s == stream[c]
        r == resources[s]
    IN
    /\ pc[c] \in {"open", "retry"}
    /\ \/ /\ ~ Exists(s)
          /\ Finish(c, "unknown")
       \/ /\ Exists(s)
          /\ r.errorToForward # "nil"
          /\ Finish(c, r.errorToForward)
       \/ /\ Exists(s)
          /\ r.errorToForward = "nil"
          /\ Len(got[c]) < Len(r.data)
          /\ got' = [got EXCEPT ![c] = Append(@, r.data[Len(@) + 1])]
          /\ Goto(c, "open")
          /\ UNCHANGED result
       \/ /\ Exists(s)
          /\ r.errorToForward = "nil"
          /\ Len(got[c]) >= Len(r.data)
          /\ r.closed
          /\ Finish(c, "EOF")
       \/ /\ Writable(s)             \* io.ErrNoProgress
          /\ r.errorToForward = "nil"
          /\ Len(got[c]) >= Len(r.data)
          /\ Goto(c, "listen")
          /\ UNCHANGED <<got, result>>
    /\ UNCHANGED <<store, stream, tag>>

\* notificationHub.OnNotify: a missing topic is answered at once and readAt
\* ignores it and reads again.
OnNotify(c) ==
    LET s == stream[c] IN
    /\ At(c, "listen")
    /\ "monitor" \in alive
    /\ \/ /\ topics[s] = Absent
          /\ Goto(c, "retry")
          /\ UNCHANGED topics
       \/ /\ topics[s] # Absent
          /\ topics' = [topics EXCEPT ![s] = @ \cup {c}]
          /\ Goto(c, "waiting")
    /\ UNCHANGED <<resources, readers, lockedBy, disposing, alive, births,
                   stream, tag, got, result>>

\* StreamReader.Close, when no ReadAt is under way.
CloseReader(c) ==
    /\ pc[c] \in {"open", "finished"}
    /\ Goto(c, "drop")
    /\ UNCHANGED <<store, stream, tag, got, result>>

----------------------------------------------------------------------------
(* The context of StartMonitors.                                           *)

Cancel ==
    /\ AllowCancel
    /\ "ctx" \in alive
    /\ alive' = alive \ {"ctx"}
    /\ UNCHANGED <<resources, topics, readers, lockedBy, disposing, births, client>>

\* ctx.Done in StartMonitor: every listener is answered with Canceled and
\* no request is served any more.
StopMonitor ==
    LET woken == UNION {Listeners(s) : s \in Streams} IN
    /\ "ctx" \notin alive
    /\ "monitor" \in alive
    /\ alive' = alive \ {"monitor"}
    /\ pc' = [d \in Clients |-> IF d \in woken THEN "finished" ELSE pc[d]]
    /\ result' = [d \in Clients |-> IF d \in woken THEN "canceled" ELSE result[d]]
    /\ topics' = [s \in Streams |-> Absent]
    /\ UNCHANGED <<resources, readers, lockedBy, disposing, births, stream, tag, got>>

StopDisposer ==
    /\ "ctx" \notin alive
    /\ "disposer" \in alive
    /\ disposing = NoStream
    /\ alive' = alive \ {"disposer"}
    /\ UNCHANGED <<resources, topics, readers, lockedBy, disposing, births, client>>

----------------------------------------------------------------------------

\* The steps a started operation takes by itself.
Continue(c) ==
    \/ RegisterTopic(c) \/ UndoCreate(c) \/ Retain(c)
    \/ SendNotification(c) \/ CloseTopic(c)
    \/ DropReference(c) \/ Release(c)
    \/ CheckExists(c)
    \/ At(c, "retry") /\ ReadAt(c)
    \/ OnNotify(c)

\* The calls that the owner of a handle makes.
Call(c) ==
    \/ \E n \in {0, 1} : Write(c, n)
    \/ \E e \in ForwardedErrors : Close(c, e)
    \/ CloseRejected(c)
    \/ At(c, "open") /\ ReadAt(c)
    \/ CloseReader(c)

Open(c) == \E s \in Streams : CreateResource(c, s) \/ GetStreamReader(c, s)

Next ==
    \/ \E c \in Clients : Open(c) \/ Call(c) \/ Continue(c)
    \/ Dispose
    \/ Cancel \/ StopMonitor \/ StopDisposer

Spec == Init /\ [][Next]_vars

----------------------------------------------------------------------------
(* Properties *)

Fitting(l) == IF l = "idle" THEN {NoStream} ELSE Streams

\* Every variable has its type: maps of resources, listeners and counts, and
\* a client has a stream exactly when it has a handle.
TypeOK ==
    /\ resources \in [Streams -> {Absent} \cup Resource]
    /\ topics \in [Streams -> {Absent} \cup SUBSET Clients]
    /\ readers \in [Streams -> Nat]
    /\ lockedBy \in Clients \cup {NoClient}
    /\ disposing \in Streams \cup {NoStream}
    /\ alive \in SUBSET {"ctx", "monitor", "disposer"}
    /\ births \in [Streams -> Tags]
    /\ pc \in [Clients -> Labels]
    /\ stream \in [Clients -> Streams \cup {NoStream}]
    /\ tag \in [Clients -> Tags]
    /\ got \in [Clients -> Seq(Tags)]
    /\ result \in [Clients -> Errors]
    /\ \A c \in Clients : stream[c] \in Fitting(pc[c])

\* A client whose Create succeeded and that has not closed its topic yet.
Writer(c) == pc[c] \in {"retain", "writing", "notify", "closeTopic"}

(***************************************************************************)
(* A stream never has two writers, even when resources are disposed and    *)
(* created again under an earlier writer: Create succeeds only for the     *)
(* client that registered the topic, and only that client closes it.       *)
(* This is the promise of README.md: the work of a request in progress is  *)
(* never doubled.                                                          *)
(***************************************************************************)
SingleWriter ==
    \A c, d \in Clients :
        Writer(c) /\ Writer(d) /\ stream[c] = stream[d] => c = d

(***************************************************************************)
(* A reader waits exactly when the monitor has its channel registered, in  *)
(* one topic only, the one of its stream: the monitor never sends twice on *)
(* a channel (the second send would panic, the channel is closed) and no   *)
(* reader waits on a channel nobody will ever send on.                     *)
(***************************************************************************)
ListenersWait ==
    \A c \in Clients, s \in Streams :
        c \in Listeners(s) <=> pc[c] = "waiting" /\ stream[c] = s

(***************************************************************************)
(* The bytes of a resource are all of one writer.  A resource may be       *)
(* disposed under a writer that is slow to write or to close, and the next *)
(* Create makes another one with the same ID, for which the old handle is  *)
(* as good (resource_list.go looks resources up by ID); yet the old writer *)
(* writes only while the new one fails to get the topic, and the resource  *)
(* that the new one made and disposes again (storage.go:36) is then the    *)
(* old one's alone: no image is ever made of the bytes of two.             *)
(***************************************************************************)
NeverMixed ==
    \A s \in Streams : Exists(s) =>
        \A i, j \in 1 .. Len(resources[s].data) :
            resources[s].data[i] = resources[s].data[j]

\* The clients that the reference count of stream s counts.
Holders(s) ==
    {c \in Clients :
        /\ stream[c] = s
        /\ pc[c] \in {"writing", "notify", "closeTopic", "drop", "exists",
                      "open", "retry", "listen", "waiting", "finished"}}

(***************************************************************************)
(* The reference count never falls below the handles in use (it may stay   *)
(* above: a rejected Close leaks the writer's reference).  So Closed never *)
(* finds the entry missing, and a stream is released only by the last      *)
(* of its holders.                                                         *)
(***************************************************************************)
CountCoversHolders ==
    \A s \in Streams : readers[s] >= Cardinality(Holders(s))

(***************************************************************************)
(* The mutex of readersList is held across a blocking send by the client   *)
(* that releases a stream and by no other, so no two goroutines meet the   *)
(* disposer at once and every holder of the lock is on its way out.        *)
(***************************************************************************)
LockHolder ==
    \A c \in Clients : lockedBy = c <=> pc[c] = "releasing"

=============================================================================
