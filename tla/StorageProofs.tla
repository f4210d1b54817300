--------------------------- MODULE StorageProofs ---------------------------
(***************************************************************************)
(* Theorems about Storage, for any clients, streams and bounds, whether    *)
(* the monitors are stopped or not.                                        *)
(***************************************************************************)
EXTENDS Storage, FiniteSetTheorems, TLAPS

(***************************************************************************)
(* TypeOK is not inductive: the steps that wake listeners move them to     *)
(* "retry", which is well typed only if they have a stream, that is, if    *)
(* they were waiting.  ListenersWait says so.                              *)
(***************************************************************************)
TypeInv == TypeOK /\ ListenersWait

\* The types hold of the storage that NewStorage makes.
THEOREM TypeInvInit == Init => TypeInv
BY ClientsAssumption, StreamsAssumption, BoundsAssumption, AbsentAssumption
   DEF Init, TypeInv, TypeOK, ListenersWait, Listeners, Fitting, Labels, Errors, Tags

\* Every step of a client, of the monitors and of the disposer keeps the types
\* and the match of listeners and waiting readers.
THEOREM TypeInvStep == TypeInv /\ [Next]_vars => TypeInv'
<1> SUFFICES ASSUME TypeInv, [Next]_vars PROVE TypeInv'
  OBVIOUS
<1> USE ClientsAssumption, StreamsAssumption, BoundsAssumption, AbsentAssumption
<1> USE DEF TypeInv
<1>1. ASSUME NEW c \in Clients, NEW s \in Streams, CreateResource(c, s)
      PROVE  TypeInv'
  BY <1>1 DEF TypeOK, ListenersWait, Listeners, Fitting, Labels, Errors, Tags,
       CreateResource, Enter, At, Exists, NewResource, Resource, ForwardedErrors
<1>2. ASSUME NEW c \in Clients, NEW s \in Streams, GetStreamReader(c, s)
      PROVE  TypeInv'
  <2>1. readers' \in [Streams -> Nat]
    BY <1>2 DEF TypeOK, GetStreamReader
  <2>2. TypeOK'
    BY <1>2, <2>1 DEF TypeOK, Fitting, Labels, Tags, GetStreamReader, Enter, At
  <2>3. ListenersWait'
    BY <1>2 DEF TypeOK, ListenersWait, Listeners, GetStreamReader, Enter, At
  <2> QED BY <2>2, <2>3
<1>3. ASSUME NEW c \in Clients, RegisterTopic(c) PROVE TypeInv'
  <2>1. stream[c] \in Streams /\ stream[c] # NoStream
    BY <1>3 DEF TypeOK, Fitting, RegisterTopic, At
  <2>2. topics' \in [Streams -> {Absent} \cup SUBSET Clients]
    BY <1>3 DEF TypeOK, RegisterTopic
  <2>3. pc' \in [Clients -> Labels]
    BY <1>3 DEF TypeOK, Labels, RegisterTopic, Goto
  <2>4. TypeOK'
    BY <1>3, <2>1, <2>2, <2>3 DEF TypeOK, Fitting, RegisterTopic, At, Goto
  <2>5. ListenersWait'
    <3>1. CASE topics[stream[c]] = Absent
      <4>1. \A s \in Streams : Listeners(s)' = Listeners(s)
        BY <1>3, <3>1, <2>1 DEF TypeOK, Listeners, RegisterTopic
      <4>2. \A d \in Clients : pc'[d] = "waiting" <=> pc[d] = "waiting"
        BY <1>3, <3>1 DEF TypeOK, RegisterTopic, At, Goto
      <4> QED BY <1>3, <4>1, <4>2 DEF ListenersWait, RegisterTopic
    <3>2. CASE topics[stream[c]] # Absent
      BY <1>3, <3>2 DEF TypeOK, ListenersWait, Listeners, RegisterTopic, At, Goto
    <3> QED BY <3>1, <3>2
  <2> QED BY <2>4, <2>5
<1>4. ASSUME NEW c \in Clients, UndoCreate(c) PROVE TypeInv'
  BY <1>4 DEF TypeOK, ListenersWait, Listeners, Fitting, Labels, Errors, Tags, UndoCreate, Leave, At
<1>5. ASSUME NEW c \in Clients, Retain(c) PROVE TypeInv'
  BY <1>5 DEF TypeOK, ListenersWait, Listeners, Fitting, Labels, Retain, At, Goto
<1>6. ASSUME NEW c \in Clients, NEW n \in {0, 1}, Write(c, n) PROVE TypeInv'
  <2> DEFINE s == stream[c]
             r == resources[s]
  <2>1. s \in Streams /\ tag[c] \in Tags
    BY <1>6 DEF TypeOK, Fitting, Write, At
  <2>2. r \in Resource
    BY <1>6, <2>1 DEF TypeOK, Write, Writable, Exists
  <2>3. Append(r.data, tag[c]) \in Seq(Tags)
    BY <2>1, <2>2 DEF Resource
  <2>4. [r EXCEPT !.data = Append(r.data, tag[c])] \in Resource
    BY <2>2, <2>3 DEF Resource
  <2>5. resources' \in [Streams -> {Absent} \cup Resource]
    BY <1>6, <2>4 DEF TypeOK, Write
  <2>6. TypeOK'
    BY <1>6, <2>5 DEF TypeOK, Fitting, Labels, Write, At, Goto
  <2>7. ListenersWait'
    BY <1>6 DEF TypeOK, ListenersWait, Listeners, Write, At, Goto
  <2> QED BY <2>6, <2>7
<1>7. ASSUME NEW c \in Clients, SendNotification(c) PROVE TypeInv'
  BY <1>7 DEF TypeOK, ListenersWait, Listeners, Fitting, Labels, SendNotification, At
<1>8. ASSUME NEW c \in Clients, NEW e \in ForwardedErrors, Close(c, e) PROVE TypeInv'
  <2> DEFINE s == stream[c]
             r == resources[s]
  <2>1. s \in Streams
    BY <1>8 DEF TypeOK, Fitting, Close, At
  <2>2. r \in Resource
    BY <1>8, <2>1 DEF TypeOK, Close, Writable, Exists
  <2>3. [r EXCEPT !.closed = TRUE, !.errorToForward = e] \in Resource
    BY <2>2 DEF Resource
  <2>4. resources' = [resources EXCEPT ![s] = [r EXCEPT !.closed = TRUE, !.errorToForward = e]]
    BY <1>8, <2>1, <2>2 DEF TypeOK, Close, Resource
  <2>5. resources' \in [Streams -> {Absent} \cup Resource]
    BY <2>3, <2>4 DEF TypeOK
  <2>6. TypeOK'
    BY <1>8, <2>5 DEF TypeOK, Fitting, Labels, Errors, ForwardedErrors, Close, At, Goto
  <2>7. ListenersWait'
    BY <1>8 DEF TypeOK, ListenersWait, Listeners, Close, At, Goto
  <2> QED BY <2>6, <2>7
<1>9. ASSUME NEW c \in Clients, CloseRejected(c) PROVE TypeInv'
  BY <1>9 DEF TypeOK, ListenersWait, Listeners, Fitting, Labels, Errors, Tags, CloseRejected,
       Leave, At, store
<1>10. ASSUME NEW c \in Clients, CloseTopic(c) PROVE TypeInv'
  BY <1>10 DEF TypeOK, ListenersWait, Listeners, Fitting, Labels, CloseTopic, At
<1>11. ASSUME NEW c \in Clients, DropReference(c) PROVE TypeInv'
  <2>1. stream[c] \in Streams /\ stream[c] # NoStream /\ pc[c] = "drop"
    BY <1>11 DEF TypeOK, Fitting, DropReference, At
  <2>2. (IF readers[stream[c]] > 0 THEN readers[stream[c]] - 1 ELSE 0) \in Nat
    BY <2>1 DEF TypeOK
  <2>3. readers' \in [Streams -> Nat]
    BY <1>11, <2>2 DEF TypeOK, DropReference
  <2>4. CASE lockedBy' = c /\ Goto(c, "releasing") /\ UNCHANGED <<stream, tag, got, result>>
    <3>1. TypeOK'
      BY <1>11, <2>1, <2>3, <2>4 DEF TypeOK, Fitting, Labels, DropReference, Goto
    <3>2. ListenersWait'
      BY <1>11, <2>1, <2>4 DEF TypeOK, ListenersWait, Listeners, DropReference, Goto
    <3> QED BY <3>1, <3>2
  <2>5. CASE Leave(c) /\ UNCHANGED lockedBy
    <3>1. TypeOK'
      BY <1>11, <2>3, <2>5 DEF TypeOK, Fitting, Labels, Errors, Tags, DropReference, Leave
    <3>2. ListenersWait'
      BY <1>11, <2>1, <2>5 DEF TypeOK, ListenersWait, Listeners, DropReference, Leave
    <3> QED BY <3>1, <3>2
  <2> QED BY <1>11, <2>4, <2>5 DEF DropReference
<1>12. ASSUME NEW c \in Clients, Release(c) PROVE TypeInv'
  BY <1>12 DEF TypeOK, ListenersWait, Listeners, Fitting, Labels, Errors, Tags, Release, Leave, At
<1>13. CASE Dispose
  BY <1>13 DEF TypeOK, ListenersWait, Listeners, Fitting, Labels, Dispose, client
<1>14. ASSUME NEW c \in Clients, CheckExists(c) PROVE TypeInv'
  BY <1>14 DEF TypeOK, ListenersWait, Listeners, Fitting, Labels, CheckExists, At, Goto, store
<1>15. ASSUME NEW c \in Clients, ReadAt(c) PROVE TypeInv'
  <2> DEFINE s == stream[c]
             r == resources[s]
  <2>1. s \in Streams /\ got[c] \in Seq(Tags)
    BY <1>15 DEF TypeOK, Fitting, ReadAt
  <2>2. Exists(s) => r \in Resource
    BY <2>1 DEF TypeOK, Exists
  <2>3. got' \in [Clients -> Seq(Tags)]
    <3>1. CASE UNCHANGED got
      BY <3>1 DEF TypeOK
    <3>2. CASE /\ Exists(s)
               /\ Len(got[c]) < Len(r.data)
               /\ got' = [got EXCEPT ![c] = Append(got[c], r.data[Len(got[c]) + 1])]
      <4>1. r.data \in Seq(Tags)
        BY <2>2, <3>2 DEF Resource
      <4>2. Len(got[c]) + 1 \in 1 .. Len(r.data)
        BY <2>1, <3>2, <4>1
      <4>3. r.data[Len(got[c]) + 1] \in Tags
        BY <4>1, <4>2
      <4>4. Append(got[c], r.data[Len(got[c]) + 1]) \in Seq(Tags)
        BY <2>1, <4>3
      <4> QED BY <3>2, <4>4 DEF TypeOK
    <3> QED BY <1>15, <3>1, <3>2 DEF ReadAt, Finish
  <2>4. result' \in [Clients -> Errors]
    BY <1>15, <2>2 DEF TypeOK, ReadAt, Finish, Errors, Resource, ForwardedErrors
  <2>5. \E l \in {"open", "finished", "listen"} : pc' = [pc EXCEPT ![c] = l]
    BY <1>15 DEF ReadAt, Finish, Goto
  <2>6. TypeOK'
    BY <1>15, <2>1, <2>3, <2>4, <2>5, StreamsAssumption
       DEF TypeOK, Fitting, Labels, ReadAt, store
  <2>7. ListenersWait'
    BY <1>15, <2>5 DEF TypeOK, ListenersWait, Listeners, ReadAt, store
  <2> QED BY <2>6, <2>7
<1>16. ASSUME NEW c \in Clients, OnNotify(c) PROVE TypeInv'
  <2> DEFINE s == stream[c]
  <2>1. s \in Streams /\ pc[c] = "listen"
    BY <1>16 DEF TypeOK, Fitting, OnNotify, At
  <2>2. CASE topics[s] = Absent
    <3>1. /\ pc' = [pc EXCEPT ![c] = "retry"]
          /\ UNCHANGED <<topics, resources, readers, lockedBy, disposing, alive, births,
                          stream, tag, got, result>>
      BY <1>16, <2>2 DEF OnNotify, Goto
    <3>2. TypeOK'
      BY <2>1, <3>1 DEF TypeOK, Fitting, Labels
    <3>3. ListenersWait'
      BY <2>1, <3>1 DEF TypeOK, ListenersWait, Listeners
    <3> QED BY <3>2, <3>3
  <2>3. CASE topics[s] # Absent
    <3>1. /\ topics' = [topics EXCEPT ![s] = topics[s] \cup {c}]
          /\ pc' = [pc EXCEPT ![c] = "waiting"]
          /\ UNCHANGED <<resources, readers, lockedBy, disposing, alive, births,
                          stream, tag, got, result>>
      BY <1>16, <2>3 DEF OnNotify, Goto
    <3>2. topics[s] \cup {c} \in SUBSET Clients
      BY <2>1, <2>3 DEF TypeOK
    <3>3. TypeOK'
      BY <2>1, <3>1, <3>2 DEF TypeOK, Fitting, Labels
    <3>4. \A u \in Streams : Listeners(u)' = IF u = s THEN Listeners(u) \cup {c} ELSE Listeners(u)
      BY <2>1, <2>3, <3>1, <3>2 DEF TypeOK, Listeners
    <3>5. ListenersWait'
      BY <2>1, <3>1, <3>4 DEF TypeOK, ListenersWait
    <3> QED BY <3>3, <3>5
  <2> QED BY <2>2, <2>3
<1>17. ASSUME NEW c \in Clients, CloseReader(c) PROVE TypeInv'
  BY <1>17 DEF TypeOK, ListenersWait, Listeners, Fitting, Labels, CloseReader, Goto, store
<1>18. CASE Cancel
  BY <1>18 DEF TypeOK, ListenersWait, Listeners, Fitting, Labels, Cancel, client
<1>19. CASE StopMonitor
  BY <1>19 DEF TypeOK, ListenersWait, Listeners, Fitting, Labels, Errors, StopMonitor
<1>20. CASE StopDisposer
  BY <1>20 DEF TypeOK, ListenersWait, Listeners, Fitting, Labels, StopDisposer, client
<1>21. CASE UNCHANGED vars
  BY <1>21 DEF TypeOK, ListenersWait, Listeners, Fitting, vars, store, client
<1> QED
  BY <1>1, <1>2, <1>3, <1>4, <1>5, <1>6, <1>7, <1>8, <1>9, <1>10, <1>11, <1>12, <1>13,
     <1>14, <1>15, <1>16, <1>17, <1>18, <1>19, <1>20, <1>21
     DEF Next, Open, Call, Continue

(***************************************************************************)
(* Type correctness: every operation of the storage, on its own, keeps the *)
(* maps, the counts and the handles well formed, in any interleaving.      *)
(***************************************************************************)
THEOREM TypeCorrect == Spec => []TypeOK
<1>1. TypeInv => TypeOK
  BY DEF TypeInv
<1> QED BY <1>1, TypeInvInit, TypeInvStep, PTL DEF Spec

(***************************************************************************)
(* A reader waits exactly when its channel is registered, once, in the     *)
(* topic of its stream (notification_hub.go): no channel is answered twice *)
(* and no reader waits unregistered.                                       *)
(***************************************************************************)
THEOREM ListenersCorrect == Spec => []ListenersWait
<1>1. TypeInv => ListenersWait
  BY DEF TypeInv
<1> QED BY <1>1, TypeInvInit, TypeInvStep, PTL DEF Spec

----------------------------------------------------------------------------

(***************************************************************************)
(* SingleWriter is not inductive either.  Two creations may both be past   *)
(* resourceList.Create (the disposer may have removed the first resource), *)
(* so what excludes a second writer is the topic: while the monitor runs,  *)
(* the topic of a writer is registered.                                    *)
(***************************************************************************)
TopicOwned ==
    "monitor" \in alive =>
        \A c \in Clients : Writer(c) => topics[stream[c]] # Absent

WriterInv == TypeInv /\ TopicOwned /\ SingleWriter

\* A step that makes no new writer and removes no topic keeps WriterInv.
LEMMA WriterFrame ==
    ASSUME WriterInv, TypeInv',
           "monitor" \in alive' => "monitor" \in alive,
           \A s \in Streams : topics[s] # Absent => topics'[s] # Absent,
           \A c \in Clients : Writer(c)' => Writer(c) /\ stream'[c] = stream[c]
    PROVE  WriterInv'
<1>1. ASSUME NEW c \in Clients, Writer(c) PROVE stream[c] \in Streams
  BY <1>1 DEF WriterInv, TypeInv, TypeOK, Fitting, Writer
<1>2. TopicOwned'
  BY <1>1 DEF WriterInv, TopicOwned
<1>3. SingleWriter'
  BY DEF WriterInv, SingleWriter
<1> QED BY <1>2, <1>3 DEF WriterInv

\* At first there are no writers and no topics.
THEOREM WriterInvInit == Init => WriterInv
BY TypeInvInit DEF Init, WriterInv, TopicOwned, SingleWriter, Writer

\* Every step keeps a topic owned by the one writer of its stream.
THEOREM WriterInvStep == WriterInv /\ [Next]_vars => WriterInv'
<1> SUFFICES ASSUME WriterInv, [Next]_vars PROVE WriterInv'
  OBVIOUS
<1>0. TypeInv /\ TypeOK /\ ListenersWait /\ TypeInv'
  BY TypeInvStep DEF WriterInv, TypeInv
<1>1. ASSUME NEW c \in Clients, RegisterTopic(c) PROVE WriterInv'
  <2>1. stream[c] \in Streams
    BY <1>0, <1>1 DEF TypeOK, Fitting, RegisterTopic, At
  <2>2. CASE topics[stream[c]] = Absent
    <3>1. /\ topics' = [topics EXCEPT ![stream[c]] = {}]
          /\ pc' = [pc EXCEPT ![c] = "retain"]
          /\ UNCHANGED <<stream, alive>>
          /\ "monitor" \in alive
      BY <1>1, <2>2 DEF RegisterTopic, Goto
    <3>2. {} # Absent
      BY AbsentAssumption
    <3>3. TopicOwned'
      BY <1>0, <2>1, <3>1, <3>2 DEF TypeOK, WriterInv, TopicOwned, Writer, Fitting
    <3>4. \A d \in Clients : Writer(d) => stream[d] # stream[c]
      BY <2>2, <3>1 DEF WriterInv, TopicOwned
    <3>5. \A d \in Clients : Writer(d)' => d = c \/ Writer(d)
      BY <1>0, <3>1 DEF TypeOK, Writer
    <3>6. SingleWriter'
      BY <3>1, <3>4, <3>5 DEF WriterInv, SingleWriter
    <3> QED BY <1>0, <3>3, <3>6 DEF WriterInv
  <2>3. CASE topics[stream[c]] # Absent
    <3>1. pc' = [pc EXCEPT ![c] = "undo"] /\ UNCHANGED <<topics, stream, alive>>
      BY <1>1, <2>3 DEF RegisterTopic, Goto
    <3> QED BY <1>0, <3>1, WriterFrame DEF TypeOK, Writer
  <2> QED BY <2>2, <2>3
<1>2. ASSUME NEW c \in Clients, CloseTopic(c) PROVE WriterInv'
  <2>1. /\ stream[c] \in Streams
        /\ Writer(c)
        /\ topics' = [topics EXCEPT ![stream[c]] = Absent]
        /\ UNCHANGED <<stream, alive>>
        /\ "monitor" \in alive
    BY <1>0, <1>2 DEF TypeOK, Fitting, CloseTopic, At, Writer
  <2>2. \A d \in Clients : Writer(d)' => Writer(d) /\ d # c
    BY <1>0, <1>2 DEF TypeOK, CloseTopic, Writer
  <2>3. SingleWriter'
    BY <2>1, <2>2 DEF WriterInv, SingleWriter
  <2>4. \A d \in Clients : Writer(d)' => stream[d] # stream[c] /\ stream[d] \in Streams
    BY <1>0, <2>1, <2>2 DEF WriterInv, SingleWriter, TypeOK, Fitting, Writer
  <2>5. TopicOwned'
    BY <1>0, <2>1, <2>2, <2>4 DEF WriterInv, TopicOwned, TypeOK
  <2> QED BY <1>0, <2>3, <2>5 DEF WriterInv
<1>3. CASE StopMonitor
  <2>1. \A d \in Clients : Writer(d)' => Writer(d)
    BY <1>0, <1>3 DEF TypeOK, StopMonitor, Writer
  <2>2. "monitor" \notin alive' /\ UNCHANGED stream
    BY <1>3 DEF StopMonitor
  <2> QED BY <1>0, <2>1, <2>2 DEF WriterInv, TopicOwned, SingleWriter
<1>4. ASSUME NEW c \in Clients, SendNotification(c) PROVE WriterInv'
  <2>1. \A s \in Streams : topics[s] # Absent => topics'[s] # Absent
    BY <1>0, <1>4, AbsentAssumption DEF TypeOK, SendNotification
  <2>2. \A d \in Clients : Writer(d)' => Writer(d)
    BY <1>0, <1>4 DEF TypeOK, SendNotification, Writer, At
  <2> QED BY <1>0, <1>4, <2>1, <2>2, WriterFrame DEF SendNotification
<1>5. ASSUME NEW c \in Clients, OnNotify(c) PROVE WriterInv'
  <2>1. \A s \in Streams : topics[s] # Absent => topics'[s] # Absent
    <3>1. \A s \in Streams : topics[s] # Absent => topics[s] \cup {c} \in SUBSET Clients
      BY <1>0 DEF TypeOK
    <3> QED BY <1>0, <1>5, <3>1, AbsentAssumption DEF TypeOK, OnNotify
  <2>2. \A d \in Clients : Writer(d)' => Writer(d)
    BY <1>0, <1>5 DEF TypeOK, OnNotify, Writer, Goto
  <2> QED BY <1>0, <1>5, <2>1, <2>2, WriterFrame DEF OnNotify
<1>6. ASSUME NEW c \in Clients, NEW s \in Streams,
             CreateResource(c, s) \/ GetStreamReader(c, s)
      PROVE  WriterInv'
  BY <1>0, <1>6, WriterFrame DEF TypeOK, CreateResource, GetStreamReader, Enter, Writer
<1>7. ASSUME NEW c \in Clients, UndoCreate(c) \/ CloseRejected(c) \/ Release(c)
      PROVE  WriterInv'
  BY <1>0, <1>7, WriterFrame DEF TypeOK, UndoCreate, CloseRejected, Release, Leave, Writer, store
<1>8. ASSUME NEW c \in Clients, Retain(c) \/ CheckExists(c) \/ CloseReader(c)
      PROVE  WriterInv'
  BY <1>0, <1>8, WriterFrame
     DEF TypeOK, Retain, CheckExists, CloseReader, At, Goto, Writer, store
<1>9. ASSUME NEW c \in Clients,
             \/ \E n \in {0, 1} : Write(c, n)
             \/ \E e \in ForwardedErrors : Close(c, e)
      PROVE  WriterInv'
  BY <1>0, <1>9, WriterFrame DEF TypeOK, Write, Close, At, Goto, Writer
<1>10. ASSUME NEW c \in Clients, DropReference(c) PROVE WriterInv'
  BY <1>0, <1>10, WriterFrame DEF TypeOK, DropReference, Leave, Goto, Writer
<1>11. ASSUME NEW c \in Clients, ReadAt(c) PROVE WriterInv'
  BY <1>0, <1>11, WriterFrame DEF TypeOK, ReadAt, Finish, Goto, Writer, store
<1>12. CASE Dispose \/ Cancel \/ StopDisposer
  BY <1>0, <1>12, WriterFrame DEF Dispose, Cancel, StopDisposer, Writer, client
<1>13. CASE UNCHANGED vars
  BY <1>0, <1>13, WriterFrame DEF Writer, vars, store, client
<1> QED
  BY <1>1, <1>2, <1>3, <1>4, <1>5, <1>6, <1>7, <1>8, <1>9, <1>10, <1>11, <1>12, <1>13
     DEF Next, Open, Call, Continue

(***************************************************************************)
(* A stream never has two writers, whatever the disposer does to its       *)
(* resource: the work of a request in progress is never doubled.           *)
(***************************************************************************)
THEOREM SingleWriterCorrect == Spec => []SingleWriter
<1>1. WriterInv => SingleWriter
  BY DEF WriterInv
<1> QED BY <1>1, WriterInvInit, WriterInvStep, PTL DEF Spec

----------------------------------------------------------------------------
(***************************************************************************)
(* Whose bytes a resource holds.  A handle survives its resource, so what  *)
(* keeps two writers apart is once more the topic: whoever may write has   *)
(* it, and it is given up only with a resource that is closed or empty.    *)
(***************************************************************************)

\* The writers, by their tags, of the bytes in the resource of s.
Authors(s) == {resources[s].data[i] : i \in 1 .. Len(resources[s].data)}

\* While the monitor runs, bytes that may be added to have a topic.
BytesHaveTopic ==
    "monitor" \in alive =>
        \A s \in Streams : Writable(s) /\ Authors(s) # {} => topics[s] # Absent

\* A writer about to close its topic leaves no bytes that may be added to.
ClosersLeaveNothing ==
    \A c \in Clients : pc[c] = "closeTopic" /\ Writable(stream[c]) => Authors(stream[c]) = {}

\* What a writer may add to is its own.
WritersOwn ==
    \A c \in Clients : pc[c] \in {"retain", "writing", "notify"} /\ Writable(stream[c]) =>
        Authors(stream[c]) \subseteq {tag[c]}

AuthorInv == WriterInv /\ BytesHaveTopic /\ ClosersLeaveNothing /\ WritersOwn /\ NeverMixed

\* A resource has not been mixed if it has one author at most.
LEMMA OneAuthor ==
    NeverMixed <=> \A s \in Streams : Exists(s) => \A t, u \in Authors(s) : t = u
<1>1. ASSUME NEW s \in Streams
      PROVE  (\A i, j \in 1 .. Len(resources[s].data) :
                 resources[s].data[i] = resources[s].data[j])
             <=> \A t, u \in Authors(s) : t = u
  BY Zenon DEF Authors
<1> QED BY <1>1, Zenon DEF NeverMixed

\* The same after a step.
LEMMA OneAuthorPrime ==
    NeverMixed' <=> \A s \in Streams : Exists(s)' => \A t, u \in Authors(s)' : t = u
<1>1. ASSUME NEW s \in Streams
      PROVE  (\A i, j \in 1 .. Len(resources'[s].data) :
                 resources'[s].data[i] = resources'[s].data[j])
             <=> \A t, u \in Authors(s)' : t = u
  BY Zenon DEF Authors
<1> QED BY <1>1, Zenon DEF NeverMixed

\* A chunk that is appended adds its writer to the authors.
LEMMA AuthorAdded ==
    ASSUME NEW q \in Seq(Tags), NEW t \in Tags, NEW v \in Tags,
           v \in {Append(q, t)[i] : i \in 1 .. Len(Append(q, t))}
    PROVE  v = t \/ v \in {q[i] : i \in 1 .. Len(q)}
<1>1. Len(Append(q, t)) = Len(q) + 1 /\ Len(q) \in Nat
  OBVIOUS
<1>2. PICK i \in 1 .. Len(Append(q, t)) : v = Append(q, t)[i]
  OBVIOUS
<1>3. CASE i = Len(q) + 1
  BY <1>1, <1>2, <1>3
<1>4. CASE i \in 1 .. Len(q)
  BY <1>1, <1>2, <1>4
<1> QED BY <1>1, <1>2, <1>3, <1>4

(***************************************************************************)
(* A step that adds no bytes, opens no resource but an empty one, removes  *)
(* no topic and makes no writer.                                           *)
(***************************************************************************)
LEMMA AuthorFrame ==
    ASSUME AuthorInv, WriterInv',
           \A s \in Streams : Exists(s)' =>
              \/ Authors(s)' = {}
              \/ Exists(s) /\ Authors(s)' = Authors(s) /\ (Writable(s)' => Writable(s)),
           "monitor" \in alive' =>
              /\ "monitor" \in alive
              /\ \A s \in Streams : topics[s] # Absent => topics'[s] # Absent,
           \A c \in Clients : Writer(c)' =>
              /\ Writer(c) /\ stream'[c] = stream[c] /\ tag'[c] = tag[c]
              /\ \/ pc'[c] = "closeTopic" <=> pc[c] = "closeTopic"
                 \/ ~ Writable(stream[c])'
    PROVE  AuthorInv'
<1>1. \A c \in Clients : Writer(c)' => stream'[c] \in Streams
  BY DEF WriterInv, TypeInv, TypeOK, Fitting, Writer
<1>2. BytesHaveTopic'
  BY DEF AuthorInv, BytesHaveTopic, Writable
<1>3. ClosersLeaveNothing'
  <2> SUFFICES ASSUME NEW c \in Clients, pc'[c] = "closeTopic", Writable(stream[c])',
                      NEW s \in Streams, s = stream'[c], Authors(s)' # {}
               PROVE  FALSE
    BY <1>1 DEF ClosersLeaveNothing, Writer
  <2>1. Writer(c) /\ stream[c] = s /\ pc[c] = "closeTopic"
    BY DEF Writer
  <2>2. Authors(s)' = Authors(s) /\ Writable(s)
    BY DEF Writable
  <2> QED BY <2>1, <2>2 DEF AuthorInv, ClosersLeaveNothing
<1>4. WritersOwn'
  <2> SUFFICES ASSUME NEW c \in Clients, pc'[c] \in {"retain", "writing", "notify"},
                      Writable(stream[c])', NEW s \in Streams, s = stream'[c]
               PROVE  Authors(s)' \subseteq {tag'[c]}
    BY <1>1 DEF WritersOwn, Writer
  <2>1. Writer(c) /\ stream[c] = s /\ tag'[c] = tag[c] /\ pc[c] \in {"retain", "writing", "notify"}
    BY DEF Writer
  <2>2. CASE Authors(s)' = {}
    BY <2>2
  <2>3. CASE Authors(s)' = Authors(s) /\ Writable(s)
    BY <2>1, <2>3 DEF AuthorInv, WritersOwn
  <2> QED BY <2>2, <2>3 DEF Writable
<1>5. NeverMixed'
  BY OneAuthor, OneAuthorPrime DEF AuthorInv
<1> QED BY <1>2, <1>3, <1>4, <1>5 DEF AuthorInv

\* Resources that are as they were have the authors they had.
LEMMA SameAuthors ==
    ASSUME NEW s \in Streams, resources'[s] = resources[s]
    PROVE  /\ Exists(s)' <=> Exists(s)
           /\ Writable(s)' <=> Writable(s)
           /\ Authors(s)' = Authors(s)
BY DEF Exists, Writable, Authors

\* At first there are no bytes.
THEOREM AuthorInvInit == Init => AuthorInv
BY WriterInvInit
   DEF Init, AuthorInv, BytesHaveTopic, ClosersLeaveNothing, WritersOwn, NeverMixed,
       Writable, Exists

\* A Write appends to what is the writer's own, and no other writer has it.
LEMMA WriteKeepsAuthor ==
    ASSUME AuthorInv, WriterInv', NEW c \in Clients, NEW n \in {0, 1}, Write(c, n)
    PROVE  AuthorInv'
<1>s. PICK s \in Streams : s = stream[c]
  BY DEF AuthorInv, WriterInv, TypeInv, TypeOK, Fitting, Write, At
<1>0. /\ TypeOK /\ Writer(c) /\ Writable(s) /\ tag[c] \in Tags
      /\ pc[c] = "writing" /\ pc' = [pc EXCEPT ![c] = "notify"]
      /\ UNCHANGED <<topics, alive, stream, tag>>
  BY <1>s DEF AuthorInv, WriterInv, TypeInv, TypeOK, Write, At, Goto, Writer
<1>1. \A d \in Clients : Writer(d)' => Writer(d) /\ (pc'[d] = "closeTopic" <=> pc[d] = "closeTopic")
  BY <1>0 DEF TypeOK, Writer
<1>2. CASE n = 0
  <2>1. resources' = resources
    BY <1>2 DEF Write
  <2> QED BY <1>0, <1>1, <2>1, SameAuthors, AuthorFrame
<1>3. CASE n = 1
  <2>1. resources[s] \in Resource /\ resources[s].data \in Seq(Tags)
    BY <1>0 DEF TypeOK, Writable, Exists, Resource
  <2>2. resources'[s].data = Append(resources[s].data, tag[c])
    BY <1>s, <1>0, <1>3, <2>1 DEF TypeOK, Write, Resource
  <2>3. \A u \in Streams \ {s} : resources'[u] = resources[u]
    BY <1>s, <1>0, <1>3 DEF TypeOK, Write
  <2>4. \A u \in Streams \ {s} : /\ Exists(u)' <=> Exists(u)
                                 /\ Writable(u)' <=> Writable(u)
                                 /\ Authors(u)' = Authors(u)
    BY <2>3, SameAuthors
  <2>5. Authors(s) \subseteq {tag[c]}
    BY <1>s, <1>0 DEF AuthorInv, WritersOwn
  <2>6. Authors(s)' \subseteq {tag[c]}
    <3> SUFFICES ASSUME NEW v \in Authors(s)' PROVE v = tag[c]
      OBVIOUS
    <3>1. Append(resources[s].data, tag[c]) \in Seq(Tags)
      BY <1>0, <2>1
    <3>2. PICK i \in 1 .. Len(Append(resources[s].data, tag[c])) :
             v = Append(resources[s].data, tag[c])[i]
      BY <2>2 DEF Authors
    <3>3. v \in Tags
      BY <3>1, <3>2
    <3>4. v = tag[c] \/ v \in Authors(s)
      BY <1>0, <2>1, <3>2, <3>3, AuthorAdded DEF Authors
    <3> QED BY <2>5, <3>4
  <2>7. \A d \in Clients : Writer(d)' /\ d # c => stream[d] # s /\ stream[d] \in Streams
    BY <1>s, <1>0, <1>1 DEF AuthorInv, WriterInv, SingleWriter, TypeOK, Fitting, Writer
  <2>8. BytesHaveTopic'
    <3> SUFFICES ASSUME "monitor" \in alive, NEW u \in Streams, Writable(u)', Authors(u)' # {}
                 PROVE  topics[u] # Absent
      BY <1>0 DEF BytesHaveTopic
    <3>1. CASE u = s
      BY <1>s, <1>0, <3>1 DEF AuthorInv, WriterInv, TopicOwned
    <3>2. CASE u # s
      BY <2>4, <3>2 DEF AuthorInv, BytesHaveTopic
    <3> QED BY <3>1, <3>2
  <2>9. ClosersLeaveNothing'
    <3> SUFFICES ASSUME NEW d \in Clients, pc'[d] = "closeTopic", Writable(stream[d])',
                        NEW u \in Streams, u = stream[d], d # c
                 PROVE  Authors(u)' = {}
      BY <1>0, <1>1, <2>7 DEF ClosersLeaveNothing, TypeOK, Writer
    <3>1. Writer(d)' /\ pc[d] = "closeTopic"
      BY <1>0 DEF TypeOK, Writer
    <3>2. u # s /\ Writable(u)'
      BY <1>0, <2>7, <3>1
    <3> QED BY <2>4, <3>1, <3>2 DEF AuthorInv, ClosersLeaveNothing
  <2>10. WritersOwn'
    <3> SUFFICES ASSUME NEW d \in Clients, pc'[d] \in {"retain", "writing", "notify"},
                        Writable(stream[d])', NEW u \in Streams, u = stream[d]
                 PROVE  Authors(u)' \subseteq {tag[d]}
      BY <1>s, <1>0, <2>7 DEF WritersOwn, TypeOK, Writer
    <3>1. CASE d = c
      BY <1>s, <2>6, <3>1
    <3>2. CASE d # c
      <4>1. Writer(d)' /\ pc[d] = pc'[d]
        BY <1>0, <3>2 DEF TypeOK, Writer
      <4>2. u # s /\ Writable(u)'
        BY <1>0, <2>7, <3>2, <4>1
      <4> QED BY <2>4, <4>1, <4>2 DEF AuthorInv, WritersOwn
    <3> QED BY <3>1, <3>2
  <2>11. NeverMixed'
    <3>1. \A u \in Streams : Exists(u) => \A t, v \in Authors(u) : t = v
      BY OneAuthor DEF AuthorInv
    <3>2. \A u \in Streams : Exists(u)' => \A t, v \in Authors(u)' : t = v
      BY <2>4, <2>6, <3>1
    <3> QED BY <3>2, OneAuthorPrime
  <2> QED BY <2>8, <2>9, <2>10, <2>11 DEF AuthorInv
<1> QED BY <1>2, <1>3

\* A Create that gets the topic gets a resource without bytes: those of an
\* earlier writer would have had their topic.
LEMMA RegisterKeepsAuthor ==
    ASSUME AuthorInv, WriterInv', NEW c \in Clients, RegisterTopic(c)
    PROVE  AuthorInv'
<1>s. PICK s \in Streams : s = stream[c]
  BY DEF AuthorInv, WriterInv, TypeInv, TypeOK, Fitting, RegisterTopic, At
<1>0. /\ TypeOK /\ pc[c] = "register" /\ "monitor" \in alive
      /\ UNCHANGED <<resources, alive, stream, tag>>
      /\ \A u \in Streams : topics[u] # Absent => topics'[u] # Absent
      /\ \A d \in Clients \ {c} : pc'[d] = pc[d]
      /\ \/ topics[s] = Absent /\ pc'[c] = "retain"
         \/ pc'[c] = "undo"
  BY <1>s DEF AuthorInv, WriterInv, TypeInv, TypeOK, RegisterTopic, At, Goto
<1>1. CASE pc'[c] = "undo"
  BY <1>0, <1>1, SameAuthors, AuthorFrame DEF Writer
<1>2. CASE topics[s] = Absent /\ pc'[c] = "retain"
  <2>1. Writable(s) => Authors(s) = {}
    BY <1>0, <1>2 DEF AuthorInv, BytesHaveTopic
  <2>2. \A u : Exists(u)' = Exists(u) /\ Writable(u)' = Writable(u) /\ Authors(u)' = Authors(u)
    BY <1>0 DEF Exists, Writable, Authors
  <2>3. BytesHaveTopic'
    BY <1>0, <2>2 DEF AuthorInv, BytesHaveTopic
  <2>4. ClosersLeaveNothing'
    BY <1>0, <1>2, <2>2 DEF AuthorInv, ClosersLeaveNothing
  <2>5. WritersOwn'
    BY <1>s, <1>0, <2>1, <2>2 DEF AuthorInv, WritersOwn
  <2>6. NeverMixed'
    BY <1>0, <2>2 DEF AuthorInv, NeverMixed
  <2> QED BY <2>3, <2>4, <2>5, <2>6 DEF AuthorInv
<1> QED BY <1>0, <1>1, <1>2

\* Every step keeps the bytes of two writers apart.
THEOREM AuthorInvStep == AuthorInv /\ [Next]_vars => AuthorInv'
<1> SUFFICES ASSUME AuthorInv, [Next]_vars PROVE AuthorInv'
  OBVIOUS
<1>0. /\ WriterInv /\ WriterInv' /\ TypeOK
      /\ \A c \in Clients : pc[c] # "idle" => stream[c] \in Streams
  BY WriterInvStep DEF AuthorInv, WriterInv, TypeInv, TypeOK, Fitting
<1>1. ASSUME NEW c \in Clients, NEW s \in Streams, CreateResource(c, s)
      PROVE  AuthorInv'
  <2>1. /\ resources' = [resources EXCEPT ![s] = NewResource]
        /\ UNCHANGED <<topics, alive>>
        /\ pc'[c] = "register"
        /\ \A d \in Clients \ {c} :
              pc'[d] = pc[d] /\ stream'[d] = stream[d] /\ tag'[d] = tag[d]
    BY <1>0, <1>1 DEF TypeOK, CreateResource, Enter
  <2>2. Authors(s)' = {}
    BY <1>0, <2>1 DEF TypeOK, Authors, NewResource
  <2>3. \A u \in Streams \ {s} : resources'[u] = resources[u]
    BY <1>0, <2>1 DEF TypeOK
  <2> QED BY <1>0, <2>1, <2>2, <2>3, SameAuthors, AuthorFrame DEF Writer
<1>2. ASSUME NEW c \in Clients, NEW s \in Streams, GetStreamReader(c, s)
      PROVE  AuthorInv'
  BY <1>0, <1>2, SameAuthors, AuthorFrame DEF TypeOK, GetStreamReader, Enter, Writer
<1>3. ASSUME NEW c \in Clients, UndoCreate(c) PROVE AuthorInv'
  <2>1. \A u \in Streams : Exists(u)' => resources'[u] = resources[u]
    BY <1>0, <1>3 DEF TypeOK, UndoCreate, Exists
  <2> QED BY <1>0, <1>3, <2>1, SameAuthors, AuthorFrame DEF TypeOK, UndoCreate, Leave, Writer
<1>4. ASSUME NEW c \in Clients, CloseRejected(c) \/ Release(c) PROVE AuthorInv'
  BY <1>0, <1>4, SameAuthors, AuthorFrame
     DEF TypeOK, CloseRejected, Release, Leave, Writer, store
<1>5. ASSUME NEW c \in Clients, Retain(c) \/ CheckExists(c) \/ CloseReader(c) \/ OnNotify(c)
      PROVE  AuthorInv'
  <2>1. OnNotify(c) => \A s \in Streams : topics[s] # Absent => topics'[s] # Absent
    <3>1. \A s \in Streams : topics[s] # Absent => topics[s] \cup {c} \in SUBSET Clients
      BY <1>0 DEF TypeOK
    <3> QED BY <1>0, <3>1, AbsentAssumption DEF TypeOK, OnNotify
  <2> QED BY <1>0, <1>5, <2>1, SameAuthors, AuthorFrame
             DEF TypeOK, Retain, CheckExists, CloseReader, OnNotify, At, Goto, Writer, store
<1>6. ASSUME NEW c \in Clients, SendNotification(c) PROVE AuthorInv'
  <2>1. \A s \in Streams : topics[s] # Absent => topics'[s] # Absent
    BY <1>0, <1>6, AbsentAssumption DEF TypeOK, SendNotification
  <2>2. \A d \in Clients : Writer(d)' =>
           Writer(d) /\ (pc'[d] = "closeTopic" <=> pc[d] = "closeTopic")
    BY <1>0, <1>6 DEF TypeOK, SendNotification, Writer, At
  <2> QED BY <1>0, <1>6, <2>1, <2>2, SameAuthors, AuthorFrame DEF SendNotification
<1>7. ASSUME NEW c \in Clients, NEW n \in {0, 1}, Write(c, n) PROVE AuthorInv'
  BY <1>0, <1>7, WriteKeepsAuthor
<1>8. ASSUME NEW c \in Clients, NEW e \in ForwardedErrors, Close(c, e) PROVE AuthorInv'
  <2>s. PICK s \in Streams : s = stream[c]
    BY <1>0, <1>8 DEF Close, At
  <2>1. /\ \A u \in Streams \ {s} : resources'[u] = resources[u]
        /\ pc[c] = "writing" /\ pc' = [pc EXCEPT ![c] = "closeTopic"]
        /\ UNCHANGED <<topics, alive, stream, tag>>
        /\ Writable(s)
    BY <1>0, <1>8, <2>s DEF TypeOK, Close, At, Goto
  <2>2. resources[s] \in Resource
    BY <1>0, <2>1 DEF TypeOK, Writable, Exists
  <2>3. resources'[s].data = resources[s].data /\ resources'[s].closed
    BY <1>0, <1>8, <2>s, <2>2 DEF TypeOK, Close, Resource
  <2>4. Authors(s)' = Authors(s) /\ Exists(s) /\ ~ Writable(s)'
    BY <2>1, <2>3 DEF Authors, Writable
  <2>5. \A d \in Clients : Writer(d)' =>
           Writer(d) /\ (d = c \/ (pc'[d] = "closeTopic" <=> pc[d] = "closeTopic"))
    BY <1>0, <2>1 DEF TypeOK, Writer
  <2> QED BY <1>0, <2>s, <2>1, <2>4, <2>5, SameAuthors, AuthorFrame
<1>9. ASSUME NEW c \in Clients, CloseTopic(c) PROVE AuthorInv'
  <2>s. PICK s \in Streams : s = stream[c]
    BY <1>0, <1>9 DEF CloseTopic, At
  <2>1. /\ pc[c] = "closeTopic" /\ pc'[c] = "drop"
        /\ \A u \in Streams \ {s} : topics'[u] = topics[u]
        /\ UNCHANGED <<resources, alive, stream, tag>>
        /\ \A d \in Clients : Writer(d)' => d # c /\ Writer(d) /\ pc'[d] = pc[d]
    BY <1>0, <1>9, <2>s DEF TypeOK, CloseTopic, At, Writer
  <2>2. \A u : Exists(u)' = Exists(u) /\ Writable(u)' = Writable(u) /\ Authors(u)' = Authors(u)
    BY <2>1 DEF Exists, Writable, Authors
  <2>3. Writable(s) => Authors(s) = {}
    BY <2>s, <2>1 DEF AuthorInv, ClosersLeaveNothing
  <2>4. BytesHaveTopic'
    BY <2>1, <2>2, <2>3 DEF AuthorInv, BytesHaveTopic
  <2>5. ClosersLeaveNothing' /\ WritersOwn'
    BY <2>1, <2>2 DEF AuthorInv, ClosersLeaveNothing, WritersOwn, Writer
  <2>6. NeverMixed'
    BY <2>1, <2>2 DEF AuthorInv, NeverMixed
  <2> QED BY <1>0, <2>4, <2>5, <2>6 DEF AuthorInv
<1>10. ASSUME NEW c \in Clients, RegisterTopic(c) PROVE AuthorInv'
  BY <1>0, <1>10, RegisterKeepsAuthor
<1>11. ASSUME NEW c \in Clients, DropReference(c) PROVE AuthorInv'
  BY <1>0, <1>11, SameAuthors, AuthorFrame DEF TypeOK, DropReference, Leave, Goto, Writer
<1>12. ASSUME NEW c \in Clients, ReadAt(c) PROVE AuthorInv'
  BY <1>0, <1>12, SameAuthors, AuthorFrame DEF TypeOK, ReadAt, Finish, Goto, Writer, store
<1>13. CASE Dispose
  <2>1. \A u \in Streams : Exists(u)' => resources'[u] = resources[u]
    BY <1>0, <1>13 DEF TypeOK, Dispose, Exists
  <2> QED BY <1>0, <1>13, <2>1, SameAuthors, AuthorFrame DEF Dispose, Writer, client
<1>14. CASE Cancel \/ StopDisposer \/ UNCHANGED vars
  BY <1>0, <1>14, SameAuthors, AuthorFrame
     DEF Cancel, StopDisposer, Writer, vars, store, client
<1>15. CASE StopMonitor
  <2>1. \A d \in Clients : Writer(d)' =>
           Writer(d) /\ (pc'[d] = "closeTopic" <=> pc[d] = "closeTopic")
    BY <1>0, <1>15 DEF TypeOK, StopMonitor, Writer
  <2>2. UNCHANGED <<resources, stream, tag>> /\ "monitor" \notin alive'
    BY <1>15 DEF StopMonitor
  <2> QED BY <1>0, <2>1, <2>2, SameAuthors, AuthorFrame
<1> QED
  BY <1>1, <1>2, <1>3, <1>4, <1>5, <1>6, <1>7, <1>8, <1>9, <1>10, <1>11, <1>12, <1>13,
     <1>14, <1>15 DEF Next, Open, Call, Continue

(***************************************************************************)
(* No resource holds the bytes of two writers (storage.go:46, resource.go),*)
(* although a stream may be disposed under its writer and created again:   *)
(* an image may be cut short, but is never made of two.                    *)
(***************************************************************************)
THEOREM NeverMixedHolds == Spec => []NeverMixed
<1>1. AuthorInv => NeverMixed
  BY DEF AuthorInv
<1> QED BY <1>1, AuthorInvInit, AuthorInvStep, PTL DEF Spec

----------------------------------------------------------------------------
(* The reference count                                                     *)

CountInv == TypeInv /\ CountCoversHolders

\* The holders of a stream can be counted.
LEMMA HoldersFinite ==
    ASSUME NEW s \in Streams
    PROVE  IsFiniteSet(Holders(s)) /\ Cardinality(Holders(s)) \in Nat
BY ClientsAssumption, FS_Subset, FS_CardinalityType DEF Holders

\* And so they can after a step.
LEMMA HoldersFinitePrime ==
    ASSUME NEW s \in Streams
    PROVE  IsFiniteSet(Holders(s)') /\ Cardinality(Holders(s)') \in Nat
BY ClientsAssumption, FS_Subset, FS_CardinalityType DEF Holders

\* A step that counts nothing and makes no new holder keeps the bound.
LEMMA CountFrame ==
    ASSUME CountInv, UNCHANGED readers,
           \A s \in Streams : Holders(s)' \subseteq Holders(s)
    PROVE  CountCoversHolders'
<1> SUFFICES ASSUME NEW s \in Streams
             PROVE  readers[s] >= Cardinality(Holders(s)')
  BY DEF CountCoversHolders
<1>1. Cardinality(Holders(s)') <= Cardinality(Holders(s))
  BY HoldersFinite, FS_Subset
<1>2. readers[s] \in Nat /\ readers[s] >= Cardinality(Holders(s))
  BY DEF CountInv, TypeInv, TypeOK, CountCoversHolders
<1> QED BY <1>1, <1>2, HoldersFinite, HoldersFinitePrime

\* A step that counts one client more on one stream keeps it.
LEMMA CountUp ==
    ASSUME CountInv, NEW c \in Clients, NEW s \in Streams,
           readers' = [readers EXCEPT ![s] = @ + 1],
           \A u \in Streams \ {s} : Holders(u)' \subseteq Holders(u),
           Holders(s)' \subseteq Holders(s) \cup {c}
    PROVE  CountCoversHolders'
<1> SUFFICES ASSUME NEW u \in Streams
             PROVE  readers'[u] >= Cardinality(Holders(u)')
  BY DEF CountCoversHolders
<1>1. readers[u] \in Nat /\ readers[u] >= Cardinality(Holders(u))
  BY DEF CountInv, TypeInv, TypeOK, CountCoversHolders
<1>2. CASE u = s
  <2>1. /\ IsFiniteSet(Holders(s) \cup {c})
        /\ Cardinality(Holders(s) \cup {c}) \in
              {Cardinality(Holders(s)), Cardinality(Holders(s)) + 1}
    BY HoldersFinite, FS_AddElement
  <2>2. Cardinality(Holders(s)') <= Cardinality(Holders(s) \cup {c})
    BY <2>1, FS_Subset
  <2>3. readers'[s] = readers[s] + 1
    BY DEF CountInv, TypeInv, TypeOK
  <2> QED BY <1>1, <1>2, <2>1, <2>2, <2>3, HoldersFinite, HoldersFinitePrime
<1>3. CASE u # s
  <2>1. readers'[u] = readers[u] /\ Cardinality(Holders(u)') <= Cardinality(Holders(u))
    BY <1>3, HoldersFinite, FS_Subset DEF CountInv, TypeInv, TypeOK
  <2> QED BY <1>1, <2>1, HoldersFinite, HoldersFinitePrime
<1> QED BY <1>2, <1>3

\* At first nothing is counted and nobody holds a stream.
THEOREM CountInvInit == Init => CountInv
<1> SUFFICES ASSUME Init PROVE CountInv
  OBVIOUS
<1>1. \A s \in Streams : Holders(s) = {} /\ readers[s] = 0
  BY DEF Init, Holders
<1>2. CountCoversHolders
  BY <1>1, FS_EmptySet DEF CountCoversHolders
<1> QED BY <1>2, TypeInvInit DEF CountInv

\* Every step keeps the count of a stream at or above its holders.
THEOREM CountInvStep == CountInv /\ [Next]_vars => CountInv'
<1> SUFFICES ASSUME CountInv, [Next]_vars PROVE CountCoversHolders'
  BY TypeInvStep DEF CountInv
<1>0. TypeInv /\ TypeOK /\ ListenersWait
  BY DEF CountInv, TypeInv
<1>1. ASSUME NEW c \in Clients, NEW s \in Streams, GetStreamReader(c, s)
      PROVE  CountCoversHolders'
  <2>1. /\ readers' = [readers EXCEPT ![s] = @ + 1]
        /\ pc' = [pc EXCEPT ![c] = "exists"]
        /\ stream' = [stream EXCEPT ![c] = s]
    BY <1>1 DEF GetStreamReader, Enter
  <2>2. \A u \in Streams \ {s} : Holders(u)' \subseteq Holders(u)
    BY <1>0, <2>1 DEF TypeOK, Holders
  <2>3. Holders(s)' \subseteq Holders(s) \cup {c}
    BY <1>0, <2>1 DEF TypeOK, Holders
  <2> QED BY <2>1, <2>2, <2>3, CountUp
<1>2. ASSUME NEW c \in Clients, Retain(c) PROVE CountCoversHolders'
  <2>1. /\ readers' = [readers EXCEPT ![stream[c]] = @ + 1]
        /\ pc' = [pc EXCEPT ![c] = "writing"]
        /\ stream' = stream
        /\ stream[c] \in Streams
    BY <1>0, <1>2 DEF TypeOK, Fitting, Retain, At, Goto
  <2>2. \A u \in Streams \ {stream[c]} : Holders(u)' \subseteq Holders(u)
    BY <1>0, <2>1 DEF TypeOK, Holders
  <2>3. Holders(stream[c])' \subseteq Holders(stream[c]) \cup {c}
    BY <1>0, <2>1 DEF TypeOK, Holders
  <2> QED BY <2>1, <2>2, <2>3, CountUp
<1>3. ASSUME NEW c \in Clients, DropReference(c) PROVE CountCoversHolders'
  <2>0. PICK s \in Streams : s = stream[c]
    BY <1>0, <1>3 DEF TypeOK, Fitting, DropReference, At
  <2>1. /\ c \in Holders(s)
        /\ readers' = [readers EXCEPT ![s] = IF @ > 0 THEN @ - 1 ELSE 0]
    BY <1>0, <1>3, <2>0 DEF TypeOK, DropReference, At, Holders
  <2>2. pc'[c] \in {"idle", "releasing"} /\ \A d \in Clients \ {c} :
            pc'[d] = pc[d] /\ stream'[d] = stream[d]
    BY <1>0, <1>3 DEF TypeOK, DropReference, Leave, Goto
  <2>3. \A u \in Streams : Holders(u)' \subseteq Holders(u) \ {c}
    BY <2>2 DEF Holders
  <2> SUFFICES ASSUME NEW u \in Streams
               PROVE  readers'[u] >= Cardinality(Holders(u)')
    BY DEF CountCoversHolders
  <2>4. readers[u] \in Nat /\ readers[u] >= Cardinality(Holders(u))
    BY <1>0 DEF CountInv, TypeOK, CountCoversHolders
  <2>5. CASE u = s
    <3>1. /\ IsFiniteSet(Holders(s) \ {c})
          /\ Cardinality(Holders(s) \ {c}) = Cardinality(Holders(s)) - 1
      BY <2>1, HoldersFinite, FS_RemoveElement
    <3>2. Cardinality(Holders(s)') <= Cardinality(Holders(s) \ {c})
      BY <2>1, <2>3, <3>1, FS_Subset
    <3>3. readers'[s] = IF readers[s] > 0 THEN readers[s] - 1 ELSE 0
      BY <1>0, <2>1 DEF TypeOK
    <3>4. Cardinality(Holders(s)) \in Nat /\ Cardinality(Holders(s)') \in Nat
      BY <2>1, HoldersFinite, HoldersFinitePrime
    <3> QED BY <2>4, <2>5, <3>1, <3>2, <3>3, <3>4
  <2>6. CASE u # s
    <3>1. readers'[u] = readers[u]
      BY <1>0, <2>1, <2>6 DEF TypeOK
    <3>2. Cardinality(Holders(u)') <= Cardinality(Holders(u))
      BY <2>3, HoldersFinite, FS_Subset
    <3> QED BY <2>4, <3>1, <3>2, HoldersFinite, HoldersFinitePrime
  <2> QED BY <2>5, <2>6
<1>4. ASSUME NEW c \in Clients, RegisterTopic(c) \/ CheckExists(c) \/ CloseReader(c)
      PROVE  CountCoversHolders'
  BY <1>0, <1>4, CountFrame
     DEF TypeOK, RegisterTopic, CheckExists, CloseReader, At, Goto, Holders, store
<1>5. ASSUME NEW c \in Clients, UndoCreate(c) \/ CloseRejected(c) \/ Release(c)
      PROVE  CountCoversHolders'
  BY <1>0, <1>5, CountFrame
     DEF TypeOK, UndoCreate, CloseRejected, Release, At, Leave, Holders, store
<1>6. ASSUME NEW c \in Clients, NEW s \in Streams, CreateResource(c, s)
      PROVE  CountCoversHolders'
  BY <1>0, <1>6, CountFrame DEF TypeOK, CreateResource, Enter, Holders
<1>7. ASSUME NEW c \in Clients,
             \/ \E n \in {0, 1} : Write(c, n)
             \/ \E e \in ForwardedErrors : Close(c, e)
      PROVE  CountCoversHolders'
  BY <1>0, <1>7, CountFrame DEF TypeOK, Write, Close, At, Goto, Holders
<1>8. ASSUME NEW c \in Clients, SendNotification(c) \/ CloseTopic(c)
      PROVE  CountCoversHolders'
  <2>1. UNCHANGED <<readers, stream>>
    BY <1>8 DEF SendNotification, CloseTopic
  <2>2. \A d \in Clients : d # c /\ pc'[d] # pc[d] => pc[d] = "waiting"
    <3>1. stream[c] \in Streams
      BY <1>0, <1>8 DEF TypeOK, Fitting, SendNotification, CloseTopic, At
    <3> QED BY <1>0, <1>8, <3>1 DEF ListenersWait, SendNotification, CloseTopic
  <2>3. pc[c] \in {"notify", "closeTopic"}
    BY <1>8 DEF SendNotification, CloseTopic, At
  <2> QED BY <2>1, <2>2, <2>3, CountFrame DEF Holders
<1>9. ASSUME NEW c \in Clients, ReadAt(c) PROVE CountCoversHolders'
  BY <1>0, <1>9, CountFrame DEF TypeOK, ReadAt, Finish, Goto, Holders, store
<1>10. ASSUME NEW c \in Clients, OnNotify(c) PROVE CountCoversHolders'
  BY <1>0, <1>10, CountFrame DEF TypeOK, OnNotify, At, Goto, Holders
<1>11. CASE StopMonitor
  <2>1. \A d \in Clients : pc'[d] # pc[d] => pc[d] = "waiting"
    BY <1>0, <1>11 DEF ListenersWait, StopMonitor
  <2> QED BY <1>11, <2>1, CountFrame DEF StopMonitor, Holders
<1>12. CASE Dispose \/ Cancel \/ StopDisposer \/ UNCHANGED vars
  BY <1>12, CountFrame DEF Dispose, Cancel, StopDisposer, Holders, vars, store, client
<1> QED
  BY <1>1, <1>2, <1>3, <1>4, <1>5, <1>6, <1>7, <1>8, <1>9, <1>10, <1>11, <1>12
     DEF Next, Open, Call, Continue

(***************************************************************************)
(* The reference count of a stream is never below the handles in use       *)
(* (readers_list.go): only the last of its holders releases a stream, and  *)
(* Closed never misses its entry.                                          *)
(***************************************************************************)
THEOREM CountCorrect == Spec => []CountCoversHolders
<1>1. CountInv => CountCoversHolders
  BY DEF CountInv
<1> QED BY <1>1, CountInvInit, CountInvStep, PTL DEF Spec

----------------------------------------------------------------------------
(* The mutex of readersList                                                *)

\* Only DropReference takes the mutex and keeps it, and only Release frees it.
LEMMA LockStep ==
    ASSUME TypeInv, LockHolder, [Next]_vars
    PROVE  LockHolder'
<1>0. TypeOK /\ ListenersWait
  BY DEF TypeInv
<1>1. CASE UNCHANGED lockedBy /\ \A d \in Clients : pc'[d] = "releasing" <=> pc[d] = "releasing"
  BY <1>1 DEF LockHolder
<1>2. ASSUME NEW c \in Clients, DropReference(c) PROVE LockHolder'
  <2>1. /\ pc[c] = "drop" /\ lockedBy = NoClient
        /\ \A d \in Clients \ {c} : pc'[d] = pc[d]
        /\ \/ lockedBy' = c /\ pc'[c] = "releasing"
           \/ lockedBy' = lockedBy /\ pc'[c] = "idle"
    BY <1>0, <1>2 DEF TypeOK, DropReference, At, Goto, Leave
  <2> QED BY <2>1, ClientsAssumption DEF LockHolder
<1>3. ASSUME NEW c \in Clients, Release(c) PROVE LockHolder'
  <2>1. /\ pc[c] = "releasing" /\ pc'[c] = "idle" /\ lockedBy' = NoClient
        /\ \A d \in Clients \ {c} : pc'[d] = pc[d]
    BY <1>0, <1>3 DEF TypeOK, Release, At, Leave
  <2> QED BY <2>1, ClientsAssumption DEF LockHolder
<1>4. ASSUME NEW c \in Clients, SendNotification(c) \/ CloseTopic(c)
      PROVE  UNCHANGED lockedBy /\ \A d \in Clients : pc'[d] = "releasing" <=> pc[d] = "releasing"
  <2>1. \A d \in Listeners(stream[c]) : d \in Clients => pc[d] = "waiting"
    BY <1>0, <1>4 DEF TypeOK, Fitting, ListenersWait, SendNotification, CloseTopic, At
  <2> QED BY <1>0, <1>4, <2>1 DEF SendNotification, CloseTopic, At
<1>5. CASE StopMonitor
  <2>1. \A d \in Clients : pc'[d] # pc[d] => pc[d] = "waiting" /\ pc'[d] = "finished"
    BY <1>0, <1>5 DEF ListenersWait, StopMonitor
  <2> QED BY <1>1, <1>5, <2>1 DEF StopMonitor
<1>6. ASSUME NEW c \in Clients, NEW s \in Streams, CreateResource(c, s) \/ GetStreamReader(c, s)
      PROVE  LockHolder'
  BY <1>0, <1>1, <1>6 DEF TypeOK, CreateResource, GetStreamReader, Enter, At
<1>7. ASSUME NEW c \in Clients,
             \/ RegisterTopic(c) \/ UndoCreate(c) \/ Retain(c)
             \/ CloseRejected(c) \/ CloseReader(c) \/ CheckExists(c) \/ OnNotify(c)
      PROVE  LockHolder'
  BY <1>0, <1>1, <1>7
     DEF TypeOK, RegisterTopic, UndoCreate, Retain, CloseRejected, CloseReader, CheckExists,
         OnNotify, At, Goto, Leave, store
<1>8. ASSUME NEW c \in Clients, (\E n \in {0, 1} : Write(c, n))
                                \/ (\E e \in ForwardedErrors : Close(c, e)) \/ ReadAt(c)
      PROVE  LockHolder'
  BY <1>0, <1>1, <1>8 DEF TypeOK, Write, Close, ReadAt, Finish, At, Goto, store
<1>9. CASE Dispose \/ Cancel \/ StopDisposer \/ UNCHANGED vars
  BY <1>1, <1>9 DEF Dispose, Cancel, StopDisposer, vars, store, client
<1> QED
  BY <1>1, <1>2, <1>3, <1>4, <1>5, <1>6, <1>7, <1>8, <1>9 DEF Next, Open, Call, Continue

(***************************************************************************)
(* The mutex of readersList, which Closed holds across a blocking send to  *)
(* the disposer (readers_list.go:47), is held by the one client that       *)
(* releases a stream and by nobody else: every wait for it ends with one   *)
(* receive of the disposer, which takes no mutex.                          *)
(***************************************************************************)
THEOREM LockHolderHolds == Spec => []LockHolder
<1>1. Init => LockHolder
  BY ClientsAssumption DEF Init, LockHolder
<1>2. TypeInv /\ LockHolder /\ [Next]_vars => LockHolder'
  BY LockStep
<1> QED BY <1>1, <1>2, TypeInvInit, TypeInvStep, PTL DEF Spec

=============================================================================
