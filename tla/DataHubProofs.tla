--------------------------- MODULE DataHubProofs ---------------------------
(***************************************************************************)
(* Theorems about DataHub, for any callers, streams and bounds: it is a    *)
(* use of the storage, with everything proved of Storage; its lock makes   *)
(* creations serial; and it keeps what ByteStream promises, in one life of *)
(* a stream, and in any number of lives that nobody attaches to too late.  *)
(***************************************************************************)
EXTENDS DataHub, StorageProofs, SequenceTheorems

Opening(c) == pc[c] \in {"register", "undo", "retain", "exists"}

\* What the hub knows of its own calls.
CallInv ==
    /\ call \in [Callers -> CallLabels]
    /\ target \in [Callers -> Streams \cup {NoStream}]
    /\ creators \in SUBSET Callers
    /\ \A k \in Callers : call[k] # "idle" => target[k] \in Streams
    /\ \A k \in Callers : call[k] \in {"output", "outputting"} => SaveOf(k) \in Clients

\* A call that holds the lock for writing is the only one.
LockInv ==
    \A k, j \in Callers : call[k] \in WriteLabels /\ call[j] # "idle" => k = j

\* The call that an end is opened by is under way.
EndInv ==
    \A k \in Callers, e \in Ends :
        <<k, e>> \in Clients /\ Opening(<<k, e>>) =>
            IF pc[<<k, e>>] = "exists"
            THEN <<e, call[k]>> \in {<<"out", "attaching">>, <<"save", "outputting">>}
            ELSE e = "in" /\ call[k] \in {"creating", "creatingOnly"}

HubInv == TypeInv /\ CallInv /\ LockInv /\ EndInv

----------------------------------------------------------------------------
(* Steps of the storage                                                    *)

\* The ends of the callers are the clients of the storage.
LEMMA EndsAreClients ==
    /\ \A k \in Callers : InputOf(k) \in Clients /\ OutputOf(k) \in Clients
    /\ \A c \in Clients : \E k \in Callers, e \in Ends : c = <<k, e>>
  BY CallersAssumption DEF InputOf, OutputOf, Ends

\* A step of a hub call opens or closes an end, or changes no storage.
LEMMA HubStepIsClientStep ==
    ASSUME CallInv, NEW k \in Callers, HubStep(k)
    PROVE  UNCHANGED vars \/ \E c \in Clients : Open(c) \/ Call(c)
  <1> USE DEF CallInv
  <1>0. InputOf(k) \in Clients /\ OutputOf(k) \in Clients
    BY EndsAreClients
  <1>1. CASE TryCreate(k)
    BY <1>0, <1>1 DEF TryCreate, StartCreate, CallAt, Open
  <1>2. CASE TryCreateOnly(k)
    BY <1>0, <1>2 DEF TryCreateOnly, StartCreate, CallAt, Open
  <1>3. CASE GetOutput(k)
    BY <1>0, <1>3 DEF GetOutput, CallAt, Open
  <1>4. CASE GetSaveOutput(k)
    BY <1>4 DEF GetSaveOutput, CallAt, Open
  <1>5. CASE ReturnError(k)
    BY <1>0, <1>5 DEF ReturnError, Call, ForwardedErrors
  <1>6. CASE GiveUp(k) \/ ReturnStream(k) \/ InputClosed(k) \/ ReturnSaveOutput(k)
    BY <1>6 DEF GiveUp, ReturnStream, InputClosed, ReturnSaveOutput
  <1>7. QED
    BY <1>1, <1>2, <1>3, <1>4, <1>5, <1>6 DEF HubStep

\* The monitors are not cancelled: the steps are those of ends and of the
\* disposer.
LEMMA HubNextIsClientStep ==
    ASSUME CallInv, [HubNext]_hubVars
    PROVE  \/ UNCHANGED vars
           \/ \E c \in Clients : Open(c) \/ Call(c) \/ Continue(c)
           \/ Dispose
  <1>1. CASE \E k \in Callers, s \in Streams :
                GetOrCreateStream(k, s) \/ CreateStream(k, s) \/ GetStreamOutput(k, s)
    BY <1>1 DEF GetOrCreateStream, CreateStream, GetStreamOutput, LockForCreation
  <1>2. CASE \E k \in Callers : HubStep(k)
    BY <1>2, HubStepIsClientStep
  <1>3. CASE \E k \in Callers, e \in Ends : UseEnd(k, e)
    BY <1>3 DEF UseEnd
  <1>4. CASE \E c \in Clients : Continue(c) /\ UNCHANGED hub
    BY <1>4
  <1>5. CASE Dispose \/ UNCHANGED hubVars
    BY <1>5 DEF hubVars
  <1>6. QED
    BY <1>1, <1>2, <1>3, <1>4, <1>5 DEF HubNext

\* A step of the hub is one of its storage, or changes none of its variables.
LEMMA HubNextIsStorageNext == CallInv /\ [HubNext]_hubVars => [Next]_vars
  BY HubNextIsClientStep DEF Next

\* No step but the calls of the hub begins to open an end.
LEMMA NothingOpens ==
    ASSUME TypeInv, NEW c \in Clients, Call(c) \/ Continue(c), NEW d \in Clients, Opening(d)'
    PROVE  Opening(d) /\ (pc'[d] = "exists" <=> pc[d] = "exists")
  <1> USE DEF TypeInv, TypeOK, Opening, At, Goto, Leave, Finish
  <1>1. CASE \E n \in {0, 1} : Write(c, n)
    BY <1>1 DEF Write
  <1>2. CASE (\E e \in ForwardedErrors : Close(c, e)) \/ CloseRejected(c) \/ CloseReader(c)
    BY <1>2 DEF Close, CloseRejected, CloseReader
  <1>3. CASE ReadAt(c)
    BY <1>3 DEF ReadAt
  <1>4. CASE RegisterTopic(c) \/ UndoCreate(c) \/ Retain(c)
    BY <1>4 DEF RegisterTopic, UndoCreate, Retain
  <1>5. CASE SendNotification(c) \/ CloseTopic(c)
    BY <1>5 DEF SendNotification, CloseTopic
  <1>6. CASE DropReference(c) \/ Release(c) \/ CheckExists(c) \/ OnNotify(c)
    BY <1>6 DEF DropReference, Release, CheckExists, OnNotify
  <1>7. QED
    BY <1>1, <1>2, <1>3, <1>4, <1>5, <1>6 DEF Call, Continue

----------------------------------------------------------------------------
(* The invariant                                                           *)

\* At first no call is under way.
LEMMA HubInvInit == HubInit => HubInv
  <1> SUFFICES ASSUME HubInit PROVE HubInv
    OBVIOUS
  <1>1. TypeInv
    BY TypeInvInit DEF HubInit
  <1>2. CallInv /\ LockInv
    BY DEF HubInit, CallInv, LockInv, CallLabels, WriteLabels
  <1>3. EndInv
    BY DEF HubInit, Init, EndInv, Opening
  <1>4. QED
    BY <1>1, <1>2, <1>3 DEF HubInv

\* A call begins: nobody else holds the lock it takes.
LEMMA CallBegins ==
    ASSUME HubInv, NEW k \in Callers, NEW s \in Streams,
           GetOrCreateStream(k, s) \/ CreateStream(k, s) \/ GetStreamOutput(k, s)
    PROVE  CallInv' /\ LockInv' /\ EndInv'
  <1> USE DEF HubInv, CallInv, CallAt
  <1>1. PICK l \in CallLabels \ {"idle"} :
           /\ call[k] = "idle"
           /\ call' = [call EXCEPT ![k] = l]
           /\ target' = [target EXCEPT ![k] = s]
           /\ UNCHANGED <<vars, creators>>
           /\ l \in {"output", "outputting"} => SaveOf(k) \in Clients
           /\ ~ WriteLocked
           /\ l \in WriteLabels => ~ ReadLocked
    BY DEF GetOrCreateStream, CreateStream, GetStreamOutput, LockForCreation,
           CallLabels, WriteLabels
  <1>2. CallInv'
    BY <1>1 DEF CallLabels, SaveOf
  <1>3. LockInv'
    <2>1. \A j \in Callers : call[j] \notin WriteLabels
      BY <1>1 DEF WriteLocked
    <2>2. l \in WriteLabels => \A j \in Callers : call[j] = "idle"
      BY <1>1, <2>1 DEF ReadLocked, WriteLabels, CallLabels
    <2>3. QED
      BY <1>1, <2>1, <2>2 DEF LockInv
  <1>4. EndInv'
    BY <1>1 DEF EndInv, Opening, vars, client
  <1>5. QED
    BY <1>2, <1>3, <1>4

\* A call goes on, or returns: it held the lock it goes on with.
LEMMA CallGoesOn ==
    ASSUME HubInv, NEW k \in Callers, HubStep(k)
    PROVE  CallInv' /\ LockInv' /\ (\A j \in Callers \ {k} : call'[j] = call[j])
  <1> USE DEF HubInv, CallInv
  <1>1. PICK l \in CallLabels :
           /\ call[k] # "idle"
           /\ call' = [call EXCEPT ![k] = l]
           /\ target' = target \/ (l = "idle" /\ target' = [target EXCEPT ![k] = NoStream])
           /\ creators' \in SUBSET Callers
           /\ l \in WriteLabels => call[k] \in WriteLabels
           /\ l \in {"output", "outputting"} => call[k] \in {"output", "outputting"}
    <2> USE DEF CallAt, Proceed, Return, CallLabels, WriteLabels
    <2>1. CASE TryCreate(k) \/ TryCreateOnly(k)
      BY <2>1 DEF TryCreate, TryCreateOnly, StartCreate
    <2>2. CASE GiveUp(k) \/ InputClosed(k) \/ ReturnSaveOutput(k)
      BY <2>2 DEF GiveUp, InputClosed, ReturnSaveOutput
    <2>3. CASE GetOutput(k) \/ GetSaveOutput(k)
      BY <2>3 DEF GetOutput, GetSaveOutput
    <2>4. CASE ReturnStream(k) \/ ReturnError(k)
      BY <2>4 DEF ReturnStream, ReturnError
    <2>5. QED
      BY <2>1, <2>2, <2>3, <2>4 DEF HubStep
  <1>2. CallInv'
    BY <1>1 DEF SaveOf
  <1>3. LockInv'
    BY <1>1 DEF LockInv, WriteLabels
  <1>4. QED
    BY <1>1, <1>2, <1>3

\* Which end of the caller a step of its call opens, and which it leaves.
LEMMA EndOpens ==
    ASSUME HubInv, NEW k \in Callers, HubStep(k)
    PROVE  EndInv'
  <1> USE DEF HubInv
  <1>0. /\ pc \in [Clients -> Labels]
        /\ call \in [Callers -> CallLabels]
        /\ InputOf(k) \in Clients /\ OutputOf(k) \in Clients
        /\ \A j \in Callers : <<j, "in">> \in Clients /\ <<j, "out">> \in Clients
    BY EndsAreClients DEF TypeInv, TypeOK, CallInv, InputOf, OutputOf
  <1>1. CASE TryCreate(k) \/ StartCreate(k, "createOnly", "creatingOnly", "creatingOnly")
    <2>1. CASE UNCHANGED vars
      BY <1>0, <1>1, <2>1 DEF EndInv, Opening, vars, client, TryCreate, StartCreate, CallAt,
         Proceed
    <2>2. CASE CreateResource(InputOf(k), target[k])
      <3>1. /\ pc' = [pc EXCEPT ![<<k, "in">>] = "register"]
            /\ call[k] \in {"create", "createOnly"}
            /\ \/ call' = [call EXCEPT ![k] = "creating"]
               \/ call' = [call EXCEPT ![k] = "creatingOnly"]
               \/ call' = [call EXCEPT ![k] = "attach"] /\ Exists(target[k])
        BY <1>1, <2>2 DEF TryCreate, StartCreate, CallAt, Proceed, CreateResource, Enter,
           InputOf
      <3>2. ~ Exists(target[k])
        BY <2>2 DEF CreateResource
      <3>3. QED
        BY <1>0, <3>1, <3>2 DEF EndInv, Opening
    <2>3. QED
      BY <1>1, <2>1, <2>2 DEF TryCreate, StartCreate
  <1>2. CASE GetOutput(k)
    <2>1. /\ pc' = [pc EXCEPT ![<<k, "out">>] = "exists"]
          /\ call' = [call EXCEPT ![k] = "attaching"]
          /\ call[k] \in {"attach", "creating"}
          /\ call[k] = "creating" => ~ Opening(<<k, "in">>)
      BY <1>2 DEF GetOutput, CallAt, Proceed, GetStreamReader, Enter, OutputOf, InputOf, Created,
         Opening
    <2>2. QED
      BY <1>0, <2>1 DEF EndInv, Opening
  <1>3. CASE GetSaveOutput(k)
    <2>1. /\ pc' = [pc EXCEPT ![<<k, "save">>] = "exists"]
          /\ call' = [call EXCEPT ![k] = "outputting"]
          /\ call[k] = "output"
      BY <1>3 DEF GetSaveOutput, CallAt, Proceed, GetStreamReader, Enter, SaveOf
    <2>2. QED
      BY <1>0, <2>1 DEF EndInv, Opening
  <1>4. CASE ReturnError(k)
    <2>1. CASE At(InputOf(k), "writing") /\ Proceed(k, "closing")
      <3>1. /\ \A d \in Clients : Opening(d)' => Opening(d) /\ pc'[d] = pc[d]
            /\ call' = [call EXCEPT ![k] = "closing"]
            /\ call[k] = "attaching" /\ pc[OutputOf(k)] = "idle"
        BY <1>0, <1>4, <2>1 DEF ReturnError, Close, CloseRejected, Leave, Goto, At, CallAt,
           Proceed, Opening
      <3>2. QED
        BY <1>0, <3>1 DEF EndInv, Opening, OutputOf
    <2>2. CASE Return(k) /\ UNCHANGED vars
      BY <1>0, <1>4, <2>2 DEF EndInv, Opening, vars, client, ReturnError, Return, CallAt, At,
         OutputOf
    <2>3. QED
      BY <1>4, <2>1, <2>2 DEF ReturnError
  <1>5. CASE GiveUp(k) \/ ReturnStream(k) \/ InputClosed(k) \/ ReturnSaveOutput(k)
             \/ (CallAt(k, "creatingOnly") /\ Created(k) /\ Return(k) /\ UNCHANGED vars)
    <2>1. /\ UNCHANGED pc
          /\ call' = [call EXCEPT ![k] = "idle"]
      BY <1>5 DEF GiveUp, ReturnStream, InputClosed, ReturnSaveOutput, Return, vars, client
    <2>2. \A e \in Ends : <<k, e>> \in Clients => ~ Opening(<<k, e>>)
      BY <1>0, <1>5 DEF EndInv, Opening, GiveUp, ReturnStream, InputClosed, ReturnSaveOutput,
         CallAt, At, OutputOf, SaveOf, Created, InputOf
    <2>3. QED
      BY <1>0, <2>1, <2>2 DEF EndInv, Opening
  <1>6. QED
    BY <1>1, <1>2, <1>3, <1>4, <1>5 DEF HubStep, TryCreateOnly

\* A step that opens nothing and leaves the calls alone.
LEMMA NothingBegins ==
    ASSUME HubInv, UNCHANGED hub,
           \A d \in Clients :
              Opening(d)' => Opening(d) /\ (pc'[d] = "exists" <=> pc[d] = "exists")
    PROVE  CallInv' /\ LockInv' /\ EndInv'
  BY DEF HubInv, hub, CallInv, LockInv, EndInv, SaveOf

\* Every step of the hub keeps what it knows of its calls and of the lock.
LEMMA HubInvStep == HubInv /\ [HubNext]_hubVars => HubInv'
  <1> SUFFICES ASSUME HubInv, [HubNext]_hubVars PROVE HubInv'
    OBVIOUS
  <1>1. TypeInv'
    BY HubNextIsStorageNext, TypeInvStep DEF HubInv
  <1>2. CASE \E k \in Callers, s \in Streams :
                GetOrCreateStream(k, s) \/ CreateStream(k, s) \/ GetStreamOutput(k, s)
    BY <1>1, <1>2, CallBegins DEF HubInv
  <1>3. CASE \E k \in Callers : HubStep(k)
    BY <1>1, <1>3, CallGoesOn, EndOpens DEF HubInv
  <1>4. CASE \E c \in Clients : (Call(c) \/ Continue(c)) /\ UNCHANGED hub
    BY <1>1, <1>4, NothingOpens, NothingBegins DEF HubInv
  <1>5. CASE (Dispose /\ UNCHANGED hub) \/ UNCHANGED hubVars
    <2>1. UNCHANGED pc /\ UNCHANGED hub
      BY <1>5 DEF Dispose, hubVars, vars, client
    <2>2. QED
      BY <1>1, <2>1, NothingBegins DEF HubInv, Opening
  <1>6. CASE \E k \in Callers, e \in Ends : UseEnd(k, e)
    BY <1>4, <1>6 DEF UseEnd
  <1>7. QED
    BY <1>2, <1>3, <1>4, <1>5, <1>6 DEF HubNext

\* The invariant of the calls and of the lock holds in every reachable state.
LEMMA HubInvariant == HubSpec => []HubInv
  BY HubInvInit, HubInvStep, PTL DEF HubSpec

----------------------------------------------------------------------------
(***************************************************************************)
(* The hub is a use of the storage (data_hub.go calls nothing but          *)
(* StorageAdapter), so every theorem about Storage holds of it.            *)
(***************************************************************************)
THEOREM HubImplementsStorage == HubSpec => Spec
  <1>1. HubInit => Init
    BY DEF HubInit
  <1>2. HubInv /\ [HubNext]_hubVars => [Next]_vars
    BY HubNextIsStorageNext DEF HubInv
  <1>3. QED
    BY <1>1, <1>2, HubInvariant, PTL DEF HubSpec, Spec

\* The hub's own variables and those of the storage have their types.
THEOREM HubTypes == HubSpec => []HubTypeOK
  <1>1. HubInv => HubTypeOK
    BY DEF HubInv, TypeInv, CallInv, HubTypeOK
  <1>2. QED
    BY <1>1, HubInvariant, PTL

(***************************************************************************)
(* While a stream is created nobody else creates one or attaches to one    *)
(* (data_hub.go:49): the end that is being opened tells which call holds   *)
(* the lock, and that call is the only one.                                *)
(***************************************************************************)
THEOREM CreationsSerialHolds == HubSpec => []CreationsSerial
  <1>1. HubInv => CreationsSerial
    <2> SUFFICES ASSUME HubInv, NEW c \in Clients, NEW d \in Clients,
                        pc[c] \in {"register", "undo", "retain"},
                        pc[d] \in {"register", "undo", "retain", "exists"}
                 PROVE  c = d
      BY DEF CreationsSerial
    <2>1. PICK k \in Callers, e \in Ends : c = <<k, e>>
      BY EndsAreClients
    <2>2. PICK j \in Callers, f \in Ends : d = <<j, f>>
      BY EndsAreClients
    <2>3. e = "in" /\ call[k] \in {"creating", "creatingOnly"}
      BY <2>1 DEF HubInv, EndInv, Opening
    <2>4. IF pc[d] = "exists"
          THEN <<f, call[j]>> \in {<<"out", "attaching">>, <<"save", "outputting">>}
          ELSE f = "in" /\ call[j] \in {"creating", "creatingOnly"}
      BY <2>2 DEF HubInv, EndInv, Opening
    <2>5. k = j
      BY <2>3, <2>4 DEF HubInv, LockInv, WriteLabels, CallLabels
    <2>6. QED
      BY <2>1, <2>2, <2>3, <2>4, <2>5
  <1>2. QED
    BY <1>1, HubInvariant, PTL

----------------------------------------------------------------------------
(***************************************************************************)
(* Whoever waits has a writer.  This is claimed for one life of a stream,  *)
(* used as the proxy does, and for any number of lives if nobody attaches  *)
(* to a stream that its holders have left: a resource that is disposed     *)
(* under its writer, or a stream that is released before it is created,    *)
(* breaks it.                                                              *)
(***************************************************************************)
OneLife == MaxBirths = 1 /\ CallsAsProxy

(***************************************************************************)
(* A reader comes only while somebody holds the stream.  This is what the  *)
(* code does not see to: GetStreamReader (storage.go:91) counts a reader   *)
(* before it looks for the resource, whoever has left it before.           *)
(***************************************************************************)
NobodyLate ==
    \A c \in Clients, s \in Streams : GetStreamReader(c, s) => readers[s] > 0

\* On its way from Create to Close.
Creator(c) == pc[c] \in {"register", "retain", "writing", "notify", "closeTopic"}

\* Nobody has to do with a stream before it is created.
Untouched ==
    \A s \in Streams : births[s] = 0 =>
        ~ Exists(s) /\ disposing # s /\ \A d \in Clients : stream[d] # s

\* Nobody has to do with a stream that may be created.
Forgotten ==
    \A s \in Streams : ~ Exists(s) /\ births[s] < MaxBirths =>
        disposing # s /\ \A d \in Clients : stream[d] # s

\* A call that looks for a reader finds a stream that was created.
KnownTarget ==
    \A k \in Callers :
        call[k] \notin {"idle", "create", "createOnly"} => births[target[k]] # 0

\* Until its writer is counted nobody else has come to a stream.
CreatedAlone ==
    \A c, d \in Clients :
        pc[c] \in {"register", "retain"} /\ stream[d] = stream[c] => c = d

\* No creation meets the topic of another one.
NothingUndone == \A c \in Clients : pc[c] # "undo"

\* A stream that is released has no writer any more.
ReleasedAfterClose ==
    \A c \in Clients : Creator(c) =>
        /\ disposing # stream[c]
        /\ \A d \in Clients : pc[d] = "releasing" => stream[d] # stream[c]

\* And so a writer finds its resource until it has closed it.
WritersWrite ==
    \A c \in Clients : Creator(c) /\ pc[c] # "closeTopic" => Writable(stream[c])

TopicHasWriter ==
    \A s \in Streams : topics[s] # Absent =>
        \E w \in Clients : Writer(w) /\ stream[w] = s

StoreLife ==
    /\ Untouched
    /\ Forgotten
    /\ CreatedAlone
    /\ NothingUndone
    /\ ReleasedAfterClose
    /\ WritersWrite
    /\ TopicHasWriter

LifeInv == HubInv /\ WriterInv /\ CountInv /\ StoreLife

\* A reader may come to s: it is there, or will not be created any more.
Attachable(s) == births[s] # 0 /\ (Exists(s) \/ births[s] = MaxBirths)

(***************************************************************************)
(* What the life of the streams needs of a step.  Both claims provide it:  *)
(* in one life the streams that were created are attachable, and whoever   *)
(* comes in time finds the stream and keeps it from being disposed.        *)
(***************************************************************************)
InOrder ==
    /\ \A k \in Callers : GetOutput(k) \/ GetSaveOutput(k) => Attachable(target[k])
    /\ Dispose => \/ births[disposing] = MaxBirths
                  \/ \A d \in Clients : stream[d] # disposing

\* At first there are no streams, so none has been released.
LEMMA LifeInvInit == HubInit => LifeInv
  <1> SUFFICES ASSUME HubInit PROVE LifeInv
    OBVIOUS
  <1>1. HubInv /\ WriterInv /\ CountInv
    BY HubInvInit, WriterInvInit, CountInvInit DEF HubInit
  <1>2. StoreLife
    BY StreamsAssumption
       DEF HubInit, Init, StoreLife, Untouched, Forgotten, CreatedAlone, NothingUndone,
           ReleasedAfterClose, WritersWrite, TopicHasWriter, Creator, Exists
  <1>3. QED
    BY <1>1, <1>2 DEF LifeInv

\* The last reference of a stream is not dropped while it has a writer.
LEMMA WriterHolds ==
    ASSUME LifeInv, NEW c \in Clients, At(c, "drop"), readers[stream[c]] = 1,
           NEW d \in Clients, Creator(d)
    PROVE  stream[d] # stream[c]
  <1> SUFFICES ASSUME stream[d] = stream[c] PROVE FALSE
    OBVIOUS
  <1> DEFINE s == stream[c]
  <1>0. /\ s \in Streams
        /\ c # d
    BY DEF LifeInv, CountInv, TypeInv, TypeOK, Fitting, At, Creator
  <1>1. CASE pc[d] \in {"register", "retain"}
    BY <1>0, <1>1 DEF LifeInv, StoreLife, CreatedAlone
  <1>2. CASE pc[d] \in {"writing", "notify", "closeTopic"}
    <2>1. {c, d} \subseteq Holders(s)
      BY <1>2 DEF Holders, At
    <2>2. IsFiniteSet({c}) /\ Cardinality({c}) = 1
      BY FS_Singleton
    <2>3. Cardinality({c} \cup {d}) = 2
      BY <2>2, <1>0, FS_AddElement
    <2>4. {c} \cup {d} = {c, d}
      OBVIOUS
    <2>5. Cardinality(Holders(s)) >= 2 /\ Cardinality(Holders(s)) \in Nat
      BY <1>0, <2>1, <2>3, <2>4, HoldersFinite, FS_Subset
    <2>6. readers[s] >= Cardinality(Holders(s))
      BY <1>0 DEF LifeInv, CountInv, CountCoversHolders
    <2>7. QED
      BY <2>5, <2>6
  <1>3. QED
    BY <1>1, <1>2 DEF Creator

(***************************************************************************)
(* A step after which nobody is more of a creator than before, the         *)
(* resources that have a writer are as they were, and whatever is released *)
(* was so or has no writer.                                                *)
(***************************************************************************)
LEMMA LifeFrame ==
    ASSUME LifeInv, TypeInv', UNCHANGED births,
           \A s \in Streams : births[s] = 0 => ~ Exists(s)',
           \A d \in Clients : stream'[d] \in {stream[d], NoStream},
           \A d \in Clients : Creator(d)' => Creator(d),
           \A d \in Clients : pc'[d] \in {"register", "retain", "undo"} => pc'[d] = pc[d]
                                \/ (pc'[d] = "retain" /\ pc[d] = "register"),
           \A d \in Clients : pc'[d] # "closeTopic" /\ Creator(d)' =>
                                pc[d] # "closeTopic" /\ Writable(stream[d])',
           \A d \in Clients : Creator(d) =>
                /\ disposing' # stream[d]
                /\ \A c \in Clients : pc'[c] = "releasing" => stream[c] # stream[d],
           \A s \in Streams : births[s] = 0 => disposing' # s,
           \A s \in Streams : ~ Exists(s)' /\ births[s] < MaxBirths =>
                disposing' # s /\ \A d \in Clients : stream[d] # s
    PROVE  Untouched' /\ Forgotten' /\ CreatedAlone' /\ NothingUndone' /\ ReleasedAfterClose'
             /\ WritersWrite'
  <1>0. \A d \in Clients : Creator(d)' => stream'[d] = stream[d] /\ stream[d] \in Streams
    BY StreamsAssumption DEF TypeInv, TypeOK, Fitting, Creator
  <1>1. Untouched' /\ Forgotten'
    BY StreamsAssumption DEF LifeInv, StoreLife, Untouched, Forgotten
  <1>2. CreatedAlone'
    BY <1>0, StreamsAssumption DEF LifeInv, StoreLife, CreatedAlone, Creator
  <1>3. NothingUndone'
    BY DEF LifeInv, StoreLife, NothingUndone
  <1>4. ReleasedAfterClose'
    BY <1>0, StreamsAssumption DEF ReleasedAfterClose
  <1>5. WritersWrite'
    BY <1>0 DEF WritersWrite, Writable, Exists
  <1>6. QED
    BY <1>1, <1>2, <1>3, <1>4, <1>5

\* A writer stays one unless it closes its topic.
LEMMA TopicFrame ==
    ASSUME LifeInv,
           \A s \in Streams : topics'[s] # Absent => topics[s] # Absent,
           \A w \in Clients : Writer(w) =>
              \/ Writer(w)' /\ stream'[w] = stream[w]
              \/ topics'[stream[w]] = Absent
    PROVE  TopicHasWriter'
  BY DEF LifeInv, StoreLife, TopicHasWriter

\* Listeners that are answered were no creators and are none.
LEMMA WokenRead ==
    ASSUME LifeInv, NEW s \in Streams, NEW d \in Listeners(s)
    PROVE  pc[d] = "waiting"
  BY DEF LifeInv, HubInv, TypeInv, TypeOK, ListenersWait, Listeners

\* A creation goes on: its stream is new and nobody else's.
LEMMA CreateLives ==
    ASSUME LifeInv, NEW c \in Clients, RegisterTopic(c) \/ UndoCreate(c) \/ Retain(c), TypeInv'
    PROVE  StoreLife'
  <1> USE DEF LifeInv, TypeInv, TypeOK, At, Goto
  <1>1. CASE RegisterTopic(c)
    <2>1. stream[c] \in Streams
      BY <1>1 DEF RegisterTopic, Fitting
    <2>2. topics[stream[c]] = Absent
      <3> SUFFICES ASSUME topics[stream[c]] # Absent PROVE FALSE
        OBVIOUS
      <3>1. PICK w \in Clients : Writer(w) /\ stream[w] = stream[c]
        BY <2>1 DEF StoreLife, TopicHasWriter
      <3>2. pc[c] = "register"
        BY <1>1 DEF RegisterTopic
      <3>3. c = w
        BY <3>1, <3>2 DEF StoreLife, CreatedAlone
      <3>4. QED
        BY <3>1, <3>2, <3>3 DEF Writer
    <2>3. /\ pc' = [pc EXCEPT ![c] = "retain"]
          /\ topics' = [topics EXCEPT ![stream[c]] = {}]
          /\ UNCHANGED <<resources, disposing, births, stream>>
      BY <1>1, <2>2 DEF RegisterTopic
    <2>4. Untouched' /\ Forgotten' /\ CreatedAlone' /\ NothingUndone' /\ ReleasedAfterClose'
             /\ WritersWrite'
      <3>1. pc[c] = "register"
        BY <1>1 DEF RegisterTopic
      <3>2. Untouched' /\ Forgotten' /\ NothingUndone'
        BY <2>3, <3>1 DEF StoreLife, Untouched, Forgotten, NothingUndone, Exists
      <3>3. CreatedAlone'
        BY <2>3, <3>1 DEF StoreLife, CreatedAlone
      <3>4. ReleasedAfterClose'
        BY <2>3, <3>1 DEF StoreLife, ReleasedAfterClose, Creator
      <3>5. WritersWrite'
        BY <2>3, <3>1 DEF StoreLife, WritersWrite, Creator, Exists, Writable
      <3>6. QED
        BY <3>2, <3>3, <3>4, <3>5
    <2>5. TopicHasWriter'
      <3> SUFFICES ASSUME NEW s \in Streams, topics'[s] # Absent
                   PROVE  \E w \in Clients : Writer(w)' /\ stream'[w] = s
        BY DEF TopicHasWriter
      <3>1. CASE s = stream[c]
        BY <2>3, <3>1 DEF Writer
      <3>2. CASE s # stream[c]
        <4>1. PICK w \in Clients : Writer(w) /\ stream[w] = s
          BY <2>3, <3>2 DEF StoreLife, TopicHasWriter
        <4>2. QED
          BY <2>3, <4>1 DEF Writer
      <3>3. QED
        BY <3>1, <3>2
    <2>6. QED
      BY <2>4, <2>5 DEF StoreLife
  <1>2. CASE UndoCreate(c)
    BY <1>2 DEF UndoCreate, StoreLife, NothingUndone
  <1>3. CASE Retain(c)
    <2>1. /\ pc[c] = "retain" /\ pc' = [pc EXCEPT ![c] = "writing"]
          /\ UNCHANGED <<resources, disposing, births, stream, topics>>
      BY <1>3 DEF Retain
    <2>2. Untouched' /\ Forgotten' /\ CreatedAlone' /\ NothingUndone' /\ ReleasedAfterClose'
             /\ WritersWrite'
      BY <2>1 DEF StoreLife, Untouched, Forgotten, CreatedAlone, NothingUndone,
         ReleasedAfterClose, WritersWrite, Creator, Exists, Writable
    <2>3. TopicHasWriter'
      BY <2>1, TopicFrame DEF Writer
    <2>4. QED
      BY <2>2, <2>3 DEF StoreLife
  <1>4. QED
    BY <1>1, <1>2, <1>3

\* A Write finds its resource, and its notification keeps the topic.
LEMMA WriteLives ==
    ASSUME LifeInv, NEW c \in Clients, TypeInv',
           (\E n \in {0, 1} : Write(c, n)) \/ SendNotification(c)
    PROVE  StoreLife'
  <1> USE DEF LifeInv, TypeInv, TypeOK, At, Goto
  <1>0. stream[c] \in Streams /\ TypeInv
    BY DEF HubInv, Fitting, Write, SendNotification
  <1>1. /\ UNCHANGED <<disposing, births, stream>>
        /\ \A s \in Streams : topics'[s] # Absent => topics[s] # Absent
        /\ \A s \in Streams : Writable(s) => Writable(s)'
        /\ \A s \in Streams : Exists(s)' <=> Exists(s)
    <2>1. ASSUME NEW n \in {0, 1}, Write(c, n)
          PROVE  /\ UNCHANGED <<disposing, births, stream, topics>>
                 /\ \A s \in Streams : Writable(s) => Writable(s)'
                 /\ \A s \in Streams : Exists(s)' <=> Exists(s)
      <3>1. /\ UNCHANGED <<disposing, births, stream, topics>>
            /\ Writable(stream[c])
        BY <2>1 DEF Write
      <3>2. CASE n = 0
        BY <2>1, <3>1, <3>2 DEF Write, Writable, Exists
      <3>3. CASE n = 1
        <4> DEFINE r == resources[stream[c]]
        <4>1. r \in Resource /\ ~ r.closed
          BY <1>0, <3>1 DEF Writable, Exists
        <4>2. resources' = [resources EXCEPT ![stream[c]] =
                              [r EXCEPT !.data = Append(@, tag[c])]]
          BY <1>0, <2>1, <3>1, <3>3 DEF Write
        <4>3. Append(r.data, tag[c]) \in Seq(Tags)
          BY <1>0, <4>1 DEF Resource
        <4>4. resources'[stream[c]] = [r EXCEPT !.data = Append(r.data, tag[c])]
          BY <1>0, <4>2
        <4>5. Writable(stream[c])'
          <5>1. [r EXCEPT !.data = Append(r.data, tag[c])] \in Resource
            BY <4>1, <4>3 DEF Resource
          <5>2. [r EXCEPT !.data = Append(r.data, tag[c])].closed = r.closed
            BY <4>1 DEF Resource
          <5>3. QED
            BY <3>1, <4>1, <4>4, <5>1, <5>2, AbsentAssumption DEF Writable, Exists
        <4>6. QED
          BY <1>0, <3>1, <4>2, <4>5 DEF Writable, Exists
      <3>4. QED
        BY <3>2, <3>3, <3>1
    <2>2. CASE SendNotification(c)
      BY <1>0, <2>2 DEF SendNotification, Writable, Exists
    <2>3. QED
      BY <2>1, <2>2
  <1>2. \A d \in Clients :
           \/ pc'[d] = pc[d]
           \/ pc[d] \in {"writing", "notify"} /\ pc'[d] \in {"writing", "notify"}
           \/ pc[d] = "waiting" /\ pc'[d] = "retry"
    BY <1>0, WokenRead DEF Write, SendNotification
  <1>3. Untouched' /\ Forgotten' /\ CreatedAlone' /\ NothingUndone' /\ ReleasedAfterClose'
    <2>1. Untouched' /\ Forgotten'
      BY <1>1 DEF StoreLife, Untouched, Forgotten
    <2>2. CreatedAlone' /\ NothingUndone'
      BY <1>1, <1>2 DEF StoreLife, CreatedAlone, NothingUndone
    <2>3. ReleasedAfterClose'
      BY <1>1, <1>2 DEF StoreLife, ReleasedAfterClose, Creator
    <2>4. QED
      BY <2>1, <2>2, <2>3
  <1>4. WritersWrite'
    <2> SUFFICES ASSUME NEW d \in Clients, Creator(d)', pc'[d] # "closeTopic"
                 PROVE  Writable(stream[d])'
      BY <1>1 DEF WritersWrite
    <2>1. Creator(d) /\ pc[d] # "closeTopic"
      BY <1>2 DEF Creator
    <2>2. stream[d] \in Streams /\ stream'[d] = stream[d]
      BY <1>1, <2>1 DEF Creator, Fitting
    <2>3. Writable(stream[d])
      BY <2>1 DEF StoreLife, WritersWrite
    <2>4. QED
      BY <1>1, <2>2, <2>3 DEF Writable, Exists
  <1>5. TopicHasWriter'
    BY <1>1, <1>2, TopicFrame DEF Writer
  <1>6. QED
    BY <1>3, <1>4, <1>5 DEF StoreLife

\* The writer closes its resource, and only then its topic.
LEMMA CloseLives ==
    ASSUME LifeInv, NEW c \in Clients, TypeInv',
           (\E e \in ForwardedErrors : Close(c, e)) \/ CloseRejected(c) \/ CloseTopic(c)
    PROVE  StoreLife'
  <1> USE DEF At, Goto
  <1>0. /\ TypeInv /\ TypeOK
        /\ stream[c] \in Streams
    BY DEF LifeInv, HubInv, TypeInv, TypeOK, Fitting, Close, CloseRejected, CloseTopic
  <1>1. ASSUME NEW e \in ForwardedErrors, Close(c, e) PROVE StoreLife'
    <2>1. /\ pc[c] = "writing" /\ pc' = [pc EXCEPT ![c] = "closeTopic"]
          /\ \A s \in Streams \ {stream[c]} : resources'[s] = resources[s]
          /\ Exists(stream[c])
          /\ UNCHANGED <<topics, disposing, births, stream>>
      <3>1. pc[c] = "writing" /\ pc' = [pc EXCEPT ![c] = "closeTopic"] /\ Exists(stream[c])
            /\ UNCHANGED <<topics, disposing, births, stream>>
        BY <1>1 DEF Close, Writable
      <3>2. \A s \in Streams \ {stream[c]} : resources'[s] = resources[s]
        <4>1. resources \in [Streams -> {Absent} \cup Resource]
          BY <1>0 DEF TypeOK
        <4>2. QED
          BY <1>0, <1>1, <4>1 DEF Close
      <3>3. QED
        BY <3>1, <3>2
    <2>2. \A d \in Clients \ {c} : Creator(d) => stream[d] # stream[c]
      BY <2>1 DEF LifeInv, StoreLife, CreatedAlone, WriterInv, SingleWriter, Writer, Creator
    <2>3. \A d \in Clients :
             pc'[d] # "closeTopic" /\ Creator(d)' =>
                d # c /\ pc[d] # "closeTopic" /\ Writable(stream[d])'
      <3> SUFFICES ASSUME NEW d \in Clients, pc'[d] # "closeTopic", Creator(d)'
                   PROVE  d # c /\ pc[d] # "closeTopic" /\ Writable(stream[d])'
        OBVIOUS
      <3>1. d # c /\ pc'[d] = pc[d] /\ Creator(d) /\ stream[d] \in Streams
        BY <1>0, <2>1 DEF TypeOK, Fitting, Creator
      <3>2. Writable(stream[d]) /\ stream[d] # stream[c]
        BY <2>2, <3>1 DEF LifeInv, StoreLife, WritersWrite
      <3>3. QED
        BY <2>1, <3>1, <3>2 DEF Writable, Exists
    <2>4. /\ \A s \in Streams : births[s] = 0 => ~ Exists(s)'
          /\ \A s \in Streams : ~ Exists(s)' => ~ Exists(s)
      <3>1. \A s \in Streams : births[s] = 0 => ~ Exists(s)'
        BY <1>0, <2>1 DEF LifeInv, StoreLife, Untouched, Exists
      <3>2. Exists(stream[c])'
        <4> DEFINE r == resources[stream[c]]
        <4>1. r \in Resource
          BY <1>0, <2>1 DEF TypeOK, Exists
        <4>2. resources'[stream[c]] = [r EXCEPT !.closed = TRUE, !.errorToForward = e]
          <5>1. resources \in [Streams -> {Absent} \cup Resource]
            BY <1>0 DEF TypeOK
          <5>2. QED
            BY <1>0, <1>1, <5>1 DEF Close
        <4>3. resources'[stream[c]] \in Resource
          BY <4>1, <4>2, <1>1 DEF Resource
        <4>4. QED
          BY <1>0, <2>1, <4>3, AbsentAssumption DEF Exists
      <3>3. QED
        BY <2>1, <3>1, <3>2 DEF Exists
    <2>5. Untouched' /\ Forgotten' /\ CreatedAlone' /\ NothingUndone' /\ ReleasedAfterClose'
             /\ WritersWrite'
      BY <1>0, <2>1, <2>3, <2>4, LifeFrame
         DEF TypeOK, Creator, LifeInv, StoreLife, ReleasedAfterClose, Untouched, Forgotten
    <2>6. TopicHasWriter'
      BY <1>0, <2>1, TopicFrame DEF Writer, TypeOK
    <2>7. QED
      BY <2>5, <2>6 DEF StoreLife
  <1>2. CASE CloseRejected(c)
    BY <1>2 DEF CloseRejected, LifeInv, StoreLife, WritersWrite, Creator
  <1>3. CASE CloseTopic(c)
    <2>1. /\ pc[c] = "closeTopic" /\ pc'[c] = "drop"
          /\ topics' = [topics EXCEPT ![stream[c]] = Absent]
          /\ UNCHANGED <<resources, disposing, births, stream>>
      BY <1>0, <1>3 DEF CloseTopic, TypeOK
    <2>2. \A d \in Clients \ {c} :
             pc'[d] = pc[d] \/ (pc[d] = "waiting" /\ pc'[d] \in {"retry", "finished"})
      BY <1>0, <1>3, WokenRead DEF CloseTopic
    <2>3. Untouched' /\ Forgotten' /\ CreatedAlone' /\ NothingUndone' /\ ReleasedAfterClose'
             /\ WritersWrite'
      BY <1>0, <2>1, <2>2, LifeFrame
         DEF Creator, LifeInv, StoreLife, ReleasedAfterClose, WritersWrite, Untouched,
             Forgotten, Exists, Writable
    <2>4. TopicHasWriter'
      BY <1>0, <2>1, <2>2, TopicFrame DEF Writer, TypeOK
    <2>5. QED
      BY <2>3, <2>4 DEF StoreLife
  <1>4. QED
    BY <1>1, <1>2, <1>3

\* A reference is dropped, and the last one releases the stream.
LEMMA DropLives ==
    ASSUME LifeInv, NEW c \in Clients, TypeInv', DropReference(c) \/ Release(c)
    PROVE  StoreLife'
  <1> USE DEF At, Goto
  <1>0. /\ TypeInv /\ TypeOK
        /\ stream[c] \in Streams
        /\ ~ Creator(c)
    BY DEF LifeInv, HubInv, TypeInv, TypeOK, Fitting, DropReference, Release, Creator
  <1>1. /\ UNCHANGED <<resources, topics, births>>
        /\ pc'[c] \in {"idle", "releasing"}
        /\ stream'[c] \in {stream[c], NoStream}
        /\ \A d \in Clients \ {c} : pc'[d] = pc[d] /\ stream'[d] = stream[d]
    BY <1>0 DEF DropReference, Release, Leave, TypeOK
  <1>2. \A d \in Clients : Creator(d) =>
           /\ disposing' # stream[d]
           /\ \A b \in Clients : pc'[b] = "releasing" => stream[b] # stream[d]
    <2>1. CASE DropReference(c)
      <3>1. UNCHANGED disposing /\ (pc'[c] = "releasing" => readers[stream[c]] = 1)
        BY <1>0, <2>1 DEF DropReference, Leave, TypeOK
      <3>2. QED
        BY <1>1, <2>1, <3>1, WriterHolds DEF DropReference, LifeInv, StoreLife, ReleasedAfterClose
    <2>2. CASE Release(c)
      BY <1>0, <1>1, <2>2 DEF Release, Leave, LifeInv, StoreLife, ReleasedAfterClose, TypeOK
    <2>3. QED
      BY <2>1, <2>2
  <1>3. \A s \in Streams :
           /\ births[s] = 0 => disposing' # s
           /\ ~ Exists(s) /\ births[s] < MaxBirths => disposing' # s
    BY <1>0 DEF DropReference, Release, LifeInv, StoreLife, Untouched, Forgotten
  <1>4. Untouched' /\ Forgotten' /\ CreatedAlone' /\ NothingUndone' /\ ReleasedAfterClose'
             /\ WritersWrite'
    BY <1>0, <1>1, <1>2, <1>3, LifeFrame
       DEF Creator, LifeInv, StoreLife, WritersWrite, Untouched, Forgotten, Exists, Writable
  <1>5. TopicHasWriter'
    BY <1>0, <1>1, TopicFrame DEF Writer, Creator
  <1>6. QED
    BY <1>4, <1>5 DEF StoreLife

\* A reader looks and waits, and the disposer disposes what nobody writes and,
\* if it may be created again, nobody has to do with.
LEMMA ReadLives ==
    ASSUME LifeInv, TypeInv',
           \/ \E c \in Clients : CheckExists(c) \/ ReadAt(c) \/ OnNotify(c) \/ CloseReader(c)
           \/ Dispose /\ InOrder
    PROVE  StoreLife'
  <1>0. TypeInv /\ TypeOK
    BY DEF LifeInv, HubInv, TypeInv
  <1>1. CASE \E c \in Clients : CheckExists(c) \/ ReadAt(c) \/ OnNotify(c) \/ CloseReader(c)
    <2>1. PICK c \in Clients : CheckExists(c) \/ ReadAt(c) \/ OnNotify(c) \/ CloseReader(c)
      BY <1>1
    <2>2. /\ UNCHANGED <<resources, births, disposing, stream>>
          /\ \A s \in Streams : topics'[s] # Absent => topics[s] # Absent
          /\ ~ Creator(c)
          /\ pc'[c] \in {"open", "drop", "finished", "listen", "retry", "waiting"}
          /\ \A d \in Clients \ {c} : pc'[d] = pc[d]
      BY <1>0, <2>1
         DEF TypeOK, CheckExists, ReadAt, OnNotify, CloseReader, Finish, At, Goto, store, Creator
    <2>3. Untouched' /\ Forgotten' /\ CreatedAlone' /\ NothingUndone' /\ ReleasedAfterClose'
             /\ WritersWrite'
      BY <1>0, <2>2, LifeFrame
         DEF Creator, LifeInv, StoreLife, ReleasedAfterClose, WritersWrite, Untouched,
             Forgotten, Exists, Writable
    <2>4. TopicHasWriter'
      BY <1>0, <2>2, TopicFrame DEF Writer, Creator
    <2>5. QED
      BY <2>3, <2>4 DEF StoreLife
  <1>2. CASE Dispose /\ InOrder
    <2>1. /\ UNCHANGED <<topics, births, pc, stream>>
          /\ disposing \in Streams /\ disposing' = NoStream
          /\ resources'[disposing] = Absent
          /\ \A s \in Streams : s # disposing => resources'[s] = resources[s]
      BY <1>0, <1>2 DEF Dispose, TypeOK, client
    <2>r. \A s \in Streams : ~ Exists(s)' /\ births[s] < MaxBirths =>
             disposing' # s /\ \A d \in Clients : stream[d] # s
      <3>1. births[disposing] < MaxBirths => \A d \in Clients : stream[d] # disposing
        BY <1>2, BoundsAssumption DEF InOrder
      <3>2. QED
        BY <2>1, <3>1, StreamsAssumption DEF LifeInv, StoreLife, Forgotten, Exists
    <2>2. \A d \in Clients : Creator(d) => disposing # stream[d] /\ stream[d] \in Streams
      BY <1>0 DEF LifeInv, StoreLife, ReleasedAfterClose, TypeOK, Fitting, Creator
    <2>3. \A s \in Streams : ~ Exists(s) => ~ Exists(s)'
      BY <2>1 DEF Exists
    <2>4. \A d \in Clients :
             Creator(d) /\ pc[d] # "closeTopic" => Writable(stream[d])'
      BY <2>1, <2>2 DEF LifeInv, StoreLife, WritersWrite, Writable, Exists
    <2>5. Untouched' /\ Forgotten' /\ CreatedAlone' /\ NothingUndone' /\ ReleasedAfterClose'
             /\ WritersWrite'
      BY <1>0, <2>1, <2>r, <2>2, <2>3, <2>4, StreamsAssumption, LifeFrame
         DEF Creator, LifeInv, StoreLife, ReleasedAfterClose, Untouched
    <2>6. TopicHasWriter'
      BY <2>1, TopicFrame DEF Writer
    <2>7. QED
      BY <2>5, <2>6 DEF StoreLife
  <1>3. QED
    BY <1>1, <1>2

\* A reader comes to a stream that was created and has its writer counted.
LEMMA AttachLives ==
    ASSUME LifeInv, NEW c \in Clients, NEW s \in Streams, TypeInv',
           GetStreamReader(c, s), Attachable(s),
           \A d \in Clients : pc[d] \in {"register", "retain"} => stream[d] # s
    PROVE  StoreLife'
  <1>0. TypeInv /\ TypeOK
    BY DEF LifeInv, HubInv, TypeInv
  <1>1. /\ pc[c] = "idle" /\ pc' = [pc EXCEPT ![c] = "exists"]
        /\ stream' = [stream EXCEPT ![c] = s]
        /\ UNCHANGED <<resources, topics, births, disposing>>
    BY DEF GetStreamReader, Enter, At
  <1>2. Untouched' /\ Forgotten' /\ NothingUndone'
    BY <1>0, <1>1, BoundsAssumption
       DEF TypeOK, LifeInv, StoreLife, Untouched, Forgotten, NothingUndone, Exists, Attachable
  <1>3. CreatedAlone'
    BY <1>0, <1>1 DEF TypeOK, LifeInv, StoreLife, CreatedAlone
  <1>4. ReleasedAfterClose'
    BY <1>0, <1>1 DEF TypeOK, LifeInv, StoreLife, ReleasedAfterClose, Creator
  <1>5. WritersWrite'
    BY <1>0, <1>1 DEF TypeOK, LifeInv, StoreLife, WritersWrite, Creator, Writable, Exists
  <1>6. TopicHasWriter'
    BY <1>0, <1>1, TopicFrame DEF TypeOK, Writer
  <1>7. QED
    BY <1>2, <1>3, <1>4, <1>5, <1>6 DEF StoreLife

\* A stream is created where nobody is: everybody has forgotten the last one.
LEMMA BirthLives ==
    ASSUME LifeInv, NEW c \in Clients, NEW s \in Streams, TypeInv',
           CreateResource(c, s)
    PROVE  StoreLife'
  <1>0. TypeInv /\ TypeOK
    BY DEF LifeInv, HubInv, TypeInv
  <1>1. /\ pc[c] = "idle" /\ pc' = [pc EXCEPT ![c] = "register"]
        /\ stream' = [stream EXCEPT ![c] = s]
        /\ resources' = [resources EXCEPT ![s] = NewResource]
        /\ births' = [births EXCEPT ![s] = births[s] + 1]
        /\ UNCHANGED <<topics, disposing>>
    BY DEF CreateResource, Enter, At
  <1>2. births[s] \in Nat /\ births[s] < MaxBirths /\ ~ Exists(s)
    BY <1>0 DEF CreateResource, TypeOK, Tags
  <1>3. disposing # s /\ \A d \in Clients : stream[d] # s
    BY <1>2 DEF LifeInv, StoreLife, Forgotten
  <1>4. births'[s] # 0 /\ \A u \in Streams \ {s} : births'[u] = births[u]
    BY <1>0, <1>1, <1>2 DEF TypeOK
  <1>5. Untouched' /\ Forgotten'
    <2>1. Untouched'
      BY <1>0, <1>1, <1>4 DEF TypeOK, LifeInv, StoreLife, Untouched, Exists
    <2>2. Exists(s)'
      <3>1. NewResource \in Resource
        BY DEF NewResource, Resource, ForwardedErrors
      <3>2. QED
        BY <1>0, <1>1, <3>1, AbsentAssumption DEF TypeOK, Exists
    <2>3. QED
      BY <1>0, <1>1, <1>4, <2>1, <2>2 DEF TypeOK, LifeInv, StoreLife, Forgotten, Exists
  <1>6. NothingUndone'
    BY <1>0, <1>1 DEF TypeOK, LifeInv, StoreLife, NothingUndone
  <1>7. CreatedAlone'
    BY <1>0, <1>1, <1>3 DEF TypeOK, LifeInv, StoreLife, CreatedAlone
  <1>8. ReleasedAfterClose'
    BY <1>0, <1>1, <1>3, StreamsAssumption
       DEF TypeOK, Fitting, LifeInv, StoreLife, ReleasedAfterClose, Creator
  <1>9. WritersWrite'
    <2>1. NewResource \in Resource /\ ~ NewResource.closed
      BY DEF NewResource, Resource, ForwardedErrors
    <2>2. Writable(s)'
      BY <1>0, <1>1, <2>1, AbsentAssumption DEF TypeOK, Writable, Exists
    <2>3. QED
      BY <1>0, <1>1, <1>3, <2>2
         DEF TypeOK, LifeInv, StoreLife, WritersWrite, Creator, Writable, Exists
  <1>10. TopicHasWriter'
    BY <1>0, <1>1, TopicFrame DEF TypeOK, Writer
  <1>11. QED
    BY <1>5, <1>6, <1>7, <1>8, <1>9, <1>10 DEF StoreLife

\* No step of the storage forgets that a stream was created.
LEMMA BirthsLast ==
    ASSUME TypeInv, [Next]_vars, NEW s \in Streams, births[s] # 0
    PROVE  births'[s] # 0
  <1> USE DEF TypeInv, TypeOK, Tags
  <1>1. ASSUME NEW c \in Clients, NEW u \in Streams, CreateResource(c, u) PROVE births'[s] # 0
    BY <1>1, BoundsAssumption DEF CreateResource
  <1>2. ASSUME NEW c \in Clients, Call(c) \/ Continue(c) PROVE UNCHANGED births
    BY <1>2 DEF Call, Continue, Write, Close, CloseRejected, ReadAt, CloseReader,
       RegisterTopic, UndoCreate, Retain, SendNotification, CloseTopic, DropReference,
       Release, CheckExists, OnNotify, store
  <1>3. CASE Dispose \/ Cancel \/ StopMonitor \/ StopDisposer \/ UNCHANGED vars
    BY <1>3 DEF Dispose, Cancel, StopMonitor, StopDisposer, vars, store
  <1>4. ASSUME NEW c \in Clients, NEW u \in Streams, GetStreamReader(c, u) PROVE UNCHANGED births
    BY <1>4 DEF GetStreamReader
  <1>5. QED
    BY <1>1, <1>2, <1>3, <1>4 DEF Next, Open

\* A step of an operation that was started, and of the disposer.
LEMMA StartedLives ==
    ASSUME LifeInv, TypeInv',
           (\E c \in Clients : Call(c) \/ Continue(c)) \/ (Dispose /\ InOrder)
             \/ UNCHANGED vars
    PROVE  StoreLife'
  <1>1. CASE \E c \in Clients : Call(c) \/ Continue(c)
    <2>1. PICK c \in Clients : Call(c) \/ Continue(c)
      BY <1>1
    <2>2. CASE (\E n \in {0, 1} : Write(c, n)) \/ SendNotification(c)
      BY <2>2, WriteLives
    <2>3. CASE (\E e \in ForwardedErrors : Close(c, e)) \/ CloseRejected(c) \/ CloseTopic(c)
      BY <2>3, CloseLives
    <2>4. CASE RegisterTopic(c) \/ UndoCreate(c) \/ Retain(c)
      BY <2>4, CreateLives
    <2>5. CASE DropReference(c) \/ Release(c)
      BY <2>5, DropLives
    <2>6. CASE CheckExists(c) \/ ReadAt(c) \/ OnNotify(c) \/ CloseReader(c)
      BY <2>6, ReadLives
    <2>7. QED
      BY <2>1, <2>2, <2>3, <2>4, <2>5, <2>6 DEF Call, Continue
  <1>2. CASE Dispose /\ InOrder
    BY <1>2, ReadLives
  <1>3. CASE UNCHANGED vars
    BY <1>3
       DEF vars, store, client, LifeInv, StoreLife, Untouched, Forgotten, CreatedAlone,
           NothingUndone, ReleasedAfterClose, WritersWrite, TopicHasWriter, Creator, Writer, Writable, Exists
  <1>4. QED
    BY <1>1, <1>2, <1>3

\* A hub call looks for a reader when the creation it made, or met, is over.
LEMMA HubStepLives ==
    ASSUME LifeInv, InOrder, TypeInv', NEW k \in Callers, HubStep(k)
    PROVE  StoreLife'
  <1>0. /\ InputOf(k) \in Clients /\ OutputOf(k) \in Clients
        /\ call[k] # "idle" => target[k] \in Streams
        /\ call[k] \in {"output", "outputting"} => SaveOf(k) \in Clients
    BY EndsAreClients DEF LifeInv, HubInv, CallInv
  <1>1. ASSUME NEW d \in Clients, pc[d] \in {"register", "retain"}, call[k] # "idle"
        PROVE  d = InputOf(k) /\ call[k] \in {"creating", "creatingOnly"}
    <2>1. PICK j \in Callers, e \in Ends : d = <<j, e>>
      BY EndsAreClients
    <2>2. e = "in" /\ call[j] \in {"creating", "creatingOnly"}
      BY <1>1, <2>1 DEF LifeInv, HubInv, EndInv, Opening
    <2>3. j = k
      BY <1>1, <2>2 DEF LifeInv, HubInv, LockInv, WriteLabels, CallLabels
    <2>4. QED
      BY <2>1, <2>2, <2>3 DEF InputOf
  <1>2. CASE GetOutput(k)
    <2>1. Attachable(target[k])
      BY <1>2 DEF InOrder
    <2>2. \A d \in Clients : pc[d] \notin {"register", "retain"}
      BY <1>1, <1>2 DEF GetOutput, CallAt, Created
    <2>3. QED
      BY <1>0, <1>2, <2>1, <2>2, AttachLives DEF GetOutput, CallAt
  <1>3. CASE GetSaveOutput(k)
    <2>1. Attachable(target[k])
      BY <1>3 DEF InOrder
    <2>2. \A d \in Clients : pc[d] \notin {"register", "retain"}
      BY <1>1, <1>3 DEF GetSaveOutput, CallAt
    <2>3. QED
      BY <1>0, <1>3, <2>1, <2>2, AttachLives DEF GetSaveOutput, CallAt
  <1>4. CASE TryCreate(k) \/ TryCreateOnly(k)
    <2>1. UNCHANGED vars \/ (CreateResource(InputOf(k), target[k]) /\ call[k] # "idle")
      BY <1>4 DEF TryCreate, TryCreateOnly, StartCreate, CallAt
    <2>2. QED
      BY <1>0, <2>1, StartedLives, BirthLives
  <1>5. CASE ReturnError(k)
    <2>1. UNCHANGED vars \/ Call(InputOf(k))
      BY <1>5 DEF ReturnError, Call, ForwardedErrors
    <2>2. QED
      BY <1>0, <2>1, StartedLives
  <1>6. CASE GiveUp(k) \/ ReturnStream(k) \/ InputClosed(k) \/ ReturnSaveOutput(k)
    BY <1>6, StartedLives DEF GiveUp, ReturnStream, InputClosed, ReturnSaveOutput
  <1>7. QED
    BY <1>2, <1>3, <1>4, <1>5, <1>6 DEF HubStep

\* A call knows its stream: it met it, created it, or has an output of it.
LEMMA TargetIsKnown ==
    ASSUME LifeInv, OneLife, KnownTarget, [HubNext]_hubVars
    PROVE  KnownTarget'
  <1>0. /\ TypeInv /\ TypeOK /\ CallInv
        /\ \A s \in Streams : births[s] # 0 => births'[s] # 0
    BY HubNextIsStorageNext, BirthsLast DEF LifeInv, HubInv, TypeInv
  <1> SUFFICES ASSUME NEW j \in Callers, call'[j] \notin {"idle", "create", "createOnly"}
               PROVE  births'[target'[j]] # 0
    BY DEF KnownTarget
  <1>1. CASE \E k \in Callers, s \in Streams :
                GetOrCreateStream(k, s) \/ CreateStream(k, s) \/ GetStreamOutput(k, s)
    <2>1. PICK k \in Callers, s \in Streams :
                GetOrCreateStream(k, s) \/ CreateStream(k, s) \/ GetStreamOutput(k, s)
      BY <1>1
    <2>2. CASE j = k
      <3>1. GetStreamOutput(k, s)
        BY <1>0, <2>1, <2>2 DEF GetOrCreateStream, CreateStream, LockForCreation, CallInv
      <3>2. stream[OutputOf(k)] = s /\ OutputOf(k) \in Clients /\ target'[k] = s
            /\ UNCHANGED births
        BY <1>0, <3>1, EndsAreClients DEF GetStreamOutput, OneLife, CallInv, vars, store
      <3>3. births[s] # 0
        BY <3>2 DEF LifeInv, StoreLife, Untouched
      <3>4. QED
        BY <2>2, <3>2, <3>3
    <2>3. CASE j # k
      <3>1. call'[j] = call[j] /\ target'[j] = target[j]
        BY <1>0, <2>1, <2>3
           DEF GetOrCreateStream, CreateStream, GetStreamOutput, LockForCreation, CallInv
      <3>2. QED
        BY <1>0, <3>1 DEF KnownTarget, CallInv
    <2>4. QED
      BY <2>2, <2>3
  <1>2. CASE \E k \in Callers : HubStep(k)
    <2>1. PICK k \in Callers : HubStep(k)
      BY <1>2
    <2>2. CASE j = k
      <3>1. CASE call[k] \in {"create", "createOnly"}
        <4>1. /\ target' = target /\ target[k] \in Streams
              /\ Exists(target[k]) \/ CreateResource(InputOf(k), target[k])
          BY <1>0, <2>1, <2>2, <3>1
             DEF HubStep, TryCreate, TryCreateOnly, StartCreate, GiveUp, GetOutput, GetSaveOutput,
                 ReturnStream, ReturnError, InputClosed, ReturnSaveOutput, CallAt, Proceed,
                 Return, CallInv
        <4>2. CASE Exists(target[k])
          BY <1>0, <2>2, <4>1, <4>2 DEF LifeInv, StoreLife, Untouched
        <4>3. CASE CreateResource(InputOf(k), target[k])
          BY <1>0, <2>2, <4>1, <4>3 DEF CreateResource, TypeOK, Tags
        <4>4. QED
          BY <4>1, <4>2, <4>3
      <3>2. CASE call[k] \notin {"create", "createOnly"}
        <4>1. call[k] # "idle" /\ target' = target
          BY <1>0, <2>1, <2>2, <3>2
             DEF HubStep, TryCreate, TryCreateOnly, StartCreate, GiveUp, GetOutput, GetSaveOutput,
                 ReturnStream, ReturnError, InputClosed, ReturnSaveOutput, CallAt, Proceed,
                 Return, CallInv
        <4>2. QED
          BY <1>0, <2>2, <3>2, <4>1 DEF KnownTarget, CallInv
      <3>3. QED
        BY <3>1, <3>2
    <2>3. CASE j # k
      <3>1. call'[j] = call[j] /\ target'[j] = target[j]
        BY <1>0, <2>1, <2>3
           DEF HubStep, TryCreate, TryCreateOnly, StartCreate, GiveUp, GetOutput, GetSaveOutput,
               ReturnStream, ReturnError, InputClosed, ReturnSaveOutput, CallAt, Proceed,
               Return, CallInv
      <3>2. QED
        BY <1>0, <3>1 DEF KnownTarget, CallInv
    <2>4. QED
      BY <2>2, <2>3
  <1>3. CASE UNCHANGED hub
    BY <1>0, <1>3 DEF hub, KnownTarget, CallInv
  <1>4. QED
    BY <1>1, <1>2, <1>3 DEF HubNext, hubVars, UseEnd

\* A step that is in order keeps the life of the streams in order.
LEMMA LifeInvStep ==
    ASSUME LifeInv, InOrder, [HubNext]_hubVars
    PROVE  LifeInv'
  <1>1. HubInv' /\ WriterInv' /\ CountInv' /\ TypeInv'
    BY HubNextIsStorageNext, HubInvStep, WriterInvStep, CountInvStep, TypeInvStep
       DEF LifeInv, HubInv
  <1>2. CASE \E k \in Callers, s \in Streams :
                GetOrCreateStream(k, s) \/ CreateStream(k, s) \/ GetStreamOutput(k, s)
    BY <1>1, <1>2, StartedLives
       DEF GetOrCreateStream, CreateStream, GetStreamOutput, LockForCreation, LifeInv
  <1>3. CASE \E k \in Callers : HubStep(k)
    BY <1>1, <1>3, HubStepLives DEF LifeInv
  <1>4. CASE (\E c \in Clients : Call(c) \/ Continue(c)) \/ Dispose \/ UNCHANGED vars
    <2>1. (\E c \in Clients : Call(c) \/ Continue(c)) \/ (Dispose /\ InOrder) \/ UNCHANGED vars
      BY <1>4
    <2>2. QED
      BY <1>1, <2>1, StartedLives DEF LifeInv
  <1>5. QED
    BY <1>2, <1>3, <1>4 DEF HubNext, hubVars, UseEnd

\* In one life of the streams every step is in order.
LEMMA OneLifeInOrder ==
    ASSUME OneLife, LifeInv, KnownTarget
    PROVE  InOrder
  <1>1. TypeOK /\ CallInv
    BY DEF LifeInv, HubInv, TypeInv
  <1>2. \A s \in Streams : births[s] # 0 => births[s] = MaxBirths
    BY <1>1 DEF TypeOK, Tags, OneLife
  <1>3. ASSUME NEW k \in Callers, GetOutput(k) \/ GetSaveOutput(k)
        PROVE  Attachable(target[k])
    <2>1. call[k] \notin {"idle", "create", "createOnly"} /\ target[k] \in Streams
      BY <1>1, <1>3 DEF GetOutput, GetSaveOutput, CallAt, CallInv
    <2>2. QED
      BY <1>2, <2>1 DEF KnownTarget, Attachable
  <1>4. Dispose => births[disposing] = MaxBirths
    BY <1>1, <1>2 DEF Dispose, TypeOK, LifeInv, StoreLife, Untouched
  <1>5. QED
    BY <1>3, <1>4 DEF InOrder

\* A reader that waits is registered in a topic, and a topic has its writer.
LEMMA WaitersHaveWriters == LifeInv => WaitingHasWriter
  <1> SUFFICES ASSUME LifeInv, NEW c \in Clients, pc[c] = "waiting"
               PROVE  \E w \in Clients : Writer(w) /\ stream[w] = stream[c]
    BY DEF WaitingHasWriter
  <1>1. stream[c] \in Streams
    BY DEF LifeInv, HubInv, TypeInv, TypeOK, Fitting
  <1>2. topics[stream[c]] # Absent
    BY <1>1 DEF LifeInv, HubInv, TypeInv, ListenersWait, Listeners
  <1>3. QED
    BY <1>1, <1>2 DEF LifeInv, StoreLife, TopicHasWriter

\* The invariant for one life of the streams.
OneLifeInv == LifeInv /\ KnownTarget

\* It holds at first, and every step of the hub keeps it.
LEMMA OneLifeInvStep ==
    ASSUME OneLife
    PROVE  /\ HubInit => OneLifeInv
           /\ OneLifeInv /\ [HubNext]_hubVars => OneLifeInv'
  <1>1. HubInit => OneLifeInv
    BY LifeInvInit DEF OneLifeInv, HubInit, KnownTarget
  <1>2. OneLifeInv /\ [HubNext]_hubVars => OneLifeInv'
    BY OneLifeInOrder, LifeInvStep, TargetIsKnown DEF OneLifeInv
  <1>3. QED
    BY <1>1, <1>2

(***************************************************************************)
(* No request waits for ever on a stream nobody writes: whoever waits is   *)
(* registered in the topic of its stream, and a topic has the writer that  *)
(* will send to it, as long as a stream has one life (storage.go:76, :109).*)
(***************************************************************************)
THEOREM WaitingHasWriterHolds ==
    ASSUME OneLife
    PROVE  HubSpec => []WaitingHasWriter
  <1>1. HubInit => OneLifeInv
    BY OneLifeInvStep
  <1>2. OneLifeInv /\ [HubNext]_hubVars => OneLifeInv'
    BY OneLifeInvStep
  <1>3. OneLifeInv => WaitingHasWriter
    BY WaitersHaveWriters DEF OneLifeInv
  <1>4. QED
    BY <1>1, <1>2, <1>3, PTL DEF HubSpec

----------------------------------------------------------------------------
(***************************************************************************)
(* Any number of lives, and any use of the hub, if nobody comes late.      *)
(***************************************************************************)

\* A stream that is counted is there, with its creation and its release far.
CountedIsHere ==
    \A s \in Streams : readers[s] > 0 =>
        /\ Exists(s)
        /\ disposing # s
        /\ \A d \in Clients :
              stream[d] = s => pc[d] \notin {"register", "retain", "releasing"}

\* Nobody has to do with a stream that is being disposed.
DisposedAlone ==
    disposing # NoStream => \A d \in Clients : stream[d] # disposing

\* A stream is released by one client.
ReleasedAlone ==
    \A c, d \in Clients :
        pc[c] = "releasing" /\ pc[d] = "releasing" /\ stream[c] = stream[d] => c = d

LeftInTime == CountedIsHere /\ DisposedAlone /\ ReleasedAlone

\* While a stream is released by its last holder nobody else is at it.
LEMMA LeaverIsAlone ==
    ASSUME LifeInv, LeftInTime, NEW c \in Clients,
           \/ At(c, "drop") /\ readers[stream[c]] = 1
           \/ At(c, "releasing"),
           NEW d \in Clients, stream[d] = stream[c]
    PROVE  d = c
  <1> SUFFICES ASSUME d # c PROVE FALSE
    OBVIOUS
  <1> DEFINE s == stream[c]
  <1>0. /\ TypeOK /\ s \in Streams
        /\ pc[d] \in Labels \ {"idle"}
        /\ readers[s] \in Nat
    BY StreamsAssumption DEF LifeInv, HubInv, TypeInv, TypeOK, Fitting, At
  <1>1. CASE pc[d] \in {"register", "retain", "undo"}
    BY <1>1 DEF LifeInv, StoreLife, CreatedAlone, NothingUndone
  <1>2. CASE pc[d] = "releasing"
    BY <1>0, <1>2 DEF LeftInTime, CountedIsHere, ReleasedAlone, At
  <1>3. CASE pc[d] \notin {"register", "retain", "undo", "releasing"}
    <2>1. d \in Holders(s)
      BY <1>0, <1>3 DEF Holders, Labels
    <2>2. Cardinality({d}) = 1 /\ Cardinality(Holders(s)) \in Nat
      BY <1>0, HoldersFinite, FS_Singleton, FS_CardinalityType
    <2>3. Cardinality({d}) <= Cardinality(Holders(s))
      BY <1>0, <2>1, HoldersFinite, FS_Subset
    <2>4. readers[s] >= Cardinality(Holders(s))
      BY <1>0 DEF LifeInv, CountInv, CountCoversHolders
    <2>5. readers[s] > 0
      BY <1>0, <2>2, <2>3, <2>4
    <2>6. At(c, "drop") /\ readers[s] = 1
      BY <1>0, <2>5 DEF LeftInTime, CountedIsHere, At
    <2>7. {c, d} \subseteq Holders(s)
      BY <2>1, <2>6 DEF Holders, At
    <2>8. Cardinality({d} \cup {c}) = 2
      <3>1. IsFiniteSet({d}) /\ Cardinality({d}) = 1 /\ c \notin {d}
        BY FS_Singleton
      <3>2. QED
        BY <3>1, FS_AddElement
    <2>9. {d} \cup {c} = {c, d}
      OBVIOUS
    <2>10. Cardinality({c, d}) <= Cardinality(Holders(s))
      BY <1>0, <2>7, HoldersFinite, FS_Subset
    <2>11. QED
      BY <2>2, <2>4, <2>6, <2>8, <2>9, <2>10
  <1>4. QED
    BY <1>1, <1>2, <1>3

\* A step that counts nobody, releases nothing and disposes nothing.
LEMMA InTimeFrame ==
    ASSUME LifeInv, LeftInTime, TypeInv', UNCHANGED <<readers, disposing>>,
           \A s \in Streams : Exists(s) => Exists(s)',
           \A d \in Clients : stream'[d] \in {stream[d], NoStream},
           \A d \in Clients : pc'[d] \in {"register", "retain", "releasing"} =>
              pc[d] = pc'[d] \/ (pc[d] = "register" /\ pc'[d] = "retain")
    PROVE  LeftInTime'
  <1>0. /\ disposing \in Streams \cup {NoStream}
        /\ \A d \in Clients : stream'[d] # NoStream => stream'[d] = stream[d]
        /\ \A d \in Clients :
              pc'[d] = "releasing" => pc[d] = "releasing" /\ stream'[d] \in Streams
    BY DEF LifeInv, HubInv, TypeInv, TypeOK, Fitting
  <1>1. CountedIsHere'
    <2> SUFFICES ASSUME NEW s \in Streams, readers'[s] > 0
                 PROVE  /\ Exists(s)'
                        /\ disposing' # s
                        /\ \A d \in Clients : stream'[d] = s =>
                              pc'[d] \notin {"register", "retain", "releasing"}
      BY DEF CountedIsHere
    <2>1. /\ Exists(s) /\ disposing # s
          /\ \A d \in Clients :
                stream[d] = s => pc[d] \notin {"register", "retain", "releasing"}
      BY DEF LeftInTime, CountedIsHere
    <2>2. \A d \in Clients : stream'[d] = s => stream[d] = s
      BY <1>0, StreamsAssumption
    <2>3. QED
      BY <2>1, <2>2
  <1>2. DisposedAlone'
    BY <1>0, StreamsAssumption DEF LeftInTime, DisposedAlone
  <1>3. ReleasedAlone'
    <2> SUFFICES ASSUME NEW c \in Clients, NEW d \in Clients,
                        pc'[c] = "releasing", pc'[d] = "releasing", stream'[c] = stream'[d]
                 PROVE  c = d
      BY DEF ReleasedAlone
    <2>1. stream[c] = stream[d] /\ pc[c] = "releasing" /\ pc[d] = "releasing"
      BY <1>0, StreamsAssumption
    <2>2. QED
      BY <2>1 DEF LeftInTime, ReleasedAlone
  <1>4. QED
    BY <1>1, <1>2, <1>3 DEF LeftInTime

\* The steps of an operation, but for the undoing of Create, keep resources.
LEMMA ResourcesStay ==
    ASSUME TypeOK, NEW c \in Clients, Call(c) \/ Continue(c), ~ UndoCreate(c),
           NEW s \in Streams, Exists(s)
    PROVE  Exists(s)'
  <1> USE DEF Exists
  <1> DEFINE r == resources[stream[c]]
  <1>0. resources \in [Streams -> {Absent} \cup Resource] /\ tag[c] \in Tags
    BY DEF TypeOK
  <1>1. ASSUME NEW n \in {0, 1}, Write(c, n) PROVE Exists(s)'
    <2>1. CASE resources' = resources \/ s # stream[c]
      BY <1>0, <1>1, <2>1 DEF Write
    <2>2. CASE resources' # resources /\ s = stream[c]
      <3>1. r \in Resource
        BY <1>0, <2>2
      <3>2. resources'[s] = [r EXCEPT !.data = Append(r.data, tag[c])]
        BY <1>0, <1>1, <2>2 DEF Write
      <3>3. Append(r.data, tag[c]) \in Seq(Tags)
        BY <1>0, <3>1 DEF Resource
      <3>4. resources'[s] \in Resource
        BY <3>1, <3>2, <3>3 DEF Resource
      <3>5. QED
        BY <3>4, AbsentAssumption
    <2>3. QED
      BY <2>1, <2>2
  <1>2. ASSUME NEW e \in ForwardedErrors, Close(c, e) PROVE Exists(s)'
    <2>1. CASE s # stream[c]
      BY <1>0, <1>2, <2>1 DEF Close
    <2>2. CASE s = stream[c]
      <3>1. r \in Resource
        BY <1>0, <2>2
      <3>2. resources'[s] = [r EXCEPT !.closed = TRUE, !.errorToForward = e]
        BY <1>0, <1>2, <2>2 DEF Close
      <3>3. resources'[s] \in Resource
        BY <1>2, <3>1, <3>2 DEF Resource
      <3>4. QED
        BY <3>3, AbsentAssumption
    <2>3. QED
      BY <2>1, <2>2
  <1>3. CASE CloseRejected(c) \/ ReadAt(c) \/ CloseReader(c) \/ CheckExists(c)
    BY <1>3 DEF CloseRejected, ReadAt, CloseReader, CheckExists, store
  <1>4. CASE \/ RegisterTopic(c) \/ Retain(c) \/ SendNotification(c) \/ CloseTopic(c)
             \/ DropReference(c) \/ Release(c) \/ OnNotify(c)
    BY <1>4 DEF RegisterTopic, Retain, SendNotification, CloseTopic, DropReference, Release,
       OnNotify
  <1>5. QED
    BY <1>1, <1>2, <1>3, <1>4 DEF Call, Continue

\* The writer is counted, and nobody else has come to its stream yet.
LEMMA RetainInTime ==
    ASSUME LifeInv, LeftInTime, TypeInv', NEW c \in Clients, Retain(c)
    PROVE  LeftInTime'
  <1> DEFINE u == stream[c]
  <1>0. TypeOK /\ u \in Streams
    BY DEF LifeInv, HubInv, TypeInv, TypeOK, Fitting, Retain, At
  <1>1. /\ pc[c] = "retain" /\ pc' = [pc EXCEPT ![c] = "writing"]
        /\ readers' = [readers EXCEPT ![u] = readers[u] + 1]
        /\ UNCHANGED <<resources, disposing, stream>>
    BY DEF Retain, At, Goto
  <1>2. \A d \in Clients : pc'[d] = "writing" \/ pc'[d] = pc[d]
    BY <1>0, <1>1 DEF TypeOK
  <1>3. CountedIsHere'
    <2> SUFFICES ASSUME NEW s \in Streams, readers'[s] > 0
                 PROVE  /\ Exists(s)'
                        /\ disposing' # s
                        /\ \A d \in Clients : stream'[d] = s =>
                              pc'[d] \notin {"register", "retain", "releasing"}
      BY DEF CountedIsHere
    <2>1. CASE s = u
      <3>1. Exists(s) /\ disposing # s
        BY <1>1, <2>1
           DEF LifeInv, StoreLife, WritersWrite, ReleasedAfterClose, Creator, Writable
      <3>2. \A d \in Clients : stream[d] = s => d = c
        BY <1>1, <2>1 DEF LifeInv, StoreLife, CreatedAlone
      <3>3. pc'[c] = "writing"
        BY <1>0, <1>1 DEF TypeOK
      <3>4. QED
        BY <1>1, <3>1, <3>2, <3>3 DEF Exists
    <2>2. CASE s # u
      <3>1. readers[s] > 0
        BY <1>0, <1>1, <2>2 DEF TypeOK
      <3>2. QED
        BY <1>1, <1>2, <3>1 DEF LeftInTime, CountedIsHere, Exists
    <2>3. QED
      BY <2>1, <2>2
  <1>4. DisposedAlone' /\ ReleasedAlone'
    BY <1>1, <1>2 DEF LeftInTime, DisposedAlone, ReleasedAlone
  <1>5. QED
    BY <1>3, <1>4 DEF LeftInTime

\* A reference is dropped; the last one is dropped by the only one left.
LEMMA DropInTime ==
    ASSUME LifeInv, LeftInTime, TypeInv', NEW c \in Clients, DropReference(c)
    PROVE  LeftInTime'
  <1> DEFINE u == stream[c]
  <1>0. TypeOK /\ u \in Streams /\ readers \in [Streams -> Nat]
    BY DEF LifeInv, HubInv, TypeInv, TypeOK, Fitting, DropReference, At
  <1>1. /\ pc[c] = "drop" /\ pc'[c] \in {"releasing", "idle"}
        /\ stream'[c] \in {u, NoStream}
        /\ pc'[c] = "releasing" => readers[u] = 1
        /\ \A d \in Clients \ {c} : pc'[d] = pc[d] /\ stream'[d] = stream[d]
        /\ \A s \in Streams : readers'[s] > 0 => readers[s] > 0 /\ (s = u => readers[s] # 1)
        /\ UNCHANGED <<resources, disposing>>
    <2>1. /\ pc[c] = "drop" /\ pc'[c] \in {"releasing", "idle"}
          /\ stream'[c] \in {u, NoStream}
          /\ pc'[c] = "releasing" => readers[u] = 1
          /\ \A d \in Clients \ {c} : pc'[d] = pc[d] /\ stream'[d] = stream[d]
          /\ UNCHANGED <<resources, disposing>>
      BY <1>0 DEF DropReference, Leave, At, Goto, TypeOK
    <2>2. readers' = [readers EXCEPT ![u] = IF readers[u] > 0 THEN readers[u] - 1 ELSE 0]
      BY DEF DropReference
    <2>3. QED
      BY <1>0, <2>1, <2>2
  <1>2. CountedIsHere'
    <2> SUFFICES ASSUME NEW s \in Streams, readers'[s] > 0
                 PROVE  /\ Exists(s)'
                        /\ disposing' # s
                        /\ \A d \in Clients : stream'[d] = s =>
                              pc'[d] \notin {"register", "retain", "releasing"}
      BY DEF CountedIsHere
    <2>1. /\ readers[s] > 0 /\ (s = u => readers[s] # 1)
          /\ Exists(s) /\ disposing # s
          /\ \A d \in Clients :
                stream[d] = s => pc[d] \notin {"register", "retain", "releasing"}
      BY <1>1 DEF LeftInTime, CountedIsHere
    <2>2. ASSUME NEW d \in Clients, stream'[d] = s
          PROVE  pc'[d] \notin {"register", "retain", "releasing"}
      BY <1>1, <2>1, <2>2, StreamsAssumption
    <2>3. QED
      BY <1>1, <2>1, <2>2 DEF Exists
  <1>3. DisposedAlone'
    BY <1>1 DEF LeftInTime, DisposedAlone
  <1>4. ReleasedAlone'
    <2>1. CASE pc'[c] = "idle"
      BY <1>1, <2>1 DEF LeftInTime, ReleasedAlone
    <2>2. CASE pc'[c] = "releasing"
      <3>1. \A d \in Clients : stream[d] = u => d = c
        BY <1>1, <2>2, LeaverIsAlone DEF At
      <3>2. stream'[c] = u
        BY <1>0, <1>1, <2>2, StreamsAssumption DEF TypeInv, TypeOK, Fitting
      <3>3. QED
        BY <1>1, <3>1, <3>2 DEF LeftInTime, ReleasedAlone
    <2>3. QED
      BY <1>1, <2>1, <2>2
  <1>5. QED
    BY <1>2, <1>3, <1>4 DEF LeftInTime

\* The disposer hears of a stream from the last one that had to do with it.
LEMMA ReleaseInTime ==
    ASSUME LifeInv, LeftInTime, TypeInv', NEW c \in Clients, Release(c)
    PROVE  LeftInTime'
  <1> DEFINE u == stream[c]
  <1>0. TypeOK /\ u \in Streams
    BY DEF LifeInv, HubInv, TypeInv, TypeOK, Fitting, Release, At
  <1>1. /\ pc[c] = "releasing" /\ pc'[c] = "idle" /\ stream'[c] = NoStream
        /\ \A d \in Clients \ {c} : pc'[d] = pc[d] /\ stream'[d] = stream[d]
        /\ disposing' = u
        /\ UNCHANGED <<resources, readers>>
    BY <1>0 DEF Release, Leave, At, TypeOK
  <1>2. \A d \in Clients : stream[d] = u => d = c
    BY <1>1, LeaverIsAlone DEF At
  <1>3. ~ (readers[u] > 0)
    BY <1>0, <1>1 DEF LeftInTime, CountedIsHere
  <1>4. CountedIsHere'
    BY <1>0, <1>1, <1>3, StreamsAssumption DEF LeftInTime, CountedIsHere, Exists
  <1>5. DisposedAlone'
    BY <1>0, <1>1, <1>2, StreamsAssumption DEF DisposedAlone
  <1>6. ReleasedAlone'
    BY <1>1 DEF LeftInTime, ReleasedAlone
  <1>7. QED
    BY <1>4, <1>5, <1>6 DEF LeftInTime

\* A reader comes while somebody holds the stream.
LEMMA AttachInTime ==
    ASSUME LifeInv, LeftInTime, TypeInv', NEW c \in Clients, NEW s \in Streams,
           GetStreamReader(c, s), readers[s] > 0
    PROVE  LeftInTime'
  <1>0. TypeOK
    BY DEF LifeInv, HubInv, TypeInv
  <1>1. /\ pc' = [pc EXCEPT ![c] = "exists"]
        /\ stream' = [stream EXCEPT ![c] = s]
        /\ readers' = [readers EXCEPT ![s] = readers[s] + 1]
        /\ UNCHANGED <<resources, disposing>>
    BY DEF GetStreamReader, Enter
  <1>2. \A u \in Streams : readers'[u] > 0 => readers[u] > 0
    BY <1>0, <1>1 DEF TypeOK
  <1>3. CountedIsHere'
    BY <1>0, <1>1, <1>2 DEF TypeOK, LeftInTime, CountedIsHere, Exists
  <1>4. DisposedAlone'
    BY <1>0, <1>1 DEF TypeOK, LeftInTime, CountedIsHere, DisposedAlone
  <1>5. ReleasedAlone'
    BY <1>0, <1>1 DEF TypeOK, LeftInTime, ReleasedAlone
  <1>6. QED
    BY <1>3, <1>4, <1>5 DEF LeftInTime

\* A stream is created when it is not counted.
LEMMA BirthInTime ==
    ASSUME LifeInv, LeftInTime, TypeInv', NEW c \in Clients, NEW s \in Streams,
           CreateResource(c, s)
    PROVE  LeftInTime'
  <1>0. TypeOK
    BY DEF LifeInv, HubInv, TypeInv
  <1>1. /\ pc' = [pc EXCEPT ![c] = "register"]
        /\ stream' = [stream EXCEPT ![c] = s]
        /\ resources' = [resources EXCEPT ![s] = NewResource]
        /\ UNCHANGED <<readers, disposing>>
    BY DEF CreateResource, Enter
  <1>2. disposing # s /\ ~ Exists(s)
    BY DEF CreateResource, LifeInv, StoreLife, Forgotten
  <1>3. ~ (readers[s] > 0)
    BY <1>2 DEF LeftInTime, CountedIsHere
  <1>4. CountedIsHere'
    BY <1>0, <1>1, <1>3 DEF TypeOK, LeftInTime, CountedIsHere, Exists
  <1>5. DisposedAlone'
    BY <1>0, <1>1, <1>2 DEF TypeOK, LeftInTime, DisposedAlone
  <1>6. ReleasedAlone'
    BY <1>0, <1>1 DEF TypeOK, LeftInTime, ReleasedAlone
  <1>7. QED
    BY <1>4, <1>5, <1>6 DEF LeftInTime

\* What is disposed is not counted.
LEMMA DisposeInTime ==
    ASSUME LifeInv, LeftInTime, TypeInv', Dispose
    PROVE  LeftInTime'
  <1>0. TypeOK
    BY DEF LifeInv, HubInv, TypeInv
  <1>1. /\ resources' = [resources EXCEPT ![disposing] = Absent]
        /\ disposing' = NoStream
        /\ UNCHANGED <<readers, pc, stream>>
    BY DEF Dispose, client
  <1>2. CountedIsHere'
    BY <1>0, <1>1, StreamsAssumption DEF TypeOK, LeftInTime, CountedIsHere, Exists
  <1>3. DisposedAlone' /\ ReleasedAlone'
    BY <1>1 DEF LeftInTime, DisposedAlone, ReleasedAlone
  <1>4. QED
    BY <1>2, <1>3 DEF LeftInTime

\* The other steps count nobody, release nothing and dispose nothing.
LEMMA OthersInTime ==
    ASSUME LifeInv, LeftInTime, TypeInv', NEW c \in Clients, Call(c) \/ Continue(c),
           ~ Retain(c), ~ DropReference(c), ~ Release(c)
    PROVE  LeftInTime'
  <1> USE DEF At, Goto
  <1>0. TypeOK /\ pc \in [Clients -> Labels]
    BY DEF LifeInv, HubInv, TypeInv, TypeOK
  <1>1. ~ UndoCreate(c)
    BY DEF LifeInv, StoreLife, NothingUndone, UndoCreate
  <1>2. \A s \in Streams : Exists(s) => Exists(s)'
    BY <1>0, <1>1, ResourcesStay
  <1>3. /\ UNCHANGED <<readers, disposing>>
        /\ \A d \in Clients : stream'[d] \in {stream[d], NoStream}
        /\ \A d \in Clients : pc'[d] \in {"register", "retain", "releasing"} =>
              pc[d] = pc'[d] \/ (pc[d] = "register" /\ pc'[d] = "retain")
    <2>1. CASE (\E n \in {0, 1} : Write(c, n)) \/ (\E e \in ForwardedErrors : Close(c, e))
      BY <1>0, <2>1 DEF Write, Close
    <2>2. CASE CloseRejected(c)
      BY <1>0, <2>2 DEF CloseRejected, Leave, store, TypeOK
    <2>3. CASE ReadAt(c) \/ CloseReader(c) \/ CheckExists(c) \/ OnNotify(c)
      BY <1>0, <2>3 DEF ReadAt, Finish, CloseReader, CheckExists, OnNotify, store
    <2>4. CASE RegisterTopic(c)
      BY <1>0, <2>4 DEF RegisterTopic
    <2>5. CASE SendNotification(c) \/ CloseTopic(c)
      BY <1>0, <2>5 DEF SendNotification, CloseTopic
    <2>6. QED
      BY <1>1, <2>1, <2>2, <2>3, <2>4, <2>5 DEF Call, Continue
  <1>4. QED
    BY <1>2, <1>3, InTimeFrame

\* The invariant for readers that come in time.
InTimeInv == LifeInv /\ LeftInTime

\* It holds at first.
LEMMA InTimeInvInit == HubInit => InTimeInv
  <1> SUFFICES ASSUME HubInit PROVE InTimeInv
    OBVIOUS
  <1>1. LeftInTime
    BY StreamsAssumption
       DEF HubInit, Init, LeftInTime, CountedIsHere, DisposedAlone, ReleasedAlone
  <1>2. QED
    BY <1>1, LifeInvInit DEF InTimeInv

\* Readers that come in time find their stream, and keep it.
LEMMA InTimeInOrder ==
    ASSUME InTimeInv, NobodyLate
    PROVE  InOrder
  <1> USE DEF InTimeInv
  <1>1. ASSUME NEW k \in Callers, GetOutput(k) \/ GetSaveOutput(k)
        PROVE  Attachable(target[k])
    <2>1. PICK c \in Clients : target[k] \in Streams /\ GetStreamReader(c, target[k])
      BY <1>1, EndsAreClients
         DEF GetOutput, GetSaveOutput, CallAt, LifeInv, HubInv, CallInv
    <2>2. readers[target[k]] > 0
      BY <2>1 DEF NobodyLate
    <2>3. Exists(target[k])
      BY <2>1, <2>2 DEF LeftInTime, CountedIsHere
    <2>4. QED
      BY <2>1, <2>3 DEF Attachable, LifeInv, StoreLife, Untouched
  <1>2. Dispose => \A d \in Clients : stream[d] # disposing
    BY DEF Dispose, LeftInTime, DisposedAlone
  <1>3. QED
    BY <1>1, <1>2 DEF InOrder

\* Every step of the hub with which nobody comes late keeps it.
LEMMA InTimeInvStep ==
    ASSUME InTimeInv, [HubNext]_hubVars, [NobodyLate]_hubVars
    PROVE  InTimeInv'
  <1>1. LifeInv /\ LeftInTime /\ CallInv /\ TypeOK
    BY DEF InTimeInv, LifeInv, HubInv, TypeInv
  <1>2. NobodyLate
    <2>1. CASE UNCHANGED hubVars
      BY <1>1, <2>1
         DEF NobodyLate, GetStreamReader, Enter, At, hubVars, vars, client, TypeOK
    <2>2. QED
      BY <2>1
  <1>3. LifeInv' /\ TypeInv'
    BY <1>1, <1>2, InTimeInOrder, LifeInvStep DEF LifeInv, HubInv
  <1> SUFFICES LeftInTime'
    BY <1>3 DEF InTimeInv
  <1>4. CASE UNCHANGED vars
    BY <1>1, <1>3, <1>4, InTimeFrame DEF vars, store, client, Exists
  <1>5. CASE Dispose
    BY <1>1, <1>3, <1>5, DisposeInTime
  <1>6. ASSUME NEW c \in Clients, Open(c) \/ Call(c) \/ Continue(c)
        PROVE  LeftInTime'
    <2>1. ASSUME NEW s \in Streams, GetStreamReader(c, s) PROVE LeftInTime'
      BY <1>1, <1>2, <1>3, <2>1, AttachInTime DEF NobodyLate
    <2>2. ASSUME NEW s \in Streams, CreateResource(c, s) PROVE LeftInTime'
      BY <1>1, <1>3, <2>2, BirthInTime
    <2>3. CASE Call(c) \/ Continue(c)
      BY <1>1, <1>3, <2>3, RetainInTime, DropInTime, ReleaseInTime, OthersInTime
    <2>4. QED
      BY <1>6, <2>1, <2>2, <2>3 DEF Open
  <1>7. QED
    BY <1>1, <1>4, <1>5, <1>6, HubNextIsClientStep

(***************************************************************************)
(* No request waits for ever on a stream nobody writes, however often the  *)
(* stream is disposed and created again and whatever its users call, if a  *)
(* reader comes only to a stream that somebody holds.  The attach to a     *)
(* stream that its last holder has left (storage.go:91) is thus the one    *)
(* cause of readers that wait for nobody.                                  *)
(***************************************************************************)
THEOREM InTimeWaitingHasWriter ==
    HubSpec /\ [][NobodyLate]_hubVars => []WaitingHasWriter
  <1>1. InTimeInv /\ [HubNext]_hubVars /\ [NobodyLate]_hubVars => InTimeInv'
    BY InTimeInvStep
  <1>2. InTimeInv => WaitingHasWriter
    BY WaitersHaveWriters DEF InTimeInv
  <1>3. QED
    BY <1>1, <1>2, InTimeInvInit, PTL DEF HubSpec

----------------------------------------------------------------------------
(***************************************************************************)
(* The refinement of ByteStream: every step of a caller, of a goroutine of *)
(* an end or of the disposer is a step of ByteStream, or one that a user   *)
(* of the stream cannot see.                                               *)
(***************************************************************************)

\* A writer that is to close its topic has ended its resource with the error
\* it forwards, and the resource is still there.
ClosersEnd ==
    \A c \in Clients : pc[c] = "closeTopic" =>
        /\ Exists(stream[c])
        /\ resources[stream[c]].closed
        /\ resources[stream[c]].errorToForward = result[c]

\* A resource that is not ended has somebody to end it.
OpenHasWriter ==
    \A s \in Streams : Writable(s) =>
        \E w \in Clients : Creator(w) /\ stream[w] = s

\* Readers hear of an error only after the end.
ErrorsEnd ==
    \A s \in Streams : Exists(s) /\ resources[s].errorToForward # "nil" =>
        resources[s].closed

\* A new end has read nothing.
FreshEnds == \A c \in Clients : pc[c] \in {"idle", "exists"} => got[c] = <<>>

\* Client c has read a beginning of its resource.
ReadsPrefix(c) ==
    /\ Len(got[c]) <= Len(resources[stream[c]].data)
    /\ got[c] = SubSeq(resources[stream[c]].data, 1, Len(got[c]))

\* What was read of a resource is how it begins.
PrefixRead ==
    \A c \in Clients : Attached(c) /\ Exists(stream[c]) => ReadsPrefix(c)

\* What is needed of the resources and of their readers.
ReadInv == ClosersEnd /\ OpenHasWriter /\ ErrorsEnd /\ FreshEnds /\ PrefixRead

StreamInv == LifeInv /\ ReadInv

----------------------------------------------------------------------------
(* What a step of the storage leaves alone.                                *)

\* The clients but c are where they were.
OnlyMoves(c) ==
    \A d \in Clients \ {c} :
        /\ pc'[d] = pc[d] /\ stream'[d] = stream[d]
        /\ got'[d] = got[d] /\ result'[d] = result[d]

\* Only the monitor moves several clients in one step.
LEMMA OneMoves ==
    ASSUME TypeOK, NEW c \in Clients,
           \/ Open(c) \/ Call(c)
           \/ RegisterTopic(c) \/ UndoCreate(c) \/ Retain(c)
           \/ DropReference(c) \/ Release(c) \/ CheckExists(c)
           \/ ReadAt(c) \/ OnNotify(c)
    PROVE  OnlyMoves(c)
  <1> USE DEF TypeOK, OnlyMoves, Goto, Leave, Enter, Finish, client
  <1>1. CASE Open(c)
    BY <1>1 DEF Open, CreateResource, GetStreamReader
  <1>2. CASE RegisterTopic(c) \/ UndoCreate(c) \/ Retain(c)
    BY <1>2 DEF RegisterTopic, UndoCreate, Retain
  <1>3. CASE DropReference(c) \/ Release(c)
    BY <1>3 DEF DropReference, Release
  <1>4. CASE CheckExists(c) \/ OnNotify(c)
    BY <1>4 DEF CheckExists, OnNotify
  <1>5. CASE ReadAt(c)
    BY <1>5 DEF ReadAt
  <1>6. CASE \E n \in {0, 1} : Write(c, n)
    BY <1>6 DEF Write
  <1>7. CASE (\E e \in ForwardedErrors : Close(c, e)) \/ CloseRejected(c) \/ CloseReader(c)
    BY <1>7 DEF Close, CloseRejected, CloseReader
  <1>8. QED
    BY <1>1, <1>2, <1>3, <1>4, <1>5, <1>6, <1>7 DEF Call

----------------------------------------------------------------------------
(* The abstract variables                                                  *)

\* They are functions, before and after a step.
LEMMA AbstractFunctions ==
    /\ AbstractData  = [s \in Streams |-> AbstractData[s]]
    /\ AbstractData' = [s \in Streams |-> AbstractData'[s]]
    /\ AbstractEnded  = [s \in Streams |-> AbstractEnded[s]]
    /\ AbstractEnded' = [s \in Streams |-> AbstractEnded'[s]]
    /\ AbstractLife  = [s \in Streams |-> AbstractLife[s]]
    /\ AbstractLife' = [s \in Streams |-> AbstractLife'[s]]
    /\ AbstractReading  = [c \in Clients |-> AbstractReading[c]]
    /\ AbstractReading' = [c \in Clients |-> AbstractReading'[c]]
    /\ AbstractGot  = [c \in Clients |-> AbstractGot[c]]
    /\ AbstractGot' = [c \in Clients |-> AbstractGot'[c]]
    /\ AbstractOutcome  = [c \in Clients |-> AbstractOutcome[c]]
    /\ AbstractOutcome' = [c \in Clients |-> AbstractOutcome'[c]]
  <1>1. /\ AbstractData  = [s \in Streams |-> AbstractData[s]]
        /\ AbstractData' = [s \in Streams |-> AbstractData'[s]]
    BY DEF AbstractData
  <1>2. /\ AbstractEnded  = [s \in Streams |-> AbstractEnded[s]]
        /\ AbstractEnded' = [s \in Streams |-> AbstractEnded'[s]]
    BY DEF AbstractEnded
  <1>3. /\ AbstractLife  = [s \in Streams |-> AbstractLife[s]]
        /\ AbstractLife' = [s \in Streams |-> AbstractLife'[s]]
    BY DEF AbstractLife
  <1>4. /\ AbstractReading  = [c \in Clients |-> AbstractReading[c]]
        /\ AbstractReading' = [c \in Clients |-> AbstractReading'[c]]
    BY DEF AbstractReading
  <1>5. /\ AbstractGot  = [c \in Clients |-> AbstractGot[c]]
        /\ AbstractGot' = [c \in Clients |-> AbstractGot'[c]]
    BY DEF AbstractGot
  <1>6. /\ AbstractOutcome  = [c \in Clients |-> AbstractOutcome[c]]
        /\ AbstractOutcome' = [c \in Clients |-> AbstractOutcome'[c]]
    BY DEF AbstractOutcome
  <1> QED
    BY <1>1, <1>2, <1>3, <1>4, <1>5, <1>6

\* A resource that is as it was has the same content and the same end.
LEMMA StoreKept ==
    ASSUME NEW s \in Streams, resources'[s] = resources[s]
    PROVE  AbstractData'[s] = AbstractData[s] /\ AbstractEnded'[s] = AbstractEnded[s]
  BY DEF AbstractData, AbstractEnded, Exists

\* Resources that are as they were are so for the readers.
LEMMA SameStore ==
    ASSUME resources' = resources
    PROVE  UNCHANGED <<AbstractData, AbstractEnded>>
  BY DEF AbstractData, AbstractEnded, Exists

\* A stream that is neither created nor disposed and whose last holder is
\* leaving as before lives on.
LEMMA LifeKept ==
    ASSUME NEW s \in Streams, resources'[s] = Absent <=> resources[s] = Absent,
           births'[s] = births[s],
           Exists(s) => (BeingDisposed(s)' <=> BeingDisposed(s))
    PROVE  AbstractLife'[s] = AbstractLife[s]
  BY DEF AbstractLife, Life, Exists

\* Streams that nobody creates, releases or disposes live on.
LEMMA SameLife ==
    ASSUME UNCHANGED <<resources, births>>,
           \A s \in Streams : BeingDisposed(s)' <=> BeingDisposed(s)
    PROVE  UNCHANGED AbstractLife
  <1>1. \A s \in Streams : AbstractLife'[s] = AbstractLife[s]
    BY LifeKept
  <1> QED
    BY <1>1, AbstractFunctions

\* A client that does not release its stream lets no stream be disposed.
LEMMA DisposedAsBefore ==
    ASSUME NEW c \in Clients, OnlyMoves(c), UNCHANGED disposing,
           pc[c] # "releasing", pc'[c] # "releasing"
    PROVE  \A s \in Streams : BeingDisposed(s)' <=> BeingDisposed(s)
  BY DEF OnlyMoves, BeingDisposed, At

\* Readers that read as before.
LEMMA SameReaders ==
    ASSUME \A d \in Clients :
             /\ Attached(d)' <=> Attached(d)
             /\ Attached(d) => stream'[d] = stream[d] /\ got'[d] = got[d]
             /\ pc'[d] = "finished" <=> pc[d] = "finished"
             /\ pc[d] = "finished" => result'[d] = result[d]
    PROVE  UNCHANGED <<AbstractReading, AbstractGot, AbstractOutcome>>
  BY DEF AbstractReading, AbstractGot, AbstractOutcome, At

\* A client that reads neither before nor after its step.
LEMMA NoReaderMoves ==
    ASSUME NEW c \in Clients, OnlyMoves(c), ~ Attached(c), ~ Attached(c)'
    PROVE  UNCHANGED <<AbstractReading, AbstractGot, AbstractOutcome>>
  <1>1. \A d \in Clients : d # c =>
             /\ Attached(d)' <=> Attached(d)
             /\ stream'[d] = stream[d] /\ got'[d] = got[d]
             /\ pc'[d] = pc[d] /\ result'[d] = result[d]
    BY DEF OnlyMoves, Attached, Reading, At
  <1>2. pc'[c] # "finished" /\ pc[c] # "finished"
    BY DEF Attached, At
  <1> QED
    BY <1>1, <1>2, SameReaders
----------------------------------------------------------------------------
(* The invariant                                                           *)

\* At first there are no resources and no ends.
LEMMA StreamInvInit == HubInit => StreamInv
  <1> SUFFICES ASSUME HubInit PROVE StreamInv
    OBVIOUS
  <1>1. ReadInv
    BY DEF HubInit, Init, ReadInv, ClosersEnd, OpenHasWriter, ErrorsEnd,
           FreshEnds, PrefixRead, Writable, Exists, Attached, Reading, At
  <1> QED
    BY <1>1, LifeInvInit DEF StreamInv

\* What is used of the types all the time.
LEMMA Types ==
    ASSUME LifeInv
    PROVE  /\ TypeOK /\ ListenersWait
           /\ \A c \in Clients : pc[c] # "idle" => stream[c] \in Streams
           /\ \A s \in Streams : Exists(s) =>
                /\ resources[s] \in Resource /\ births[s] # 0
                /\ Len(resources[s].data) \in Nat
           /\ \A c \in Clients : Len(got[c]) \in Nat
  <1>1. TypeOK /\ ListenersWait
    BY DEF LifeInv, HubInv, TypeInv
  <1>2. \A c \in Clients : pc[c] # "idle" => stream[c] \in Streams
    BY <1>1 DEF TypeOK, Fitting
  <1>3. \A s \in Streams : Exists(s) => resources[s] \in Resource /\ births[s] # 0
    BY <1>1 DEF TypeOK, Exists, LifeInv, StoreLife, Untouched
  <1>4. \A s \in Streams : Exists(s) => resources[s].data \in Seq(Tags)
    BY <1>3 DEF Resource
  <1>5. \A s \in Streams : Exists(s) => Len(resources[s].data) \in Nat
    BY <1>4
  <1>6. \A c \in Clients : got[c] \in Seq(Tags)
    BY <1>1 DEF TypeOK
  <1>7. \A c \in Clients : Len(got[c]) \in Nat
    BY <1>6
  <1> QED
    BY <1>1, <1>2, <1>3, <1>5, <1>7

\* One client moves, and no resource changes.
LEMMA OneReadsOn ==
    ASSUME StreamInv, NEW c \in Clients, OnlyMoves(c), resources' = resources,
           pc'[c] # "closeTopic",
           Creator(c) /\ Writable(stream[c]) => Creator(c)' /\ stream'[c] = stream[c],
           pc'[c] \in {"idle", "exists"} => got'[c] = <<>>,
           Attached(c)' /\ Exists(stream'[c]) => ReadsPrefix(c)'
    PROVE  ReadInv'
  <1> USE DEF StreamInv, ReadInv
  <1>0. \A s : Exists(s)' = Exists(s) /\ Writable(s)' = Writable(s)
    BY DEF Exists, Writable
  <1>1. ClosersEnd'
    BY <1>0 DEF ClosersEnd, OnlyMoves, Exists
  <1>2. OpenHasWriter'
    <2> SUFFICES ASSUME NEW s \in Streams, Writable(s)
                 PROVE  \E w \in Clients : Creator(w)' /\ stream'[w] = s
      BY <1>0 DEF OpenHasWriter
    <2>1. PICK w \in Clients : Creator(w) /\ stream[w] = s
      BY DEF OpenHasWriter
    <2>2. Creator(w)' /\ stream'[w] = s
      BY <2>1 DEF OnlyMoves, Creator
    <2> QED
      BY <2>2
  <1>3. ErrorsEnd'
    BY <1>0 DEF ErrorsEnd
  <1>4. FreshEnds'
    BY DEF FreshEnds, OnlyMoves
  <1>5. PrefixRead'
    <2> SUFFICES ASSUME NEW d \in Clients, Attached(d)', Exists(stream[d])'
                 PROVE  ReadsPrefix(d)'
      BY DEF PrefixRead
    <2>1. CASE d = c
      BY <2>1 DEF Exists
    <2>2. CASE d # c
      <3>1. pc'[d] = pc[d] /\ stream'[d] = stream[d] /\ got'[d] = got[d]
        BY <2>2 DEF OnlyMoves
      <3>2. Attached(d) /\ Exists(stream[d])
        BY <3>1 DEF Attached, Reading, At, Exists
      <3>3. ReadsPrefix(d)
        BY <3>2 DEF PrefixRead
      <3> QED
        BY <3>1, <3>3 DEF ReadsPrefix
    <2> QED
      BY <2>1, <2>2
  <1> QED
    BY <1>1, <1>2, <1>3, <1>4, <1>5

----------------------------------------------------------------------------
(* A stream is created, opened and read.                                   *)

\* A stream that is created was not there before, and nobody reads it yet.
LEMMA CreateRefines ==
    ASSUME StreamInv, NEW c \in Clients, NEW s \in Streams,
           CreateResource(c, s)
    PROVE  ReadInv' /\ Stream!Create(s)
  <1>0. /\ TypeOK /\ OnlyMoves(c)
        /\ births[s] \in Nat /\ births[s] < MaxBirths
        /\ births' = [births EXCEPT ![s] = births[s] + 1]
        /\ resources[s] = Absent /\ resources' = [resources EXCEPT ![s] = NewResource]
        /\ pc[c] = "idle" /\ pc'[c] = "register" /\ stream'[c] = s
        /\ disposing' = disposing
    <2>0. TypeOK
      BY Types DEF StreamInv
    <2>1. births[s] \in Nat /\ births[s] < MaxBirths
      <3>1. births[s] \in Tags
        BY <2>0 DEF TypeOK
      <3> QED
        BY <3>1 DEF Tags, CreateResource
    <2>2. OnlyMoves(c)
      BY <2>0, OneMoves DEF Open
    <2> QED
      BY <2>0, <2>1, <2>2 DEF CreateResource, Enter, Exists, At, TypeOK
  <1>1. NewResource # Absent /\ NewResource.data = <<>> /\ ~ NewResource.closed
        /\ NewResource.errorToForward = "nil"
    <2>1. NewResource \in Resource
      BY DEF NewResource, Resource, ForwardedErrors
    <2> QED
      BY <2>1, AbsentAssumption DEF NewResource
  <1>2. disposing # s /\ \A d \in Clients : stream[d] # s
    BY <1>0 DEF StreamInv, LifeInv, StoreLife, Forgotten, Exists
  <1>3. \A t \in Streams : t # s => resources'[t] = resources[t] /\ births'[t] = births[t]
    BY <1>0 DEF TypeOK
  <1>4. resources'[s] = NewResource /\ births'[s] # 0
    BY <1>0 DEF TypeOK
  <1>5. ReadInv'
    <2> USE DEF StreamInv, ReadInv
    <2>1. ClosersEnd'
      BY <1>0, <1>2, <1>3, Types DEF ClosersEnd, OnlyMoves, Exists
    <2>2. OpenHasWriter'
      <3> SUFFICES ASSUME NEW t \in Streams, Writable(t)'
                   PROVE  \E w \in Clients : Creator(w)' /\ stream'[w] = t
        BY DEF OpenHasWriter
      <3>1. CASE t = s
        BY <1>0, <3>1 DEF Creator
      <3>2. CASE t # s
        <4>1. PICK w \in Clients : Creator(w) /\ stream[w] = t
          BY <1>3, <3>2 DEF OpenHasWriter, Writable, Exists
        <4>2. w # c
          BY <1>0, <4>1 DEF Creator
        <4>3. Creator(w)' /\ stream'[w] = t
          BY <1>0, <4>1, <4>2 DEF OnlyMoves, Creator
        <4> QED
          BY <4>3
      <3> QED
        BY <3>1, <3>2
    <2>3. ErrorsEnd'
      BY <1>1, <1>3, <1>4 DEF ErrorsEnd, Exists
    <2>4. FreshEnds'
      BY <1>0 DEF FreshEnds, OnlyMoves
    <2>5. PrefixRead'
      <3> SUFFICES ASSUME NEW d \in Clients, Attached(d)', Exists(stream[d])'
                   PROVE  ReadsPrefix(d)'
        BY DEF PrefixRead
      <3>1. d # c
        BY <1>0 DEF Attached, Reading, At
      <3>2. pc'[d] = pc[d] /\ stream'[d] = stream[d] /\ got'[d] = got[d]
        BY <1>0, <3>1 DEF OnlyMoves
      <3>3. pc[d] # "idle" /\ Attached(d)
        BY <3>2 DEF Attached, Reading, At
      <3>4. stream[d] \in Streams /\ stream[d] # s
        BY <1>2, <3>3, Types
      <3>5. resources'[stream[d]] = resources[stream[d]]
        BY <1>3, <3>4
      <3>6. ReadsPrefix(d)
        BY <3>2, <3>3, <3>5 DEF PrefixRead, Exists
      <3> QED
        BY <3>2, <3>5, <3>6 DEF ReadsPrefix
    <2> QED
      BY <2>1, <2>2, <2>3, <2>4, <2>5
  <1>6. UNCHANGED <<AbstractReading, AbstractGot, AbstractOutcome>>
    BY <1>0, NoReaderMoves DEF Attached, Reading, At
  <1>7. UNCHANGED <<AbstractData, AbstractEnded>>
    <2>1. \A t \in Streams : AbstractData'[t] = AbstractData[t]
                             /\ AbstractEnded'[t] = AbstractEnded[t]
      <3>1. AbstractData'[s] = AbstractData[s] /\ AbstractEnded'[s] = AbstractEnded[s]
        BY <1>0, <1>1, <1>4 DEF AbstractData, AbstractEnded, Exists
      <3> QED
        BY <1>3, <3>1, StoreKept
    <2> QED
      BY <2>1, AbstractFunctions
  <1>8. /\ AbstractLife[s] \in {"absent", "gone"}
        /\ AbstractLife' = [AbstractLife EXCEPT ![s] = "here"]
    <2>1. AbstractLife[s] \in {"absent", "gone"}
      BY <1>0 DEF AbstractLife, Life, Exists
    <2>2. AbstractLife'[s] = "here"
      <3>1. ~ BeingDisposed(s)'
        BY <1>0, <1>2 DEF BeingDisposed, At, OnlyMoves
      <3> QED
        BY <1>1, <1>4, <3>1 DEF AbstractLife, Life, Exists
    <2>3. \A t \in Streams : BeingDisposed(t)' <=> BeingDisposed(t)
      BY <1>0, DisposedAsBefore
    <2>4. \A t \in Streams : t # s => AbstractLife'[t] = AbstractLife[t]
      BY <1>3, <2>3, LifeKept
    <2> QED
      BY <2>1, <2>2, <2>4, AbstractFunctions
  <1>9. \A d \in Clients : AbstractReading[d] # s
    BY <1>2, StreamsAssumption DEF AbstractReading
  <1> QED
    BY <1>5, <1>6, <1>7, <1>8, <1>9 DEF Stream!Create

\* A user of the stream does not see that one of its holders gets on, as long
\* as it neither reads nor ends, releases or opens the stream.
LEMMA HolderGetsOn ==
    ASSUME StreamInv, NEW c \in Clients, OnlyMoves(c),
           UNCHANGED <<resources, births, disposing>>,
           pc[c] # "releasing", pc'[c] # "releasing",
           ~ Attached(c), ~ Attached(c)'
    PROVE  UNCHANGED Stream!vars
  <1>1. UNCHANGED <<AbstractData, AbstractEnded>>
    BY SameStore
  <1>2. UNCHANGED AbstractLife
    BY DisposedAsBefore, SameLife
  <1>3. UNCHANGED <<AbstractReading, AbstractGot, AbstractOutcome>>
    BY NoReaderMoves
  <1> QED
    BY <1>1, <1>2, <1>3 DEF Stream!vars

\* The steps of a creation, the count of a new reader and a Close that is
\* refused are not seen.
LEMMA OpeningRefines ==
    ASSUME StreamInv, LifeInv', NEW c \in Clients,
           \/ RegisterTopic(c) \/ UndoCreate(c) \/ Retain(c) \/ CloseRejected(c)
           \/ \E s \in Streams : GetStreamReader(c, s)
    PROVE  ReadInv' /\ UNCHANGED Stream!vars
  <1>0. TypeOK /\ OnlyMoves(c)
    <2>1. TypeOK
      BY Types DEF StreamInv
    <2> QED
      BY <2>1, OneMoves DEF Open, Call
  <1>1. /\ ~ UndoCreate(c) /\ pc'[c] # "undo"
    BY DEF StreamInv, LifeInv, StoreLife, NothingUndone, UndoCreate, At
  <1>2. /\ UNCHANGED <<resources, births, disposing>>
        /\ pc[c] \in {"idle", "register", "retain", "writing"}
        /\ pc'[c] \in {"idle", "retain", "writing", "exists"}
        /\ Creator(c) /\ Writable(stream[c]) => Creator(c)' /\ stream'[c] = stream[c]
        /\ pc'[c] \in {"idle", "exists"} => got'[c] = <<>>
    <2>1. CASE RegisterTopic(c)
      BY <1>0, <1>1, <2>1 DEF RegisterTopic, At, Goto, Creator, TypeOK
    <2>2. CASE Retain(c)
      BY <1>0, <2>2 DEF Retain, At, Goto, Creator, TypeOK
    <2>3. CASE CloseRejected(c)
      BY <1>0, <2>3 DEF CloseRejected, At, Leave, store, Creator, TypeOK
    <2>4. CASE \E s \in Streams : GetStreamReader(c, s)
      BY <1>0, <2>4 DEF GetStreamReader, At, Enter, Creator, TypeOK,
                        StreamInv, ReadInv, FreshEnds
    <2> QED
      BY <1>1, <2>1, <2>2, <2>3, <2>4
  <1>3. ~ Attached(c) /\ ~ Attached(c)'
    BY <1>2 DEF Attached, Reading, At
  <1>4. ReadInv'
    BY <1>0, <1>2, <1>3, OneReadsOn
  <1> QED
    BY <1>0, <1>2, <1>3, <1>4, HolderGetsOn

\* A reader joins when it finds the resource, with nothing read.
LEMMA CheckExistsRefines ==
    ASSUME StreamInv, NEW c \in Clients, CheckExists(c)
    PROVE  ReadInv' /\ (Stream!Join(c, stream[c]) \/ UNCHANGED Stream!vars)
  <1>0. /\ TypeOK /\ OnlyMoves(c) /\ stream[c] \in Streams
        /\ UNCHANGED <<resources, births, disposing, stream, got, result>>
        /\ pc[c] = "exists" /\ got[c] = <<>>
        /\ pc'[c] = IF Exists(stream[c]) THEN "open" ELSE "drop"
    <2>1. TypeOK
      BY Types DEF StreamInv
    <2>2. OnlyMoves(c)
      BY <2>1, OneMoves
    <2> QED
      BY <2>1, <2>2, Types
         DEF CheckExists, At, Goto, store, TypeOK, StreamInv, ReadInv, FreshEnds
  <1>1. ReadInv'
    <2>1. Attached(c)' /\ Exists(stream'[c]) => ReadsPrefix(c)'
      <3>1. ASSUME NEW q \in Seq(Tags) PROVE Len(<<>>) <= Len(q) /\ <<>> = SubSeq(q, 1, Len(<<>>))
        <4>1. Len(<<>>) = 0 /\ Len(q) \in Nat
          OBVIOUS
        <4>2. SubSeq(q, 1, 0) = <<>>
          BY SubSeqEmpty
        <4> QED
          BY <4>1, <4>2
      <3>2. Exists(stream[c]) => resources[stream[c]].data \in Seq(Tags)
        BY <1>0, Types DEF Resource, StreamInv
      <3>3. Exists(stream[c]) => ReadsPrefix(c)
        BY <1>0, <3>1, <3>2 DEF ReadsPrefix
      <3> QED
        BY <1>0, <3>3 DEF ReadsPrefix, Attached, Reading, At
    <2>2. ~ Creator(c) /\ pc'[c] \notin {"closeTopic", "idle", "exists"}
      BY <1>0 DEF Creator
    <2>3. resources' = resources
      BY <1>0
    <2> QED
      BY <1>0, <2>1, <2>2, <2>3, OneReadsOn
  <1>2. UNCHANGED <<AbstractData, AbstractEnded>>
    BY <1>0, SameStore
  <1>3. UNCHANGED AbstractLife
    BY <1>0, DisposedAsBefore, SameLife
  <1>4. CASE ~ Exists(stream[c])
    BY <1>0, <1>1, <1>4, HolderGetsOn DEF Attached, Reading, At
  <1>5. CASE Exists(stream[c])
    <2>1. \A d \in Clients : d # c =>
            /\ AbstractReading'[d] = AbstractReading[d]
            /\ AbstractGot'[d] = AbstractGot[d]
            /\ AbstractOutcome'[d] = AbstractOutcome[d]
      BY <1>0 DEF OnlyMoves, AbstractReading, AbstractGot, AbstractOutcome,
                  Attached, Reading, At
    <2>2. /\ AbstractReading[c] = NoStream /\ AbstractReading'[c] = stream[c]
          /\ AbstractGot'[c] = AbstractGot[c]
          /\ AbstractOutcome'[c] = AbstractOutcome[c]
      BY <1>0, <1>5 DEF AbstractReading, AbstractGot, AbstractOutcome,
                        Attached, Reading, At
    <2>3. UNCHANGED <<AbstractGot, AbstractOutcome>>
      BY <2>1, <2>2, AbstractFunctions
    <2>4. AbstractReading' = [AbstractReading EXCEPT ![c] = stream[c]]
      BY <2>1, <2>2, AbstractFunctions
    <2>5. Stream!There(stream[c])
      BY <1>0, <1>5 DEF Stream!There, AbstractLife, Life
    <2>6. Stream!Join(c, stream[c])
      BY <1>2, <1>3, <2>2, <2>3, <2>4, <2>5 DEF Stream!Join
    <2> QED
      BY <1>1, <2>6
  <1> QED
    BY <1>4, <1>5

----------------------------------------------------------------------------
(* A stream is written and ended.                                          *)

\* What follows a beginning of the data does not change it.
LEMMA AppendKeepsPrefix ==
    ASSUME NEW q \in Seq(Tags), NEW t \in Tags, NEW p,
           Len(p) \in Nat, Len(p) <= Len(q), p = SubSeq(q, 1, Len(p))
    PROVE  /\ Len(p) <= Len(Append(q, t))
           /\ p = SubSeq(Append(q, t), 1, Len(p))
  <1>1. Len(Append(q, t)) = Len(q) + 1 /\ Len(q) \in Nat
    OBVIOUS
  <1>2. Len(p) <= Len(Append(q, t))
    BY <1>1
  <1>3. SubSeq(Append(q, t), 1, Len(p)) = SubSeq(q, 1, Len(p))
    <2>1. PICK n \in Nat : n = Len(p) /\ n <= Len(q)
      OBVIOUS
    <2>2. SubSeq(Append(q, t), 1, n) = SubSeq(q, 1, n)
      <3> DEFINE a == SubSeq(Append(q, t), 1, n)
                 b == SubSeq(q, 1, n)
      <3>1. Append(q, t) \in Seq(Tags)
        OBVIOUS
      <3>2. a \in Seq(Tags) /\ b \in Seq(Tags) /\ Len(a) = n /\ Len(b) = n
        BY <1>1, <2>1, <3>1, SubSeqProperties
      <3>3. \A i \in 1 .. n : a[i] = q[i] /\ b[i] = q[i]
        BY <1>1, <2>1, <3>1
      <3> QED
        BY <3>2, <3>3, SeqEqual
    <2> QED
      BY <2>1, <2>2
  <1> QED
    BY <1>2, <1>3

\* A Write appends to a resource that is not ended.
LEMMA WriteRefines ==
    ASSUME StreamInv, NEW c \in Clients, NEW n \in {0, 1}, Write(c, n)
    PROVE  ReadInv' /\ (Stream!Write(stream[c], tag[c]) \/ UNCHANGED Stream!vars)
  <1> DEFINE s == stream[c]
  <1>0. /\ TypeOK /\ OnlyMoves(c) /\ s \in Streams /\ tag[c] \in Tags
        /\ UNCHANGED <<births, disposing, stream, got, result>>
        /\ pc[c] = "writing" /\ pc'[c] = "notify"
        /\ Exists(s) /\ ~ resources[s].closed
        /\ resources[s] \in Resource
    <2>1. TypeOK
      BY Types DEF StreamInv
    <2>2. OnlyMoves(c)
      BY <2>1, OneMoves DEF Call
    <2>3. /\ pc[c] = "writing" /\ pc'[c] = "notify" /\ Exists(s) /\ ~ resources[s].closed
          /\ UNCHANGED <<births, disposing, stream, got, result>>
      BY <2>1 DEF Write, At, Goto, TypeOK, Writable
    <2> QED
      BY <2>1, <2>2, <2>3, Types DEF StreamInv, TypeOK
  <1>1. ~ Attached(c) /\ ~ Attached(c)' /\ Creator(c) /\ Creator(c)'
    BY <1>0 DEF Attached, Reading, At, Creator
  <1>2. CASE n = 0
    <2>1. resources' = resources
      BY <1>2 DEF Write
    <2>2. ReadInv'
      BY <1>0, <1>1, <2>1, OneReadsOn
    <2> QED
      BY <1>0, <1>1, <2>1, <2>2, HolderGetsOn
  <1>3. CASE n = 1
    <2> DEFINE r == [resources[s] EXCEPT !.data = Append(@, tag[c])]
    <2>1. resources' = [resources EXCEPT ![s] = r]
      BY <1>3 DEF Write
    <2>2. /\ r.data = Append(resources[s].data, tag[c]) /\ ~ r.closed
          /\ r.errorToForward = resources[s].errorToForward
          /\ r \in Resource /\ r # Absent
          /\ resources[s].data \in Seq(Tags)
      <3>1. resources[s].data \in Seq(Tags)
        BY <1>0 DEF Resource
      <3>2. Append(resources[s].data, tag[c]) \in Seq(Tags)
        BY <1>0, <3>1
      <3>3. r \in Resource /\ r.data = Append(resources[s].data, tag[c]) /\ ~ r.closed
            /\ r.errorToForward = resources[s].errorToForward
        BY <1>0, <3>2 DEF Resource
      <3> QED
        BY <3>1, <3>3, AbsentAssumption
    <2>3. resources'[s] = r /\ \A t \in Streams : t # s => resources'[t] = resources[t]
      BY <1>0, <2>1 DEF TypeOK
    <2> HIDE DEF r
    <2>4. \A t \in Streams : /\ Exists(t)' <=> Exists(t)
                             /\ Writable(t)' <=> Writable(t)
      BY <1>0, <2>2, <2>3 DEF Exists, Writable
    <2>5. ReadInv'
      <3> USE DEF StreamInv, ReadInv
      <3>1. ClosersEnd'
        <4> SUFFICES ASSUME NEW d \in Clients, pc'[d] = "closeTopic"
                     PROVE  /\ Exists(stream[d])'
                            /\ resources'[stream[d]].closed
                            /\ resources'[stream[d]].errorToForward = result[d]
          BY <1>0 DEF ClosersEnd
        <4>1. pc[d] = "closeTopic" /\ stream[d] \in Streams
          BY <1>0, Types DEF OnlyMoves
        <4>2. /\ Exists(stream[d])
              /\ resources[stream[d]].closed
              /\ resources[stream[d]].errorToForward = result[d]
          BY <4>1 DEF ClosersEnd
        <4>3. stream[d] # s
          BY <1>0, <4>2
        <4> QED
          BY <1>0, <2>3, <4>1, <4>2, <4>3 DEF Exists
      <3>2. OpenHasWriter'
        <4> SUFFICES ASSUME NEW t \in Streams, Writable(t)'
                     PROVE  \E w \in Clients : Creator(w)' /\ stream'[w] = t
          BY DEF OpenHasWriter
        <4>1. PICK w \in Clients : Creator(w) /\ stream[w] = t
          BY <2>4 DEF OpenHasWriter
        <4>2. Creator(w)' /\ stream'[w] = t
          BY <1>0, <1>1, <4>1 DEF OnlyMoves, Creator
        <4> QED
          BY <4>2
      <3>3. ErrorsEnd'
        BY <1>0, <2>2, <2>3, <2>4 DEF ErrorsEnd
      <3>4. FreshEnds'
        BY <1>0 DEF FreshEnds, OnlyMoves
      <3>5. PrefixRead'
        <4> SUFFICES ASSUME NEW d \in Clients, Attached(d)', Exists(stream[d])'
                     PROVE  ReadsPrefix(d)'
          BY DEF PrefixRead
        <4>1. d # c /\ Attached(d)
          BY <1>0, <1>1 DEF OnlyMoves, Attached, Reading, At
        <4>2. stream[d] \in Streams /\ stream'[d] = stream[d] /\ got'[d] = got[d]
          BY <1>0, <4>1, Types DEF Attached, Reading, At
        <4>3. ReadsPrefix(d)
          BY <2>4, <4>1, <4>2 DEF PrefixRead, Exists
        <4>4. CASE stream[d] # s
          BY <2>3, <4>2, <4>3, <4>4 DEF ReadsPrefix
        <4>5. CASE stream[d] = s
          <5>1. Len(got[d]) \in Nat
            BY Types
          <5>2. /\ Len(got[d]) <= Len(r.data)
                /\ got[d] = SubSeq(r.data, 1, Len(got[d]))
            BY <1>0, <2>2, <4>3, <4>5, <5>1, AppendKeepsPrefix DEF ReadsPrefix
          <5> QED
            BY <2>3, <4>2, <4>5, <5>2 DEF ReadsPrefix
        <4> QED
          BY <4>4, <4>5
      <3> QED
        BY <3>1, <3>2, <3>3, <3>4, <3>5
    <2>6. UNCHANGED AbstractLife
      <3>1. \A t \in Streams : BeingDisposed(t)' <=> BeingDisposed(t)
        BY <1>0, DisposedAsBefore
      <3>2. \A t \in Streams : AbstractLife'[t] = AbstractLife[t]
        BY <1>0, <2>4, <3>1, LifeKept DEF Exists
      <3> QED
        BY <3>2, AbstractFunctions
    <2>7. UNCHANGED AbstractEnded /\ AbstractEnded[s] = "no"
      <3>1. AbstractEnded'[s] = "no" /\ AbstractEnded[s] = "no"
        BY <1>0, <2>2, <2>3 DEF AbstractEnded
      <3>2. \A t \in Streams : AbstractEnded'[t] = AbstractEnded[t]
        BY <2>3, <3>1, StoreKept
      <3> QED
        BY <3>1, <3>2, AbstractFunctions
    <2>8. AbstractData' = [AbstractData EXCEPT ![s] = Append(@, tag[c])]
      <3>1. AbstractData[s] = resources[s].data
            /\ AbstractData'[s] = Append(resources[s].data, tag[c])
        BY <1>0, <2>2, <2>3, <2>4 DEF AbstractData
      <3>2. \A t \in Streams : t # s => AbstractData'[t] = AbstractData[t]
        BY <2>3, StoreKept
      <3> QED
        BY <3>1, <3>2, AbstractFunctions
    <2>9. UNCHANGED <<AbstractReading, AbstractGot, AbstractOutcome>>
      BY <1>0, <1>1, NoReaderMoves
    <2>10. Stream!There(s)
      BY <1>0 DEF Stream!There, AbstractLife, Life
    <2>11. Stream!Write(s, tag[c])
      BY <2>6, <2>7, <2>8, <2>9, <2>10 DEF Stream!Write
    <2> QED
      BY <2>5, <2>11
  <1> QED
    BY <1>2, <1>3

\* A Close ends the resource, with the error that it forwards.
LEMMA CloseRefines ==
    ASSUME StreamInv, NEW c \in Clients, NEW e \in ForwardedErrors, Close(c, e)
    PROVE  ReadInv' /\ Stream!End(stream[c], e)
  <1> DEFINE s == stream[c]
             r == [resources[s] EXCEPT !.closed = TRUE, !.errorToForward = e]
  <1>0. /\ TypeOK /\ OnlyMoves(c) /\ s \in Streams
        /\ UNCHANGED <<births, disposing, stream, got>>
        /\ pc[c] = "writing" /\ pc'[c] = "closeTopic" /\ result'[c] = e
        /\ Exists(s) /\ ~ resources[s].closed
        /\ resources[s] \in Resource
    <2>1. TypeOK
      BY Types DEF StreamInv
    <2>2. OnlyMoves(c)
      BY <2>1, OneMoves DEF Call
    <2>3. /\ pc[c] = "writing" /\ pc'[c] = "closeTopic" /\ result'[c] = e
          /\ Exists(s) /\ ~ resources[s].closed
          /\ UNCHANGED <<births, disposing, stream, got>>
      BY <2>1 DEF Close, At, Goto, TypeOK, Writable
    <2> QED
      BY <2>1, <2>2, <2>3, Types DEF StreamInv
  <1>1. ~ Attached(c) /\ ~ Attached(c)'
    BY <1>0 DEF Attached, Reading, At
  <1>2. /\ r.data = resources[s].data /\ r.closed /\ r.errorToForward = e
        /\ r \in Resource /\ r # Absent
    <2>1. /\ r \in Resource /\ r.data = resources[s].data
          /\ r.closed /\ r.errorToForward = e
      BY <1>0 DEF Resource
    <2> QED
      BY <2>1, AbsentAssumption
  <1>3. resources'[s] = r /\ \A t \in Streams : t # s => resources'[t] = resources[t]
    BY <1>0 DEF TypeOK, Close
  <1> HIDE DEF r
  <1>4. \A t \in Streams : Exists(t)' <=> Exists(t)
    BY <1>0, <1>2, <1>3 DEF Exists
  <1>5. ReadInv'
    <2> USE DEF StreamInv, ReadInv
    <2>1. ClosersEnd'
      <3> SUFFICES ASSUME NEW d \in Clients, pc'[d] = "closeTopic"
                   PROVE  /\ Exists(stream[d])'
                          /\ resources'[stream[d]].closed
                          /\ resources'[stream[d]].errorToForward = result'[d]
        BY <1>0 DEF ClosersEnd
      <3>1. CASE d = c
        BY <1>0, <1>2, <1>3, <1>4, <3>1
      <3>2. CASE d # c
        <4>1. pc[d] = "closeTopic" /\ stream[d] \in Streams /\ result'[d] = result[d]
          BY <1>0, <3>2, Types DEF OnlyMoves
        <4>2. /\ Exists(stream[d])
              /\ resources[stream[d]].closed
              /\ resources[stream[d]].errorToForward = result[d]
          BY <4>1 DEF ClosersEnd
        <4>3. stream[d] # s
          BY <1>0, <4>2
        <4> QED
          BY <1>0, <1>3, <4>1, <4>2, <4>3 DEF Exists
      <3> QED
        BY <3>1, <3>2
    <2>2. OpenHasWriter'
      <3> SUFFICES ASSUME NEW t \in Streams, Writable(t)'
                   PROVE  \E w \in Clients : Creator(w)' /\ stream'[w] = t
        BY DEF OpenHasWriter
      <3>1. t # s
        BY <1>2, <1>3 DEF Writable
      <3>2. PICK w \in Clients : Creator(w) /\ stream[w] = t
        BY <1>3, <3>1 DEF OpenHasWriter, Writable, Exists
      <3>3. Creator(w)' /\ stream'[w] = t
        BY <1>0, <3>1, <3>2 DEF OnlyMoves, Creator
      <3> QED
        BY <3>3
    <2>3. ErrorsEnd'
      BY <1>2, <1>3, <1>4 DEF ErrorsEnd
    <2>4. FreshEnds'
      BY <1>0 DEF FreshEnds, OnlyMoves
    <2>5. PrefixRead'
      <3> SUFFICES ASSUME NEW d \in Clients, Attached(d)', Exists(stream[d])'
                   PROVE  ReadsPrefix(d)'
        BY DEF PrefixRead
      <3>1. d # c /\ Attached(d)
        BY <1>0, <1>1 DEF OnlyMoves, Attached, Reading, At
      <3>2. stream[d] \in Streams /\ stream'[d] = stream[d] /\ got'[d] = got[d]
        BY <1>0, <3>1, Types DEF Attached, Reading, At
      <3>3. ReadsPrefix(d)
        BY <1>4, <3>1, <3>2 DEF PrefixRead, Exists
      <3>4. resources'[stream[d]].data = resources[stream[d]].data
        BY <1>2, <1>3, <3>2
      <3> QED
        BY <3>2, <3>3, <3>4 DEF ReadsPrefix
    <2> QED
      BY <2>1, <2>2, <2>3, <2>4, <2>5
  <1>6. UNCHANGED AbstractLife
    <2>1. \A t \in Streams : BeingDisposed(t)' <=> BeingDisposed(t)
      BY <1>0, DisposedAsBefore
    <2>2. \A t \in Streams : AbstractLife'[t] = AbstractLife[t]
      BY <1>0, <1>4, <2>1, LifeKept DEF Exists
    <2> QED
      BY <2>2, AbstractFunctions
  <1>7. UNCHANGED AbstractData
    <2>1. AbstractData'[s] = AbstractData[s]
      BY <1>0, <1>2, <1>3, <1>4 DEF AbstractData
    <2>2. \A t \in Streams : AbstractData'[t] = AbstractData[t]
      BY <1>3, <2>1, StoreKept
    <2> QED
      BY <2>2, AbstractFunctions
  <1>8. AbstractEnded[s] = "no" /\ AbstractEnded' = [AbstractEnded EXCEPT ![s] = e]
    <2>1. AbstractEnded[s] = "no" /\ AbstractEnded'[s] = e
      BY <1>0, <1>2, <1>3, <1>4 DEF AbstractEnded
    <2>2. \A t \in Streams : t # s => AbstractEnded'[t] = AbstractEnded[t]
      BY <1>3, StoreKept
    <2> QED
      BY <2>1, <2>2, AbstractFunctions
  <1>9. UNCHANGED <<AbstractReading, AbstractGot, AbstractOutcome>>
    BY <1>0, <1>1, NoReaderMoves
  <1>10. Stream!There(s)
    BY <1>0 DEF Stream!There, AbstractLife, Life
  <1> QED
    BY <1>5, <1>6, <1>7, <1>8, <1>9, <1>10 DEF Stream!End

\* The monitor wakes readers, and no resource changes.
LEMMA ManyReadOn ==
    ASSUME StreamInv, UNCHANGED <<resources, stream, got>>,
           \A d \in Clients :
             /\ Attached(d)' => Attached(d)
             /\ pc'[d] = "closeTopic" => pc[d] = "closeTopic" /\ result'[d] = result[d]
             /\ Creator(d) /\ Writable(stream[d]) => Creator(d)'
             /\ pc'[d] \in {"idle", "exists"} => pc'[d] = pc[d]
    PROVE  ReadInv'
  <1> USE DEF StreamInv, ReadInv
  <1>1. ClosersEnd'
    BY DEF ClosersEnd, Exists
  <1>2. OpenHasWriter'
    <2> SUFFICES ASSUME NEW s \in Streams, Writable(s)
                 PROVE  \E w \in Clients : Creator(w)' /\ stream'[w] = s
      BY DEF OpenHasWriter, Writable, Exists
    <2>1. PICK w \in Clients : Creator(w) /\ stream[w] = s
      BY DEF OpenHasWriter
    <2>2. Creator(w)' /\ stream'[w] = s
      BY <2>1
    <2> QED
      BY <2>2
  <1>3. ErrorsEnd'
    BY DEF ErrorsEnd, Exists
  <1>4. FreshEnds'
    BY DEF FreshEnds
  <1>5. PrefixRead'
    BY DEF PrefixRead, ReadsPrefix, Exists
  <1> QED
    BY <1>1, <1>2, <1>3, <1>4, <1>5

\* Waking those that wait is not seen: they read again.
LEMMA SendRefines ==
    ASSUME StreamInv, NEW c \in Clients, SendNotification(c)
    PROVE  ReadInv' /\ UNCHANGED Stream!vars
  <1>0. /\ TypeOK
        /\ \A d \in Listeners(stream[c]) : pc[d] = "waiting"
        /\ UNCHANGED <<resources, births, disposing, stream, got, result>>
        /\ pc[c] = "notify" /\ pc'[c] = "writing"
    <2>1. TypeOK /\ ListenersWait /\ stream[c] \in Streams
      BY Types DEF StreamInv, SendNotification, At
    <2>2. \A d \in Listeners(stream[c]) : d \in Clients
      BY <2>1 DEF TypeOK, Listeners
    <2> QED
      BY <2>1, <2>2 DEF SendNotification, ListenersWait, At
  <1>1. \A d \in Clients \ {c} :
          pc'[d] = pc[d] \/ (pc[d] = "waiting" /\ pc'[d] = "retry")
    BY <1>0 DEF SendNotification
  <1>2. \A d \in Clients :
          /\ Attached(d)' <=> Attached(d)
          /\ pc'[d] = "finished" <=> pc[d] = "finished"
          /\ pc'[d] = "releasing" <=> pc[d] = "releasing"
          /\ pc'[d] = "closeTopic" <=> pc[d] = "closeTopic"
          /\ Creator(d)' <=> Creator(d)
          /\ pc'[d] \in {"idle", "exists"} => pc'[d] = pc[d]
    BY <1>0, <1>1 DEF Attached, Reading, At, Creator
  <1>3. ReadInv'
    BY <1>0, <1>2, ManyReadOn
  <1>4. UNCHANGED <<AbstractData, AbstractEnded>>
    BY <1>0, SameStore
  <1>5. UNCHANGED AbstractLife
    <2>1. \A s \in Streams : BeingDisposed(s)' <=> BeingDisposed(s)
      BY <1>0, <1>2 DEF BeingDisposed, At
    <2> QED
      BY <1>0, <2>1, SameLife
  <1>6. UNCHANGED <<AbstractReading, AbstractGot, AbstractOutcome>>
    BY <1>0, <1>2, SameReaders
  <1> QED
    BY <1>3, <1>4, <1>5, <1>6 DEF Stream!vars

\* Closing the topic tells all that wait of the writer's error at once, or
\* lets them read on.
LEMMA CloseTopicRefines ==
    ASSUME StreamInv, NEW c \in Clients, CloseTopic(c)
    PROVE  /\ ReadInv'
           /\ \/ UNCHANGED Stream!vars
              \/ Stream!Finish(Listeners(stream[c]), "failed")
  <1> DEFINE s == stream[c]
             woken == Listeners(s)
  <1>0. /\ TypeOK /\ s \in Streams
        /\ woken \subseteq Clients
        /\ \A d \in woken : pc[d] = "waiting" /\ stream[d] = s
        /\ UNCHANGED <<resources, births, disposing, stream, got>>
        /\ pc[c] = "closeTopic" /\ pc'[c] = "drop"
        /\ Exists(s) /\ resources[s].closed
        /\ resources[s].errorToForward = result[c]
        /\ result[c] \in ForwardedErrors
    <2>1. TypeOK /\ ListenersWait /\ s \in Streams
      BY Types DEF StreamInv, CloseTopic, At
    <2>2. woken \subseteq Clients
      BY <2>1 DEF TypeOK, Listeners
    <2>3. /\ UNCHANGED <<resources, births, disposing, stream, got>>
          /\ pc[c] = "closeTopic" /\ pc'[c] = "drop"
      BY DEF CloseTopic, At
    <2>4. /\ Exists(s) /\ resources[s].closed
          /\ resources[s].errorToForward = result[c]
      BY <2>3 DEF StreamInv, ReadInv, ClosersEnd
    <2>5. result[c] \in ForwardedErrors
      BY <2>1, <2>4, Types DEF StreamInv, Resource
    <2> QED
      BY <2>1, <2>2, <2>3, <2>4, <2>5 DEF ListenersWait
  <1>1. c \notin woken
    BY <1>0
  <1>2. \A d \in woken :
          /\ pc'[d] = IF result[c] = "nil" THEN "retry" ELSE "finished"
          /\ result'[d] = result[c]
    BY <1>0, <1>1 DEF CloseTopic
  <1>3. \A d \in Clients \ woken : (d # c => pc'[d] = pc[d]) /\ result'[d] = result[d]
    BY DEF CloseTopic
  <1> HIDE DEF woken
  <1>4. \A d \in Clients :
          /\ Attached(d)' <=> Attached(d)
          /\ pc'[d] = "releasing" <=> pc[d] = "releasing"
          /\ pc'[d] = "closeTopic" => pc[d] = "closeTopic" /\ result'[d] = result[d]
          /\ Creator(d) /\ Writable(stream[d]) => Creator(d)'
          /\ pc'[d] \in {"idle", "exists"} => pc'[d] = pc[d]
    <2>1. ASSUME NEW d \in woken PROVE Attached(d) /\ Attached(d)' /\ ~ Creator(d)
                                       /\ pc'[d] \in {"retry", "finished"} /\ pc[d] = "waiting"
      BY <1>0, <1>2 DEF Attached, Reading, At, Creator
    <2>2. /\ ~ Attached(c) /\ ~ Attached(c)' /\ ~ Writable(stream[c])
      BY <1>0 DEF Attached, Reading, At, Writable
    <2>3. ASSUME NEW d \in Clients, d \notin woken, d # c
          PROVE  /\ Attached(d)' <=> Attached(d)
                 /\ Creator(d)' <=> Creator(d)
                 /\ pc'[d] = pc[d] /\ result'[d] = result[d]
      BY <1>3, <2>3 DEF Attached, Reading, At, Creator
    <2> QED
      BY <1>0, <2>1, <2>2, <2>3
  <1>5. ReadInv'
    BY <1>0, <1>4, ManyReadOn
  <1>6. UNCHANGED <<AbstractData, AbstractEnded>>
    BY <1>0, SameStore
  <1>7. UNCHANGED AbstractLife
    <2>1. \A t \in Streams : BeingDisposed(t)' <=> BeingDisposed(t)
      BY <1>0, <1>4 DEF BeingDisposed, At
    <2> QED
      BY <1>0, <2>1, SameLife
  <1>8. CASE result[c] = "nil" \/ woken = {}
    <2>1. \A d \in Clients :
            /\ pc'[d] = "finished" <=> pc[d] = "finished"
            /\ pc[d] = "finished" => result'[d] = result[d]
      BY <1>0, <1>1, <1>2, <1>3, <1>8
    <2>2. UNCHANGED <<AbstractReading, AbstractGot, AbstractOutcome>>
      BY <1>0, <1>4, <2>1, SameReaders
    <2> QED
      BY <1>5, <1>6, <1>7, <2>2 DEF Stream!vars
  <1>9. CASE result[c] = "failed" /\ woken # {}
    <2>1. UNCHANGED <<AbstractReading, AbstractGot>>
      BY <1>0, <1>4 DEF AbstractReading, AbstractGot
    <2>2. \A d \in woken : /\ AbstractReading[d] = s /\ s # NoStream
                           /\ AbstractOutcome[d] = "no"
                           /\ AbstractOutcome'[d] = "failed"
      BY <1>0, <1>2, <1>9, StreamsAssumption
         DEF AbstractReading, AbstractOutcome, Attached, Reading, At
    <2>3. \A d \in Clients : d \notin woken => AbstractOutcome'[d] = AbstractOutcome[d]
      BY <1>0, <1>3 DEF AbstractOutcome, At
    <2>4. AbstractOutcome' =
            [d \in Clients |-> IF d \in woken THEN "failed" ELSE AbstractOutcome[d]]
      BY <1>0, <2>2, <2>3, AbstractFunctions
    <2>5. AbstractLife[s] # "gone" /\ AbstractEnded[s] = "failed"
      BY <1>0, <1>9 DEF AbstractLife, Life, AbstractEnded
    <2>6. \A d \in woken : "failed" \in Stream!Outcomes(d)
      BY <2>2, <2>5 DEF Stream!Outcomes
    <2>7. Stream!Finish(woken, "failed")
      BY <1>0, <1>6, <1>7, <1>9, <2>1, <2>2, <2>4, <2>6 DEF Stream!Finish
    <2> QED
      BY <1>5, <2>7 DEF woken
  <1> QED
    BY <1>0, <1>8, <1>9 DEF ForwardedErrors, woken

----------------------------------------------------------------------------
(* A stream is left and disposed.                                          *)

\* The client that drops the last reference of a stream is its last holder.
LEMMA LastHolder ==
    ASSUME LifeInv, NEW c \in Clients, pc[c] = "drop", readers[stream[c]] = 1
    PROVE  Holders(stream[c]) \subseteq {c}
  <1> DEFINE s == stream[c]
  <1> SUFFICES ASSUME NEW d \in Holders(s), d # c PROVE FALSE
    OBVIOUS
  <1>0. s \in Streams /\ d \in Clients /\ c # d
    BY Types DEF Holders
  <1>1. {c, d} \subseteq Holders(s)
    BY DEF Holders
  <1>2. IsFiniteSet({c}) /\ Cardinality({c}) = 1
    BY FS_Singleton
  <1>3. Cardinality({c} \cup {d}) = 2
    <2>1. d \notin {c}
      BY <1>0
    <2>2. Cardinality({c} \cup {d}) = Cardinality({c}) + 1
      BY <1>2, <2>1, FS_AddElement
    <2> QED
      BY <1>2, <2>2
  <1>4. {c} \cup {d} = {c, d}
    OBVIOUS
  <1>5. Cardinality(Holders(s)) >= 2 /\ Cardinality(Holders(s)) \in Nat
    BY <1>0, <1>1, <1>3, <1>4, HoldersFinite, FS_Subset
  <1>6. readers[s] >= Cardinality(Holders(s))
    BY <1>0 DEF LifeInv, CountInv, CountCoversHolders
  <1> QED
    BY <1>5, <1>6

\* The last reference is dropped after the end and by the last reader: the
\* stream is released.
LEMMA DropReferenceRefines ==
    ASSUME StreamInv, NEW c \in Clients, DropReference(c)
    PROVE  ReadInv' /\ (UNCHANGED Stream!vars \/ Stream!Release(stream[c]))
  <1>s. PICK s \in Streams : s = stream[c]
    BY Types DEF StreamInv, DropReference, Release, At
  <1>0. /\ TypeOK /\ OnlyMoves(c) /\ s = stream[c] /\ LifeInv
        /\ UNCHANGED <<resources, births, disposing>>
        /\ pc[c] = "drop"
        /\ \/ /\ readers[s] = 1 /\ pc'[c] = "releasing" /\ stream'[c] = s
           \/ /\ pc'[c] = "idle" /\ got'[c] = <<>>
    <2>1. TypeOK /\ LifeInv
      BY Types DEF StreamInv
    <2>2. OnlyMoves(c)
      BY <2>1, OneMoves
    <2>3. pc[c] = "drop"
      BY DEF DropReference, At
    <2>4. UNCHANGED <<resources, births, disposing>>
      BY DEF DropReference
    <2>5. \/ /\ readers[s] = 1 /\ pc'[c] = "releasing" /\ stream'[c] = s
          \/ /\ pc'[c] = "idle" /\ got'[c] = <<>>
      BY <1>s, <2>1 DEF DropReference, Goto, Leave, TypeOK
    <2> QED
      BY <1>s, <2>1, <2>2, <2>3, <2>4, <2>5
  <1>1. ~ Attached(c) /\ ~ Attached(c)' /\ ~ Creator(c)
    BY <1>0 DEF Attached, Reading, At, Creator
  <1>2. ReadInv'
    BY <1>0, <1>1, OneReadsOn
  <1>3. CASE pc'[c] = "idle"
    BY <1>0, <1>1, <1>2, <1>3, HolderGetsOn
  <1>4. CASE readers[s] = 1 /\ pc'[c] = "releasing" /\ stream'[c] = s
    <2>1. UNCHANGED <<AbstractData, AbstractEnded>>
      BY <1>0, SameStore
    <2>2. UNCHANGED <<AbstractReading, AbstractGot, AbstractOutcome>>
      BY <1>0, <1>1, NoReaderMoves
    <2>3. /\ BeingDisposed(s)'
          /\ \A t \in Streams : t # s => (BeingDisposed(t)' <=> BeingDisposed(t))
      BY <1>0, <1>4 DEF BeingDisposed, At, OnlyMoves
    <2>4. \A t \in Streams : t # s => AbstractLife'[t] = AbstractLife[t]
      BY <1>0, <2>3, LifeKept
    <2>5. CASE ~ Exists(s) \/ BeingDisposed(s)
      <3>1. AbstractLife'[s] = AbstractLife[s]
        BY <1>0, <2>3, <2>5, LifeKept
      <3>2. UNCHANGED AbstractLife
        BY <2>4, <3>1, AbstractFunctions
      <3> QED
        BY <1>2, <2>1, <2>2, <3>2 DEF Stream!vars
    <2>6. CASE Exists(s) /\ ~ BeingDisposed(s)
      <3>1. AbstractLife[s] = "here"
        BY <1>0, <2>6 DEF AbstractLife, Life
      <3>2. AbstractLife'[s] = "released"
        BY <1>0, <2>3, <2>6 DEF AbstractLife, Life, Exists
      <3>3. AbstractLife' = [AbstractLife EXCEPT ![s] = "released"]
        BY <2>4, <3>2, AbstractFunctions
      <3>4. resources[s].closed
        <4> SUFFICES ASSUME Writable(s) PROVE FALSE
          BY <2>6 DEF Writable
        <4>1. PICK w \in Clients : Creator(w) /\ stream[w] = s
          BY <1>0 DEF StreamInv, ReadInv, OpenHasWriter
        <4> QED
          BY <1>0, <1>4, <4>1, WriterHolds DEF At
      <3>5. AbstractEnded[s] # "no"
        <4>1. resources[s].errorToForward \in ForwardedErrors
          BY <1>0, <2>6, Types DEF Resource
        <4> QED
          BY <1>0, <2>6, <3>4, <4>1 DEF AbstractEnded, ForwardedErrors
      <3>6. \A d \in Clients : AbstractReading[d] # s
        <4> SUFFICES ASSUME NEW d \in Clients, AbstractReading[d] = s PROVE FALSE
          OBVIOUS
        <4>1. Attached(d) /\ stream[d] = s
          BY <1>0, StreamsAssumption DEF AbstractReading
        <4>2. d \in Holders(s)
          BY <4>1 DEF Holders, Attached, Reading, At
        <4>3. d = c
          BY <1>0, <1>4, <4>2, LastHolder
        <4> QED
          BY <1>1, <4>1, <4>3
      <3> QED
        BY <1>0, <1>2, <2>1, <2>2, <3>1, <3>3, <3>5, <3>6 DEF Stream!Release
    <2> QED
      BY <2>5, <2>6
  <1> QED
    BY <1>0, <1>3, <1>4

\* Handing a stream to the disposer is not seen.
LEMMA ReleaseRefines ==
    ASSUME StreamInv, NEW c \in Clients, Release(c)
    PROVE  ReadInv' /\ UNCHANGED Stream!vars
  <1>s. PICK s \in Streams : s = stream[c]
    BY Types DEF StreamInv, DropReference, Release, At
  <1>0. /\ TypeOK /\ OnlyMoves(c) /\ s = stream[c]
        /\ UNCHANGED <<resources, births>>
        /\ disposing = NoStream /\ disposing' = s
        /\ pc[c] = "releasing" /\ pc'[c] = "idle" /\ got'[c] = <<>>
    <2>1. TypeOK
      BY Types DEF StreamInv
    <2>2. OnlyMoves(c)
      BY <2>1, OneMoves
    <2> QED
      BY <1>s, <2>1, <2>2 DEF Release, At, Leave, TypeOK
  <1>1. ~ Attached(c) /\ ~ Attached(c)' /\ ~ Creator(c)
    BY <1>0 DEF Attached, Reading, At, Creator
  <1>2. ReadInv'
    BY <1>0, <1>1, OneReadsOn
  <1>3. \A t \in Streams : BeingDisposed(t)' <=> BeingDisposed(t)
    <2>1. BeingDisposed(s) /\ BeingDisposed(s)'
      BY <1>0 DEF BeingDisposed, At
    <2>2. ASSUME NEW t \in Streams, t # s
          PROVE  BeingDisposed(t)' <=> BeingDisposed(t)
      BY <1>0, <2>2, StreamsAssumption DEF BeingDisposed, At, OnlyMoves
    <2> QED
      BY <2>1, <2>2
  <1>4. UNCHANGED AbstractLife
    BY <1>0, <1>3, SameLife
  <1>5. UNCHANGED <<AbstractData, AbstractEnded>>
    BY <1>0, SameStore
  <1>6. UNCHANGED <<AbstractReading, AbstractGot, AbstractOutcome>>
    BY <1>0, <1>1, NoReaderMoves
  <1> QED
    BY <1>2, <1>4, <1>5, <1>6 DEF Stream!vars

\* A disposed stream vanishes, once; its second release finds nothing.
LEMMA DisposeRefines ==
    ASSUME StreamInv, Dispose
    PROVE  ReadInv' /\ (UNCHANGED Stream!vars \/ Stream!Vanish(disposing))
  <1> DEFINE s == disposing
  <1>0. /\ TypeOK /\ s \in Streams /\ s # NoStream
        /\ UNCHANGED <<births, pc, stream, tag, got, result>>
        /\ resources' = [resources EXCEPT ![s] = Absent]
        /\ disposing' = NoStream
    <2>1. TypeOK
      BY Types DEF StreamInv
    <2> QED
      BY <2>1 DEF Dispose, client, TypeOK
  <1>1. resources'[s] = Absent /\ \A t \in Streams : t # s => resources'[t] = resources[t]
    BY <1>0 DEF TypeOK
  <1>2. ReadInv'
    <2> USE DEF StreamInv, ReadInv
    <2>1. ClosersEnd'
      <3> SUFFICES ASSUME NEW d \in Clients, pc[d] = "closeTopic"
                   PROVE  /\ Exists(stream[d])'
                          /\ resources'[stream[d]].closed
                          /\ resources'[stream[d]].errorToForward = result[d]
        BY <1>0 DEF ClosersEnd
      <3>1. stream[d] \in Streams /\ stream[d] # s
        BY Types DEF LifeInv, StoreLife, ReleasedAfterClose, Creator
      <3> QED
        BY <1>0, <1>1, <3>1 DEF ClosersEnd, Exists
    <2>2. OpenHasWriter'
      <3> SUFFICES ASSUME NEW t \in Streams, Writable(t)'
                   PROVE  \E w \in Clients : Creator(w)' /\ stream'[w] = t
        BY DEF OpenHasWriter
      <3>1. t # s /\ Writable(t)
        BY <1>1 DEF Writable, Exists
      <3>2. PICK w \in Clients : Creator(w) /\ stream[w] = t
        BY <3>1 DEF OpenHasWriter
      <3>3. Creator(w)' /\ stream'[w] = t
        BY <1>0, <3>2 DEF Creator
      <3> QED
        BY <3>3
    <2>3. ErrorsEnd'
      BY <1>1 DEF ErrorsEnd, Exists
    <2>4. FreshEnds'
      BY <1>0 DEF FreshEnds
    <2>5. PrefixRead'
      <3> SUFFICES ASSUME NEW d \in Clients, Attached(d), Exists(stream[d])'
                   PROVE  ReadsPrefix(d)'
        BY <1>0 DEF PrefixRead, Attached, Reading, At
      <3>1. stream[d] \in Streams
        BY Types DEF Attached, Reading, At
      <3>2. stream[d] # s
        BY <1>0, <1>1 DEF Exists
      <3> QED
        BY <1>0, <1>1, <3>1, <3>2 DEF PrefixRead, ReadsPrefix, Exists
    <2> QED
      BY <2>1, <2>2, <2>3, <2>4, <2>5
  <1>3. UNCHANGED <<AbstractReading, AbstractGot, AbstractOutcome>>
    BY <1>0 DEF AbstractReading, AbstractGot, AbstractOutcome, Attached, Reading, At
  <1>4. \A t \in Streams : t # s => /\ AbstractData'[t] = AbstractData[t]
                                    /\ AbstractEnded'[t] = AbstractEnded[t]
                                    /\ AbstractLife'[t] = AbstractLife[t]
    <2>1. \A t \in Streams : t # s => (BeingDisposed(t)' <=> BeingDisposed(t))
      BY <1>0, StreamsAssumption DEF BeingDisposed, At
    <2> QED
      BY <1>0, <1>1, <2>1, StoreKept, LifeKept
  <1>5. births[s] # 0
    BY <1>0 DEF StreamInv, LifeInv, StoreLife, Untouched
  <1>6. /\ AbstractData'[s] = <<>> /\ AbstractEnded'[s] = "no"
        /\ AbstractLife'[s] = "gone"
    BY <1>0, <1>1, <1>5 DEF AbstractData, AbstractEnded, AbstractLife, Life, Exists
  <1>7. CASE ~ Exists(s)
    <2>1. /\ AbstractData[s] = <<>> /\ AbstractEnded[s] = "no"
          /\ AbstractLife[s] = "gone"
      BY <1>0, <1>5, <1>7 DEF AbstractData, AbstractEnded, AbstractLife, Life
    <2>2. UNCHANGED <<AbstractData, AbstractEnded, AbstractLife>>
      BY <1>4, <1>6, <2>1, AbstractFunctions
    <2> QED
      BY <1>2, <1>3, <2>2 DEF Stream!vars
  <1>8. CASE Exists(s)
    <2>1. AbstractLife[s] = "released"
      BY <1>0, <1>8 DEF AbstractLife, Life, BeingDisposed
    <2>2. AbstractData' = [AbstractData EXCEPT ![s] = <<>>]
      BY <1>4, <1>6, AbstractFunctions
    <2>3. AbstractEnded' = [AbstractEnded EXCEPT ![s] = "no"]
      BY <1>4, <1>6, AbstractFunctions
    <2>4. AbstractLife' = [AbstractLife EXCEPT ![s] = "gone"]
      BY <1>4, <1>6, AbstractFunctions
    <2> QED
      BY <1>2, <1>3, <2>1, <2>2, <2>3, <2>4 DEF Stream!Vanish
  <1> QED
    BY <1>7, <1>8

----------------------------------------------------------------------------
(* A stream is read.                                                       *)

\* A sequence has a length.
LEMMA LengthIsNat ==
    ASSUME NEW p \in Seq(Tags)
    PROVE  Len(p) \in Nat
  OBVIOUS

\* Reading the next byte of the data makes one more of its beginning.
LEMMA NextOfPrefix ==
    ASSUME NEW q \in Seq(Tags), NEW p \in Seq(Tags),
           p = SubSeq(q, 1, Len(p)), Len(p) < Len(q)
    PROVE  /\ Append(p, q[Len(p) + 1]) = SubSeq(q, 1, Len(p) + 1)
           /\ Len(Append(p, q[Len(p) + 1])) = Len(p) + 1
           /\ Len(p) + 1 <= Len(q)
  <1>1. PICK n \in Nat : n = Len(p)
    BY Zenon, LengthIsNat
  <1> DEFINE a == Append(p, q[n + 1])
             b == SubSeq(q, 1, n + 1)
  <1>2. Len(q) \in Nat /\ n < Len(q) /\ n + 1 <= Len(q)
    BY <1>1
  <1>3. q[n + 1] \in Tags
    BY <1>2
  <1>4. a \in Seq(Tags) /\ Len(a) = n + 1
    BY <1>1, <1>3
  <1>5. b \in Seq(Tags) /\ Len(b) = n + 1
    BY <1>2, SubSeqProperties
  <1>6. \A i \in 1 .. n : p[i] = q[i]
    <2>1. p = SubSeq(q, 1, n)
      BY <1>1
    <2>2. \A i \in 1 .. n : SubSeq(q, 1, n)[i] = q[i]
      BY <1>2
    <2> QED
      BY <2>1, <2>2
  <1>7. \A i \in 1 .. (n + 1) : a[i] = q[i]
    BY <1>1, <1>2, <1>3, <1>6
  <1>8. \A i \in 1 .. (n + 1) : b[i] = q[i]
    BY <1>2
  <1>9. a = b
    BY <1>4, <1>5, <1>7, <1>8, SeqEqual
  <1> QED
    BY <1>1, <1>2, <1>4, <1>9

\* A beginning that is no shorter than the data is all of it.
LEMMA WholePrefix ==
    ASSUME NEW q \in Seq(Tags), NEW p \in Seq(Tags),
           p = SubSeq(q, 1, Len(p)), Len(p) <= Len(q), Len(p) >= Len(q)
    PROVE  p = q
  <1>1. Len(p) = Len(q)
    OBVIOUS
  <1>2. p = SubSeq(q, 1, Len(q))
    BY <1>1
  <1> QED
    BY <1>2, SubSeqFull

\* A reader that hears of an outcome, one that it may be told.
LEMMA FinishRefines ==
    ASSUME StreamInv, NEW c \in Clients, NEW e \in {"unknown", "failed", "EOF"},
           OnlyMoves(c), UNCHANGED <<resources, births, disposing, stream, got>>,
           pc[c] \in {"open", "retry"}, pc'[c] = "finished", result'[c] = e,
           e \in Stream!Outcomes(c)
    PROVE  Stream!Finish({c}, e)
  <1>1. UNCHANGED <<AbstractData, AbstractEnded>>
    BY SameStore
  <1>2. UNCHANGED AbstractLife
    BY DisposedAsBefore, SameLife
  <1>3. \A d \in Clients : d # c =>
          /\ Attached(d)' <=> Attached(d)
          /\ AbstractOutcome'[d] = AbstractOutcome[d]
    BY DEF OnlyMoves, AbstractOutcome, Attached, Reading, At
  <1>4. /\ Attached(c) /\ Attached(c)'
        /\ AbstractOutcome[c] = "no" /\ AbstractOutcome'[c] = e
    BY DEF AbstractOutcome, Attached, Reading, At
  <1>5. UNCHANGED <<AbstractReading, AbstractGot>>
    BY <1>3, <1>4 DEF AbstractReading, AbstractGot
  <1>6. AbstractReading[c] # NoStream
    BY <1>4, Types, StreamsAssumption DEF AbstractReading, StreamInv
  <1>7. AbstractOutcome' =
          [d \in Clients |-> IF d \in {c} THEN e ELSE AbstractOutcome[d]]
    BY <1>3, <1>4, AbstractFunctions
  <1> QED
    BY <1>1, <1>2, <1>4, <1>5, <1>6, <1>7 DEF Stream!Finish

\* A ReadAt reads the next chunk, or is told of an end that is there, or
\* finds nothing new, which is not seen.
LEMMA ReadAtRefines ==
    ASSUME StreamInv, NEW c \in Clients, ReadAt(c)
    PROVE  /\ ReadInv'
           /\ \/ UNCHANGED Stream!vars
              \/ Stream!Read(c)
              \/ \E e \in {"unknown", "failed", "EOF"} : Stream!Finish({c}, e)
  <1>s. PICK s \in Streams : s = stream[c]
    BY Types DEF StreamInv, ReadAt
  <1>r. PICK r : r = resources[s]
    OBVIOUS
  <1>0. /\ TypeOK /\ OnlyMoves(c)
        /\ UNCHANGED <<resources, births, disposing, stream>>
        /\ pc[c] \in {"open", "retry"} /\ Attached(c) /\ ~ Creator(c)
        /\ got[c] \in Seq(Tags)
        /\ AbstractReading[c] = s /\ s # NoStream
        /\ AbstractGot[c] = got[c] /\ AbstractOutcome[c] = "no"
    <2>1. TypeOK
      BY Types DEF StreamInv
    <2>2. OnlyMoves(c)
      BY <2>1, OneMoves
    <2>3. UNCHANGED <<resources, births, disposing, stream>>
      BY DEF ReadAt, store
    <2>4. pc[c] \in {"open", "retry"} /\ Attached(c) /\ ~ Creator(c)
      BY DEF ReadAt, Attached, Reading, At, Creator
    <2>5. /\ AbstractReading[c] = s /\ s # NoStream
          /\ AbstractGot[c] = got[c] /\ AbstractOutcome[c] = "no"
      BY <1>s, <2>4, StreamsAssumption
         DEF AbstractReading, AbstractGot, AbstractOutcome, At
    <2> QED
      BY <2>1, <2>2, <2>3, <2>4, <2>5 DEF TypeOK
  <1>1. Exists(s) => /\ r \in Resource /\ r.data \in Seq(Tags)
                     /\ Len(got[c]) <= Len(r.data)
                     /\ got[c] = SubSeq(r.data, 1, Len(got[c]))
                     /\ r.errorToForward # "nil" => r.closed
                     /\ r.errorToForward \in {"nil", "failed"}
    <2> SUFFICES ASSUME Exists(s)
                 PROVE  /\ r \in Resource /\ r.data \in Seq(Tags)
                        /\ Len(got[c]) <= Len(r.data)
                        /\ got[c] = SubSeq(r.data, 1, Len(got[c]))
                        /\ r.errorToForward # "nil" => r.closed
                        /\ r.errorToForward \in {"nil", "failed"}
      OBVIOUS
    <2>1. r \in Resource
      BY <1>r, Types DEF StreamInv
    <2>2. ReadsPrefix(c)
      BY <1>s, <1>0 DEF StreamInv, ReadInv, PrefixRead
    <2>3. r.errorToForward # "nil" => r.closed
      BY <1>r DEF StreamInv, ReadInv, ErrorsEnd
    <2>4. r.data \in Seq(Tags) /\ r.errorToForward \in {"nil", "failed"}
      BY <2>1 DEF Resource, ForwardedErrors
    <2> QED
      BY <1>s, <1>r, <2>1, <2>2, <2>3, <2>4 DEF ReadsPrefix
  <1>2. CASE /\ pc'[c] \in {"finished", "listen"} /\ got' = got
    <2>1. Attached(c)' /\ ~ Creator(c)'
      BY <1>2 DEF Attached, Reading, At, Creator
    <2>2. Exists(stream'[c]) => ReadsPrefix(c)'
      BY <1>s, <1>r, <1>0, <1>1, <1>2 DEF ReadsPrefix, Exists
    <2>3. ReadInv'
      BY <1>0, <1>2, <2>2, OneReadsOn
    <2>4. CASE pc'[c] = "listen"
      <3>1. \A d \in Clients :
              /\ Attached(d)' <=> Attached(d)
              /\ pc'[d] = "finished" <=> pc[d] = "finished"
              /\ pc[d] = "finished" => result'[d] = result[d]
        BY <1>0, <2>1, <2>4 DEF OnlyMoves, Attached, Reading, At
      <3>2. UNCHANGED <<AbstractReading, AbstractGot, AbstractOutcome>>
        BY <1>0, <1>2, <3>1, SameReaders
      <3>3. UNCHANGED <<AbstractData, AbstractEnded>>
        BY <1>0, SameStore
      <3>4. UNCHANGED AbstractLife
        BY <1>0, <2>4, DisposedAsBefore, SameLife
      <3> QED
        BY <2>3, <3>2, <3>3, <3>4 DEF Stream!vars
    <2>5. CASE pc'[c] = "finished"
      <3>1. \/ ~ Exists(s) /\ result'[c] = "unknown"
            \/ Exists(s) /\ r.errorToForward = "failed" /\ result'[c] = "failed"
            \/ /\ Exists(s) /\ r.errorToForward = "nil" /\ r.closed
               /\ Len(got[c]) >= Len(r.data) /\ result'[c] = "EOF"
        BY <1>s, <1>r, <1>0, <1>1, <2>5 DEF ReadAt, Finish, Goto, TypeOK
      <3>2. \A e : e \in Stream!Outcomes(c) /\ result'[c] = e
                     /\ e \in {"unknown", "failed", "EOF"} => Stream!Finish({c}, e)
        BY <1>0, <1>2, <2>5, FinishRefines
      <3>3. CASE ~ Exists(s) /\ result'[c] = "unknown"
        <4>1. births[s] # 0
          BY <1>s DEF StreamInv, LifeInv, StoreLife, Untouched
        <4>2. AbstractLife[s] = "gone"
          BY <3>3, <4>1 DEF AbstractLife, Life
        <4>3. "unknown" \in Stream!Outcomes(c)
          <5>1. AbstractEnded[s] = "no"
            BY <3>3 DEF AbstractEnded
          <5> QED
            BY <1>0, <4>2, <5>1 DEF Stream!Outcomes
        <4> QED
          BY <2>3, <3>2, <3>3, <4>3
      <3>4. CASE Exists(s) /\ r.errorToForward = "failed" /\ result'[c] = "failed"
        <4>1. AbstractLife[s] # "gone" /\ AbstractEnded[s] = "failed"
          BY <1>r, <1>1, <3>4 DEF AbstractLife, Life, AbstractEnded
        <4>2. "failed" \in Stream!Outcomes(c)
          BY <1>0, <4>1 DEF Stream!Outcomes
        <4> QED
          BY <2>3, <3>2, <3>4, <4>2
      <3>5. CASE /\ Exists(s) /\ r.errorToForward = "nil" /\ r.closed
                 /\ Len(got[c]) >= Len(r.data) /\ result'[c] = "EOF"
        <4>1. AbstractLife[s] # "gone" /\ AbstractEnded[s] = "nil"
              /\ AbstractData[s] = r.data
          BY <1>r, <3>5 DEF AbstractLife, Life, AbstractEnded, AbstractData
        <4>2. AbstractGot[c] = AbstractData[s]
          BY <1>0, <1>1, <3>5, <4>1, WholePrefix
        <4>3. "EOF" \in Stream!Outcomes(c)
          BY <1>0, <4>1, <4>2 DEF Stream!Outcomes
        <4> QED
          BY <2>3, <3>2, <3>5, <4>3
      <3> QED
        BY <3>1, <3>3, <3>4, <3>5
    <2> QED
      BY <1>2, <2>4, <2>5
  <1>3. CASE /\ Exists(s) /\ Len(got[c]) < Len(r.data)
             /\ got' = [got EXCEPT ![c] = Append(@, r.data[Len(@) + 1])]
             /\ pc'[c] = "open" /\ result' = result
    <2>1. /\ got'[c] = SubSeq(r.data, 1, Len(got[c]) + 1)
          /\ Len(got'[c]) = Len(got[c]) + 1 /\ Len(got[c]) + 1 <= Len(r.data)
      <3>1. got'[c] = Append(got[c], r.data[Len(got[c]) + 1])
        BY <1>0, <1>3 DEF TypeOK
      <3> QED
        BY <1>0, <1>1, <1>3, <3>1, NextOfPrefix
    <2>2. ReadsPrefix(c)'
      BY <1>s, <1>r, <1>0, <2>1 DEF ReadsPrefix
    <2>3. ReadInv'
      BY <1>0, <1>3, <2>2, OneReadsOn
    <2>4. \A d \in Clients \ {c} : got'[d] = got[d]
      BY <1>0 DEF OnlyMoves
    <2>5. \A d \in Clients :
            /\ Attached(d)' <=> Attached(d)
            /\ pc'[d] = "finished" <=> pc[d] = "finished"
      BY <1>0, <1>3 DEF OnlyMoves, Attached, Reading, At
    <2>6. UNCHANGED <<AbstractReading, AbstractOutcome>>
      BY <1>0, <1>3, <2>5 DEF AbstractReading, AbstractOutcome, At
    <2>7. UNCHANGED <<AbstractData, AbstractEnded>>
      BY <1>0, SameStore
    <2>8. UNCHANGED AbstractLife
      BY <1>0, <1>3, DisposedAsBefore, SameLife
    <2>9. Stream!There(s) /\ AbstractData[s] = r.data
      BY <1>r, <1>3 DEF Stream!There, AbstractLife, Life, AbstractData
    <2>10. AbstractGot' =
             [AbstractGot EXCEPT ![c] = SubSeq(AbstractData[s], 1, Len(@) + 1)]
      <3>1. AbstractGot'[c] = SubSeq(AbstractData[s], 1, Len(AbstractGot[c]) + 1)
        <4>1. AbstractGot'[c] = got'[c]
          BY <1>0, <2>5 DEF AbstractGot
        <4> QED
          BY <1>0, <2>1, <2>9, <4>1
      <3>2. \A d \in Clients \ {c} : AbstractGot'[d] = AbstractGot[d]
        BY <2>4, <2>5 DEF AbstractGot
      <3> QED
        BY <3>1, <3>2, AbstractFunctions
    <2>11. Stream!Read(c)
      BY <1>0, <1>3, <2>6, <2>7, <2>8, <2>9, <2>10 DEF Stream!Read
    <2> QED
      BY <2>3, <2>11
  <1> QED
    <2>1. \/ pc'[c] \in {"finished", "listen"} /\ got' = got
          \/ /\ Exists(s) /\ Len(got[c]) < Len(r.data)
             /\ got' = [got EXCEPT ![c] = Append(@, r.data[Len(@) + 1])]
             /\ pc'[c] = "open" /\ result' = result
      BY <1>s, <1>r, <1>0 DEF ReadAt, Finish, Goto, TypeOK
    <2> QED
      BY <1>2, <1>3, <2>1

\* Listening for more is not seen.
LEMMA OnNotifyRefines ==
    ASSUME StreamInv, NEW c \in Clients, OnNotify(c)
    PROVE  ReadInv' /\ UNCHANGED Stream!vars
  <1>0. /\ TypeOK /\ OnlyMoves(c)
        /\ UNCHANGED <<resources, births, disposing, stream, got, result>>
        /\ pc[c] = "listen" /\ pc'[c] \in {"retry", "waiting"}
    <2>1. TypeOK
      BY Types DEF StreamInv
    <2>2. OnlyMoves(c)
      BY <2>1, OneMoves
    <2> QED
      BY <2>1, <2>2 DEF OnNotify, At, Goto, TypeOK
  <1>1. \A d \in Clients :
          /\ Attached(d)' <=> Attached(d)
          /\ pc'[d] = "finished" <=> pc[d] = "finished"
          /\ pc'[d] = "closeTopic" => pc[d] = "closeTopic"
          /\ Creator(d) => Creator(d)'
          /\ pc'[d] \in {"idle", "exists"} => pc'[d] = pc[d]
    BY <1>0 DEF OnlyMoves, Attached, Reading, At, Creator
  <1>2. ReadInv'
    BY <1>0, <1>1, ManyReadOn
  <1>3. UNCHANGED <<AbstractReading, AbstractGot, AbstractOutcome>>
    BY <1>0, <1>1, SameReaders
  <1>4. UNCHANGED <<AbstractData, AbstractEnded>>
    BY <1>0, SameStore
  <1>5. UNCHANGED AbstractLife
    BY <1>0, DisposedAsBefore, SameLife
  <1> QED
    BY <1>2, <1>3, <1>4, <1>5 DEF Stream!vars

\* A reader that closes its end leaves the stream.
LEMMA CloseReaderRefines ==
    ASSUME StreamInv, NEW c \in Clients, CloseReader(c)
    PROVE  ReadInv' /\ Stream!Leave(c)
  <1>0. /\ TypeOK /\ OnlyMoves(c) /\ stream[c] \in Streams
        /\ UNCHANGED <<resources, births, disposing, stream, got, result>>
        /\ pc[c] \in {"open", "finished"} /\ pc'[c] = "drop"
        /\ Attached(c) /\ ~ Attached(c)' /\ ~ Creator(c)
    <2>1. TypeOK /\ stream[c] \in Streams
      BY Types DEF StreamInv, CloseReader
    <2>2. OnlyMoves(c)
      BY <2>1, OneMoves DEF Call
    <2>3. pc[c] \in {"open", "finished"} /\ pc'[c] = "drop"
          /\ UNCHANGED <<resources, births, disposing, stream, got, result>>
      BY <2>1 DEF CloseReader, Goto, store, TypeOK
    <2> QED
      BY <2>1, <2>2, <2>3 DEF Attached, Reading, At, Creator
  <1>1. ReadInv'
    BY <1>0, OneReadsOn
  <1>2. UNCHANGED <<AbstractData, AbstractEnded>>
    BY <1>0, SameStore
  <1>3. UNCHANGED AbstractLife
    BY <1>0, DisposedAsBefore, SameLife
  <1>4. \A d \in Clients : d # c =>
          /\ AbstractReading'[d] = AbstractReading[d]
          /\ AbstractGot'[d] = AbstractGot[d]
          /\ AbstractOutcome'[d] = AbstractOutcome[d]
    BY <1>0 DEF OnlyMoves, AbstractReading, AbstractGot, AbstractOutcome,
                Attached, Reading, At
  <1>5. /\ AbstractReading[c] # NoStream /\ AbstractReading'[c] = NoStream
        /\ AbstractGot'[c] = <<>> /\ AbstractOutcome'[c] = "no"
    BY <1>0, StreamsAssumption DEF AbstractReading, AbstractGot, AbstractOutcome, At
  <1>6. AbstractReading' = [AbstractReading EXCEPT ![c] = NoStream]
    BY <1>4, <1>5, AbstractFunctions
  <1>7. AbstractGot' = [AbstractGot EXCEPT ![c] = <<>>]
    BY <1>4, <1>5, AbstractFunctions
  <1>8. AbstractOutcome' = [AbstractOutcome EXCEPT ![c] = "no"]
    BY <1>4, <1>5, AbstractFunctions
  <1> QED
    BY <1>1, <1>2, <1>3, <1>5, <1>6, <1>7, <1>8 DEF Stream!Leave

----------------------------------------------------------------------------

\* Every step of the hub that keeps the life of the streams in order is one of
\* ByteStream's or is not seen.
LEMMA StreamInvStep ==
    ASSUME StreamInv, LifeInv', [HubNext]_hubVars
    PROVE  StreamInv' /\ [Stream!Next]_Stream!vars
  <1>1. LifeInv' /\ CallInv
    BY DEF StreamInv, LifeInv, HubInv
  <1> SUFFICES ReadInv' /\ [Stream!Next]_Stream!vars
    BY <1>1 DEF StreamInv
  <1>2. CASE UNCHANGED vars
    <2>1. UNCHANGED <<resources, births, disposing, pc, stream, got, result>>
      BY <1>2 DEF vars, store, client
    <2>2. ReadInv'
      BY <2>1, ManyReadOn DEF Attached, Reading, At, Creator
    <2>3. UNCHANGED <<AbstractData, AbstractEnded>>
      BY <2>1, SameStore
    <2>4. UNCHANGED AbstractLife
      BY <2>1, SameLife DEF BeingDisposed, At
    <2>5. UNCHANGED <<AbstractReading, AbstractGot, AbstractOutcome>>
      BY <2>1, SameReaders DEF Attached, Reading, At
    <2> QED
      BY <2>2, <2>3, <2>4, <2>5 DEF Stream!vars
  <1>3. CASE Dispose
    <2>1. disposing \in Streams
      BY <1>3, Types DEF Dispose, TypeOK, StreamInv
    <2> QED
      BY <1>3, <2>1, DisposeRefines DEF Stream!Next
  <1>4. ASSUME NEW c \in Clients, Open(c) \/ Call(c) \/ Continue(c)
        PROVE  ReadInv' /\ [Stream!Next]_Stream!vars
    <2>0. /\ pc[c] # "idle" => stream[c] \in Streams
          /\ tag[c] \in Tags
          /\ Listeners(stream[c]) \in SUBSET Clients
             \/ ~ CloseTopic(c)
      BY Types DEF StreamInv, TypeOK, Listeners, CloseTopic, At
    <2>1. ASSUME NEW s \in Streams, CreateResource(c, s)
          PROVE  ReadInv' /\ [Stream!Next]_Stream!vars
      BY <2>1, CreateRefines DEF Stream!Next
    <2>2. CASE \/ RegisterTopic(c) \/ UndoCreate(c) \/ Retain(c) \/ CloseRejected(c)
               \/ \E s \in Streams : GetStreamReader(c, s)
      BY <1>1, <2>2, OpeningRefines
    <2>3. CASE CheckExists(c)
      BY <2>0, <2>3, CheckExistsRefines DEF Stream!Next, CheckExists, At
    <2>4. ASSUME NEW n \in {0, 1}, Write(c, n)
          PROVE  ReadInv' /\ [Stream!Next]_Stream!vars
      BY <2>0, <2>4, WriteRefines DEF Stream!Next, Write, At
    <2>5. ASSUME NEW e \in ForwardedErrors, Close(c, e)
          PROVE  ReadInv' /\ [Stream!Next]_Stream!vars
      BY <2>0, <2>5, CloseRefines DEF Stream!Next, Close, At, ForwardedErrors
    <2>6. CASE SendNotification(c)
      BY <2>6, SendRefines
    <2>7. CASE CloseTopic(c)
      BY <2>0, <2>7, CloseTopicRefines DEF Stream!Next
    <2>8. CASE DropReference(c)
      BY <2>0, <2>8, DropReferenceRefines DEF Stream!Next, DropReference, At
    <2>9. CASE Release(c)
      BY <2>9, ReleaseRefines
    <2>10. CASE ReadAt(c)
      BY <2>10, ReadAtRefines DEF Stream!Next
    <2>11. CASE OnNotify(c)
      BY <2>11, OnNotifyRefines
    <2>12. CASE CloseReader(c)
      BY <2>12, CloseReaderRefines DEF Stream!Next
    <2> QED
      BY <1>4, <2>1, <2>2, <2>3, <2>4, <2>5, <2>6, <2>7, <2>8, <2>9, <2>10,
         <2>11, <2>12 DEF Open, Call, Continue
  <1> QED
    BY <1>1, <1>2, <1>3, <1>4, HubNextIsClientStep

\* At first there are no streams and no readers.
LEMMA StreamInitRefines == HubInit => Stream!Init
  BY DEF HubInit, Init, Stream!Init, AbstractData, AbstractEnded, AbstractLife,
         AbstractReading, AbstractGot, AbstractOutcome, Exists, Life, Attached,
         Reading, At

(***************************************************************************)
(* In one life of a stream its users see what ByteStream promises: one end *)
(* that readers hear of after all that was written (storage.go:106), and   *)
(* a stream that is disposed after it has ended and its last reader has    *)
(* left (storage.go:124, readers_list.go:33).                              *)
(***************************************************************************)
THEOREM HubRefinesStream ==
    ASSUME OneLife
    PROVE  HubSpec => RefinesStream
  <1>1. HubInit => OneLifeInv /\ StreamInv /\ Stream!Init
    BY OneLifeInvStep, StreamInvInit, StreamInitRefines
  <1>2. OneLifeInv /\ [HubNext]_hubVars => OneLifeInv'
    BY OneLifeInvStep
  <1>3. OneLifeInv' => LifeInv'
    BY DEF OneLifeInv
  <1>4. StreamInv /\ LifeInv' /\ [HubNext]_hubVars => StreamInv' /\ [Stream!Next]_Stream!vars
    BY StreamInvStep
  <1> QED
    BY <1>1, <1>2, <1>3, <1>4, PTL DEF HubSpec, RefinesStream, Stream!Spec

(***************************************************************************)
(* And so they do in any number of lives, whatever they call, if a reader  *)
(* comes only to a stream that somebody holds: a stream is disposed when   *)
(* nobody has to do with it, and whoever meets it when it is created again *)
(* meets it empty.  What is broken in a stream that was disposed under a   *)
(* reader (storage.go:130) is broken by the attach that came too late.     *)
(***************************************************************************)
THEOREM InTimeRefinesStream ==
    HubSpec /\ [][NobodyLate]_hubVars => RefinesStream
  <1>1. HubInit => InTimeInv /\ StreamInv /\ Stream!Init
    BY InTimeInvInit, StreamInvInit, StreamInitRefines
  <1>2. InTimeInv /\ [HubNext]_hubVars /\ [NobodyLate]_hubVars => InTimeInv'
    BY InTimeInvStep
  <1>3. InTimeInv' => LifeInv'
    BY DEF InTimeInv
  <1>4. StreamInv /\ LifeInv' /\ [HubNext]_hubVars => StreamInv' /\ [Stream!Next]_Stream!vars
    BY StreamInvStep
  <1> QED
    BY <1>1, <1>2, <1>3, <1>4, PTL DEF HubSpec, RefinesStream, Stream!Spec

\* Nothing but the disposer takes a resource away, and only one that has ended
\* and that nobody reads.
LEMMA DisposedInTime ==
    ASSUME InTimeInv, StreamInv, [HubNext]_hubVars, NEW s \in Streams,
           Exists(s), resources'[s] = Absent
    PROVE  /\ resources[s].closed
           /\ \A c \in Clients : ~ (Reading(c) /\ stream[c] = s)
  <1>1. TypeOK /\ CallInv /\ NothingUndone
    BY DEF StreamInv, LifeInv, HubInv, TypeInv, StoreLife
  <1>2. disposing = s
    <2>1. CASE UNCHANGED vars
      BY <2>1 DEF vars, store, Exists
    <2>2. CASE Dispose
      BY <1>1, <2>2 DEF Dispose, TypeOK, Exists
    <2>3. ASSUME NEW c \in Clients, Open(c) PROVE FALSE
      <3>1. ASSUME NEW u \in Streams, CreateResource(c, u) PROVE FALSE
        <4>1. NewResource # Absent
          <5>1. NewResource \in Resource
            BY DEF NewResource, Resource, ForwardedErrors
          <5>2. QED
            BY <5>1, AbsentAssumption
        <4>2. QED
          BY <1>1, <3>1, <4>1 DEF CreateResource, TypeOK, Exists
      <3>2. ASSUME NEW u \in Streams, GetStreamReader(c, u) PROVE FALSE
        BY <3>2 DEF GetStreamReader, Exists
      <3>3. QED
        BY <2>3, <3>1, <3>2 DEF Open
    <2>4. ASSUME NEW c \in Clients, Call(c) \/ Continue(c) PROVE FALSE
      <3>1. ~ UndoCreate(c)
        BY <1>1 DEF NothingUndone, UndoCreate, At
      <3>2. Exists(s)'
        BY <1>1, <2>4, <3>1, ResourcesStay
      <3>3. QED
        BY <3>2 DEF Exists
    <2>5. QED
      BY <1>1, <2>1, <2>2, <2>3, <2>4, HubNextIsClientStep
  <1>3. \A c \in Clients : stream[c] # s
    BY <1>2, StreamsAssumption DEF InTimeInv, LeftInTime, DisposedAlone
  <1>4. ~ Writable(s)
    BY <1>3 DEF StreamInv, ReadInv, OpenHasWriter
  <1>5. resources[s].closed
    BY <1>4 DEF Writable
  <1>6. QED
    BY <1>3, <1>5

(***************************************************************************)
(* A resource is disposed only after its writer has closed it and all its  *)
(* readers have left it, if a reader comes only to a stream that somebody  *)
(* holds.  Without that the run DataHub_disposed refutes it, by a reader   *)
(* that attaches between the last Closed (readers_list.go:47) and Dispose  *)
(* (storage.go:130).                                                       *)
(***************************************************************************)
THEOREM InTimeDisposedAfterUse ==
    HubSpec /\ [][NobodyLate]_hubVars => DisposedAfterUse
  <1>1. HubInit => InTimeInv /\ StreamInv
    BY InTimeInvInit, StreamInvInit
  <1>2. InTimeInv /\ [HubNext]_hubVars /\ [NobodyLate]_hubVars => InTimeInv'
    BY InTimeInvStep
  <1>3. InTimeInv' => LifeInv'
    BY DEF InTimeInv
  <1>4. StreamInv /\ LifeInv' /\ [HubNext]_hubVars => StreamInv'
    BY StreamInvStep
  <1>5. InTimeInv /\ StreamInv /\ [HubNext]_hubVars =>
          [\A s \in Streams :
             Exists(s) /\ resources'[s] = Absent =>
                /\ resources[s].closed
                /\ \A c \in Clients : ~ (Reading(c) /\ stream[c] = s)]_hubVars
    BY DisposedInTime
  <1> QED
    BY <1>1, <1>2, <1>3, <1>4, <1>5, PTL DEF HubSpec, DisposedAfterUse

=============================================================================
