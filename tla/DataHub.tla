------------------------------ MODULE DataHub ------------------------------
(***************************************************************************)
(* pkg/hub: the data hub, a RWMutex around the storage.                    *)
(*                                                                         *)
(* A caller is a goroutine that calls the hub: in this program a request   *)
(* handler.  It may hold three ends of a stream, which are the clients of  *)
(* the storage: the DataStreamInput that GetOrCreateStream or CreateStream *)
(* returned (and that a worker goroutine writes and closes: a fetch, or a  *)
(* read of the cache), the DataStreamOutput it serves to its user, and a   *)
(* second output that it obtained with GetStreamOutput, to be saved in the *)
(* cache by a goroutine of its own.                                        *)
(*                                                                         *)
(* The hub's lock is held through a whole call, so creations are serial.   *)
(* It is not held by Write, ReadAt and Close, nor by the disposer, which   *)
(* therefore interleave with the steps of a call.  The monitors run for    *)
(* ever here: main.go never cancels their context.                         *)
(***************************************************************************)
EXTENDS Storage

CONSTANTS
    Callers,
    CallsAsProxy   \* are the calls those of ProxyService only?

Ends == {"in", "out", "save"}

\* A caller that never asks for a second output needs no end for it.
ASSUME CallersAssumption ==
    Clients \in {Callers \X Ends, Callers \X {"in", "out"}}
ASSUME UseAssumption == CallsAsProxy \in BOOLEAN

InputOf(k)  == <<k, "in">>
OutputOf(k) == <<k, "out">>
SaveOf(k)   == <<k, "save">>

VARIABLES
    call,     \* the step of the hub call each caller is in
    target,   \* the stream of that call
    creators  \* callers whose last GetOrCreateStream returned an input

hub     == <<call, target, creators>>
hubVars == <<vars, hub>>

CallLabels ==
    {"idle",
     "create", "creating", "attach", "attaching", "closing", \* GetOrCreateStream
     "createOnly", "creatingOnly",                           \* CreateStream
     "output", "outputting"}                                 \* GetStreamOutput

WriteLabels == CallLabels \ {"idle", "output", "outputting"}

\* dataHub.lock, read off the calls under way.
WriteLocked == \E k \in Callers : call[k] \in WriteLabels
ReadLocked  == \E k \in Callers : call[k] \in {"output", "outputting"}

HubInit ==
    /\ Init
    /\ call = [k \in Callers |-> "idle"]
    /\ target = [k \in Callers |-> NoStream]
    /\ creators = {}

CallAt(k, l)  == call[k] = l
Proceed(k, l) == call' = [call EXCEPT ![k] = l] /\ UNCHANGED <<target, creators>>
Return(k) ==
    /\ call' = [call EXCEPT ![k] = "idle"]
    /\ target' = [target EXCEPT ![k] = NoStream]

----------------------------------------------------------------------------
(* Calls *)

\* A hub without the lock: two creations may interleave.
LockForCreationMutant(k, l, s) ==
    /\ CallAt(k, "idle")
    /\ At(InputOf(k), "idle")
    /\ call' = [call EXCEPT ![k] = l]
    /\ target' = [target EXCEPT ![k] = s]
    /\ UNCHANGED <<vars, creators>>

LockForCreation(k, l, s) ==
    /\ CallAt(k, "idle")
    /\ At(InputOf(k), "idle")
    /\ ~ WriteLocked /\ ~ ReadLocked
    /\ call' = [call EXCEPT ![k] = l]
    /\ target' = [target EXCEPT ![k] = s]
    /\ UNCHANGED <<vars, creators>>

GetOrCreateStream(k, s) ==
    /\ At(OutputOf(k), "idle")
    /\ LockForCreation(k, "create", s)

CreateStream(k, s) ==
    /\ ~ CallsAsProxy
    /\ LockForCreation(k, "createOnly", s)

\* The proxy asks for a second output while its own one is open.
GetStreamOutput(k, s) ==
    /\ CallAt(k, "idle")
    /\ SaveOf(k) \in Clients
    /\ At(SaveOf(k), "idle")
    /\ CallsAsProxy =>
         /\ k \in creators
         /\ At(OutputOf(k), "open") /\ stream[OutputOf(k)] = s
    /\ ~ WriteLocked
    /\ call' = [call EXCEPT ![k] = "output"]
    /\ target' = [target EXCEPT ![k] = s]
    /\ UNCHANGED <<vars, creators>>

----------------------------------------------------------------------------
(* createStream.  The storage refuses at once when the resource exists;    *)
(* otherwise its Create goes on with the steps of Storage.                 *)

StartCreate(k, from, to, failed) ==
    /\ CallAt(k, from)
    /\ \/ /\ Exists(target[k])
          /\ Proceed(k, failed)
          /\ UNCHANGED vars
       \/ /\ CreateResource(InputOf(k), target[k])
          /\ Proceed(k, to)

\* The bound MaxBirths is reached: the call is taken back.
GiveUp(k) ==
    /\ call[k] \in {"create", "createOnly"}
    /\ ~ Exists(target[k])
    /\ births[target[k]] = MaxBirths
    /\ Return(k)
    /\ UNCHANGED <<vars, creators>>

Created(k) == pc[InputOf(k)] \in {"writing", "idle"}

TryCreate(k) == StartCreate(k, "create", "creating", "attach")

TryCreateOnly(k) ==
    \/ StartCreate(k, "createOnly", "creatingOnly", "creatingOnly")
    \/ /\ CallAt(k, "creatingOnly")
       /\ Created(k)
       /\ Return(k)
       /\ UNCHANGED <<vars, creators>>

----------------------------------------------------------------------------
(* getStreamOutput *)

\* Its error, if any, is dropped: GetOrCreateStream reads what is there.
GetOutput(k) ==
    /\ \/ CallAt(k, "attach")
       \/ CallAt(k, "creating") /\ Created(k)
    /\ GetStreamReader(OutputOf(k), target[k])
    /\ Proceed(k, "attaching")

GetSaveOutput(k) ==
    /\ CallAt(k, "output")
    /\ GetStreamReader(SaveOf(k), target[k])
    /\ Proceed(k, "outputting")

ReturnStream(k) ==
    /\ CallAt(k, "attaching")
    /\ At(OutputOf(k), "open")
    /\ Return(k)
    /\ creators' = IF At(InputOf(k), "writing") THEN creators \cup {k}
                   ELSE creators \ {k}
    /\ UNCHANGED vars

\* No reader for a stream just created: the input is closed with the error.
ReturnError(k) ==
    /\ CallAt(k, "attaching")
    /\ At(OutputOf(k), "idle")
    /\ \/ /\ At(InputOf(k), "writing")
          /\ Close(InputOf(k), "failed") \/ CloseRejected(InputOf(k))
          /\ Proceed(k, "closing")
       \/ /\ At(InputOf(k), "idle")
          /\ Return(k)
          /\ creators' = creators \ {k}
          /\ UNCHANGED vars

InputClosed(k) ==
    /\ CallAt(k, "closing")
    /\ At(InputOf(k), "idle")
    /\ Return(k)
    /\ creators' = creators \ {k}
    /\ UNCHANGED vars

ReturnSaveOutput(k) ==
    /\ CallAt(k, "outputting")
    /\ pc[SaveOf(k)] \in {"open", "idle"}
    /\ Return(k)
    /\ UNCHANGED <<vars, creators>>

----------------------------------------------------------------------------

HubStep(k) ==
    \/ TryCreate(k) \/ TryCreateOnly(k) \/ GiveUp(k)
    \/ GetOutput(k) \/ GetSaveOutput(k)
    \/ ReturnStream(k) \/ ReturnError(k) \/ InputClosed(k)
    \/ ReturnSaveOutput(k)

\* An end is used by its owner once the call that produced it returned; the
\* worker that writes an input runs on while its handler gets an output.
Owned(k, e) ==
    \/ CallAt(k, "idle")
    \/ e = "in" /\ call[k] \in {"output", "outputting"}

UseEnd(k, e) ==
    /\ <<k, e>> \in Clients
    /\ Owned(k, e)
    /\ Call(<<k, e>>)
    /\ UNCHANGED hub

HubNext ==
    \/ \E k \in Callers, s \in Streams :
          GetOrCreateStream(k, s) \/ CreateStream(k, s) \/ GetStreamOutput(k, s)
    \/ \E k \in Callers : HubStep(k)
    \/ \E k \in Callers, e \in Ends : UseEnd(k, e)
    \/ \E c \in Clients : Continue(c) /\ UNCHANGED hub
    \/ Dispose /\ UNCHANGED hub

HubSpec == HubInit /\ [][HubNext]_hubVars

CloseInput(k) ==
    /\ Owned(k, "in")
    /\ \/ \E e \in ForwardedErrors : Close(InputOf(k), e)
       \/ CloseRejected(InputOf(k))
    /\ UNCHANGED hub

(***************************************************************************)
(* Fairness: every goroutine that can take a step of a started operation   *)
(* does.  Strong, for the sake of the mutex of readersList: it may be      *)
(* found locked again and again, and sync.Mutex hands it to a waiter of    *)
(* more than 1ms; the monitor serves every pending request in the end,     *)
(* since select chooses among ready channels at random.  A worker that was *)
(* given an input closes it in the end: every path that writes one         *)
(* (ProcessImage, Fetch, the cache) ends in Close, and what it reads from  *)
(* ends, at the latest when the context of the request does.  Strong,      *)
(* because a worker is in the middle of a Write now and then.              *)
(***************************************************************************)
HubFairness ==
    /\ \A c \in Clients : SF_hubVars(Continue(c) /\ UNCHANGED hub)
    /\ WF_hubVars(Dispose /\ UNCHANGED hub)
    /\ \A k \in Callers : SF_hubVars(HubStep(k)) /\ SF_hubVars(CloseInput(k))

HubLiveSpec == HubSpec /\ HubFairness

----------------------------------------------------------------------------
(* Properties *)

\* The types of the hub's own variables; those of the storage are Storage's.
HubTypeOK ==
    /\ TypeOK
    /\ call \in [Callers -> CallLabels]
    /\ target \in [Callers -> Streams \cup {NoStream}]
    /\ creators \in SUBSET Callers

Reading(c) == pc[c] \in {"open", "retry", "listen", "waiting"}

(***************************************************************************)
(* Whoever waits for data has someone to wait for: the topic of its stream *)
(* is owned by a writer that has yet to close it.  Holds for the first     *)
(* incarnation of a stream, and for all while nobody attaches too late; a  *)
(* client that was woken up by nobody would be a request that never ends.  *)
(***************************************************************************)
WaitingHasWriter ==
    \A c \in Clients : pc[c] = "waiting" =>
        \E w \in Clients : Writer(w) /\ stream[w] = stream[c]

\* The last holder of s has left, and s is not disposed yet.
BeingDisposed(s) ==
    disposing = s \/ \E c \in Clients : At(c, "releasing") /\ stream[c] = s

Attached(c) == Reading(c) \/ At(c, "finished")

Life(s) ==
    IF ~ Exists(s) THEN IF births[s] = 0 THEN "absent" ELSE "gone"
    ELSE IF BeingDisposed(s) THEN "released" ELSE "here"

\* The variables of ByteStream: the content of the resources and the ends
\* that clients read.
AbstractData ==
    [s \in Streams |-> IF Exists(s) THEN resources[s].data ELSE <<>>]
AbstractEnded ==
    [s \in Streams |-> IF Exists(s) /\ resources[s].closed
                       THEN resources[s].errorToForward ELSE "no"]
AbstractLife    == [s \in Streams |-> Life(s)]
AbstractReading == [c \in Clients |-> IF Attached(c) THEN stream[c] ELSE NoStream]
AbstractGot     == [c \in Clients |-> IF Attached(c) THEN got[c] ELSE <<>>]
AbstractOutcome == [c \in Clients |-> IF At(c, "finished") THEN result[c] ELSE "no"]

Stream == INSTANCE ByteStream WITH
    Readers <- Clients,
    Chunks  <- Tags,
    data    <- AbstractData,
    ended   <- AbstractEnded,
    life    <- AbstractLife,
    reading <- AbstractReading,
    got     <- AbstractGot,
    outcome <- AbstractOutcome

(***************************************************************************)
(* The hub keeps what ByteStream promises of a stream, for one life of it, *)
(* and for all of them while nobody attaches too late: io.EOF only after   *)
(* all that was written, an error only if the writer forwarded it, and a   *)
(* stream that vanishes under nobody who came while somebody held it.      *)
(***************************************************************************)
RefinesStream == Stream!Spec

(***************************************************************************)
(* While a stream is being created nobody else creates one or attaches to  *)
(* one (dataHub.lock, held through GetOrCreateStream).  Otherwise a reader *)
(* could attach to a resource whose topic is not registered yet, and that  *)
(* Create removes again when RegisterTopic fails (storage.go:36).          *)
(***************************************************************************)
CreationsSerial ==
    \A c, d \in Clients :
        /\ pc[c] \in {"register", "undo", "retain"}
        /\ pc[d] \in {"register", "undo", "retain", "exists"}
        => c = d

(***************************************************************************)
(* A resource is disposed only when its writer has closed it and no reader *)
(* is left on it: storage_test.go, "Should dispose resource when resource  *)
(* was closed and all readers also was closed".  It is the readers that it *)
(* fails for: one may attach after the last one was counted off.           *)
(***************************************************************************)
DisposedAfterUse ==
    [][\A s \in Streams :
         Exists(s) /\ resources'[s] = Absent =>
            /\ resources[s].closed
            /\ \A c \in Clients : ~ (Reading(c) /\ stream[c] = s)]_hubVars

Busy(c) == pc[c] \notin {"idle", "writing", "open", "finished", "waiting"}

(***************************************************************************)
(* Every call of the hub and of a stream's end returns, but for a read     *)
(* that waits for data: the hub's lock, the mutex of readersList, the      *)
(* monitor and the disposer never wait on each other in a circle.          *)
(***************************************************************************)
CallsReturn ==
    /\ \A k \in Callers : call[k] # "idle" ~> call[k] = "idle"
    /\ \A c \in Clients : Busy(c) ~> ~ Busy(c)

(***************************************************************************)
(* A read that waits is answered in the end.                               *)
(***************************************************************************)
ReadsReturn ==
    \A k \in Callers : At(OutputOf(k), "waiting") ~> ~ At(OutputOf(k), "waiting")

(***************************************************************************)
(* A closed stream that nobody holds any more is disposed, even when a     *)
(* reader comes meanwhile: the hub does not keep the image in memory.      *)
(***************************************************************************)
ClosedIsDisposed ==
    /\ Stream!Vanishes
    /\ \A s \in Streams :
          Exists(s) /\ readers[s] = 0 ~> ~ Exists(s) \/ readers[s] > 0

=============================================================================
