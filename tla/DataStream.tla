----------------------------- MODULE DataStream -----------------------------
(***************************************************************************)
(* pkg/hub: the two ends of one stream.                                    *)
(*                                                                         *)
(* The worker of a fetch, of a processed image or of a cached one copies   *)
(* its source into a DataStreamInput (ReadFrom) and closes it with what    *)
(* ReadFrom returned.  The proxy may have closed that input before, when   *)
(* the cache failed.  A DataStreamOutput is used by several goroutines: a  *)
(* save, and the HTTP transport that reads the body of its upload and may  *)
(* still read when the upload has returned.  Its lock is held through each *)
(* call, also while the call waits for data.                               *)
(*                                                                         *)
(* Between the ends is the resource of module Storage, here with its one   *)
(* reader and as what a reader observes of it: bytes, closed, error.  A    *)
(* byte is its index in the source.                                        *)
(***************************************************************************)
EXTENDS Integers, Sequences, FiniteSets

CONSTANTS
    Users, NoUser,
    Size,        \* bytes of the source
    BufferSize,  \* 256 in ReadFrom and WriteTo, and of the buffer of Read
    Offsets,     \* bound: the offsets of Seek and ReadAt
    Seeks        \* does a user Seek?

ASSUME SizesAssumption   == Size \in Nat /\ BufferSize \in Nat \ {0}
ASSUME OffsetsAssumption == Offsets \subseteq Int /\ Seeks \in BOOLEAN
ASSUME UsersAssumption   == NoUser \notin Users

Source  == [b \in 1..Size |-> b]
Results == {"nil", "EOF", "failed", "closed", "range", "unsupported", "writer",
             "panic"}

VARIABLES
    data, ended, forwarded,  \* the resource: bytes, closed, errorToForward
    inputClosed,             \* dataStreamInput.closed
    input,                   \* the worker: "idle", "reading", "closing", "done"
    taken,                   \* bytes it has taken from its source
    readErr,                 \* what its ReadFrom returned
    pos, closed, lock,       \* dataStreamOutput
    pc,                      \* the call each user is in
    off,                     \* the local variable pos of WriteTo, off of ReadAt
    sink,                    \* what each user's WriteTo has written
    result,                  \* the error of each user's last call
    base, consumed,          \* history: where Read went on after the last Seek
    released                 \* history: calls of reader.Close

resource == <<data, ended, forwarded>>
worker   == <<inputClosed, input, taken, readErr>>
output   == <<pos, closed, base, consumed, released>>
user     == <<pc, off, sink, result>>
vars     == <<resource, worker, output, lock, user>>

Init ==
    /\ data = <<>> /\ ended = FALSE /\ forwarded = "nil"
    /\ inputClosed = FALSE /\ input = "idle" /\ taken = 0 /\ readErr = "nil"
    /\ pos = 0 /\ closed = FALSE /\ lock = NoUser
    /\ pc = [u \in Users |-> "idle"]
    /\ off = [u \in Users |-> 0]
    /\ sink = [u \in Users |-> <<>>]
    /\ result = [u \in Users |-> "nil"]
    /\ base = 0 /\ consumed = <<>> /\ released = 0

----------------------------------------------------------------------------
(* DataStreamInput                                                         *)

\* A Close that forwards no error.
CloseInputMutant(err) ==
    /\ inputClosed' = TRUE
    /\ ended' = TRUE
    /\ forwarded' = "nil"

\* Close: the second one is refused, and io.EOF is no error to forward.
CloseInput(err) ==
    IF inputClosed THEN UNCHANGED <<inputClosed, ended, forwarded>>
    ELSE /\ inputClosed' = TRUE
         /\ ended' = TRUE
         /\ forwarded' = IF err = "EOF" THEN "nil" ELSE err

\* The proxy closes the input of a failed look-up before it is written.
CloseEarly ==
    /\ input = "idle"
    /\ CloseInput("failed")
    /\ UNCHANGED <<data, input, taken, readErr, output, lock, user>>

StartReadFrom ==
    /\ input = "idle"
    /\ IF inputClosed
       THEN input' = "closing" /\ readErr' = "closed"
       ELSE input' = "reading" /\ UNCHANGED readErr
    /\ UNCHANGED <<resource, inputClosed, taken, output, lock, user>>

\* One turn of the loop of ReadFrom: the source gives n bytes and an error,
\* io.EOF with or after its last byte; the bytes of a failed Read are dropped.
\* A Write that the storage refuses, as the resource is gone, drops them too
\* and ends the loop with its error: the case "failed" stands for both.
ReadFrom(n, err) ==
    /\ input = "reading"
    /\ taken + n <= Size
    /\ err = "EOF" => taken + n = Size
    /\ taken' = taken + n
    /\ data' = IF err = "failed" THEN data
               ELSE data \o SubSeq(Source, taken + 1, taken + n)
    /\ readErr' = err
    /\ input' = IF err = "nil" THEN "reading" ELSE "closing"
    /\ UNCHANGED <<ended, forwarded, inputClosed, output, lock, user>>

\* The error path that forgets the stream.
CloseAfterReadFromMutant ==
    /\ input = "closing"
    /\ IF readErr = "EOF" THEN CloseInput(readErr)
       ELSE UNCHANGED <<ended, forwarded, inputClosed>>
    /\ input' = "done"
    /\ UNCHANGED <<data, taken, readErr, output, lock, user>>

CloseAfterReadFrom ==
    /\ input = "closing"
    /\ CloseInput(readErr)
    /\ input' = "done"
    /\ UNCHANGED <<data, taken, readErr, output, lock, user>>

----------------------------------------------------------------------------
(* DataStreamOutput                                                        *)

\* What reader.ReadAt returns at an offset: bytes, then the error; it waits,
\* here not enabled, when there is neither.
Readable(o) == o < Len(data) \/ ended

ReadError(o) ==
    IF forwarded # "nil" THEN forwarded
    ELSE IF o >= Len(data) THEN "EOF"
    ELSE "nil"

Bytes(o) ==
    IF ReadError(o) # "nil" THEN <<>>
    ELSE SubSeq(data, o + 1, IF o + BufferSize < Len(data) THEN o + BufferSize ELSE Len(data))

Return(u, err) ==
    /\ lock' = NoUser
    /\ pc' = [pc EXCEPT ![u] = "idle"]
    /\ off' = [off EXCEPT ![u] = 0]
    /\ result' = [result EXCEPT ![u] = err]

\* A call that does not wait for the one under way.
CallMutant(u, name, o) ==
    /\ pc[u] = "idle"
    /\ ~ closed
    /\ lock' = u
    /\ pc' = [pc EXCEPT ![u] = name]
    /\ off' = [off EXCEPT ![u] = o]
    /\ UNCHANGED <<resource, worker, output, sink, result>>

\* A call obtains the lock; when the stream is closed it returns an error.
Call(u, name, o) ==
    /\ pc[u] = "idle"
    /\ lock = NoUser
    /\ IF closed
       THEN /\ Return(u, "closed")
            /\ UNCHANGED sink
       ELSE /\ lock' = u
            /\ pc' = [pc EXCEPT ![u] = name]
            /\ off' = [off EXCEPT ![u] = o]
            /\ UNCHANGED <<sink, result>>
    /\ UNCHANGED <<resource, worker, output>>

Read(u)      == Call(u, "read", 0)
ReadAt(u, o) == Call(u, "readAt", o)

\* A negative offset slices the resource's bytes below their start.
Panic(u, o) ==
    /\ o < 0 /\ forwarded = "nil"
    /\ Return(u, "panic")
    /\ UNCHANGED <<resource, worker, output, sink>>

FinishRead(u) ==
    /\ pc[u] = "read"
    /\ Readable(pos)
    /\ \/ Panic(u, pos)
       \/ /\ pos >= 0 \/ forwarded # "nil"
          /\ pos' = pos + Len(Bytes(pos))
          /\ consumed' = consumed \o Bytes(pos)
          /\ Return(u, ReadError(pos))
          /\ UNCHANGED <<resource, worker, closed, base, released, sink>>

\* ReadAt takes the offset of Read for its own.
FinishReadAtMutant(u) ==
    /\ pc[u] = "readAt"
    /\ Readable(off[u])
    /\ \/ Panic(u, off[u])
       \/ /\ off[u] >= 0 \/ forwarded # "nil"
          /\ pos' = off[u] + Len(Bytes(off[u]))
          /\ Return(u, ReadError(off[u]))
          /\ UNCHANGED <<resource, worker, closed, base, consumed, released,
                         sink>>

FinishReadAt(u) ==
    /\ pc[u] = "readAt"
    /\ Readable(off[u])
    /\ \/ Panic(u, off[u])
       \/ /\ off[u] >= 0 \/ forwarded # "nil"
          /\ Return(u, ReadError(off[u]))
          /\ UNCHANGED <<resource, worker, output, sink>>

Whences == {"SeekStart", "SeekCurrent", "SeekEnd"}

\* The sum is what is tested, whatever the offset is relative to.
Seek(u, o, whence) ==
    LET target == IF whence = "SeekStart" THEN o ELSE pos + o IN
    /\ Seeks
    /\ pc[u] = "idle"
    /\ lock = NoUser
    /\ \/ /\ closed
          /\ result' = [result EXCEPT ![u] = "closed"]
          /\ UNCHANGED output
       \/ /\ ~ closed /\ pos + o < 0
          /\ result' = [result EXCEPT ![u] = "range"]
          /\ UNCHANGED output
       \/ /\ ~ closed /\ pos + o >= 0 /\ whence = "SeekEnd"
          /\ result' = [result EXCEPT ![u] = "unsupported"]
          /\ UNCHANGED output
       \/ /\ ~ closed /\ pos + o >= 0 /\ whence # "SeekEnd"
          /\ target <= Size  \* bound
          /\ pos' = target
          /\ base' = target
          /\ consumed' = <<>>
          /\ result' = [result EXCEPT ![u] = "nil"]
          /\ UNCHANGED <<closed, released>>
    /\ UNCHANGED <<resource, worker, lock, pc, off, sink>>

\* A Close that gives the reader back every time.
CloseMutant(u) ==
    /\ pc[u] = "idle"
    /\ closed' = TRUE
    /\ released' = released + 1
    /\ result' = [result EXCEPT ![u] = "nil"]
    /\ UNCHANGED <<resource, worker, pos, base, consumed, lock, pc, off, sink>>

Close(u) ==
    /\ pc[u] = "idle"
    /\ lock = NoUser
    /\ IF closed
       THEN /\ result' = [result EXCEPT ![u] = "closed"]
            /\ UNCHANGED <<closed, released>>
       ELSE /\ closed' = TRUE
            /\ released' = released + 1
            /\ result' = [result EXCEPT ![u] = "nil"]
    /\ UNCHANGED <<resource, worker, pos, base, consumed, lock, pc, off, sink>>

\* WriteTo does not look at closed, and starts with the first byte.
WriteTo(u) ==
    /\ pc[u] = "idle"
    /\ lock = NoUser
    /\ lock' = u
    /\ pc' = [pc EXCEPT ![u] = "writeTo"]
    /\ off' = [off EXCEPT ![u] = 0]
    /\ sink' = [sink EXCEPT ![u] = <<>>]
    /\ UNCHANGED <<resource, worker, output, result>>

\* A copy that goes on from what was read, not from what was written.
CopyStepMutant(u, n, writeErr) ==
    LET bytes == Bytes(off[u])
        err   == ReadError(off[u])
    IN
    /\ pc[u] = "writeTo"
    /\ Readable(off[u])
    /\ n <= Len(bytes)
    /\ sink' = [sink EXCEPT ![u] = @ \o SubSeq(bytes, 1, n)]
    /\ IF err # "nil" THEN Return(u, err)
       ELSE off' = [off EXCEPT ![u] = @ + Len(bytes)] /\ UNCHANGED <<lock, pc, result>>
    /\ UNCHANGED <<resource, worker, output>>

\* One turn of its loop: the writer takes the n first of the bytes read, all
\* of them unless it returns an error.
CopyStep(u, n, writeErr) ==
    LET bytes == Bytes(off[u])
        err   == ReadError(off[u])
    IN
    /\ pc[u] = "writeTo"
    /\ Readable(off[u])
    /\ n <= Len(bytes)
    /\ writeErr = "nil" => n = Len(bytes)
    /\ err \notin {"nil", "EOF"} => writeErr = "nil"
    /\ sink' = [sink EXCEPT ![u] = @ \o SubSeq(bytes, 1, n)]
    /\ IF writeErr # "nil" THEN Return(u, writeErr)
       ELSE IF err # "nil" THEN Return(u, err)
       ELSE off' = [off EXCEPT ![u] = @ + n] /\ UNCHANGED <<lock, pc, result>>
    /\ UNCHANGED <<resource, worker, output>>

----------------------------------------------------------------------------
WorkerStep ==
    \/ StartReadFrom \/ CloseAfterReadFrom
    \/ \E n \in 0..BufferSize, err \in {"nil", "EOF", "failed"} : ReadFrom(n, err)

\* A source that fails or ends when it has nothing more to give.
WorkerProgress ==
    \/ StartReadFrom \/ CloseAfterReadFrom
    \/ \E n \in 0..BufferSize, err \in {"EOF", "failed"} : ReadFrom(n, err)

FinishCall(u) ==
    \/ FinishRead(u) \/ FinishReadAt(u)
    \/ \E n \in 0..BufferSize, err \in {"nil", "writer"} : CopyStep(u, n, err)

Use(u) ==
    \/ Read(u) \/ Close(u) \/ WriteTo(u)
    \/ \E o \in Offsets : ReadAt(u, o)
    \/ \E o \in Offsets, whence \in Whences : Seek(u, o, whence)

Next ==
    \/ CloseEarly
    \/ WorkerStep
    \/ \E u \in Users : Use(u) \/ FinishCall(u)

Spec == Init /\ [][Next]_vars

\* The worker goes on until its source ends, and every call under way does
\* when it can; nobody has to make a call.
Fairness ==
    /\ WF_vars(WorkerProgress)
    /\ \A u \in Users : WF_vars(FinishCall(u))

LiveSpec == Spec /\ Fairness

----------------------------------------------------------------------------
\* Types, and that the lock is held exactly by the user inside a call.
\* sync.Mutex in dataStreamOutput, unlocked by defer on every return.
TypeOK ==
    /\ data \in Seq(1..Size)
    /\ ended \in BOOLEAN /\ inputClosed \in BOOLEAN /\ closed \in BOOLEAN
    /\ forwarded \in {"nil", "failed", "closed"}
    /\ input \in {"idle", "reading", "closing", "done"}
    /\ taken \in 0..Size
    /\ readErr \in Results
    /\ pos \in Int /\ base \in Int /\ released \in Nat
    /\ lock \in Users \cup {NoUser}
    /\ \A u \in Users : lock = u <=> pc[u] # "idle"
    /\ pc \in [Users -> {"idle", "read", "readAt", "writeTo"}]
    /\ off \in [Users -> Int]
    /\ result \in [Users -> Results]

\* A reader is told io.EOF only of a whole source: neither a failed Read, nor
\* a dropped buffer, nor an early or a second Close ends a stream without an
\* error (data_stream_input.go ReadFrom and Close).
EndedIsWhole == ended /\ forwarded = "nil" => data = Source

\* WriteTo writes the source from its first byte, with no gap or repetition
\* and whatever its writer takes; when it returns io.EOF it wrote it all.
CopyIsFaithful ==
    [][\A u \in Users : pc[u] = "writeTo" =>
          /\ sink'[u] = SubSeq(Source, 1, Len(sink'[u]))
          /\ pc'[u] = "idle" /\ result'[u] = "EOF" => sink'[u] = Source]_vars

\* What Read returned since the last Seek is the source from there to pos,
\* however the calls of several goroutines and ReadAt interleave.
ReadsInOrder == consumed = SubSeq(Source, base + 1, pos)

\* The reference of a reader is given back once, however often and from
\* however many goroutines the output is closed: a second reader.Close would
\* take the reference of somebody else (readers_list.go:33).
ReleasedOnce == released <= 1 /\ (released = 1 <=> closed)

\* Every call returns: whoever waits for data under the lock of the output
\* is answered when the worker ends, so Close is not kept waiting for ever.
CallsEnd == \A u \in Users : lock = u ~> lock = NoUser
=============================================================================
