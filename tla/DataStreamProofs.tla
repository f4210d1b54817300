-------------------------- MODULE DataStreamProofs --------------------------
(***************************************************************************)
(* Proofs about DataStream, for any users, sizes of source and buffer, and *)
(* offsets.                                                                *)
(***************************************************************************)
EXTENDS DataStream, SequenceTheorems, TLAPS

----------------------------------------------------------------------------
(* The inductive invariant *)

\* The resource holds what the worker has taken, from the first byte on and
\* without the bytes of a failed Read; it is closed with the input, and
\* without an error only when the worker has taken its whole source.
InputInv ==
    /\ data = SubSeq(Source, 1, Len(data))
    /\ Len(data) <= taken
    /\ inputClosed <=> ended
    /\ input = "idle" => taken = 0
    /\ input = "reading" => Len(data) = taken /\ ~ inputClosed
    /\ input = "closing" =>
          \/ readErr = "closed" /\ inputClosed
          \/ readErr = "EOF" /\ Len(data) = Size /\ ~ inputClosed
          \/ readErr = "failed" /\ ~ inputClosed
    /\ EndedIsWhole

\* A Seek may leave a negative position, where Read returns no byte.
PositionInv ==
    /\ pos <= Size
    /\ base < 0 => pos = base
    /\ base >= 0 => base <= pos
    /\ ReadsInOrder

\* A copy has written what it read, up to its own position.
CopyInv ==
    /\ sink \in [Users -> Seq(1..Size)]
    /\ \A u \in Users : pc[u] = "writeTo" =>
          off[u] \in 0..Len(data) /\ sink[u] = SubSeq(Source, 1, off[u])

\* All of it.
StreamInv ==
    /\ TypeOK
    /\ InputInv
    /\ PositionInv
    /\ CopyInv
    /\ ReleasedOnce

----------------------------------------------------------------------------
(* Slices of the source *)

\* The source is a sequence of bytes, of its size.
LEMMA SourceBytes ==
    /\ Size \in Nat
    /\ Source \in Seq(1..Size)
    /\ Len(Source) = Size
    /\ \A b \in 1..Size : Source[b] = b
    /\ SubSeq(Source, 1, 0) = <<>>
    /\ SubSeq(Source, 1, Size) = Source
  <1>1. /\ Size \in Nat
        /\ Source \in Seq(1..Size)
        /\ Len(Source) = Size
        /\ \A b \in 1..Size : Source[b] = b
    BY SizesAssumption DEF Source
  <1> QED
    BY <1>1, SubSeqEmpty, SubSeqFull

\* A slice of the source is as long as its bounds say, and two adjacent
\* ones are one.
LEMMA Slices ==
    ASSUME NEW m \in 0..Size, NEW k \in m..Size, NEW n \in k..Size
    PROVE  /\ SubSeq(Source, m + 1, k) \in Seq(1..Size)
           /\ Len(SubSeq(Source, m + 1, k)) = k - m
           /\ SubSeq(Source, m + 1, k) \o SubSeq(Source, k + 1, n)
                = SubSeq(Source, m + 1, n)
  <1>1. m + 1 \in 1..(Len(Source) + 1) /\ k \in (m + 1) - 1..Len(Source)
        /\ n \in k..Len(Source)
    BY SourceBytes
  <1>2. \A i \in m + 1..k : Source[i] \in 1..Size
    BY SourceBytes
  <1>3. m + 1 \in Int /\ k \in Int
    OBVIOUS
  <1>4. /\ SubSeq(Source, m + 1, k) \in Seq(1..Size)
        /\ Len(SubSeq(Source, m + 1, k)) =
             IF m + 1 <= k THEN k - (m + 1) + 1 ELSE 0
    BY <1>2, <1>3, SubSeqProperties
  <1>5. SubSeq(Source, m + 1, k) \o SubSeq(Source, k + 1, n)
          = SubSeq(Source, m + 1, n)
    BY <1>1, SourceBytes, ConcatAdjacentSubSeq
  <1> QED
    BY <1>4, <1>5

\* The same for prefixes.
LEMMA Prefixes ==
    ASSUME NEW k \in 0..Size, NEW n \in k..Size
    PROVE  /\ SubSeq(Source, 1, k) \in Seq(1..Size)
           /\ Len(SubSeq(Source, 1, k)) = k
           /\ SubSeq(Source, 1, k) \o SubSeq(Source, k + 1, n)
                = SubSeq(Source, 1, n)
  <1>1. 1 \in 1..(Len(Source) + 1) /\ k \in 1 - 1..Len(Source) /\ n \in k..Len(Source)
    BY SourceBytes
  <1>2. \A i \in 1..k : Source[i] \in 1..Size
    BY SourceBytes
  <1>3. /\ SubSeq(Source, 1, k) \in Seq(1..Size)
        /\ Len(SubSeq(Source, 1, k)) = IF 1 <= k THEN k - 1 + 1 ELSE 0
    BY <1>2, SubSeqProperties
  <1>4. SubSeq(Source, 1, k) \o SubSeq(Source, k + 1, n) = SubSeq(Source, 1, n)
    BY <1>1, SourceBytes, ConcatAdjacentSubSeq
  <1> QED
    BY <1>3, <1>4

\* A slice of what the resource holds is that slice of the source.
LEMMA DataSlices ==
    ASSUME TypeOK, InputInv, NEW o \in 0..Len(data), NEW n \in o..Len(data)
    PROVE  SubSeq(data, o + 1, n) = SubSeq(Source, o + 1, n)
  <1>1. /\ data \in Seq(1..Size)
        /\ Len(data) \in 0..Size
        /\ data = SubSeq(Source, 1, Len(data))
    <2>1. data \in Seq(1..Size) /\ taken \in 0..Size
      BY DEF TypeOK
    <2>2. Len(data) <= taken /\ data = SubSeq(Source, 1, Len(data))
      BY DEF InputInv
    <2>3. Len(data) \in Nat
      BY <2>1
    <2> QED
      BY <2>1, <2>2, <2>3, SourceBytes
  <1>2. \A i \in 1..Len(data) : data[i] = Source[i]
    <2>1. \A i \in 1..Len(data) - 1 + 1 :
             SubSeq(Source, 1, Len(data))[i] = Source[1 + i - 1]
      <3>1. \A i \in 1..Len(data) : Source[i] \in 1..Size
        BY <1>1, SourceBytes
      <3> QED
        BY <1>1, <3>1, SubSeqProperties
    <2> QED
      BY <1>1, <2>1
  <1>3. \A i \in o + 1..n : data[i] \in 1..Size /\ Source[i] \in 1..Size
    BY <1>1, <1>2, SourceBytes
  <1>4. o + 1 \in Int /\ n \in Int
    BY <1>1
  <1>5. /\ SubSeq(data, o + 1, n) \in Seq(1..Size)
        /\ Len(SubSeq(data, o + 1, n)) = IF o + 1 <= n THEN n - (o + 1) + 1 ELSE 0
        /\ \A i \in 1..n - (o + 1) + 1 : SubSeq(data, o + 1, n)[i] = data[o + 1 + i - 1]
    BY <1>3, <1>4, SubSeqProperties
  <1>6. /\ SubSeq(Source, o + 1, n) \in Seq(1..Size)
        /\ Len(SubSeq(Source, o + 1, n)) = IF o + 1 <= n THEN n - (o + 1) + 1 ELSE 0
        /\ \A i \in 1..n - (o + 1) + 1 : SubSeq(Source, o + 1, n)[i] = Source[o + 1 + i - 1]
    BY <1>3, <1>4, SubSeqProperties
  <1>7. \A i \in 1..Len(SubSeq(data, o + 1, n)) :
           SubSeq(data, o + 1, n)[i] = SubSeq(Source, o + 1, n)[i]
    BY <1>1, <1>2, <1>5, <1>6
  <1> QED
    BY <1>5, <1>6, <1>7, SeqEqual

\* What a reader gets at an offset that is not negative: the next bytes of
\* the source, as many as there are and fit; io.EOF only at its end.
LEMMA ReadBytes ==
    ASSUME TypeOK, InputInv, NEW o \in Nat
    PROVE  /\ Len(Bytes(o)) \in Nat
           /\ Bytes(o) \in Seq(1..Size)
           /\ Bytes(o) = <<>> \/ o + Len(Bytes(o)) <= Len(data)
           /\ Bytes(o) = SubSeq(Source, o + 1, o + Len(Bytes(o)))
           /\ ReadError(o) # "nil" => Bytes(o) = <<>>
           /\ Readable(o) /\ ReadError(o) = "EOF" => data = Source
  <1>1. /\ data \in Seq(1..Size)
        /\ Len(data) \in 0..Size
        /\ forwarded \in {"nil", "failed", "closed"}
    <2>1. /\ data \in Seq(1..Size) /\ taken \in 0..Size
          /\ forwarded \in {"nil", "failed", "closed"}
      BY DEF TypeOK
    <2>2. Len(data) <= taken
      BY DEF InputInv
    <2>3. Len(data) \in Nat
      BY <2>1
    <2> QED
      BY <2>1, <2>2, <2>3, SourceBytes
  <1>2. ReadError(o) # "nil" => Bytes(o) = <<>>
    BY DEF Bytes
  <1>3. ReadError(o) = "nil" => o < Len(data)
    BY <1>1 DEF ReadError
  <1>4. CASE ReadError(o) # "nil"
    <2>1. Bytes(o) = <<>> /\ Len(Bytes(o)) = 0 /\ Bytes(o) \in Seq(1..Size)
      BY <1>2, <1>4
    <2>2. SubSeq(Source, o + 1, o + 0) = <<>>
      BY SubSeqEmpty
    <2>3. Readable(o) /\ ReadError(o) = "EOF" => data = Source
      <3>1. ReadError(o) = "EOF" => forwarded = "nil" /\ o >= Len(data)
        BY <1>1 DEF ReadError
      <3>2. Readable(o) /\ o >= Len(data) => ended
        BY <1>1 DEF Readable
      <3>3. ended /\ forwarded = "nil" => data = Source
        BY DEF InputInv, EndedIsWhole
      <3> QED
        BY <3>1, <3>2, <3>3
    <2> QED
      BY <2>1, <2>2, <2>3
  <1>5. CASE ReadError(o) = "nil"
    <2>1. PICK n \in o..Len(data) : Bytes(o) = SubSeq(data, o + 1, n)
      <3>1. Len(data) \in Nat /\ o < Len(data) /\ BufferSize \in Nat
        BY <1>1, <1>3, <1>5, SizesAssumption
      <3>2. CASE o + BufferSize < Len(data)
        <4>1. Bytes(o) = SubSeq(data, o + 1, o + BufferSize)
          BY <1>5, <3>2 DEF Bytes
        <4>2. o + BufferSize \in o..Len(data)
          BY <3>1, <3>2
        <4> QED
          BY <4>1, <4>2
      <3>3. CASE ~ (o + BufferSize < Len(data))
        <4>1. Bytes(o) = SubSeq(data, o + 1, Len(data))
          BY <1>5, <3>3 DEF Bytes
        <4>2. Len(data) \in o..Len(data)
          BY <3>1
        <4> QED
          BY <4>1, <4>2
      <3> QED
        BY <3>2, <3>3
    <2>2. o \in 0..Len(data) /\ o \in 0..Size /\ n \in o..Size
      BY <1>1, <1>3, <1>5, SizesAssumption
    <2>3. Bytes(o) = SubSeq(Source, o + 1, n)
      BY <2>1, <2>2, DataSlices
    <2>4. Bytes(o) \in Seq(1..Size) /\ Len(Bytes(o)) = n - o
      BY <2>2, <2>3, Slices
    <2> QED
      BY <1>1, <1>5, <2>2, <2>3, <2>4
  <1> QED
    BY <1>4, <1>5

\* A negative offset reads nothing once an error was forwarded.
LEMMA ReadNothing ==
    ASSUME NEW o, forwarded # "nil"
    PROVE  Bytes(o) = <<>> /\ Len(Bytes(o)) = 0 /\ ReadError(o) = forwarded
  BY DEF Bytes, ReadError

----------------------------------------------------------------------------
(* The steps, one part of the invariant at a time *)

\* At first nothing is written, read or copied.
LEMMA StreamInit == Init => StreamInv
  <1> SUFFICES ASSUME Init PROVE StreamInv
    OBVIOUS
  <1>1. /\ data = <<>> /\ Len(data) = 0 /\ data \in Seq(1..Size)
        /\ ~ ended /\ ~ inputClosed /\ input = "idle" /\ taken = 0
        /\ pos = 0 /\ base = 0 /\ consumed = <<>>
        /\ SubSeq(Source, 1, 0) = <<>>
        /\ Size \in Nat
    BY SourceBytes DEF Init
  <1>2. TypeOK
    <2>1. /\ pc \in [Users -> {"idle", "read", "readAt", "writeTo"}]
          /\ off \in [Users -> Int]
          /\ result \in [Users -> Results]
          /\ \A u \in Users : lock = u <=> pc[u] # "idle"
      BY UsersAssumption DEF Init, Results
    <2>2. /\ ended \in BOOLEAN /\ inputClosed \in BOOLEAN /\ closed \in BOOLEAN
          /\ forwarded = "nil" /\ readErr \in Results
          /\ lock \in Users \cup {NoUser} /\ released \in Nat
      BY DEF Init, Results
    <2>3. taken \in 0..Size /\ pos \in Int /\ base \in Int
      BY <1>1
    <2> QED
      BY <1>1, <2>1, <2>2, <2>3 DEF TypeOK
  <1>3. InputInv
    BY <1>1 DEF InputInv, EndedIsWhole
  <1>4. PositionInv
    BY <1>1 DEF PositionInv, ReadsInOrder
  <1>5. CopyInv
    <2>1. sink \in [Users -> Seq(1..Size)]
      BY <1>1 DEF Init
    <2>2. \A u \in Users : pc[u] # "writeTo"
      BY DEF Init
    <2> QED
      BY <2>1, <2>2 DEF CopyInv
  <1> QED
    BY <1>2, <1>3, <1>4, <1>5 DEF StreamInv, ReleasedOnce, Init

\* The worker's side: its steps leave the readers' variables alone.
LEMMA WorkerInput ==
    ASSUME TypeOK, InputInv, CloseEarly \/ WorkerStep
    PROVE  /\ data \in Seq(1..Size) /\ data' \in Seq(1..Size)
           /\ ended' \in BOOLEAN /\ inputClosed' \in BOOLEAN
           /\ forwarded' \in {"nil", "failed", "closed"}
           /\ input' \in {"idle", "reading", "closing", "done"}
           /\ taken' \in 0..Size
           /\ readErr' \in Results
           /\ Len(data) <= Len(data')
           /\ InputInv'
           /\ UNCHANGED <<output, lock, user>>
  <1>0. /\ data \in Seq(1..Size) /\ Len(data) \in Nat /\ Size \in Nat
        /\ ended \in BOOLEAN /\ inputClosed \in BOOLEAN
        /\ forwarded \in {"nil", "failed", "closed"}
        /\ input \in {"idle", "reading", "closing", "done"}
        /\ taken \in 0..Size /\ readErr \in Results
    <2>1. data \in Seq(1..Size)
      BY DEF TypeOK
    <2> QED
      BY <2>1, SizesAssumption DEF TypeOK
  <1>1. ASSUME CloseEarly
        PROVE  /\ data' = data /\ taken' = taken
               /\ input' = input /\ readErr' = readErr /\ input = "idle"
               /\ ended' \in BOOLEAN /\ inputClosed' \in BOOLEAN
               /\ forwarded' \in {"nil", "failed", "closed"}
               /\ inputClosed' <=> ended'
               /\ ended' /\ forwarded' = "nil" => data = Source
               /\ UNCHANGED <<output, lock, user>>
    BY <1>0, <1>1 DEF CloseEarly, CloseInput, InputInv, EndedIsWhole
  <1>2. CASE CloseEarly
    BY <1>0, <1>1, <1>2 DEF InputInv, EndedIsWhole
  <1>3. CASE StartReadFrom
    <2>1. /\ UNCHANGED <<data, ended, forwarded, inputClosed, taken>>
          /\ UNCHANGED <<output, lock, user>>
          /\ \/ inputClosed /\ input' = "closing" /\ readErr' = "closed"
             \/ ~ inputClosed /\ input' = "reading" /\ readErr' = readErr
          /\ input = "idle"
      BY <1>3 DEF StartReadFrom, resource
    <2>2. /\ taken = 0 /\ Len(data) = 0
      BY <1>0, <2>1 DEF InputInv
    <2>3. readErr' \in Results
      BY <1>0, <2>1 DEF Results
    <2> QED
      BY <1>0, <2>1, <2>2, <2>3 DEF InputInv, EndedIsWhole
  <1>4. ASSUME NEW n \in 0..BufferSize, NEW err \in {"nil", "EOF", "failed"},
               ReadFrom(n, err)
        PROVE  /\ data' \in Seq(1..Size) /\ taken' \in 0..Size
               /\ input' \in {"reading", "closing"} /\ readErr' \in Results
               /\ Len(data) <= Len(data')
               /\ InputInv'
               /\ UNCHANGED <<ended, forwarded, inputClosed, output, lock, user>>
    <2>1. /\ input = "reading"
          /\ taken + n <= Size
          /\ err = "EOF" => taken + n = Size
          /\ taken' = taken + n
          /\ data' = IF err = "failed" THEN data
                     ELSE data \o SubSeq(Source, taken + 1, taken + n)
          /\ readErr' = err
          /\ input' = IF err = "nil" THEN "reading" ELSE "closing"
          /\ UNCHANGED <<ended, forwarded, inputClosed, output, lock, user>>
      BY <1>4 DEF ReadFrom
    <2>2. /\ data = SubSeq(Source, 1, Len(data))
          /\ Len(data) = taken /\ ~ inputClosed /\ ~ ended
      BY <2>1 DEF InputInv
    <2>3. n \in Nat /\ taken + n \in 0..Size /\ taken + n \in taken..Size
          /\ 0 \in 0..Size /\ taken \in 0..Size
      BY <1>0, <2>1, SizesAssumption
    <2>4. data \o SubSeq(Source, taken + 1, taken + n)
            = SubSeq(Source, 1, taken + n)
      BY <2>2, <2>3, Prefixes
    <2>5. /\ SubSeq(Source, 1, taken + n) \in Seq(1..Size)
          /\ Len(SubSeq(Source, 1, taken + n)) = taken + n
      <3>1. taken + n \in taken + n..Size
        BY <2>3
      <3> QED
        BY <2>3, <3>1, Prefixes
    <2>6. readErr' \in Results
      BY <2>1 DEF Results
    <2>7. CASE err = "failed"
      BY <1>0, <2>1, <2>2, <2>3, <2>6, <2>7 DEF InputInv, EndedIsWhole
    <2>8. CASE err # "failed"
      <3>1. /\ data' = SubSeq(Source, 1, taken + n)
            /\ Len(data') = taken + n
            /\ data' \in Seq(1..Size)
        BY <2>1, <2>4, <2>5, <2>8
      <3>2. InputInv'
        BY <2>1, <2>2, <2>3, <2>8, <3>1 DEF InputInv, EndedIsWhole
      <3> QED
        BY <1>0, <2>1, <2>2, <2>3, <2>6, <3>1, <3>2
    <2> QED
      BY <2>7, <2>8
  <1>5. CASE CloseAfterReadFrom
    <2>1. /\ input = "closing" /\ input' = "done"
          /\ CloseInput(readErr)
          /\ UNCHANGED <<data, taken, readErr, output, lock, user>>
      BY <1>5 DEF CloseAfterReadFrom
    <2>2. Len(data) = Size => data = Source
      BY SourceBytes DEF InputInv
    <2>3. /\ ended' \in BOOLEAN /\ inputClosed' \in BOOLEAN
          /\ forwarded' \in {"nil", "failed", "closed"}
          /\ inputClosed' <=> ended'
          /\ ended' /\ forwarded' = "nil" => data = Source
      <3>1. CASE inputClosed
        BY <1>0, <2>1, <3>1 DEF CloseInput, InputInv, EndedIsWhole
      <3>2. CASE ~ inputClosed
        BY <1>0, <2>1, <2>2, <3>2 DEF CloseInput, InputInv
      <3> QED
        BY <3>1, <3>2
    <2>4. InputInv'
      BY <2>1, <2>3 DEF InputInv, EndedIsWhole
    <2> QED
      BY <1>0, <2>1, <2>3, <2>4
  <1> QED
    BY <1>0, <1>2, <1>3, <1>4, <1>5 DEF WorkerStep

----------------------------------------------------------------------------
(* The users' side *)

\* The first bytes of a slice of the source.
LEMMA SliceOfSlice ==
    ASSUME NEW o \in 0..Size, NEW k \in 0..Size - o, NEW n \in 0..k
    PROVE  SubSeq(SubSeq(Source, o + 1, o + k), 1, n) = SubSeq(Source, o + 1, o + n)
  <1>1. CASE n = 0
    <2>1. SubSeq(Source, o + 1, o + n) = <<>>
      BY <1>1, SizesAssumption, SubSeqEmpty
    <2>2. SubSeq(SubSeq(Source, o + 1, o + k), 1, n) = <<>>
      BY <1>1, SubSeqEmpty
    <2> QED
      BY <2>1, <2>2
  <1>2. CASE n # 0
    <2>1. /\ o \in Nat /\ k \in Nat /\ n \in Nat /\ Size \in Nat
          /\ n <= k /\ 1 <= n /\ o + k <= Size
      BY <1>2, SizesAssumption
    <2>2. /\ o + 1 \in 1..Len(Source)
          /\ o + k \in 1..Len(Source)
          /\ 1 \in 1..(o + k) - (o + 1) + 1
          /\ n \in 1..(o + k) - (o + 1) + 1
      BY <2>1, SourceBytes
    <2>3. SubSeq(SubSeq(Source, o + 1, o + k), 1, n)
            = SubSeq(Source, (o + 1) + 1 - 1, (o + 1) + n - 1)
      BY <2>2, SourceBytes, SubSeqOfSubSeq
    <2>4. (o + 1) + 1 - 1 = o + 1 /\ (o + 1) + n - 1 = o + n
      BY <2>1
    <2> QED
      BY <2>3, <2>4
  <1> QED
    BY <1>1, <1>2

\* Whatever part of what it read the writer takes, a copy has then written
\* a prefix of the source.
LEMMA CopyWrites ==
    ASSUME StreamInv, NEW u \in Users, pc[u] = "writeTo",
           NEW n \in Nat, n <= Len(Bytes(off[u]))
    PROVE  /\ off[u] + n \in 0..Len(data)
           /\ sink[u] \o SubSeq(Bytes(off[u]), 1, n) = SubSeq(Source, 1, off[u] + n)
           /\ SubSeq(Source, 1, off[u] + n) \in Seq(1..Size)
           /\ Len(SubSeq(Source, 1, off[u] + n)) = off[u] + n
  <1>1. /\ TypeOK /\ InputInv
        /\ off[u] \in 0..Len(data)
        /\ sink[u] = SubSeq(Source, 1, off[u])
    BY DEF StreamInv, CopyInv
  <1>2. Len(data) \in 0..Size /\ Size \in Nat
    <2>1. /\ data \in Seq(1..Size) /\ taken \in 0..Size /\ Len(data) <= taken
      BY <1>1 DEF TypeOK, InputInv
    <2>2. Len(data) \in Nat
      BY <2>1
    <2> QED
      BY <2>1, <2>2, SizesAssumption
  <1> DEFINE bytes == Bytes(off[u])
  <1> PICK o \in Nat : o = off[u]
    BY <1>1, <1>2
  <1>3. /\ Len(bytes) \in Nat
        /\ bytes = <<>> \/ o + Len(bytes) <= Len(data)
        /\ bytes = SubSeq(Source, o + 1, o + Len(bytes))
    BY <1>1, ReadBytes
  <1>4. o + Len(bytes) <= Len(data)
    <2>1. bytes = <<>> => Len(bytes) = 0
      OBVIOUS
    <2> QED
      BY <1>1, <1>2, <1>3, <2>1
  <1>5. /\ o \in 0..Size /\ Len(bytes) \in 0..Size - o /\ n \in 0..Len(bytes)
        /\ o + n \in o..Size /\ o + n \in 0..Size /\ o + n \in o + n..Size
        /\ o + n \in 0..Len(data)
    <2>1. PICK k \in Nat : k = Len(bytes)
      BY <1>3
    <2>2. PICK l \in 0..Size : l = Len(data)
      BY <1>2
    <2>3. o + k <= l /\ n <= k
      BY <1>4, <2>1, <2>2
    <2>4. /\ o \in 0..Size /\ k \in 0..Size - o /\ n \in 0..k
          /\ o + n \in o..Size /\ o + n \in 0..Size /\ o + n \in o + n..Size
          /\ o + n \in 0..l
      BY <1>2, <2>3
    <2> QED
      BY <2>1, <2>2, <2>4
  <1>6. SubSeq(bytes, 1, n) = SubSeq(Source, o + 1, o + n)
    <2>1. PICK k \in 0..Size - o : k = Len(bytes)
      BY <1>5
    <2>2. bytes = SubSeq(Source, o + 1, o + k) /\ n \in 0..k
      BY <1>3, <1>5, <2>1
    <2>3. SubSeq(SubSeq(Source, o + 1, o + k), 1, n) = SubSeq(Source, o + 1, o + n)
      BY <1>5, <2>2, SliceOfSlice
    <2> QED
      BY <2>2, <2>3
  <1>7. SubSeq(Source, 1, o) \o SubSeq(Source, o + 1, o + n) = SubSeq(Source, 1, o + n)
    BY <1>5, Prefixes
  <1>8. /\ SubSeq(Source, 1, o + n) \in Seq(1..Size)
        /\ Len(SubSeq(Source, 1, o + n)) = o + n
    BY <1>5, Prefixes
  <1> QED
    BY <1>1, <1>5, <1>6, <1>7, <1>8

\* The variables of a call, as in TypeOK.
CallTypes ==
    /\ lock \in Users \cup {NoUser}
    /\ \A u \in Users : lock = u <=> pc[u] # "idle"
    /\ pc \in [Users -> {"idle", "read", "readAt", "writeTo"}]
    /\ off \in [Users -> Int]
    /\ result \in [Users -> Results]

\* A call that returns gives the lock back; no copy of another user changes.
LEMMA Returns ==
    ASSUME StreamInv, NEW u \in Users, NEW err \in Results,
           lock = u \/ lock = NoUser, Return(u, err)
    PROVE  /\ CallTypes'
           /\ (/\ data' = data
               /\ sink' \in [Users -> Seq(1..Size)]
               /\ \A v \in Users \ {u} : sink'[v] = sink[v]) => CopyInv'
  <1>1. /\ lock' = NoUser
        /\ pc' = [pc EXCEPT ![u] = "idle"]
        /\ off' = [off EXCEPT ![u] = 0]
        /\ result' = [result EXCEPT ![u] = err]
    BY DEF Return
  <1>2. /\ \A v \in Users : lock = v <=> pc[v] # "idle"
        /\ pc \in [Users -> {"idle", "read", "readAt", "writeTo"}]
        /\ off \in [Users -> Int]
        /\ result \in [Users -> Results]
        /\ NoUser \notin Users
    BY UsersAssumption DEF StreamInv, TypeOK
  <1>3. CallTypes'
    BY <1>1, <1>2 DEF CallTypes
  <1>4. ASSUME data' = data, sink' \in [Users -> Seq(1..Size)],
               \A v \in Users \ {u} : sink'[v] = sink[v]
        PROVE  CopyInv'
    <2>1. ASSUME NEW v \in Users, pc'[v] = "writeTo"
          PROVE  off'[v] \in 0..Len(data) /\ sink'[v] = SubSeq(Source, 1, off'[v])
      <3>1. v # u /\ pc[v] = "writeTo" /\ off'[v] = off[v] /\ sink'[v] = sink[v]
        BY <1>1, <1>2, <1>4, <2>1
      <3> QED
        BY <3>1 DEF StreamInv, CopyInv
    <2> QED
      BY <1>4, <2>1 DEF CopyInv
  <1> QED
    BY <1>3, <1>4

\* A call that begins takes the free lock; its own copy has nothing yet.
LEMMA Enters ==
    ASSUME StreamInv, NEW u \in Users,
           NEW name \in {"read", "readAt", "writeTo"}, NEW o \in Int,
           lock = NoUser, lock' = u,
           pc' = [pc EXCEPT ![u] = name], off' = [off EXCEPT ![u] = o],
           UNCHANGED <<data, result>>,
           \/ name # "writeTo" /\ UNCHANGED sink
           \/ name = "writeTo" /\ o = 0 /\ sink' = [sink EXCEPT ![u] = <<>>]
    PROVE  CallTypes' /\ CopyInv'
  <1>1. /\ \A v \in Users : pc[v] = "idle"
        /\ pc \in [Users -> {"idle", "read", "readAt", "writeTo"}]
        /\ off \in [Users -> Int]
        /\ result \in [Users -> Results]
        /\ sink \in [Users -> Seq(1..Size)]
        /\ data \in Seq(1..Size)
    BY UsersAssumption DEF StreamInv, TypeOK, CopyInv
  <1>2. CallTypes'
    BY <1>1 DEF CallTypes
  <1>3. <<>> \in Seq(1..Size) /\ Len(data) \in Nat
    BY <1>1
  <1>4. sink' \in [Users -> Seq(1..Size)]
    BY <1>1, <1>3
  <1>5. ASSUME NEW v \in Users, pc'[v] = "writeTo"
        PROVE  off'[v] \in 0..Len(data) /\ sink'[v] = SubSeq(Source, 1, off'[v])
    <2>1. v = u /\ name = "writeTo"
      BY <1>1, <1>5
    <2>2. off'[u] = 0 /\ sink'[u] = <<>>
      BY <1>1, <2>1
    <2>3. 0 \in 0..Len(data) /\ SubSeq(Source, 1, 0) = <<>>
      BY <1>3, SourceBytes
    <2> QED
      BY <2>1, <2>2, <2>3
  <1> QED
    BY <1>2, <1>4, <1>5 DEF CopyInv

\* What the types of the other variables become when only a user steps.
LEMMA UserTypes ==
    ASSUME TypeOK, CallTypes', UNCHANGED <<resource, worker>>,
           closed' \in BOOLEAN, pos' \in Int, base' \in Int, released' \in Nat
    PROVE  TypeOK'
  BY DEF TypeOK, CallTypes, resource, worker

\* A Read or a ReadAt takes the lock, or returns when the end is closed.
LEMMA CallStep ==
    ASSUME StreamInv, NEW u \in Users, NEW name \in {"read", "readAt"},
           NEW o \in Int, Call(u, name, o)
    PROVE  TypeOK' /\ CopyInv' /\ UNCHANGED <<resource, worker, output>>
  <1>1. /\ lock = NoUser
        /\ UNCHANGED <<resource, worker, output, sink>>
        /\ data' = data /\ UNCHANGED <<closed, pos, base, released>>
    BY DEF Call, resource, output
  <1>2. CallTypes' /\ CopyInv'
    <2>1. CASE closed
      <3>1. Return(u, "closed") /\ sink' = sink
        BY <2>1 DEF Call
      <3>2. sink \in [Users -> Seq(1..Size)] /\ "closed" \in Results
        BY DEF StreamInv, CopyInv, Results
      <3> QED
        BY <1>1, <3>1, <3>2, Returns
    <2>2. CASE ~ closed
      <3>1. /\ lock' = u
            /\ pc' = [pc EXCEPT ![u] = name]
            /\ off' = [off EXCEPT ![u] = o]
            /\ UNCHANGED <<sink, result>>
        BY <2>2 DEF Call
      <3> QED
        BY <1>1, <3>1, Enters
    <2> QED
      BY <2>1, <2>2
  <1>3. TypeOK'
    BY <1>1, <1>2, UserTypes DEF StreamInv, TypeOK
  <1> QED
    BY <1>1, <1>2, <1>3

\* Read goes on where it was: its bytes follow those returned before.
LEMMA FinishReadStep ==
    ASSUME StreamInv, NEW u \in Users, FinishRead(u)
    PROVE  TypeOK' /\ CopyInv' /\ PositionInv' /\ ReleasedOnce'
           /\ UNCHANGED <<resource, worker>>
  <1>0. /\ pc[u] = "read" /\ lock = u
        /\ TypeOK /\ InputInv /\ PositionInv /\ ReleasedOnce
        /\ sink \in [Users -> Seq(1..Size)]
    BY DEF FinishRead, StreamInv, TypeOK, CopyInv
  <1>1. CASE Panic(u, pos)
    <2>1. /\ Return(u, "panic") /\ "panic" \in Results
          /\ UNCHANGED <<resource, worker, output, sink>>
          /\ data' = data /\ UNCHANGED <<pos, closed, base, consumed, released>>
      BY <1>1 DEF Panic, resource, output, Results
    <2>2. CallTypes' /\ CopyInv'
      BY <1>0, <2>1, Returns
    <2>3. TypeOK'
      BY <1>0, <2>1, <2>2, UserTypes DEF TypeOK
    <2>4. PositionInv' /\ ReleasedOnce'
      BY <1>0, <2>1 DEF PositionInv, ReadsInOrder, ReleasedOnce
    <2> QED
      BY <2>1, <2>2, <2>3, <2>4
  <1>2. CASE /\ pos >= 0 \/ forwarded # "nil"
             /\ pos' = pos + Len(Bytes(pos))
             /\ consumed' = consumed \o Bytes(pos)
             /\ Return(u, ReadError(pos))
             /\ UNCHANGED <<resource, worker, closed, base, released, sink>>
    <2>1. /\ data' = data /\ UNCHANGED <<closed, base, released, sink>>
          /\ pos \in Int /\ base \in Int /\ Size \in Nat
          /\ Len(data) \in Nat /\ Len(data) <= Size
      <3>1. /\ data \in Seq(1..Size) /\ taken \in 0..Size /\ Len(data) <= taken
            /\ pos \in Int /\ base \in Int
        BY <1>0 DEF TypeOK, InputInv
      <3>2. Len(data) \in Nat
        BY <3>1
      <3> QED
        BY <1>2, <3>1, <3>2, SizesAssumption DEF resource
    <2>2. ReadError(pos) \in Results
      BY <1>0 DEF ReadError, Results, TypeOK
    <2>3. CallTypes' /\ CopyInv'
      BY <1>0, <1>2, <2>1, <2>2, Returns
    <2>4. CASE pos < 0
      <3>1. Bytes(pos) = <<>> /\ Len(Bytes(pos)) = 0
        BY <1>2, <2>1, <2>4, ReadNothing
      <3>2. pos' = pos /\ base < 0 /\ base = pos
        <4>1. pos' = pos + 0
          BY <1>2, <3>1
        <4>2. /\ base < 0 => pos = base
              /\ base >= 0 => base <= pos
          BY <1>0 DEF PositionInv
        <4> QED
          BY <2>1, <2>4, <4>1, <4>2
      <3>3. consumed = <<>> /\ SubSeq(Source, base' + 1, pos') = <<>>
        <4>1. SubSeq(Source, base + 1, pos) = <<>>
          BY <2>1, <3>2, SubSeqEmpty
        <4> QED
          BY <1>0, <2>1, <3>2, <4>1 DEF PositionInv, ReadsInOrder
      <3>4. consumed' = <<>>
        BY <1>2, <3>1, <3>3
      <3>5. PositionInv'
        BY <1>0, <2>1, <3>2, <3>3, <3>4 DEF PositionInv, ReadsInOrder
      <3>6. TypeOK'
        BY <1>0, <1>2, <2>1, <2>3, <3>2, UserTypes DEF TypeOK
      <3> QED
        BY <1>0, <1>2, <2>1, <2>3, <3>5, <3>6 DEF ReleasedOnce
    <2>5. CASE pos >= 0
      <3> PICK o \in Nat : o = pos
        BY <2>1, <2>5
      <3>1. /\ Len(Bytes(o)) \in Nat
            /\ Bytes(o) = <<>> \/ o + Len(Bytes(o)) <= Len(data)
            /\ Bytes(o) = SubSeq(Source, o + 1, o + Len(Bytes(o)))
        BY <1>0, ReadBytes
      <3> PICK k \in Nat : k = Len(Bytes(o))
        BY <3>1
      <3>2. /\ pos' = o + k /\ pos' \in Int
            /\ o + k <= Size
            /\ base \in 0..o
        <4>1. Bytes(o) = <<>> => k = 0
          OBVIOUS
        <4> QED
          BY <1>0, <1>2, <2>1, <3>1, <4>1 DEF PositionInv
      <3>3. consumed' = SubSeq(Source, base + 1, o) \o SubSeq(Source, o + 1, o + k)
        BY <1>0, <1>2, <3>1 DEF PositionInv, ReadsInOrder
      <3>4. SubSeq(Source, base + 1, o) \o SubSeq(Source, o + 1, o + k)
              = SubSeq(Source, base + 1, o + k)
        <4>1. ASSUME NEW b \in 0..Size, NEW n \in o..Size, o \in b..Size
              PROVE  SubSeq(Source, b + 1, o) \o SubSeq(Source, o + 1, n)
                       = SubSeq(Source, b + 1, n)
          BY <4>1, Slices
        <4>2. base \in 0..Size /\ o \in base..Size /\ o + k \in o..Size
          BY <2>1, <3>2
        <4> QED
          BY <4>1, <4>2
      <3>5. PositionInv'
        <4>1. ReadsInOrder'
          BY Zenon, <2>1, <3>2, <3>3, <3>4 DEF ReadsInOrder
        <4>2. base' = base /\ pos' = o + k
          BY <2>1, <3>2
        <4> QED
          BY <2>1, <3>2, <4>1, <4>2 DEF PositionInv
      <3>6. TypeOK'
        BY <1>0, <1>2, <2>1, <2>3, <3>2, UserTypes DEF TypeOK
      <3> QED
        BY <1>0, <1>2, <2>1, <2>3, <3>5, <3>6 DEF ReleasedOnce
    <2> QED
      BY <2>1, <2>4, <2>5
  <1> QED
    BY <1>1, <1>2 DEF FinishRead

\* A ReadAt by a user returns the bytes at its offset and moves no position.
LEMMA FinishReadAtStep ==
    ASSUME StreamInv, NEW u \in Users, FinishReadAt(u)
    PROVE  TypeOK' /\ CopyInv' /\ UNCHANGED <<resource, worker, output>>
  <1>1. /\ lock = u /\ TypeOK
        /\ sink \in [Users -> Seq(1..Size)]
        /\ forwarded \in {"nil", "failed", "closed"}
    BY DEF FinishReadAt, StreamInv, TypeOK, CopyInv
  <1>2. /\ UNCHANGED <<resource, worker, output, sink>>
        /\ \E err \in Results : Return(u, err)
    <2>1. ReadError(off[u]) \in Results /\ "panic" \in Results
      BY <1>1 DEF ReadError, Results
    <2> QED
      BY <2>1 DEF FinishReadAt, Panic
  <1>3. data' = data /\ UNCHANGED <<closed, pos, base, released>>
    BY <1>2 DEF resource, output
  <1>4. CallTypes' /\ CopyInv'
    BY <1>1, <1>2, <1>3, Returns
  <1>5. TypeOK'
    BY <1>1, <1>2, <1>3, <1>4, UserTypes DEF TypeOK
  <1> QED
    BY <1>2, <1>4, <1>5

\* A copy starts, and goes on from what was written.
LEMMA WriteToStep ==
    ASSUME StreamInv, NEW u \in Users, WriteTo(u)
    PROVE  TypeOK' /\ CopyInv' /\ UNCHANGED <<resource, worker, output>>
  <1>1. /\ lock = NoUser /\ lock' = u
        /\ pc' = [pc EXCEPT ![u] = "writeTo"]
        /\ off' = [off EXCEPT ![u] = 0]
        /\ sink' = [sink EXCEPT ![u] = <<>>]
        /\ UNCHANGED <<resource, worker, output, result>>
    BY DEF WriteTo
  <1>2. data' = data /\ UNCHANGED <<closed, pos, base, released>>
    BY <1>1 DEF resource, output
  <1>3. CallTypes' /\ CopyInv'
    <2>1. 0 \in Int /\ data' = data /\ UNCHANGED <<data, result>>
      BY <1>1, <1>2
    <2> QED
      BY <1>1, <2>1, Enters
  <1>4. TypeOK'
    BY <1>1, <1>2, <1>3, UserTypes DEF StreamInv, TypeOK
  <1> QED
    BY <1>1, <1>3, <1>4

\* A step of WriteTo hands on the bytes that follow what it copied.
LEMMA CopyStepStep ==
    ASSUME StreamInv, NEW u \in Users, NEW n \in 0..BufferSize,
           NEW writeErr \in {"nil", "writer"}, CopyStep(u, n, writeErr)
    PROVE  /\ TypeOK' /\ CopyInv' /\ UNCHANGED <<resource, worker, output>>
           /\ sink'[u] = SubSeq(Source, 1, Len(sink'[u]))
           /\ pc'[u] = "idle" /\ result'[u] = "EOF" => sink'[u] = Source
           /\ \A v \in Users \ {u} : sink'[v] = sink[v]
  <1>1. /\ pc[u] = "writeTo"
        /\ Readable(off[u])
        /\ n <= Len(Bytes(off[u]))
        /\ writeErr = "nil" => n = Len(Bytes(off[u]))
        /\ sink' = [sink EXCEPT ![u] = sink[u] \o SubSeq(Bytes(off[u]), 1, n)]
        /\ UNCHANGED <<resource, worker, output>>
        /\ IF writeErr # "nil" THEN Return(u, writeErr)
           ELSE IF ReadError(off[u]) # "nil" THEN Return(u, ReadError(off[u]))
           ELSE off' = [off EXCEPT ![u] = off[u] + n] /\ UNCHANGED <<lock, pc, result>>
    BY DEF CopyStep
  <1>2. /\ TypeOK /\ InputInv
        /\ lock = u
        /\ sink \in [Users -> Seq(1..Size)]
        /\ off \in [Users -> Int]
        /\ result \in [Users -> Results]
        /\ pc \in [Users -> {"idle", "read", "readAt", "writeTo"}]
        /\ data \in Seq(1..Size)
        /\ forwarded \in {"nil", "failed", "closed"}
        /\ data' = data /\ UNCHANGED <<closed, pos, base, released>>
        /\ n \in Nat
    BY <1>1, SizesAssumption DEF StreamInv, TypeOK, CopyInv, resource, output
  <1>3. off[u] \in 0..Len(data) /\ Len(data) \in Nat
    BY <1>1, <1>2 DEF StreamInv, CopyInv
  <1>4. /\ off[u] + n \in 0..Len(data)
        /\ sink[u] \o SubSeq(Bytes(off[u]), 1, n) = SubSeq(Source, 1, off[u] + n)
        /\ SubSeq(Source, 1, off[u] + n) \in Seq(1..Size)
        /\ Len(SubSeq(Source, 1, off[u] + n)) = off[u] + n
    BY <1>1, <1>2, CopyWrites
  <1>5. /\ sink' = [sink EXCEPT ![u] = SubSeq(Source, 1, off[u] + n)]
        /\ sink'[u] = SubSeq(Source, 1, off[u] + n)
        /\ sink' \in [Users -> Seq(1..Size)]
        /\ \A v \in Users \ {u} : sink'[v] = sink[v]
    BY <1>1, <1>2, <1>4
  <1>6. sink'[u] = SubSeq(Source, 1, Len(sink'[u]))
    BY <1>4, <1>5
  <1>7. CASE Return(u, writeErr) /\ writeErr # "nil"
    <2>1. "writer" \in Results /\ result'[u] = writeErr
      BY <1>2, <1>7 DEF Results, Return
    <2>2. CallTypes' /\ CopyInv'
      BY <1>2, <1>5, <1>7, <2>1, Returns
    <2>3. TypeOK'
      BY <1>1, <1>2, <2>2, UserTypes DEF TypeOK
    <2> QED
      BY <1>1, <1>5, <1>6, <1>7, <2>1, <2>2, <2>3
  <1>8. CASE /\ writeErr = "nil" /\ ReadError(off[u]) # "nil"
             /\ Return(u, ReadError(off[u]))
    <2>1. ReadError(off[u]) \in Results
      BY <1>2 DEF ReadError, Results
    <2>2. CallTypes' /\ CopyInv'
      BY <1>2, <1>5, <1>8, <2>1, Returns
    <2>3. TypeOK'
      BY <1>1, <1>2, <2>2, UserTypes DEF TypeOK
    <2>4. ASSUME result'[u] = "EOF" PROVE sink'[u] = Source
      <3>1. ReadError(off[u]) = "EOF"
        BY <1>2, <1>8, <2>4 DEF Return
      <3>2. data = Source /\ Bytes(off[u]) = <<>>
        BY <1>1, <1>2, <1>3, <3>1, ReadBytes
      <3>3. n = 0
        BY <1>1, <1>8, <3>2
      <3>4. off[u] >= Len(data)
        BY <1>2, <1>3, <3>1 DEF ReadError
      <3>5. off[u] + n = Size
        BY <1>3, <3>2, <3>3, <3>4, SourceBytes
      <3> QED
        BY <1>5, <3>5, SourceBytes
    <2> QED
      BY <1>1, <1>5, <1>6, <2>2, <2>3, <2>4
  <1>9. CASE /\ off' = [off EXCEPT ![u] = off[u] + n]
             /\ UNCHANGED <<lock, pc, result>>
    <2>1. off'[u] = off[u] + n /\ off' \in [Users -> Int]
      BY <1>2, <1>3, <1>9
    <2>2. CallTypes'
      BY <1>2, <1>9, <2>1 DEF CallTypes, TypeOK
    <2>3. ASSUME NEW v \in Users, pc'[v] = "writeTo"
          PROVE  off'[v] \in 0..Len(data') /\ sink'[v] = SubSeq(Source, 1, off'[v])
      <3>1. CASE v = u
        BY <1>2, <1>4, <1>5, <2>1, <3>1
      <3>2. CASE v # u
        BY <1>2, <1>5, <1>9, <2>3, <3>2 DEF StreamInv, CopyInv
      <3> QED
        BY <3>1, <3>2
    <2>4. CopyInv'
      BY <1>5, <2>3 DEF CopyInv
    <2>5. TypeOK'
      BY <1>1, <1>2, <2>2, UserTypes DEF TypeOK
    <2>6. pc'[u] # "idle"
      BY <1>1, <1>9
    <2> QED
      BY <1>1, <1>5, <1>6, <2>4, <2>5, <2>6
  <1> QED
    BY <1>1, <1>7, <1>8, <1>9

\* Between a position and itself there is nothing to read.
LEMMA NothingFromHere ==
    ASSUME NEW n \in Int
    PROVE  SubSeq(Source, n + 1, n) = <<>>
  <1>1. n + 1 \in Int /\ n < n + 1
    OBVIOUS
  <1> QED
    BY <1>1, SubSeqEmpty

\* A Seek begins a new sequence of Reads; a Close is counted once.
LEMMA SeekOrCloseStep ==
    ASSUME StreamInv, NEW u \in Users,
           Close(u) \/ \E o \in Offsets, whence \in Whences : Seek(u, o, whence)
    PROVE  TypeOK' /\ CopyInv' /\ PositionInv' /\ ReleasedOnce'
           /\ UNCHANGED <<resource, worker, pc, sink>>
  <1>0. /\ TypeOK /\ PositionInv /\ ReleasedOnce /\ CopyInv
        /\ pos \in Int /\ base \in Int /\ released \in Nat /\ closed \in BOOLEAN
        /\ result \in [Users -> Results]
    BY DEF StreamInv, TypeOK
  <1>1. /\ UNCHANGED <<resource, worker, lock, pc, off, sink>>
        /\ \E err \in Results : result' = [result EXCEPT ![u] = err]
    BY DEF Close, Seek, Results
  <1>2. CallTypes'
    <2>1. result' \in [Users -> Results]
      BY <1>0, <1>1
    <2> QED
      BY <1>0, <1>1, <2>1 DEF CallTypes, TypeOK
  <1>3. CopyInv'
    BY <1>0, <1>1 DEF CopyInv, resource
  <1>4. \/ UNCHANGED <<pos, base, consumed>>
        \/ /\ pos' \in Int /\ pos' <= Size /\ base' = pos' /\ consumed' = <<>>
    <2>1. ASSUME NEW o \in Offsets, NEW whence \in Whences, Seek(u, o, whence)
          PROVE  \/ UNCHANGED <<pos, base, consumed>>
                 \/ pos' \in Int /\ pos' <= Size /\ base' = pos' /\ consumed' = <<>>
      <3>1. o \in Int
        BY OffsetsAssumption
      <3> QED
        BY <1>0, <2>1, <3>1 DEF Seek, output
    <2> QED
      BY <2>1 DEF Close
  <1>5. PositionInv' /\ pos' \in Int /\ base' \in Int
    <2>1. CASE UNCHANGED <<pos, base, consumed>>
      BY <1>0, <2>1 DEF PositionInv, ReadsInOrder
    <2>2. CASE pos' \in Int /\ pos' <= Size /\ base' = pos' /\ consumed' = <<>>
      <3>1. ReadsInOrder'
        <4>1. \A i \in Int : SubSeq(Source, i + 1, i) = <<>>
          BY NothingFromHere
        <4>2. PICK i \in Int : i = pos' /\ i = base' /\ consumed' = <<>>
          BY Zenon, <2>2
        <4>3. SubSeq(Source, i + 1, i) = <<>>
          BY Zenon, <4>1
        <4> QED
          BY Zenon, <4>2, <4>3 DEF ReadsInOrder
      <3> QED
        BY <2>2, <3>1 DEF PositionInv
    <2> QED
      BY <1>4, <2>1, <2>2
  <1>6. ReleasedOnce' /\ closed' \in BOOLEAN /\ released' \in Nat
    <2>1. \/ UNCHANGED <<closed, released>>
          \/ ~ closed /\ closed' = TRUE /\ released' = released + 1
      BY DEF Close, Seek, output
    <2>2. CASE UNCHANGED <<closed, released>>
      BY <1>0, <2>2 DEF ReleasedOnce
    <2>3. CASE ~ closed /\ closed' = TRUE /\ released' = released + 1
      <3>1. released = 0
        BY <1>0, <2>3 DEF ReleasedOnce
      <3> QED
        BY <2>3, <3>1 DEF ReleasedOnce
    <2> QED
      BY <2>1, <2>2, <2>3
  <1>7. TypeOK'
    BY <1>0, <1>1, <1>2, <1>5, <1>6, UserTypes
  <1> QED
    BY <1>1, <1>3, <1>5, <1>6, <1>7

----------------------------------------------------------------------------
(* The theorems *)

\* A user's step keeps the invariant, and what it writes is the source.
LEMMA UserStep ==
    ASSUME StreamInv, NEW u \in Users, Use(u) \/ FinishCall(u)
    PROVE  /\ StreamInv'
           /\ \A v \in Users : pc[v] = "writeTo" =>
                /\ sink'[v] = SubSeq(Source, 1, Len(sink'[v]))
                /\ pc'[v] = "idle" /\ result'[v] = "EOF" => sink'[v] = Source
  <1>0. /\ InputInv /\ PositionInv /\ ReleasedOnce
        /\ \A v \in Users : lock = v <=> pc[v] # "idle"
        /\ \A v \in Users : pc[v] = "writeTo" =>
              off[v] \in 0..Len(data) /\ sink[v] = SubSeq(Source, 1, off[v])
        /\ Len(data) \in 0..Size
    <2>1. /\ data \in Seq(1..Size) /\ taken \in 0..Size /\ Len(data) <= taken
      BY DEF StreamInv, TypeOK, InputInv
    <2>2. Len(data) \in 0..Size
      <3>1. Len(data) \in Nat
        BY <2>1
      <3> QED
        BY <2>1, <3>1, SizesAssumption
    <2> QED
      BY <2>2 DEF StreamInv, TypeOK, CopyInv
  <1>1. ASSUME NEW v \in Users, pc[v] = "writeTo", sink'[v] = sink[v]
        PROVE  sink'[v] = SubSeq(Source, 1, Len(sink'[v]))
    <2>1. PICK k \in 0..Size : k = off[v] /\ sink[v] = SubSeq(Source, 1, k)
      BY <1>0, <1>1, SizesAssumption
    <2>2. Len(SubSeq(Source, 1, k)) = k
      <3>1. k \in k..Size
        BY <2>1, SizesAssumption
      <3> QED
        BY <3>1, Prefixes
    <2> QED
      BY <1>1, <2>1, <2>2
  <1>2. ASSUME UNCHANGED <<resource, worker>> PROVE InputInv'
    BY <1>0, <1>2 DEF InputInv, EndedIsWhole, resource, worker
  <1>3. ASSUME UNCHANGED output PROVE PositionInv' /\ ReleasedOnce'
    BY <1>0, <1>3 DEF PositionInv, ReadsInOrder, ReleasedOnce, output
  <1>4. CASE Read(u) \/ \E o \in Offsets : ReadAt(u, o)
    <2>1. PICK name \in {"read", "readAt"}, o \in Int : Call(u, name, o)
      BY <1>4, OffsetsAssumption DEF Read, ReadAt
    <2>2. TypeOK' /\ CopyInv' /\ UNCHANGED <<resource, worker, output>>
      BY <2>1, CallStep
    <2>3. lock = NoUser /\ sink' = sink
      BY <2>1 DEF Call
    <2> QED
      BY <1>0, <1>2, <1>3, <2>2, <2>3, UsersAssumption DEF StreamInv
  <1>5. CASE FinishRead(u)
    <2>1. TypeOK' /\ CopyInv' /\ PositionInv' /\ ReleasedOnce'
          /\ UNCHANGED <<resource, worker>>
      BY <1>5, FinishReadStep
    <2>2. pc[u] = "read" /\ sink' = sink
      BY <1>5 DEF FinishRead, Panic
    <2>3. \A v \in Users : pc[v] # "writeTo"
      BY <1>0, <2>2
    <2> QED
      BY <1>2, <2>1, <2>3 DEF StreamInv
  <1>6. CASE FinishReadAt(u)
    <2>1. TypeOK' /\ CopyInv' /\ UNCHANGED <<resource, worker, output>>
      BY <1>6, FinishReadAtStep
    <2>2. pc[u] = "readAt"
      BY <1>6 DEF FinishReadAt
    <2>3. \A v \in Users : pc[v] # "writeTo"
      BY <1>0, <2>2
    <2> QED
      BY <1>2, <1>3, <2>1, <2>3 DEF StreamInv
  <1>7. CASE WriteTo(u)
    <2>1. TypeOK' /\ CopyInv' /\ UNCHANGED <<resource, worker, output>>
      BY <1>7, WriteToStep
    <2>2. lock = NoUser
      BY <1>7 DEF WriteTo
    <2>3. \A v \in Users : pc[v] # "writeTo"
      BY <1>0, <2>2, UsersAssumption
    <2> QED
      BY <1>2, <1>3, <2>1, <2>3 DEF StreamInv
  <1>8. ASSUME NEW n \in 0..BufferSize, NEW err \in {"nil", "writer"},
               CopyStep(u, n, err)
        PROVE  /\ StreamInv'
               /\ \A v \in Users : pc[v] = "writeTo" =>
                    /\ sink'[v] = SubSeq(Source, 1, Len(sink'[v]))
                    /\ pc'[v] = "idle" /\ result'[v] = "EOF" => sink'[v] = Source
    <2>1. /\ TypeOK' /\ CopyInv' /\ UNCHANGED <<resource, worker, output>>
          /\ sink'[u] = SubSeq(Source, 1, Len(sink'[u]))
          /\ pc'[u] = "idle" /\ result'[u] = "EOF" => sink'[u] = Source
      BY <1>8, CopyStepStep
    <2>2. pc[u] = "writeTo"
      BY <1>8 DEF CopyStep
    <2>3. \A v \in Users : pc[v] = "writeTo" => v = u
      BY <1>0, <2>2
    <2> QED
      BY <1>2, <1>3, <2>1, <2>3 DEF StreamInv
  <1>9. CASE Close(u) \/ \E o \in Offsets, whence \in Whences : Seek(u, o, whence)
    <2>1. TypeOK' /\ CopyInv' /\ PositionInv' /\ ReleasedOnce'
          /\ UNCHANGED <<resource, worker, pc, sink>>
      BY <1>9, SeekOrCloseStep
    <2>2. lock = NoUser
      BY <1>9 DEF Close, Seek
    <2>3. \A v \in Users : pc[v] # "writeTo"
      BY <1>0, <2>2, UsersAssumption
    <2> QED
      BY <1>2, <2>1, <2>3 DEF StreamInv
  <1> QED
    BY <1>4, <1>5, <1>6, <1>7, <1>8, <1>9 DEF Use, FinishCall

\* A step of the worker leaves the users' variables as they are.
LEMMA WorkerSteps ==
    ASSUME StreamInv, CloseEarly \/ WorkerStep
    PROVE  StreamInv' /\ UNCHANGED <<pc, sink>>
  <1>1. /\ data' \in Seq(1..Size) /\ data \in Seq(1..Size)
        /\ ended' \in BOOLEAN /\ inputClosed' \in BOOLEAN
        /\ forwarded' \in {"nil", "failed", "closed"}
        /\ input' \in {"idle", "reading", "closing", "done"}
        /\ taken' \in 0..Size
        /\ readErr' \in Results
        /\ Len(data) <= Len(data')
        /\ InputInv'
        /\ UNCHANGED <<output, lock, user>>
    BY WorkerInput DEF StreamInv
  <1>2. UNCHANGED <<pos, closed, base, consumed, released, lock, pc, off, sink, result>>
    BY <1>1 DEF output, user
  <1>3. TypeOK'
    BY <1>1, <1>2 DEF StreamInv, TypeOK
  <1>4. PositionInv' /\ ReleasedOnce'
    BY <1>2 DEF StreamInv, PositionInv, ReadsInOrder, ReleasedOnce
  <1>5. CopyInv'
    <2>1. Len(data) \in Nat /\ Len(data') \in Nat
      BY <1>1
    <2>2. ASSUME NEW v \in Users, pc[v] = "writeTo"
          PROVE  off[v] \in 0..Len(data') /\ sink[v] = SubSeq(Source, 1, off[v])
      <3>1. off[v] \in 0..Len(data) /\ sink[v] = SubSeq(Source, 1, off[v])
        BY <2>2 DEF StreamInv, CopyInv
      <3> QED
        BY <1>1, <2>1, <3>1
    <2> QED
      BY <1>2, <2>2 DEF StreamInv, CopyInv
  <1> QED
    BY <1>1, <1>2, <1>3, <1>4, <1>5 DEF StreamInv

\* A step of nobody keeps the invariant.
LEMMA StreamStutter ==
    ASSUME StreamInv, UNCHANGED vars
    PROVE  StreamInv' /\ UNCHANGED <<pc, sink>>
  BY DEF vars, resource, worker, output, user, StreamInv, TypeOK, InputInv,
     EndedIsWhole, PositionInv, ReadsInOrder, CopyInv, ReleasedOnce

\* Every step of the writer, the worker and the users keeps the invariant.
LEMMA StreamNext == StreamInv /\ [Next]_vars => StreamInv'
  BY UserStep, WorkerSteps, StreamStutter DEF Next

\* The content is a beginning of the source, positions stay inside what was
\* read, every copy is a piece of the content, and references are dropped once.
THEOREM StreamInvHolds == Spec => []StreamInv
  BY StreamInit, StreamNext, PTL DEF Spec

\* Every variable has its type, and the lock of the output is held exactly
\* by the user inside a call.
THEOREM TypeOKHolds == Spec => []TypeOK
  <1>1. StreamInv => TypeOK
    BY DEF StreamInv
  <1> QED
    BY <1>1, StreamInvHolds, PTL

\* A stream ends without an error only when it holds the whole source,
\* whatever the source's Reads return and whoever closes the input when.
THEOREM EndedIsWholeHolds == Spec => []EndedIsWhole
  <1>1. StreamInv => EndedIsWhole
    BY DEF StreamInv, InputInv
  <1> QED
    BY <1>1, StreamInvHolds, PTL

\* What Read has returned since the last Seek is the source from there on,
\* for any users and any interleaving of their calls.
THEOREM ReadsInOrderHolds == Spec => []ReadsInOrder
  <1>1. StreamInv => ReadsInOrder
    BY DEF StreamInv, PositionInv
  <1> QED
    BY <1>1, StreamInvHolds, PTL

\* The reader is given back once, by the first Close.
THEOREM ReleasedOnceHolds == Spec => []ReleasedOnce
  <1>1. StreamInv => ReleasedOnce
    BY DEF StreamInv
  <1> QED
    BY <1>1, StreamInvHolds, PTL

\* A WriteTo writes a prefix of the source, whatever its writer takes, and
\* the whole of it when it returns io.EOF.
THEOREM CopyIsFaithfulHolds == Spec => CopyIsFaithful
  <1>1. ASSUME StreamInv, [Next]_vars
        PROVE  [\A u \in Users : pc[u] = "writeTo" =>
                  /\ sink'[u] = SubSeq(Source, 1, Len(sink'[u]))
                  /\ pc'[u] = "idle" /\ result'[u] = "EOF" => sink'[u] = Source]_vars
    <2>1. CASE \E u \in Users : Use(u) \/ FinishCall(u)
      BY <1>1, <2>1, UserStep
    <2>2. CASE CloseEarly \/ WorkerStep
      <3>1. UNCHANGED <<pc, sink>>
        BY <1>1, <2>2, WorkerSteps
      <3>2. ASSUME NEW u \in Users, pc[u] = "writeTo"
            PROVE  sink[u] = SubSeq(Source, 1, Len(sink[u]))
        <4>1. /\ data \in Seq(1..Size) /\ taken \in 0..Size /\ Len(data) <= taken
              /\ off[u] \in 0..Len(data) /\ sink[u] = SubSeq(Source, 1, off[u])
          BY <1>1, <3>2 DEF StreamInv, TypeOK, InputInv, CopyInv
        <4>2. PICK k \in 0..Size : k = off[u]
          <5>1. Len(data) \in Nat
            BY <4>1
          <5> QED
            BY <4>1, <5>1, SizesAssumption
        <4>3. k \in k..Size
          BY SizesAssumption
        <4>4. Len(SubSeq(Source, 1, k)) = k
          BY <4>3, Prefixes
        <4> QED
          BY <4>1, <4>2, <4>4
      <3> QED
        BY <3>1, <3>2
    <2>3. CASE UNCHANGED vars
      BY <2>3
    <2> QED
      BY <1>1, <2>1, <2>2, <2>3 DEF Next
  <1> QED
    BY <1>1, StreamInvHolds, PTL DEF Spec, CopyIsFaithful

=============================================================================
