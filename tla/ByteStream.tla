----------------------------- MODULE ByteStream -----------------------------
(***************************************************************************)
(* What the hub promises about a stream (hub/interface.go, and the tests   *)
(* of the storage), with no topics, counts, locks and disposer:            *)
(*                                                                         *)
(*  - one writer appends to it and ends it once, with nil or an error;     *)
(*  - whoever reads it gets a growing prefix of what was written, io.EOF   *)
(*    only after all of it and an error only if the writer ended it so;    *)
(*  - it vanishes after it has ended and its last reader has left.  Only a *)
(*    reader that comes after that can find it unknown;                    *)
(*  - a stream that vanished may be created again, and starts empty; who   *)
(*    reads has come in this life of it, or has given up.                  *)
(*                                                                         *)
(* DataHub refines this module for one life of each stream, and for any    *)
(* number of lives if nobody attaches to a stream its holders have left.   *)
(***************************************************************************)
EXTENDS Naturals, Sequences

CONSTANTS Readers, Streams, NoStream, Chunks

VARIABLES
    data,      \* what was written to each stream
    ended,     \* how its writer ended it: "no", "nil" or "failed"
    life,      \* "absent", "here", "released" or "gone"
    reading,   \* the stream of each reader, or NoStream
    got,       \* what it has read
    outcome    \* how its reading ended; "no" while it has not

vars == <<data, ended, life, reading, got, outcome>>

Init ==
    /\ data = [s \in Streams |-> <<>>]
    /\ ended = [s \in Streams |-> "no"]
    /\ life = [s \in Streams |-> "absent"]
    /\ reading = [c \in Readers |-> NoStream]
    /\ got = [c \in Readers |-> <<>>]
    /\ outcome = [c \in Readers |-> "no"]

There(s) == life[s] \in {"here", "released"}

Create(s) ==
    /\ life[s] \in {"absent", "gone"}
    /\ \A c \in Readers : reading[c] # s
    /\ life' = [life EXCEPT ![s] = "here"]
    /\ UNCHANGED <<data, ended, reading, got, outcome>>

Write(s, chunk) ==
    /\ There(s)
    /\ ended[s] = "no"
    /\ data' = [data EXCEPT ![s] = Append(@, chunk)]
    /\ UNCHANGED <<ended, life, reading, got, outcome>>

End(s, e) ==
    /\ There(s)
    /\ ended[s] = "no"
    /\ ended' = [ended EXCEPT ![s] = e]
    /\ UNCHANGED <<data, life, reading, got, outcome>>

\* A reader comes, perhaps after the last one has left.
Join(c, s) ==
    /\ There(s)
    /\ reading[c] = NoStream
    /\ reading' = [reading EXCEPT ![c] = s]
    /\ UNCHANGED <<data, ended, life, got, outcome>>

Read(c) ==
    LET s == reading[c] IN
    /\ s # NoStream
    /\ outcome[c] = "no"
    /\ There(s)
    /\ Len(got[c]) < Len(data[s])
    /\ got' = [got EXCEPT ![c] = SubSeq(data[s], 1, Len(@) + 1)]
    /\ UNCHANGED <<data, ended, life, reading, outcome>>

\* The outcomes that a reader may be told.
Outcomes(c) ==
    LET s == reading[c] IN
    CASE life[s] = "gone"                        -> {"unknown"}
      [] ended[s] = "failed"                     -> {"failed"}
      [] ended[s] = "nil" /\ got[c] = data[s]    -> {"EOF"}
      [] OTHER                                   -> {}

\* Readers that wait hear of an error together.
Finish(cs, e) ==
    /\ cs # {}
    /\ \A c \in cs :
         reading[c] # NoStream /\ outcome[c] = "no" /\ e \in Outcomes(c)
    /\ outcome' = [c \in Readers |-> IF c \in cs THEN e ELSE outcome[c]]
    /\ UNCHANGED <<data, ended, life, reading, got>>

Leave(c) ==
    /\ reading[c] # NoStream
    /\ reading' = [reading EXCEPT ![c] = NoStream]
    /\ got' = [got EXCEPT ![c] = <<>>]
    /\ outcome' = [outcome EXCEPT ![c] = "no"]
    /\ UNCHANGED <<data, ended, life>>

\* The last one has left.
Release(s) ==
    /\ life[s] = "here"
    /\ ended[s] # "no"
    /\ \A c \in Readers : reading[c] # s
    /\ life' = [life EXCEPT ![s] = "released"]
    /\ UNCHANGED <<data, ended, reading, got, outcome>>

Vanish(s) ==
    /\ life[s] = "released"
    /\ life' = [life EXCEPT ![s] = "gone"]
    /\ data' = [data EXCEPT ![s] = <<>>]
    /\ ended' = [ended EXCEPT ![s] = "no"]
    /\ UNCHANGED <<reading, got, outcome>>

Next ==
    \/ \E s \in Streams :
         \/ Create(s) \/ Release(s) \/ Vanish(s)
         \/ \E chunk \in Chunks : Write(s, chunk)
         \/ \E e \in {"nil", "failed"} : End(s, e)
         \/ \E c \in Readers : Join(c, s)
    \/ \E c \in Readers : Read(c) \/ Leave(c)
    \/ \E cs \in SUBSET Readers, e \in {"unknown", "failed", "EOF"} : Finish(cs, e)

Spec == Init /\ [][Next]_vars

\* A stream that everybody has left vanishes in the end.
Vanishes == \A s \in Streams : life[s] = "released" ~> life[s] = "gone"

=============================================================================
