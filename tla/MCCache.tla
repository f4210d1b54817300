------------------------------ MODULE MCCache ------------------------------
(* Constants of the cache's runs: two images of one source and one of      *)
(* another, or a single image.                                             *)
EXTENDS Cache, TLC

CONSTANTS i1, i2, i3, s1, s2

AllImages  == (i1 :> s1) @@ (i2 :> s1) @@ (i3 :> s2)
TwoImages  == (i1 :> s1) @@ (i2 :> s1)
OneImage   == i1 :> s1
NoFaults   == {}
AllFaults  == Calls \X Failures

SameSource == Permutations({i1, i2})

\* What the steps of an invalidation and the properties of its run depend on:
\* not the image of a process that takes another one before it uses it, the
\* URLs and entries that a failed invalidation leaves, what one that is not
\* alone has done, or what only SaveIsWhole reads.
Working   == {p \in Procs : pc[p] \notin {"idle", "list", "entries", "record"}}
Deleting  == {v \in Invalidators : pc[v] # "record"}
Reporting == {v \in Invalidators : alone[v]}
UsedVars ==
    <<stores, epoch, up, pc, [p \in Working |-> image[p]], version, held, cancelled,
      [v \in Deleting |-> <<urls[v], todo[v]>>],
      [v \in Reporting |-> <<done[v], since[v]>>], fresh>>
=============================================================================
