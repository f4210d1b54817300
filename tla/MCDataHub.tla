----------------------------- MODULE MCDataHub -----------------------------
(* Instances of DataHub for TLC. *)
EXTENDS DataHub, TLC

ClientsOfCallers == Callers \X Ends
ClientsWithoutSaves == Callers \X {"in", "out"}

CallerSymmetry == Permutations(Callers)
=============================================================================
