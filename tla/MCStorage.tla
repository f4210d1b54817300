----------------------------- MODULE MCStorage -----------------------------
(* Instances of Storage for TLC. *)
EXTENDS Storage, TLC

ClientSymmetry == Permutations(Clients)

=============================================================================
