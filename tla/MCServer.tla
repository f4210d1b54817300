------------------------------ MODULE MCServer ------------------------------
(* Instances of Server for TLC. *)
EXTENDS Server

CONSTANTS u1, u2

TwoCommits == <<{u1}, {u2}>>
=============================================================================
