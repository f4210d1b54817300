------------------------- MODULE MCNotificationHub -------------------------
(* Instances of NotificationHub for TLC. *)
EXTENDS NotificationHub, TLC

Symmetry == Permutations(Procs) \cup Permutations(Channels)
=============================================================================
