---------------------------- MODULE MCDataStream ----------------------------
(* Offsets of Seek and ReadAt, one of them negative.                       *)
EXTENDS DataStream

Both == {-1, 1}
=============================================================================
