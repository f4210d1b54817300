------------------------------ MODULE MCProxy ------------------------------
(* Constants of the proxy's run: everything may fail.                      *)
EXTENDS Proxy

AllFaults == FaultKinds
=============================================================================
