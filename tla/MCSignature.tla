---------------------------- MODULE MCSignature ----------------------------
(* Requests with two keys.  Values with one character repeated, so that    *)
(* lists of values with the same characters are told apart, and one that   *)
(* is a separator.                                                         *)
EXTENDS Signature

OneEndpoint == {<<"/crop">>}
TwoKeys     == <<<<"a">>, <<"url">>>>
SomeValues  == {<<"1">>, <<"1", "1">>, <<",">>}
=============================================================================
