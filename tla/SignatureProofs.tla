-------------------------- MODULE SignatureProofs --------------------------
(***************************************************************************)
(* A proof about Signature, for any endpoints, keys, values and numbers of *)
(* parameters.  What a signature tells apart is left to the model checker: *)
(* it takes an induction over the parameters.                              *)
(***************************************************************************)
EXTENDS Signature, SequenceTheorems, TLAPS

\* The keys of a set, as sort.Strings orders them.
SortedKeys(K) == SelectSeq(KeyOrder, LAMBDA k : k \in K)

\* The signature, as a function of the path and of the map of parameters.
SignatureOf(path, params) ==
    FoldLeft(LAMBDA signature, k :
                 signature \o k \o <<"=">> \o JoinValues(params[k]) \o <<"|">>,
             <<"|">> \o path \o <<"|">> \o Head(params[<<"url">>]) \o <<"|">>,
             SortedKeys(DOMAIN params))

\* The keys of a map come out sorted in whatever order Go ranges over them:
\* they are a function of their set.
LEMMA KeysAreSorted == \A r : getSortedMapKeys(r) = SortedKeys(ToSet(r.order))
  BY DEF getSortedMapKeys, SortedKeys

\* The signature of a request depends on its path and parameters only.
LEMMA SignatureIsOfParams ==
    ASSUME NEW r \in Requests
    PROVE  generateSignature(r) = SignatureOf(r.path, Params(r))
  <1>1. ToSet(r.order) = DOMAIN Params(r)
    BY DEF Requests
  <1>2. getSortedMapKeys(r) = SortedKeys(DOMAIN Params(r))
    BY <1>1, KeysAreSorted
  <1> QED
    BY <1>2 DEF generateSignature, SignatureOf, SourceImageURL

\* What ParseRequest refuses is not handled.
RequestsInv == handled \in Seq(Requests)

\* Only requests that ParseRequest accepts are handled, one after the other.
LEMMA HandledAreRequests == Spec => []RequestsInv
  <1>1. Init => RequestsInv
    BY DEF Init, RequestsInv
  <1>2. ASSUME RequestsInv, [Next]_handled PROVE RequestsInv'
    BY <1>2 DEF RequestsInv, Next, ParseRequest, Return
  <1> QED
    BY <1>1, <1>2, PTL DEF Spec

(***************************************************************************)
(* Requests with the same parameters have one signature, in whatever order *)
(* a user writes their keys or Go yields them: an image is processed and   *)
(* cached once (getSortedMapKeys, generateSignature).                      *)
(***************************************************************************)
THEOREM OrderIsIgnoredHolds == Spec => []OrderIsIgnored
  <1>1. RequestsInv => OrderIsIgnored
    BY SignatureIsOfParams DEF RequestsInv, OrderIsIgnored, Handled, ToSet
  <1> QED
    BY <1>1, HandledAreRequests, PTL
=============================================================================
