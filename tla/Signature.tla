----------------------------- MODULE Signature -----------------------------
(***************************************************************************)
(* pkg/processor/imaginary: the signature of a request, which names its    *)
(* stream in the hub and its image in the cache, and the request that is   *)
(* made to Imaginary for it.  Two requests with one signature are the same *)
(* request to the rest of the program.                                     *)
(*                                                                         *)
(* A string is a sequence of characters.  The query of a request is the    *)
(* list of its parameters; net/url makes a map of it.  Go ranges over a    *)
(* map in any order, which is part of the request here.                    *)
(***************************************************************************)
EXTENDS Naturals, Sequences, SequencesExt

CONSTANTS
    Endpoints,  \* supportedImaginaryEndpoints
    KeyOrder,   \* the keys of query parameters as sort.Strings orders them
    Values,     \* values of query parameters
    MaxParams   \* bound: parameters of a request

ASSUME UrlAssumption   == <<"url">> \in ToSet(KeyOrder) /\ IsInjective(KeyOrder)
ASSUME BoundAssumption == MaxParams \in Nat \ {0}

VARIABLE handled  \* the requests that are being handled, two at most

Keys == ToSet(KeyOrder)

Queries == SeqOf(Keys \X Values, MaxParams)

\* url.URL.Query: the values of each key, in the order of the query.
Params(r) ==
    LET values(k) == SelectSeq(r.query, LAMBDA p : p[1] = k) IN
    [k \in {p[1] : p \in ToSet(r.query)} |->
        [n \in DOMAIN values(k) |-> values(k)[n][2]]]

\* What ParseRequest accepts: a supported endpoint and a parameter "url";
\* and the order in which a range over the map finds its keys.
Requests ==
    {r \in [path: Endpoints, query: Queries, order: UNION {SetToSeqs(K) : K \in SUBSET Keys}] :
        <<"url">> \in DOMAIN Params(r) /\ ToSet(r.order) = DOMAIN Params(r)}

\* url.Values.Get: the first value.
SourceImageURL(r) == Head(Params(r)[<<"url">>])

\* The keys as the map yields them.
getSortedMapKeysMutant(r) == r.order

getSortedMapKeys(r) == SelectSeq(KeyOrder, LAMBDA k : k \in ToSet(r.order))

\* Where strings.TrimRight(s, ",") ends.
TrimmedLength(s) ==
    CHOOSE n \in 0..Len(s) :
        /\ n > 0 => s[n] # ","
        /\ \A m \in (n + 1)..Len(s) : s[m] = ","

TrimRight(s) == SubSeq(s, 1, TrimmedLength(s))

\* The values of one key, without what separates them.
JoinValuesMutant(values) == FlattenSeq(values)

\* The values of one key, each followed by a comma, the last commas trimmed.
JoinValues(values) ==
    TrimRight(FoldLeft(LAMBDA joined, v : joined \o v \o <<",">>, <<>>, values))

generateSignature(r) ==
    FoldLeft(LAMBDA signature, k :
                 signature \o k \o <<"=">> \o JoinValues(Params(r)[k]) \o <<"|">>,
             <<"|">> \o r.path \o <<"|">> \o SourceImageURL(r) \o <<"|">>,
             getSortedMapKeys(r))

\* What Imaginary is asked for: every value of every key, sorted by the keys
\* (url.Values.Encode).
buildRequest(r) ==
    LET sorted == SelectSeq(KeyOrder, LAMBDA k : k \in ToSet(r.order)) IN
    [path  |-> r.path,
     query |-> [n \in DOMAIN sorted |-> <<sorted[n], Params(r)[sorted[n]]>>]]

Init == handled = <<>>

ParseRequest(r) ==
    /\ Len(handled) < 2
    /\ handled' = Append(handled, r)

\* The first of two is answered.
Return ==
    /\ Len(handled) = 2
    /\ handled' = Tail(handled)

Next == Return \/ \E r \in Requests : ParseRequest(r)

Spec == Init /\ [][Next]_handled

----------------------------------------------------------------------------
Separators == {",", "|", "="}

Plain(s) == s # <<>> /\ ToSet(s) \cap Separators = {}

AllPlain(r) == \A p \in ToSet(r.query) : Plain(p[2])

Handled == ToSet(handled)

(***************************************************************************)
(* Two requests that share a stream and a cache entry ask Imaginary for    *)
(* the same image, whatever the order of their parameters, unless a value  *)
(* is empty or contains a separator (generateSignature, buildRequest).     *)
(***************************************************************************)
PlainAreDistinct ==
    \A r, q \in Handled :
        /\ AllPlain(r) /\ AllPlain(q)
        /\ generateSignature(r) = generateSignature(q)
        => buildRequest(r) = buildRequest(q)

(***************************************************************************)
(* Requests that differ in the order of their keys only have one           *)
(* signature, also for Go's random order of a map: an image is processed   *)
(* and cached once (processor_test.go, "Should generate correct unique     *)
(* checksum of request").                                                  *)
(***************************************************************************)
OrderIsIgnored ==
    \A r, q \in Handled :
        r.path = q.path /\ Params(r) = Params(q)
        => generateSignature(r) = generateSignature(q)
=============================================================================
