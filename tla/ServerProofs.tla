---------------------------- MODULE ServerProofs ----------------------------
(***************************************************************************)
(* Theorems about Server, for any clients, URLs, history of commits and    *)
(* faults: types, that only a process that is ready serves, that the       *)
(* commits of records are bases to start from, and what an answer 200      *)
(* means.                                                                  *)
(***************************************************************************)
EXTENDS Server, TLAPS

\* No image of u from before commit k is left, or is yet to be saved, but for
\* one about to be deleted or missed.
Kept(u, k) ==
    /\ Gone(u, k)
    /\ saving[u] # None /\ saving[u] < k => u \in missed

Settled(u, k) == Kept(u, k) \/ Reported(u, k)

\* Everything that changed up to commit k, the URLs us aside, is settled.
Base(k, us) == \A j \in 1..k : \A u \in History[j] \ us : Settled(u, j)

\* Heard of or sent as latestCommitHash, a commit is a base but for the URLs
\* that the call has been given.
FromBase(c) ==
    /\ pc[c] = "changes" => Base(base[c], {})
    /\ pc[c] \in InCall => Base(target[c], urls[c])

\* What a call has done is gone up to its commit, and a call that goes on to
\* its record without an error has done everything.
DoneIsKept(c) ==
    /\ \A k \in 1..target[c] : \A u \in done[c] \cap History[k] : Kept(u, k)
    /\ pc[c] \notin InCall => done[c] = {}
    /\ pc[c] \in InCall => target[c] # 0
    /\ pc[c] = "record" => failed[c] \/ done[c] = urls[c]

\* A call deletes one entry at a time, of a URL that it was given.
OneEntry(c) ==
    /\ \A u, v \in entry[c] : u = v
    /\ entry[c] \subseteq urls[c]
    /\ pc[c] \notin {"document", "object"} => entry[c] = {}

CallInv(c) == FromBase(c) /\ DoneIsKept(c) /\ OneEntry(c)

\* Of the image of u: an object is not saved twice; one without a document is
\* about to be deleted or was missed, and so will be the object of a save
\* that lost its document; the site shows the last change.
Stored(u) ==
    /\ objects[u] # None => saving[u] = None
    /\ objects[u] # None /\ u \notin documents => InHand(u) \/ u \in missed
    /\ u \in inserted => saving[u] # None
    /\ u \in inserted /\ u \notin documents => u \in missed
    /\ \A k \in 1..published : u \in History[k] => shown[u] >= k

CacheInv == \A u \in URLs : Stored(u)

RecordInv ==
    /\ InvalidationsTypeOK
    /\ CacheInv
    /\ \A r \in records : Base(r.commit, {})
    /\ \A c \in Clients : CallInv(c)

\* A step of the server, as the invalidations see it.
Invalidating ==
    \/ \E c \in Clients : Request(c) \/ ServeCall(c) \/ FailCall(c) \/ Expire(c)
    \/ \E u \in URLs : Fill(u)
    \/ DropCalls
    \/ Publish
    \/ UNCHANGED invalidationVars

\* A step of the server is one of the invalidations, or none of theirs.
LEMMA NextInvalidates == [Next]_vars => Invalidating
  <1> SUFFICES ASSUME [Next]_vars PROVE Invalidating
    OBVIOUS
  <1>1. CASE UNCHANGED vars
    BY <1>1 DEF vars, Invalidating
  <1>2. CASE StartStep(Start) \/ StartStep(Configure) \/ StartStep(Initializing)
    BY <1>2 DEF StartStep, Invalidating
  <1>3. ASSUME NEW c \in Clients, ClientStep(c) \/ ServerStep(c) \/ FailStep(c)
        PROVE  Invalidating
    BY <1>3 DEF ClientStep, ServerStep, FailStep, Invalidating
  <1>4. ASSUME NEW u \in Asked, SaveStep(u) PROVE Invalidating
    BY <1>4, AskedAssumption DEF SaveStep, Invalidating
  <1>5. CASE Crash
    BY <1>5 DEF Crash, Invalidating
  <1>6. CASE Publish
    BY <1>6 DEF Invalidating
  <1>7. QED
    BY <1>1, <1>2, <1>3, <1>4, <1>5, <1>6 DEF Next

\* Nothing is stored, recorded or published at first.
LEMMA RecordInit == Init => RecordInv
  <1> SUFFICES ASSUME InvalidationsInit PROVE RecordInv
    BY DEF Init
  <1>1. InvalidationsTypeOK
    BY HistoryAssumption DEF InvalidationsInit, InvalidationsTypeOK, Labels, Record, None
  <1>2. CacheInv
    BY DEF InvalidationsInit, CacheInv, Stored, None
  <1>3. \A r \in records : Base(r.commit, {})
    BY DEF InvalidationsInit
  <1>4. ASSUME NEW c \in Clients PROVE CallInv(c)
    BY DEF InvalidationsInit, CallInv, FromBase, DoneIsKept, OneEntry, InCall
  <1>5. QED
    BY <1>1, <1>2, <1>3, <1>4 DEF RecordInv

----------------------------------------------------------------------------
\* The commits of the history change URLs.
LEMMA HistoryURLs ==
    ASSUME NEW k \in 1..Len(History) PROVE k \in Nat /\ History[k] \subseteq URLs
  BY HistoryAssumption

\* What is kept of commits that the site has shown remains so, and records
\* are only added.
Steady ==
    /\ \A k \in 1..published : \A u \in History[k] : Kept(u, k) => Kept(u, k)'
    /\ records \subseteq records'

\* And so a base remains a base.
LEMMA BaseStays ==
    ASSUME RecordInv, Steady, NEW k \in 0..published, NEW us, Base(k, us)
    PROVE  Base(k, us)'
  <1> SUFFICES ASSUME NEW j \in 1..k, NEW u \in History[j] \ us PROVE Settled(u, j)'
    BY DEF Base
  <1>1. j \in 1..published /\ published \in Nat
    BY HistoryAssumption DEF RecordInv, InvalidationsTypeOK
  <1>2. CASE Kept(u, j)
    BY <1>1, <1>2 DEF Steady, Settled
  <1>3. CASE Reported(u, j)
    BY <1>3 DEF Steady, Settled, Reported
  <1>4. QED
    BY <1>2, <1>3 DEF Base, Settled

\* The commit of a record is one, and it is a base to start from.
LEMMA RecordIsBase ==
    ASSUME RecordInv, NEW r \in records
    PROVE  r.commit \in 0..published /\ Base(r.commit, {})
  <1>1. r.commit \in 1..published /\ published \in Nat
    BY HistoryAssumption DEF RecordInv, InvalidationsTypeOK
  <1>2. QED
    BY <1>1 DEF RecordInv

\* The records as they are remain bases.
LEMMA RecordsStay ==
    ASSUME RecordInv, Steady, NEW r \in records PROVE Base(r.commit, {})'
  <1>1. \A k \in 0..published : Base(k, {}) => Base(k, {})'
    BY BaseStays
  <1>2. QED
    BY <1>1, RecordIsBase DEF Base

\* Steps that leave the call of a client alone.
SameCall(c) ==
    /\ base'[c] = base[c] /\ target'[c] = target[c] /\ urls'[c] = urls[c]
    /\ done'[c] = done[c] /\ failed'[c] = failed[c] /\ pc'[c] = pc[c]
    /\ entry'[c] = entry[c]

\* Steps that leave the commits and the URLs of a client's call as they are,
\* within the call, keep what it started from.
LEMMA FromBaseStays ==
    ASSUME RecordInv, Steady, NEW c \in Clients,
           base'[c] = base[c], target'[c] = target[c], urls'[c] = urls[c],
           pc'[c] = "changes" => pc[c] = "changes", pc'[c] \in InCall => pc[c] \in InCall
    PROVE  FromBase(c)'
  <1>1. base[c] \in 0..published /\ target[c] \in 0..published
    BY DEF RecordInv, InvalidationsTypeOK
  <1>2. \A k \in 0..published : \A us : Base(k, us) => Base(k, us)'
    BY BaseStays
  <1>3. /\ pc[c] = "changes" => Base(base[c], {})
        /\ pc[c] \in InCall => Base(target[c], urls[c])
    BY DEF RecordInv, CallInv, FromBase
  <1>4. /\ pc[c] = "changes" => Base(base[c], {})'
        /\ pc[c] \in InCall => Base(target[c], urls[c])'
    BY <1>1, <1>2, <1>3 DEF Base
  <1>5. QED
    BY <1>4 DEF FromBase, InCall

\* What a call has done remains gone.
LEMMA DoneStays ==
    ASSUME RecordInv, Steady, NEW c \in Clients
    PROVE  \A k \in 1..target[c] : \A u \in done[c] \cap History[k] : Kept(u, k)'
  <1>1. target[c] \in 0..published /\ published \in Nat
    BY HistoryAssumption DEF RecordInv, InvalidationsTypeOK
  <1>2. \A k \in 1..target[c] : \A u \in done[c] \cap History[k] : Kept(u, k)
    BY DEF RecordInv, CallInv, DoneIsKept
  <1>3. QED
    BY <1>1, <1>2 DEF Steady

\* What holds of the call of a client continues to, while others go on.
LEMMA OtherCalls ==
    ASSUME RecordInv, Steady, NEW d \in Clients, SameCall(d)
    PROVE  CallInv(d)'
  <1>1. FromBase(d)'
    BY FromBaseStays DEF SameCall
  <1>2. DoneIsKept(d)'
    BY DoneStays DEF RecordInv, CallInv, DoneIsKept, SameCall, InCall
  <1>3. OneEntry(d)'
    BY DEF RecordInv, CallInv, OneEntry, SameCall
  <1>4. QED
    BY <1>1, <1>2, <1>3 DEF CallInv

\* A step of one client that records nothing keeps the invariant, if it
\* keeps the types, the cache and what holds of that client's call.
LEMMA OneCall ==
    ASSUME RecordInv, Steady, CacheInv', UNCHANGED records, NEW c \in Clients,
           InvalidationsTypeOK', CallInv(c)', \A d \in Clients \ {c} : SameCall(d)
    PROVE  RecordInv'
  <1>1. \A r \in records' : Base(r.commit, {})'
    BY RecordsStay
  <1>2. \A d \in Clients : CallInv(d)'
    BY OtherCalls
  <1>3. QED
    BY <1>1, <1>2 DEF RecordInv

----------------------------------------------------------------------------
\* What a call that is not about to delete an object does leaves those that
\* are about to.
LEMMA HandsStay ==
    ASSUME NEW c \in Clients, pc[c] # "object", \A d \in Clients \ {c} : SameCall(d)
    PROVE  \A u : InHand(u) => InHand(u)'
  BY DEF InHand, At, SameCall

\* Steps that leave the stores and the saves alone.
LEMMA CacheStays ==
    ASSUME RecordInv, UNCHANGED <<site, cache>>, records \subseteq records',
           \A u : InHand(u) => InHand(u)'
    PROVE  Steady /\ CacheInv'
  <1> USE DEF site, cache, saves
  <1>1. Steady
    BY DEF Steady, Kept, Gone, Older
  <1>2. CacheInv'
    BY DEF RecordInv, CacheInv, Stored
  <1>3. QED
    BY <1>1, <1>2

\* Steps of turns that may miss an image and delete no object.
LEMMA MissingStays ==
    ASSUME RecordInv, UNCHANGED <<site, objects, saves, records>>, NEW us, Miss(us),
           \A u : InHand(u) => InHand(u)'
    PROVE  Steady
  <1> SUFFICES ASSUME NEW k \in 1..published, NEW u \in History[k], Kept(u, k)
               PROVE  Kept(u, k)'
    BY DEF Steady
  <1>1. u \in URLs /\ published \in Nat
    BY HistoryURLs, HistoryAssumption DEF RecordInv, InvalidationsTypeOK
  <1>2. u \in missed /\ (objects[u] # None \/ saving[u] # None) => u \in missed'
    BY <1>1 DEF Miss, saves
  <1>3. QED
    BY <1>1, <1>2 DEF Kept, Gone, Older, saves

----------------------------------------------------------------------------
\* A step of a save is none of a call.
SavesOnly == UNCHANGED <<site, records, now, pc, call>>

\* A save that keeps the types and the cache keeps the invariant.
LEMMA SaveKeeps ==
    ASSUME RecordInv, SavesOnly, InvalidationsTypeOK', CacheInv', Steady
    PROVE  RecordInv'
  <1>1. \A r \in records' : Base(r.commit, {})'
    BY RecordsStay DEF SavesOnly
  <1>2. \A d \in Clients : CallInv(d)'
    BY OtherCalls DEF SavesOnly, SameCall, call
  <1>3. QED
    BY <1>1, <1>2 DEF RecordInv

\* While an image is rendered nothing older of it can come: it is as the site
\* shows it.
LEMMA RenderKeeps ==
    ASSUME RecordInv, NEW u \in URLs, Render(u) PROVE RecordInv'
  <1> USE DEF RecordInv, InvalidationsTypeOK, Render, site, call
  <1>1. SavesOnly
    BY DEF SavesOnly
  <1>2. InvalidationsTypeOK'
    <2>1. shown[u] \in None..published
      BY HistoryAssumption DEF None
    <2>2. saving' \in [URLs -> None..published']
      BY <2>1
    <2>3. QED
      BY <2>2
  <1>3. CacheInv'
    <2> SUFFICES ASSUME NEW v \in URLs PROVE Stored(v)'
      BY DEF CacheInv
    <2>1. Stored(v)
      BY DEF CacheInv
    <2>2. shown[u] # None
      BY DEF None
    <2>3. InHand(v)' <=> InHand(v)
      BY DEF InHand, At
    <2>4. saving'[v] # saving[v] => v = u
      OBVIOUS
    <2>5. QED
      BY <2>1, <2>2, <2>3, <2>4 DEF Stored
  <1>4. Steady
    <2> SUFFICES ASSUME NEW k \in 1..published, NEW v \in History[k], Kept(v, k)
                 PROVE  Kept(v, k)'
      BY DEF Steady
    <2>1. v \in URLs /\ published \in Nat
      BY HistoryURLs, HistoryAssumption
    <2>2. shown[v] >= k /\ shown[v] \in Nat
      BY <2>1, HistoryAssumption DEF CacheInv, Stored
    <2>3. Gone(v, k)'
      BY DEF Kept, Gone, Older, InHand, At
    <2>4. CASE v = u
      <3>1. saving'[v] = shown[v]
        BY <2>1, <2>4
      <3>2. QED
        BY <2>2, <2>3, <3>1 DEF Kept
    <2>5. CASE v # u
      BY <2>1, <2>3, <2>5 DEF Kept
    <2>6. QED
      BY <2>4, <2>5
  <1>5. QED
    BY <1>1, <1>2, <1>3, <1>4, SaveKeeps

\* A document is inserted, or the save is over without one.
LEMMA SaveDocumentKeeps ==
    ASSUME RecordInv, NEW u \in URLs, NEW o \in {"ok", "refused"}, SaveDocument(u, o)
    PROVE  RecordInv'
  <1> USE DEF RecordInv, InvalidationsTypeOK, SaveDocument, Saved, site, call
  <1>1. SavesOnly
    BY DEF SavesOnly
  <1>2. /\ UNCHANGED objects
        /\ \A v \in URLs : saving'[v] = saving[v] \/ saving'[v] = None
        /\ \A v \in URLs : v \in missed /\ (objects[v] # None \/ saving'[v] # None)
                              => v \in missed'
    BY DEF Miss
  <1>3. InvalidationsTypeOK'
    <2>1. saving' \in [URLs -> None..published]
      <3>1. UNCHANGED saving \/ saving' = [saving EXCEPT ![u] = None]
        OBVIOUS
      <3>2. None \in None..published
        BY HistoryAssumption DEF None
      <3>3. saving \in [URLs -> None..published]
        OBVIOUS
      <3> HIDE DEF RecordInv, InvalidationsTypeOK, SaveDocument, Saved
      <3>4. QED
        BY <3>1, <3>2, <3>3
    <2>2. documents' \subseteq URLs /\ inserted' \subseteq URLs /\ missed' \subseteq URLs
      BY DEF Miss
    <2>3. QED
      BY <2>1, <2>2
  <1>4. CacheInv'
    <2> SUFFICES ASSUME NEW v \in URLs PROVE Stored(v)'
      BY DEF CacheInv
    <2>1. Stored(v)
      BY DEF CacheInv
    <2>2. InHand(v)' <=> InHand(v)
      BY DEF InHand, At
    <2>3. documents \subseteq documents'
      OBVIOUS
    <2>4. v \in inserted' =>
             /\ saving'[v] = saving[v]
             /\ v \in inserted \/ (v = u /\ v \in documents' /\ saving[v] # None)
      OBVIOUS
    <2>5. QED
      BY <1>2, <2>1, <2>2, <2>3, <2>4 DEF Stored
  <1>5. Steady
    <2> SUFFICES ASSUME NEW k \in 1..published, NEW v \in History[k], Kept(v, k)
                 PROVE  Kept(v, k)'
      BY DEF Steady
    <2>1. v \in URLs
      BY HistoryURLs, HistoryAssumption
    <2>2. InHand(v)' <=> InHand(v)
      BY DEF InHand, At
    <2>3. QED
      BY <1>2, <2>1, <2>2 DEF Kept, Gone, Older
  <1>6. QED
    BY <1>1, <1>3, <1>4, <1>5, SaveKeeps

\* The object is saved, or not; one that no invalidation will find, as its
\* document is gone, was missed.
LEMMA SaveObjectKeeps ==
    ASSUME RecordInv, NEW u \in URLs, NEW left \in Leftovers, SaveObject(u, left)
    PROVE  RecordInv'
  <1> USE DEF RecordInv, InvalidationsTypeOK, SaveObject, Saved, site, call
  <1>1. SavesOnly
    BY DEF SavesOnly
  <1>2. saving[u] # None /\ objects[u] = None /\ saving'[u] = None
    BY DEF CacheInv, Stored
  <1>3. /\ \A v \in URLs \ {u} :
              /\ objects'[v] = objects[v] /\ saving'[v] = saving[v]
              /\ (v \in documents' <=> v \in documents)
              /\ (v \in inserted' <=> v \in inserted)
        /\ u \notin inserted'
        /\ objects'[u] = None \/ (objects'[u] = saving[u] /\ UNCHANGED documents)
    <2>1. u \notin inserted' /\ saving' = [saving EXCEPT ![u] = None]
      OBVIOUS
    <2>2. CASE left = {"document", "object"}
      <3>1. UNCHANGED documents /\ objects' = [objects EXCEPT ![u] = saving[u]]
        BY <2>2
      <3>2. QED
        BY <2>1, <3>1
    <2>3. CASE left = {}
      <3>1. documents' = documents \ {u} /\ UNCHANGED objects
        BY <2>3
      <3>2. QED
        BY <1>2, <2>1, <3>1
    <2>4. CASE left = {"document"}
      <3>1. UNCHANGED <<documents, objects>>
        BY <2>4
      <3>2. QED
        BY <1>2, <2>1, <3>1
    <2>5. QED
      BY <2>2, <2>3, <2>4 DEF Leftovers
  <1>4. \A v \in URLs : v \in missed /\ (objects'[v] # None \/ saving'[v] # None)
                              => v \in missed'
    BY DEF Miss
  <1>5. InvalidationsTypeOK'
    <2>1. saving' \in [URLs -> None..published]
      BY HistoryAssumption DEF None
    <2>2. objects' \in [URLs -> None..published]
      OBVIOUS
    <2>3. documents' \subseteq URLs /\ inserted' \subseteq URLs /\ missed' \subseteq URLs
      BY DEF Miss
    <2>4. QED
      BY <2>1, <2>2, <2>3
  <1>6. CacheInv'
    <2> SUFFICES ASSUME NEW v \in URLs PROVE Stored(v)'
      BY DEF CacheInv
    <2>1. Stored(v)
      BY DEF CacheInv
    <2>2. InHand(v)' <=> InHand(v)
      BY DEF InHand, At
    <2>3. CASE v = u
      BY <1>2, <1>3, <1>4, <2>1, <2>2, <2>3 DEF Stored
    <2>4. CASE v # u
      BY <1>3, <1>4, <2>1, <2>2, <2>4 DEF Stored
    <2>5. QED
      BY <2>3, <2>4
  <1>7. Steady
    <2> SUFFICES ASSUME NEW k \in 1..published, NEW v \in History[k], Kept(v, k)
                 PROVE  Kept(v, k)'
      BY DEF Steady
    <2>1. v \in URLs
      BY HistoryURLs, HistoryAssumption
    <2>2. InHand(v)' <=> InHand(v)
      BY DEF InHand, At
    <2>3. CASE v = u
      BY <1>2, <1>3, <1>4, <2>1, <2>2, <2>3 DEF Kept, Gone, Older
    <2>4. CASE v # u
      BY <1>3, <1>4, <2>1, <2>2, <2>4 DEF Kept, Gone, Older
    <2>5. QED
      BY <2>3, <2>4
  <1>8. QED
    BY <1>1, <1>5, <1>6, <1>7, SaveKeeps

\* Requests that fill the cache keep the invariant.
LEMMA FillKeeps == ASSUME RecordInv, NEW u \in URLs, Fill(u) PROVE RecordInv'
  BY RenderKeeps, SaveDocumentKeeps, SaveObjectKeeps DEF Fill

----------------------------------------------------------------------------
\* An answer that gives a client the commit of a record or none.
LEMMA HearKeeps ==
    ASSUME RecordInv, NEW c \in Clients, NEW b \in 0..published, Base(b, {}), Hear(c, b)
    PROVE  RecordInv'
  <1> USE DEF Hear, Goto
  <1>1. InvalidationsTypeOK'
    BY DEF RecordInv, InvalidationsTypeOK, Labels, site, cache, saves
  <1>2. \A d \in Clients \ {c} : SameCall(d)
    BY DEF SameCall
  <1>3. pc[c] \notin InCall \cup {"object"} /\ pc'[c] = "changes" /\ base'[c] = b
    BY DEF RecordInv, InvalidationsTypeOK, InCall
  <1>4. Steady /\ CacheInv'
    BY <1>2, <1>3, HandsStay, CacheStays
  <1>5. CallInv(c)'
    <2>1. Base(b, {})'
      BY <1>4, BaseStays
    <2>2. FromBase(c)'
      BY <1>3, <2>1 DEF FromBase, InCall, Base
    <2>3. done'[c] = {} /\ entry'[c] = {}
      BY <1>3 DEF RecordInv, CallInv, DoneIsKept, OneEntry, InCall
    <2>4. QED
      BY <1>3, <2>2, <2>3 DEF CallInv, DoneIsKept, OneEntry, InCall
  <1>6. QED
    BY <1>1, <1>2, <1>4, <1>5, OneCall

\* A build sends what changed between two commits.
LEMMA RequestKeeps ==
    ASSUME RecordInv, NEW c \in Clients, NEW t \in 1..published,
           RequestInvalidation(c, t)
    PROVE  RecordInv'
  <1>1. PICK us : us = Changes(base[c], t)
    OBVIOUS
  <1>2. /\ pc[c] = "changes" /\ base' = [base EXCEPT ![c] = 0]
        /\ UNCHANGED <<site, cache, records, now, entry, done, failed, date, expired>>
        /\ \/ /\ pc' = [pc EXCEPT ![c] = "idle"]
              /\ UNCHANGED <<target, urls>>
           \/ /\ pc' = [pc EXCEPT ![c] = "invalidate"]
              /\ target' = [target EXCEPT ![c] = t]
              /\ urls' = [urls EXCEPT ![c] = us]
    BY <1>1 DEF RequestInvalidation, Goto, At
  <1>3. us \subseteq URLs
    <2>1. t \in 1..Len(History) /\ base[c] \in Nat
      BY HistoryAssumption DEF RecordInv, InvalidationsTypeOK
    <2>2. QED
      BY <1>1, <2>1, HistoryURLs, HistoryAssumption DEF Changes
  <1>4. done[c] = {} /\ entry[c] = {}
    BY <1>2 DEF RecordInv, CallInv, DoneIsKept, OneEntry, InCall
  <1>5. t # 0 /\ t \in 0..published
    BY HistoryAssumption DEF RecordInv, InvalidationsTypeOK
  <1>6. InvalidationsTypeOK'
    <2> USE DEF RecordInv, InvalidationsTypeOK, site, cache, saves
    <2>1. pc' \in [Clients -> Labels]
      BY <1>2 DEF Labels, InCall
    <2>2. base' \in [Clients -> 0..published'] /\ target' \in [Clients -> 0..published']
      <3>1. 0 \in 0..published /\ UNCHANGED published
        BY <1>2, HistoryAssumption
      <3>2. base \in [Clients -> 0..published] /\ target \in [Clients -> 0..published]
        OBVIOUS
      <3> HIDE DEF RecordInv, InvalidationsTypeOK, site, cache, saves
      <3>3. base' \in [Clients -> 0..published]
        BY <1>2, <3>1, <3>2
      <3>4. target' \in [Clients -> 0..published]
        BY <1>2, <1>5, <3>2
      <3>5. QED
        BY <3>1, <3>3, <3>4
    <2>3. urls' \in [Clients -> SUBSET URLs]
      BY <1>2, <1>3
    <2>4. \A d \in Clients : done'[d] \subseteq urls'[d]
      BY <1>2, <1>4
    <2>5. QED
      BY <1>2, <2>1, <2>2, <2>3, <2>4
  <1>7. \A d \in Clients \ {c} : SameCall(d)
    BY <1>2 DEF SameCall, RecordInv, InvalidationsTypeOK
  <1>8. Steady /\ CacheInv'
    BY <1>2, <1>7, HandsStay, CacheStays
  <1>9. ASSUME NEW j \in 1..t, NEW u \in History[j] \ us
        PROVE  Settled(u, j)
    <2>1. base[c] \in 0..published /\ published \in Nat
      BY HistoryAssumption DEF RecordInv, InvalidationsTypeOK
    <2>2. j \notin (base[c] + 1)..t
      BY <1>1, <1>9 DEF Changes
    <2>3. j \in 1..base[c]
      BY <2>1, <2>2
    <2>4. Base(base[c], {})
      BY <1>2 DEF RecordInv, CallInv, FromBase
    <2>5. QED
      BY <1>9, <2>3, <2>4 DEF Base
  <1>10. CallInv(c)'
    <2>1. /\ pc'[c] \in {"idle", "invalidate"} /\ done'[c] = {} /\ entry'[c] = {}
          /\ pc'[c] = "invalidate" => target'[c] = t /\ urls'[c] = us
      <3>1. /\ pc \in [Clients -> Labels] /\ target \in [Clients -> 0..published]
            /\ urls \in [Clients -> SUBSET URLs]
        BY DEF RecordInv, InvalidationsTypeOK
      <3>2. QED
        BY <1>2, <1>4, <3>1
    <2>2. Base(t, us)
      BY <1>9 DEF Base
    <2>3. Base(t, us)'
      BY <1>5, <1>8, <2>2, BaseStays
    <2>4. FromBase(c)'
      BY <2>1, <2>3 DEF FromBase, InCall, Base
    <2>5. DoneIsKept(c)' /\ OneEntry(c)'
      BY <1>5, <2>1 DEF DoneIsKept, OneEntry, InCall
    <2>6. QED
      BY <2>4, <2>5 DEF CallInv
  <1>11. QED
    BY <1>2, <1>6, <1>7, <1>8, <1>10, OneCall

----------------------------------------------------------------------------
\* What holds of a call in a turn, after a step of it that keeps what is
\* stored, if it does for the URL that is done and for the entry.
LEMMA TurnStays ==
    ASSUME RecordInv, Steady, NEW c \in Clients, NEW u \in urls[c],
           pc[c] \in InCall \ {"record"}, pc'[c] \in InCall \ {"record"},
           UNCHANGED <<base, target, urls>>,
           done'[c] \subseteq done[c] \cup {u},
           u \in done'[c] \ done[c] => \A k \in 1..target[c] : u \in History[k] => Kept(u, k)',
           entry'[c] \subseteq {u},
           pc'[c] = "invalidate" => entry'[c] = {}
    PROVE  CallInv(c)'
  <1>1. FromBase(c)'
    BY FromBaseStays DEF InCall
  <1>2. DoneIsKept(c)'
    BY DoneStays DEF RecordInv, CallInv, DoneIsKept, InCall
  <1>3. OneEntry(c)'
    BY DEF OneEntry, InCall
  <1>4. QED
    BY <1>1, <1>2, <1>3 DEF CallInv

\* The entries of a URL are listed.  One without a document is done: its
\* object, if there is one, was missed or is about to be deleted.
LEMMA ListKeeps ==
    ASSUME RecordInv, NEW c \in Clients, NEW u \in URLs,
           NEW o \in {"ok", "refused", "lost"}, ListEntries(c, u, o)
    PROVE  RecordInv'
  <1> DEFINE us == IF saving[u] # None THEN {u} ELSE {}
  <1> USE DEF ListEntries, TurnDone, TurnFails, Goto, At
  <1>1. /\ pc[c] = "invalidate" /\ u \in urls[c] /\ Miss(us)
        /\ UNCHANGED <<site, documents, objects, saves, records, base, target, urls>>
    OBVIOUS
  <1>2. pc \in [Clients -> Labels] /\ done \in [Clients -> SUBSET URLs]
         /\ entry \in [Clients -> SUBSET URLs] /\ failed \in [Clients -> BOOLEAN]
    BY DEF RecordInv, InvalidationsTypeOK
  <1>3. \A d \in Clients \ {c} : SameCall(d)
    BY <1>2 DEF SameCall
  <1>4. pc'[c] \in {"invalidate", "document"} /\ entry'[c] \subseteq {u}
         /\ (pc'[c] = "invalidate" => entry'[c] = {})
         /\ done'[c] \subseteq done[c] \cup {u}
    BY <1>2
  <1>5. InvalidationsTypeOK'
    <2>1. pc' \in [Clients -> Labels]
      BY <1>2 DEF Labels, InCall
    <2>2. done' \in [Clients -> SUBSET URLs] /\ entry' \in [Clients -> SUBSET URLs]
      BY <1>2
    <2>3. failed' \in [Clients -> BOOLEAN]
      BY <1>2
    <2>4. missed' \subseteq URLs
      BY <1>1 DEF Miss, RecordInv, InvalidationsTypeOK
    <2>5. \A d \in Clients : done'[d] \subseteq urls'[d]
      BY <1>1, <1>3, <1>4 DEF RecordInv, InvalidationsTypeOK, SameCall
    <2> HIDE DEF TurnDone, TurnFails, us
    <2>6. QED
      BY <1>1, <2>1, <2>2, <2>3, <2>4, <2>5 DEF RecordInv, InvalidationsTypeOK, site, saves
  <1> HIDE DEF ListEntries, TurnDone, TurnFails, us
  <1>6. \A v : InHand(v) => InHand(v)'
    BY <1>1, <1>3, HandsStay
  <1>7. Steady
    BY <1>1, <1>6, MissingStays
  <1>8. \A v \in URLs : v \in missed \cup us /\ (objects[v] # None \/ saving[v] # None)
                           => v \in missed'
    BY <1>1 DEF Miss, saves
  <1>9. CacheInv'
    BY <1>1, <1>6, <1>8 DEF RecordInv, CacheInv, Stored, site, saves
  <1>10. ASSUME u \in done'[c] \ done[c], NEW k \in 1..target[c], u \in History[k]
         PROVE  Kept(u, k)'
    <2>1. u \notin documents
      BY <1>2, <1>10 DEF ListEntries, TurnDone, TurnFails
    <2>2. objects[u] # None => InHand(u) \/ u \in missed
      BY <2>1 DEF RecordInv, CacheInv, Stored
    <2>3. saving[u] # None => u \in missed'
      BY <1>8 DEF us
    <2>4. QED
      BY <1>1, <1>6, <1>8, <2>2, <2>3 DEF Kept, Gone, Older, saves
  <1>11. CallInv(c)'
    BY <1>1, <1>4, <1>7, <1>10, TurnStays DEF InCall
  <1>12. QED
    BY <1>1, <1>3, <1>5, <1>7, <1>9, <1>11, OneCall

\* A document is deleted.  Its object is about to be, unless the answer is
\* lost: then it was missed.
LEMMA DeleteDocumentKeeps ==
    ASSUME RecordInv, NEW c \in Clients, NEW u \in URLs,
           NEW o \in {"ok", "refused", "lost"}, DeleteDocument(c, u, o)
    PROVE  RecordInv'
  <1> DEFINE us == IF o = "lost" \/ saving[u] # None THEN {u} ELSE {}
  <1> USE DEF DeleteDocument, TurnFails, Goto, At
  <1>1. /\ pc[c] = "document" /\ u \in entry[c] /\ Miss(us)
        /\ UNCHANGED <<site, objects, saves, records, base, target, urls, done>>
        /\ documents \ {u} \subseteq documents' /\ documents' \subseteq documents
    OBVIOUS
  <1>2. pc \in [Clients -> Labels] /\ entry \in [Clients -> SUBSET URLs]
         /\ failed \in [Clients -> BOOLEAN]
    BY DEF RecordInv, InvalidationsTypeOK
  <1>3. \A d \in Clients \ {c} : SameCall(d)
    BY <1>2 DEF SameCall
  <1>4. u \in urls[c] /\ entry[c] = {u}
    BY <1>1 DEF RecordInv, CallInv, OneEntry
  <1>5. pc'[c] \in {"invalidate", "object"} /\ entry'[c] \subseteq {u}
         /\ (pc'[c] = "invalidate" => entry'[c] = {})
    BY <1>2, <1>4
  <1>6. InvalidationsTypeOK'
    <2>1. pc' \in [Clients -> Labels]
      BY <1>2 DEF Labels, InCall
    <2>2. entry' \in [Clients -> SUBSET URLs]
      BY <1>2
    <2>3. failed' \in [Clients -> BOOLEAN]
      BY <1>2
    <2>4. documents' \subseteq URLs /\ missed' \subseteq URLs
      BY <1>1 DEF Miss, RecordInv, InvalidationsTypeOK
    <2> HIDE DEF TurnFails, us
    <2>5. QED
      BY <1>1, <2>1, <2>2, <2>3, <2>4 DEF RecordInv, InvalidationsTypeOK, site, saves
  <1>7. u \notin documents' => u \notin documents \/ o = "lost" \/ InHand(u)'
    <2>1. CASE o = "ok" /\ u \in documents
      <3>1. pc'[c] = "object" /\ entry'[c] = entry[c]
        BY <1>2, <2>1
      <3>2. QED
        BY <1>1, <3>1 DEF InHand
    <2>2. CASE o = "refused"
      BY <2>2
    <2>3. CASE o = "lost" \/ u \notin documents
      BY <2>3
    <2>4. QED
      BY <2>1, <2>2, <2>3
  <1> HIDE DEF DeleteDocument, TurnFails, us
  <1>8. \A v : InHand(v) => InHand(v)'
    BY <1>1, <1>3, HandsStay
  <1>9. Steady
    BY <1>1, <1>8, MissingStays
  <1>10. \A v \in URLs : v \in missed \cup us /\ (objects[v] # None \/ saving[v] # None)
                            => v \in missed'
    BY <1>1 DEF Miss, saves
  <1>11. CacheInv'
    <2> SUFFICES ASSUME NEW v \in URLs PROVE Stored(v)'
      BY DEF CacheInv
    <2>1. Stored(v)
      BY DEF RecordInv, CacheInv
    <2>2. CASE v = u
      BY <1>1, <1>7, <1>8, <1>10, <2>1, <2>2 DEF Stored, site, saves, us
    <2>3. CASE v # u
      BY <1>1, <1>8, <1>10, <2>1, <2>3 DEF Stored, site, saves
    <2>4. QED
      BY <2>2, <2>3
  <1>12. CallInv(c)'
    BY <1>1, <1>4, <1>5, <1>9, TurnStays DEF InCall
  <1>13. QED
    BY <1>1, <1>3, <1>6, <1>9, <1>11, <1>12, OneCall


\* An object is deleted; one that stays although its document is gone was
\* missed.
LEMMA DeleteObjectKeeps ==
    ASSUME RecordInv, NEW c \in Clients, NEW u \in URLs,
           NEW o \in {"ok", "refused", "lost"}, DeleteObject(c, u, o)
    PROVE  RecordInv'
  <1> DEFINE us == IF o = "refused" THEN {u} ELSE {}
  <1> USE DEF DeleteObject, TurnDone, TurnFails, Goto, At
  <1>1. /\ pc[c] = "object" /\ u \in entry[c] /\ Miss(us)
        /\ UNCHANGED <<site, documents, saves, records, base, target, urls>>
        /\ UNCHANGED objects \/ objects' = [objects EXCEPT ![u] = None]
    OBVIOUS
  <1>2. /\ pc \in [Clients -> Labels] /\ done \in [Clients -> SUBSET URLs]
        /\ entry \in [Clients -> SUBSET URLs] /\ failed \in [Clients -> BOOLEAN]
        /\ objects \in [URLs -> None..published]
    BY DEF RecordInv, InvalidationsTypeOK
  <1>3. \A d \in Clients \ {c} : SameCall(d)
    BY <1>2 DEF SameCall
  <1>4. u \in urls[c] /\ entry[c] = {u}
    BY <1>1 DEF RecordInv, CallInv, OneEntry
  <1>5. /\ pc'[c] = "invalidate" /\ entry'[c] = {}
        /\ done'[c] \subseteq done[c] \cup {u}
        /\ o # "refused" => objects'[u] = None
        /\ u \in done'[c] \ done[c] => o = "ok"
    BY <1>2
  <1>6. InvalidationsTypeOK'
    <2>1. pc' \in [Clients -> Labels]
      BY <1>2 DEF Labels, InCall
    <2>2. done' \in [Clients -> SUBSET URLs] /\ entry' \in [Clients -> SUBSET URLs]
      BY <1>2
    <2>3. failed' \in [Clients -> BOOLEAN]
      BY <1>2
    <2>4. missed' \subseteq URLs
      BY <1>1 DEF Miss, RecordInv, InvalidationsTypeOK
    <2>5. objects' \in [URLs -> None..published]
      <3>1. None \in None..published
        BY HistoryAssumption DEF None, RecordInv, InvalidationsTypeOK
      <3> HIDE DEF DeleteObject
      <3>2. QED
        BY <1>1, <1>2, <3>1
    <2>6. \A d \in Clients : done'[d] \subseteq urls'[d]
      BY <1>1, <1>3, <1>4, <1>5 DEF RecordInv, InvalidationsTypeOK, SameCall
    <2>7. UNCHANGED <<now, date, expired>>
      OBVIOUS
    <2> HIDE DEF DeleteObject, TurnDone, TurnFails, us
    <2>8. QED
      BY <1>1, <2>1, <2>2, <2>3, <2>4, <2>5, <2>6, <2>7
         DEF RecordInv, InvalidationsTypeOK, site, saves
  <1> HIDE DEF DeleteObject, TurnDone, TurnFails, us
  <1>7. \A v \in URLs \ {u} : objects'[v] = objects[v] /\ (InHand(v) => InHand(v)')
    <2>1. \A v \in URLs \ {u} : objects'[v] = objects[v]
      BY <1>1, <1>2
    <2>2. \A v \in URLs \ {u} : InHand(v) => InHand(v)'
      BY <1>3, <1>4 DEF InHand, SameCall, At
    <2>3. QED
      BY <2>1, <2>2
  <1>8. \A v \in URLs : v \in missed \cup us /\ (objects'[v] # None \/ saving[v] # None)
                           => v \in missed'
    BY <1>1 DEF Miss, saves
  <1>9. objects'[u] # None => u \in missed' /\ objects'[u] = objects[u]
    BY <1>1, <1>2, <1>5, <1>8 DEF us
  <1>10. Steady
    <2> SUFFICES ASSUME NEW k \in 1..published, NEW v \in History[k], Kept(v, k)
                 PROVE  Kept(v, k)'
      BY <1>1 DEF Steady
    <2>1. v \in URLs
      BY HistoryURLs, HistoryAssumption DEF RecordInv, InvalidationsTypeOK
    <2>2. CASE v = u
      BY <1>1, <1>8, <1>9, <2>1, <2>2 DEF Kept, Gone, Older, saves
    <2>3. CASE v # u
      BY <1>1, <1>7, <1>8, <2>1, <2>3 DEF Kept, Gone, Older, saves
    <2>4. QED
      BY <2>2, <2>3
  <1>11. CacheInv'
    <2> SUFFICES ASSUME NEW v \in URLs PROVE Stored(v)'
      BY DEF CacheInv
    <2>1. Stored(v)
      BY DEF RecordInv, CacheInv
    <2>2. CASE v = u
      BY <1>1, <1>8, <1>9, <2>1, <2>2 DEF Stored, site, saves
    <2>3. CASE v # u
      BY <1>1, <1>7, <1>8, <2>1, <2>3 DEF Stored, site, saves
    <2>4. QED
      BY <2>2, <2>3
  <1>12. ASSUME u \in done'[c] \ done[c], NEW k \in 1..target[c], u \in History[k]
         PROVE  Kept(u, k)'
    <2>1. o = "ok"
      BY <1>5, <1>12
    <2>2. objects'[u] = None
      BY <1>5, <2>1
    <2>3. objects[u] # None
      BY <1>2, <1>12, <2>1 DEF DeleteObject, TurnDone, TurnFails, Goto, At
    <2>4. saving'[u] = None
      BY <1>1, <2>3 DEF RecordInv, CacheInv, Stored, saves
    <2>5. QED
      BY <2>2, <2>4 DEF Kept, Gone, Older
  <1>13. CallInv(c)'
    BY <1>1, <1>4, <1>5, <1>10, <1>12, TurnStays DEF InCall
  <1>14. QED
    BY <1>1, <1>3, <1>6, <1>10, <1>11, <1>13, OneCall

\* The date is taken, or the time of a call is over.
LEMMA StillKeeps ==
    ASSUME RecordInv, NEW c \in Clients, TakeDate(c) \/ Expire(c)
    PROVE  RecordInv'
  <1>1. /\ UNCHANGED <<site, cache, records, base, target, urls, entry, done, failed>>
        /\ pc[c] \in InCall /\ pc'[c] \in InCall /\ pc'[c] # "changes"
        /\ pc'[c] = pc[c] \/ (pc[c] = "invalidate" /\ pc'[c] = "record"
                              /\ (failed[c] \/ urls[c] = done[c]))
    BY DEF TakeDate, Expire, At, Goto, InCall, RecordInv, InvalidationsTypeOK
  <1>2. \A d \in Clients \ {c} : SameCall(d)
    <2>1. \A d \in Clients \ {c} : pc'[d] = pc[d]
      BY DEF TakeDate, Expire, Goto, RecordInv, InvalidationsTypeOK
    <2>2. QED
      BY <1>1, <2>1 DEF SameCall
  <1>3. InvalidationsTypeOK'
    <2> USE DEF RecordInv, InvalidationsTypeOK, site, cache, saves
    <2>1. CASE TakeDate(c)
      BY <2>1, TimeAssumption DEF TakeDate, Goto, Labels, InCall
    <2>2. CASE Expire(c)
      BY <2>2 DEF Expire
    <2>3. QED
      BY <2>1, <2>2
  <1>4. \A v : InHand(v) => InHand(v)'
    <2>1. pc[c] = "object" => pc'[c] = "object"
      BY <1>1
    <2>2. QED
      BY <1>1, <1>2, <2>1 DEF InHand, At, SameCall
  <1>5. Steady /\ CacheInv'
    BY <1>1, <1>4, CacheStays
  <1>6. CallInv(c)'
    <2>1. FromBase(c)'
      BY <1>1, <1>5, FromBaseStays
    <2>2. DoneIsKept(c)'
      BY <1>1, <1>5, DoneStays DEF RecordInv, CallInv, DoneIsKept, InCall
    <2>3. OneEntry(c)'
      BY <1>1 DEF RecordInv, CallInv, OneEntry, InCall
    <2>4. QED
      BY <2>1, <2>2, <2>3 DEF CallInv
  <1>7. QED
    BY <1>1, <1>2, <1>3, <1>5, <1>6, OneCall

----------------------------------------------------------------------------
\* A call ends, with or without a record.  The new record is a base: what it
\* does not settle itself was settled before.
LEMMA CreateKeeps ==
    ASSUME RecordInv, NEW c \in Clients, NEW o \in {"ok", "refused", "lost"},
           CreateInvalidation(c, o)
    PROVE  RecordInv'
  <1> USE DEF CreateInvalidation, Finish, Goto, At
  <1>1. /\ pc[c] = "record" /\ pc'[c] \in {"idle", "ok"} /\ done'[c] = {} /\ entry'[c] = {}
        /\ UNCHANGED <<site, cache, now, base, entry>>
        /\ records \subseteq records'
        /\ \A r \in records' \ records : o # "refused" /\ r = RecordOf(c)
    BY DEF RecordInv, InvalidationsTypeOK, CallInv, OneEntry
  <1>2. target[c] \in 1..published /\ published \in Nat /\ urls[c] \subseteq URLs
    BY <1>1, HistoryAssumption
       DEF RecordInv, InvalidationsTypeOK, CallInv, DoneIsKept, InCall
  <1>3. InvalidationsTypeOK'
    <2> USE DEF RecordInv, InvalidationsTypeOK
    <2>1. RecordOf(c) \in Record /\ RecordOf(c).done \subseteq RecordOf(c).requested
      BY <1>2 DEF RecordOf, Record
    <2>2. RecordOf(c).commit \in 1..published
      BY <1>2 DEF RecordOf
    <2>3. /\ records' \subseteq Record
          /\ \A r \in records' : r.commit \in 1..published /\ r.done \subseteq r.requested
      BY <2>1, <2>2
    <2>4. pc' \in [Clients -> Labels]
      BY DEF Labels, InCall
    <2>5. target' \in [Clients -> 0..published]
      BY <1>2
    <2>6. QED
      BY <2>3, <2>4, <2>5 DEF site, cache, saves
  <1>4. \A d \in Clients \ {c} : SameCall(d)
    <2>1. /\ pc \in [Clients -> Labels] /\ target \in [Clients -> 0..published]
          /\ urls \in [Clients -> SUBSET URLs] /\ done \in [Clients -> SUBSET URLs]
          /\ failed \in [Clients -> BOOLEAN]
      BY DEF RecordInv, InvalidationsTypeOK
    <2>2. QED
      BY <2>1 DEF SameCall
  <1>5. Steady /\ CacheInv'
    BY <1>1, <1>4, HandsStay, CacheStays
  <1>6. ASSUME RecordOf(c) \in records', NEW k \in 1..target[c], NEW u \in History[k]
        PROVE  Settled(u, k)'
    <2>1. k \in Nat /\ k <= target[c] /\ k \in 1..published
      BY <1>2
    <2>2. CASE u \notin urls[c]
      <3>1. Base(target[c], urls[c])
        BY <1>1 DEF RecordInv, CallInv, FromBase, InCall
      <3>2. Settled(u, k)
        BY <2>2, <3>1, <1>6 DEF Base
      <3>3. QED
        BY <1>5, <2>1, <3>2 DEF Steady, Settled, Reported
    <2>3. CASE u \in done[c]
      <3>1. Kept(u, k)'
        BY <1>5, <2>3, DoneStays
      <3>2. QED
        BY <3>1 DEF Settled
    <2>4. CASE u \in urls[c] \ done[c]
      <3>1. RecordOf(c).commit >= k /\ u \in RecordOf(c).requested \ RecordOf(c).done
        BY <1>2, <2>1, <2>4 DEF RecordOf
      <3>2. Reported(u, k)'
        BY <1>6, <3>1 DEF Reported
      <3>3. QED
        BY <3>2 DEF Settled
    <2>5. QED
      BY <2>2, <2>3, <2>4
  <1>7. ASSUME NEW r \in records' PROVE Base(r.commit, {})'
    <2>1. CASE r \in records
      BY <1>5, <2>1, RecordsStay
    <2>2. CASE r \notin records
      <3>1. r = RecordOf(c)
        BY <1>1, <1>7, <2>2
      <3>2. r.commit = target[c]
        BY <3>1 DEF RecordOf
      <3>3. \A k \in 1..r.commit : \A u \in History[k] : Settled(u, k)'
        BY <1>6, <1>7, <3>1, <3>2
      <3>4. QED
        BY <3>3 DEF Base
    <2>3. QED
      BY <2>1, <2>2
  <1>8. CallInv(c)'
    BY <1>1 DEF CallInv, FromBase, DoneIsKept, OneEntry, InCall
  <1>9. \A d \in Clients : CallInv(d)'
    BY <1>4, <1>5, <1>8, OtherCalls
  <1>10. QED
    BY <1>3, <1>5, <1>7, <1>9 DEF RecordInv

\* A process that ends takes its calls and its saves with it, but no client's
\* base; the objects in the hands of its calls were missed.
LEMMA DropKeeps == RecordInv /\ DropCalls => RecordInv'
  <1> SUFFICES ASSUME RecordInv, DropCalls PROVE RecordInv'
    OBVIOUS
  <1> USE DEF DropCalls
  <1>1. InvalidationsTypeOK'
    <2> USE DEF RecordInv, InvalidationsTypeOK, site
    <2>1. pc' \in [Clients -> Labels]
      BY DEF Labels, InCall
    <2>2. 0 \in 0..published /\ None \in None..published
      BY HistoryAssumption DEF None
    <2>3. saving' \in [URLs -> None..published] /\ target' \in [Clients -> 0..published]
      BY <2>2
    <2>4. missed' \subseteq URLs
      BY DEF Miss
    <2>5. QED
      BY <2>1, <2>3, <2>4
  <1>2. /\ UNCHANGED <<published, shown, documents, objects, records, base>>
        /\ \A u \in URLs : saving'[u] = None
        /\ \A u \in URLs : (InHand(u) \/ u \in missed) /\ objects[u] # None => u \in missed'
        /\ inserted' = {}
    BY DEF Miss, site
  <1>3. CacheInv'
    BY <1>2 DEF RecordInv, CacheInv, Stored
  <1>4. Steady
    <2> SUFFICES ASSUME NEW k \in 1..published, NEW u \in History[k], Kept(u, k)
                 PROVE  Kept(u, k)'
      BY <1>2 DEF Steady
    <2>1. u \in URLs
      BY HistoryURLs, HistoryAssumption DEF RecordInv, InvalidationsTypeOK
    <2>2. QED
      BY <1>2, <2>1 DEF Kept, Gone, Older
  <1>5. \A r \in records' : Base(r.commit, {})'
    BY <1>2, <1>4, RecordsStay
  <1>6. ASSUME NEW c \in Clients PROVE CallInv(c)'
    <2>1. /\ pc'[c] \notin InCall /\ (pc'[c] = "changes" => pc[c] = "changes")
          /\ done'[c] = {} /\ entry'[c] = {}
      BY DEF InCall
    <2>2. base[c] \in 0..published /\ base'[c] = base[c]
      BY <1>2 DEF RecordInv, InvalidationsTypeOK
    <2>3. pc[c] = "changes" => Base(base[c], {})'
      <3>1. \A k \in 0..published : Base(k, {}) => Base(k, {})'
        BY <1>4, BaseStays
      <3>2. QED
        BY <2>2, <3>1 DEF RecordInv, CallInv, FromBase, Base
    <2>4. FromBase(c)'
      BY <2>1, <2>3 DEF FromBase, InCall, Base
    <2>5. DoneIsKept(c)' /\ OneEntry(c)'
      BY <2>1 DEF DoneIsKept, OneEntry, InCall
    <2>6. QED
      BY <2>4, <2>5 DEF CallInv
  <1>7. QED
    BY <1>1, <1>3, <1>5, <1>6 DEF RecordInv

\* A new commit does not change what older ones need.
LEMMA PublishKeeps == RecordInv /\ Publish => RecordInv'
  <1> SUFFICES ASSUME RecordInv, Publish PROVE RecordInv'
    OBVIOUS
  <1> USE DEF Publish, cache, saves, call
  <1>1. published \in Nat /\ published' = published + 1 /\ published' <= Len(History)
    BY HistoryAssumption DEF RecordInv, InvalidationsTypeOK
  <1>2. InvalidationsTypeOK'
    <2> USE DEF RecordInv, InvalidationsTypeOK
    <2>1. published' \in 0..Len(History)
      BY <1>1, HistoryAssumption
    <2>2. /\ 0..published \subseteq 0..published' /\ published' \in 0..published'
          /\ None..published \subseteq None..published' /\ 1..published \subseteq 1..published'
      BY <1>1 DEF None
    <2>3. shown' \in [URLs -> 0..published']
      BY <2>2
    <2>4. objects' \in [URLs -> None..published'] /\ saving' \in [URLs -> None..published']
      BY <2>2
    <2>5. base' \in [Clients -> 0..published'] /\ target' \in [Clients -> 0..published']
      BY <2>2
    <2>6. \A r \in records' : r.commit \in 1..published'
      BY <2>2
    <2>7. QED
      BY <2>1, <2>3, <2>4, <2>5, <2>6
  <1>3. \A u : InHand(u)' <=> InHand(u)
    BY DEF InHand, At
  <1>4. Steady
    BY <1>3 DEF Steady, Kept, Gone, Older
  <1>5. CacheInv'
    <2> SUFFICES ASSUME NEW u \in URLs PROVE Stored(u)'
      BY DEF CacheInv
    <2>1. Stored(u) /\ shown[u] \in 0..published
      BY DEF RecordInv, CacheInv, InvalidationsTypeOK
    <2>2. ASSUME NEW k \in 1..published', u \in History[k] PROVE shown'[u] >= k
      <3>1. k \in 1..published \/ k = published'
        BY <1>1
      <3>2. shown'[u] = IF u \in History[published'] THEN published' ELSE shown[u]
        OBVIOUS
      <3>3. QED
        BY <1>1, <2>1, <2>2, <3>1, <3>2 DEF Stored
    <2>3. QED
      BY <1>3, <2>1, <2>2 DEF Stored
  <1>6. \A r \in records' : Base(r.commit, {})'
    BY <1>4, RecordsStay
  <1>7. \A c \in Clients : CallInv(c)'
    BY <1>4, OtherCalls DEF SameCall
  <1>8. QED
    BY <1>2, <1>5, <1>6, <1>7 DEF RecordInv

\* Every step of the server keeps the invariant.
LEMMA RecordStep == RecordInv /\ [Next]_vars => RecordInv'
  <1> SUFFICES ASSUME RecordInv, Invalidating PROVE RecordInv'
    BY NextInvalidates
  <1>1. ASSUME NEW c \in Clients, GetLastKnownInvalidation(c) \/ FailToGetLastKnown(c)
        PROVE  RecordInv'
    <2>1. PICK b : Hear(c, b) /\ (b = 0 \/ \E r \in records : b = r.commit)
      BY <1>1 DEF GetLastKnownInvalidation, FailToGetLastKnown, Latest
    <2>2. published \in Nat /\ Base(0, {})
      BY HistoryAssumption DEF RecordInv, InvalidationsTypeOK, Base
    <2>3. b \in 0..published /\ Base(b, {})
      BY <2>1, <2>2, RecordIsBase
    <2>4. QED
      BY <2>1, <2>3, HearKeeps
  <1>2. ASSUME NEW c \in Clients, NEW o \in {"ok", "refused", "lost"}, Turn(c, o)
        PROVE  RecordInv'
    BY <1>2, ListKeeps, DeleteDocumentKeeps, DeleteObjectKeeps DEF Turn
  <1>3. ASSUME NEW c \in Clients, Request(c) \/ ServeCall(c) \/ FailCall(c) \/ Expire(c)
        PROVE  RecordInv'
    BY <1>1, <1>2, <1>3, RequestKeeps, StillKeeps, CreateKeeps
       DEF Request, ServeCall, FailCall
  <1>4. CASE UNCHANGED invalidationVars
    <2> USE <1>4 DEF invalidationVars
    <2>1. \A v : InHand(v)' <=> InHand(v)
      BY DEF InHand, At, call
    <2>2. Steady /\ CacheInv'
      BY <2>1, CacheStays
    <2>3. InvalidationsTypeOK'
      BY DEF RecordInv, InvalidationsTypeOK, site, cache, saves, call
    <2>4. \A r \in records' : Base(r.commit, {})'
      BY <2>2, RecordsStay
    <2>5. \A c \in Clients : CallInv(c)'
      BY <2>2, OtherCalls DEF SameCall, call
    <2>6. QED
      BY <2>2, <2>3, <2>4, <2>5 DEF RecordInv
  <1>5. QED
    BY <1>3, <1>4, FillKeeps, DropKeeps, PublishKeeps DEF Invalidating

\* The invariant holds of every state of the server.
LEMMA RecordInvariant == Spec => []RecordInv
  BY RecordInit, RecordStep, PTL DEF Spec

\* The commit of every record is a base to start from (README.md: the latest
\* commit hash tells which files to look for), for any number of builds: of
\* whatever changed up to it the bucket has no older image but those missed
\* and those about to be deleted, or a record tells that it was not done.
THEOREM RecordsAreBasesHolds == Spec => []RecordsAreBases
  <1>1. RecordInv => RecordsAreBases
    BY DEF RecordInv, RecordsAreBases, Base, Settled, Kept
  <1>2. QED
    BY <1>1, RecordInvariant, PTL

\* An answer 200 means that of the URLs sent the bucket has no older image but
\* those missed and those about to be deleted, and that this is recorded.
THEOREM OKIsDoneHolds == Spec => OKIsDone
  <1> DEFINE Told(c) == /\ \A k \in 1..target[c] :
                              \A u \in urls[c] \cap History[k] : Gone(u, k)
                        /\ \E r \in records' : r.commit = target[c] /\ r.done = urls[c]
             Answered == \A c \in Clients : At(c, "record") /\ pc'[c] = "ok" => Told(c)
  <1>1. RecordInv /\ [Next]_vars => [Answered]_invalidationVars
    <2> SUFFICES ASSUME RecordInv, Invalidating, NEW c \in Clients,
                        At(c, "record"), pc'[c] = "ok"
                 PROVE  Told(c)
      BY NextInvalidates
    <2>1. CreateInvalidation(c, "ok")
      <3>1. pc \in [Clients -> Labels] /\ pc[c] = "record"
        BY DEF RecordInv, InvalidationsTypeOK, At
      <3>2. ASSUME NEW d \in Clients,
                   Request(d) \/ ServeCall(d) \/ FailCall(d) \/ Expire(d)
            PROVE  CreateInvalidation(d, "ok") /\ d = c
        <4>1. CASE \E b : Hear(d, b)
          BY <3>1, <4>1 DEF Hear, Goto
        <4>2. CASE \E t \in 1..published : RequestInvalidation(d, t)
          BY <3>1, <4>2 DEF RequestInvalidation, Goto
        <4>3. CASE \E o \in {"ok", "refused", "lost"} : Turn(d, o)
          BY <3>1, <4>3 DEF Turn, ListEntries, DeleteDocument, DeleteObject, TurnDone,
                            TurnFails, Goto, At
        <4>4. CASE TakeDate(d)
          BY <3>1, <4>4 DEF TakeDate, Goto
        <4>5. CASE Expire(d)
          BY <3>1, <4>5 DEF Expire
        <4>6. CASE \E o \in {"refused", "lost"} : CreateInvalidation(d, o)
          BY <3>1, <4>6 DEF CreateInvalidation, Finish, Goto
        <4>7. CASE CreateInvalidation(d, "ok")
          BY <3>1, <4>7 DEF CreateInvalidation, Finish, Goto
        <4>8. QED
          BY <3>2, <4>1, <4>2, <4>3, <4>4, <4>5, <4>6, <4>7
             DEF Request, ServeCall, FailCall, GetLastKnownInvalidation,
                 FailToGetLastKnown
      <3>3. ~ (DropCalls \/ Publish \/ (\E u \in URLs : Fill(u))
               \/ UNCHANGED invalidationVars)
        BY <3>1 DEF DropCalls, Publish, Fill, Render, SaveDocument, SaveObject, Saved,
                    InCall, call, invalidationVars
      <3>4. QED
        BY <3>2, <3>3 DEF Invalidating
    <2>2. done[c] = urls[c]
      BY <2>1 DEF RecordInv, CallInv, DoneIsKept, CreateInvalidation, Finish, Goto, At
    <2>3. \A k \in 1..target[c] : \A u \in urls[c] \cap History[k] : Gone(u, k)
      BY <2>2 DEF RecordInv, CallInv, DoneIsKept, Kept
    <2>4. RecordOf(c) \in records'
      BY <2>1 DEF CreateInvalidation
    <2>5. RecordOf(c).commit = target[c] /\ RecordOf(c).done = urls[c]
      BY <2>2 DEF RecordOf
    <2>6. QED
      BY <2>3, <2>4, <2>5
  <1>2. QED
    BY <1>1, RecordInvariant, PTL DEF Spec, OKIsDone

----------------------------------------------------------------------------
\* What the process has made so far, in the order of main; the bucket is
\* there once the connection to Minio was made.
Before(l) ==
    CASE l = "down"            -> {}
      [] l = "cacheDB"         -> {}
      [] l = "blockStorage"    -> {"cacheDB"}
      [] l = "invalidationsDB" -> {"cacheDB", "blockStorage"}
      [] l = "processor"       -> {"cacheDB", "blockStorage", "invalidationsDB"}
      [] l = "monitors"        -> Parts \ {"monitors"}
      [] OTHER                 -> Parts

StartupInv ==
    /\ StartupTypeOK
    /\ ready = Before(phase)
    /\ "blockStorage" \in ready => bucket

\* Every step of main keeps the order of what is made.
LEMMA StartupStep == StartupInv /\ [Next]_vars => StartupInv'
  <1> SUFFICES ASSUME StartupInv, [Next]_vars PROVE StartupInv'
    OBVIOUS
  <1> USE FaultsAssumption
        DEF StartupInv, StartupTypeOK, Before, Phases, Parts, Services
  <1>1. CASE UNCHANGED startupVars
    BY <1>1 DEF startupVars, process
  <1>2. CASE Start
    BY <1>2 DEF Start
  <1>3. CASE Configure
    BY <1>3 DEF Configure, process
  <1>4. CASE InitializeCacheDB
    <2>1. CASE Made("cacheDB", "blockStorage") /\ UNCHANGED faults
      BY <1>4, <2>1 DEF InitializeCacheDB, Initialize, Made
    <2>2. CASE Panic /\ UNCHANGED faults
      BY <1>4, <2>2 DEF InitializeCacheDB, Panic
    <2>3. CASE Panic /\ Fault
      BY <1>4, <2>3 DEF InitializeCacheDB, Panic, Fault
    <2>4. QED
      BY <1>4, <2>1, <2>2, <2>3 DEF InitializeCacheDB, Initialize
  <1>5. CASE InitializeMinioConnection
    <2>1. CASE Made("blockStorage", "invalidationsDB") /\ UNCHANGED faults
      BY <1>5, <2>1 DEF InitializeMinioConnection, MakeBucket, Initialize, Made
    <2>2. CASE Panic /\ UNCHANGED faults
      BY <1>5, <2>2 DEF InitializeMinioConnection, MakeBucket, Panic
    <2>3. CASE Panic /\ Fault
      <3>1. bucket' \in BOOLEAN /\ UNCHANGED missing
        BY <1>5 DEF InitializeMinioConnection, MakeBucket
      <3>2. QED
        BY <2>3, <3>1 DEF Panic, Fault
    <2>4. QED
      BY <1>5, <2>1, <2>2, <2>3 DEF InitializeMinioConnection, MakeBucket, Initialize
  <1>6. CASE InitializeInvalidatorDB
    <2>1. CASE Made("invalidationsDB", "processor") /\ UNCHANGED faults
      BY <1>6, <2>1 DEF InitializeInvalidatorDB, Initialize, Made
    <2>2. CASE Panic /\ UNCHANGED faults
      BY <1>6, <2>2 DEF InitializeInvalidatorDB, Panic
    <2>3. CASE Panic /\ Fault
      BY <1>6, <2>3 DEF InitializeInvalidatorDB, Panic, Fault
    <2>4. QED
      BY <1>6, <2>1, <2>2, <2>3 DEF InitializeInvalidatorDB, Initialize
  <1>7. CASE InitializeProcessor
    BY <1>7 DEF InitializeProcessor, Made, Panic
  <1>8. CASE InitializeDataHub
    BY <1>8 DEF InitializeDataHub, Made
  <1>9. CASE ListenAndServe
    BY <1>9 DEF ListenAndServe, Panic, Fault
  <1>10. CASE Kill
    BY <1>10 DEF Kill, Panic, Fault
  <1>11. CASE Fault /\ UNCHANGED <<process, missing, bucket>>
    BY <1>11 DEF Fault, process
  <1>12. QED
    BY <1>1, <1>2, <1>3, <1>4, <1>5, <1>6, <1>7, <1>8, <1>9, <1>10, <1>11
       DEF Next, StartStep, Initializing, ClientStep, ServerStep, FailStep, SaveStep,
           Crash, vars

\* What is made is always what comes before the function main is in.
LEMMA StartupInvariant == Spec => []StartupInv
  <1>1. Init => StartupInv
    <2> SUFFICES ASSUME StartupInit PROVE StartupInv
      BY DEF Init
    <2> USE DEF StartupInit
    <2>1. StartupTypeOK
      <3>1. faults \in 0..MaxFaults
        BY FaultsAssumption
      <3>2. phase \in Phases /\ missing \subseteq Services
        BY DEF Phases
      <3>3. QED
        BY <3>1, <3>2 DEF StartupTypeOK
    <2>2. ready = Before(phase)
      BY DEF Before
    <2>3. QED
      BY <2>1, <2>2 DEF StartupInv
  <1>2. QED
    BY <1>1, StartupStep, PTL DEF Spec

\* Every variable of the server has its type, a process that is gone has made
\* nothing, and whatever commit is recorded or heard of was published.
THEOREM TypeCorrect == Spec => []TypeOK
  <1>1. RecordInv /\ StartupInv => TypeOK
    BY DEF RecordInv, StartupInv, TypeOK
  <1>2. QED
    BY <1>1, RecordInvariant, StartupInvariant, PTL

\* Whoever is served is served by a process that made everything.
THEOREM ServingIsReadyHolds == Spec => []ServingIsReady
  <1>1. StartupInv => ServingIsReady
    BY DEF StartupInv, ServingIsReady, Serving, Before, Parts
  <1>2. QED
    BY <1>1, StartupInvariant, PTL
=============================================================================
