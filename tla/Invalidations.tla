--------------------------- MODULE Invalidations ----------------------------
(***************************************************************************)
(* cmd/server/handlers.go, cache/invalidation_service.go and               *)
(* repositories/invalidations_repository.go: the HTTP interface by which   *)
(* the builds of a project have changed images invalidated, and the record *)
(* of what was done, for one project (records of another one are not seen: *)
(* every query names its project).                                         *)
(*                                                                         *)
(* A client is a build, as README.md describes it: it asks for the latest  *)
(* invalidation, lists the files that changed since the commit of that     *)
(* invalidation, and sends their URLs with its own commit.  A commit is a  *)
(* number, the position in the history of what the site has published;     *)
(* clients and site are external.                                          *)
(*                                                                         *)
(* A turn of an Invalidate, one URL, is three steps: the entries of the    *)
(* URL are listed by their documents, then the document is deleted, then   *)
(* the object.  A turn that fails or is killed leaves what it has not      *)
(* deleted.  Requests save images meanwhile, the document first, too.      *)
(* Each URL has one image here; module Cache has several, and every call   *)
(* of the stores.                                                          *)
(***************************************************************************)
EXTENDS Integers, Sequences, FiniteSets

CONSTANTS
    Clients,
    URLs,
    History,  \* the URLs that each commit of the project changes
    MaxTime   \* bound: the clock, in milliseconds

ASSUME HistoryAssumption == History \in Seq(SUBSET URLs)
ASSUME TimeAssumption    == MaxTime \in Nat

VARIABLES
    published, \* the commit that the site shows: external
    shown,     \* the commit that last changed each URL: external
    documents, \* the URLs whose image has a document in cachedImages
    objects,   \* the commit whose image each URL's object is, or None
    saving,    \* the commit whose image is to be saved now, per URL, or None
    inserted,  \* the URLs among these whose save has inserted its document
    missed,    \* history: URLs whose image invalidations have missed: it was
               \* to be saved yet when one of them looked for its document,
               \* or lost its document to one that kept its object
    records,  \* the documents of the collection invalidations
    now,      \* the clock
    pc,       \* where each client and its call are
    base,     \* the commit each client heard of
    target,   \* latestCommitHash
    urls,     \* RequestedInvalidations
    entry,    \* the URL whose entry is being deleted, if any
    done,     \* DoneInvalidations
    failed,   \* has InvalidationError been set?
    date,     \* InvalidationDate
    expired   \* is the minute of the call over?

saves == <<saving, inserted>>
site  == <<published, shown>>
cache == <<documents, objects, saves, missed>>
call  == <<base, target, urls, entry, done, failed, date, expired>>
invalidationVars == <<site, cache, records, now, pc, call>>

None == -1

\* The labels of a client whose call of Invalidate has not returned.
InCall == {"invalidate", "document", "object", "record"}

\* "ok" is a client that was answered 200 and "idle" one that was not.
Labels == InCall \cup {"idle", "ok", "changes"}

Record == [commit: Nat, date: Nat, requested: SUBSET URLs, done: SUBSET URLs]

InvalidationsInit ==
    /\ published = 0
    /\ shown = [u \in URLs |-> 0]
    /\ documents = {}
    /\ objects = [u \in URLs |-> None]
    /\ saving = [u \in URLs |-> None]
    /\ inserted = {}
    /\ missed = {}
    /\ records = {}
    /\ now = 0
    /\ pc = [c \in Clients |-> "idle"]
    /\ base = [c \in Clients |-> 0]
    /\ target = [c \in Clients |-> 0]
    /\ urls = [c \in Clients |-> {}]
    /\ entry = [c \in Clients |-> {}]
    /\ done = [c \in Clients |-> {}]
    /\ failed = [c \in Clients |-> FALSE]
    /\ date = [c \in Clients |-> 0]
    /\ expired = [c \in Clients |-> FALSE]

At(c, l)   == pc[c] = l
Goto(c, l) == pc' = [pc EXCEPT ![c] = l]

----------------------------------------------------------------------------
\* The site shows the images as they are in the next commit.
Publish ==
    /\ published < Len(History)
    /\ published' = published + 1
    /\ shown' = [u \in URLs |-> IF u \in History[published'] THEN published' ELSE shown[u]]
    /\ UNCHANGED <<cache, records, now, pc, call>>

\* Invalidations miss the images of the URLs us, if there are any.
Miss(us) == missed' = {u \in missed \cup us : objects'[u] # None \/ saving'[u] # None}

----------------------------------------------------------------------------
(* Requests fill the cache.                                                *)

\* Get finds no object, and the image is rendered as the site shows it now;
\* one stream of it exists at a time.
Render(u) ==
    /\ objects[u] = None /\ saving[u] = None
    /\ saving' = [saving EXCEPT ![u] = shown[u]]
    /\ UNCHANGED <<site, documents, objects, inserted, missed, records, now, pc, call>>

\* CacheService.Save returns.
Saved(u) ==
    /\ saving' = [saving EXCEPT ![u] = None]
    /\ inserted' = inserted \ {u}
    /\ UNCHANGED <<site, records, now, pc, call>>

\* CreateCachedImageInfo, which is refused when there is a document already,
\* or fails.
SaveDocument(u, outcome) ==
    /\ saving[u] # None /\ u \notin inserted
    /\ IF outcome = "ok" /\ u \notin documents
       THEN /\ documents' = documents \cup {u}
            /\ inserted' = inserted \cup {u}
            /\ UNCHANGED <<site, saving, records, now, pc, call>>
       ELSE Saved(u) /\ UNCHANGED documents
    /\ UNCHANGED objects
    /\ Miss({})

\* What a save leaves once its document is inserted: the whole image; nothing,
\* when cachedImagesStorage.Save fails; or the document, when the context is
\* cancelled for the rollback too.  Module Cache has the rarer failures.
Leftovers == {{"document", "object"}, {}, {"document"}}

\* cachedImagesStorage.Save and what Save does after it.
SaveObject(u, left) ==
    /\ u \in inserted
    /\ documents' = IF "document" \in left THEN documents ELSE documents \ {u}
    /\ objects' = IF "object" \in left THEN [objects EXCEPT ![u] = saving[u]] ELSE objects
    /\ Saved(u)
    /\ Miss({})

Fill(u) ==
    \/ Render(u)
    \/ \E o \in {"ok", "refused"} : SaveDocument(u, o)
    \/ \E left \in Leftovers : SaveObject(u, left)

----------------------------------------------------------------------------
(* GET /lastInvalidation                                                   *)

\* GetLatestInvalidation sorts by date, and dates may be equal.
Latest == {r \in records : \A q \in records : q.date <= r.date}

\* The client is answered with a commit to start from; commit 0 is none.
Hear(c, b) ==
    /\ pc[c] \in {"idle", "ok"}
    /\ Goto(c, "changes")
    /\ base' = [base EXCEPT ![c] = b]
    /\ UNCHANGED <<site, cache, records, now, target, urls, entry, done, failed,
                   date, expired>>

\* One query; without a record of the project it ends in ErrProjectNotFound.
GetLastKnownInvalidation(c) ==
    \/ \E r \in Latest : Hear(c, r.commit)
    \/ records = {} /\ Hear(c, 0)

\* An error is answered with the zero model too, and a client cannot tell.
FailToGetLastKnown(c) == Hear(c, 0)

----------------------------------------------------------------------------
(* DELETE /invalidate                                                      *)

\* What changed after commit b up to commit t.
Changes(b, t) == UNION {History[k] : k \in (b + 1)..t}

\* The build of commit t sends its request, which starts an Invalidate.
\* Without urls it is refused (400).
RequestInvalidation(c, t) ==
    /\ At(c, "changes")
    /\ base' = [base EXCEPT ![c] = 0]
    /\ IF Changes(base[c], t) = {}
       THEN Goto(c, "idle") /\ UNCHANGED <<target, urls>>
       ELSE /\ Goto(c, "invalidate")
            /\ target' = [target EXCEPT ![c] = t]
            /\ urls' = [urls EXCEPT ![c] = Changes(base[c], t)]
    /\ UNCHANGED <<site, cache, records, now, entry, done, failed, date, expired>>

\* A turn ends: its URL is done, or its error is the last of the loop.
TurnDone(c, u) ==
    /\ Goto(c, "invalidate")
    /\ entry' = [entry EXCEPT ![c] = {}]
    /\ done' = [done EXCEPT ![c] = @ \cup {u}]
    /\ UNCHANGED failed

TurnFails(c) ==
    /\ Goto(c, "invalidate")
    /\ entry' = [entry EXCEPT ![c] = {}]
    /\ failed' = [failed EXCEPT ![c] = TRUE]
    /\ UNCHANGED done

\* A URL whose entries cannot be listed is one without entries.
ListEntriesMutant(c, u, outcome) ==
    /\ At(c, "invalidate")
    /\ ~ failed[c]
    /\ u \in urls[c] \ done[c]
    /\ expired[c] => outcome = "refused"
    /\ IF outcome = "ok" /\ u \in documents
       THEN /\ Goto(c, "document")
            /\ entry' = [entry EXCEPT ![c] = {u}]
            /\ UNCHANGED <<done, failed>>
       ELSE TurnDone(c, u)
    /\ UNCHANGED <<site, documents, objects, saves, records, now, base, target, urls, date,
                   expired>>
    /\ Miss(IF saving[u] # None THEN {u} ELSE {})

\* GetCachedImageInfosOfSource: a URL without documents is done, whatever the
\* bucket holds of it.
ListEntries(c, u, outcome) ==
    /\ At(c, "invalidate")
    /\ ~ failed[c]
    /\ u \in urls[c] \ done[c]
    /\ expired[c] => outcome = "refused"
    /\ \/ outcome # "ok" /\ TurnFails(c)
       \/ /\ outcome = "ok" /\ u \in documents
          /\ Goto(c, "document")
          /\ entry' = [entry EXCEPT ![c] = {u}]
          /\ UNCHANGED <<done, failed>>
       \/ outcome = "ok" /\ u \notin documents /\ TurnDone(c, u)
    /\ UNCHANGED <<site, documents, objects, saves, records, now, base, target, urls, date,
                   expired>>
    /\ Miss(IF saving[u] # None THEN {u} ELSE {})

\* DeleteCachedImageInfo; somebody else may have deleted the document, which
\* is an error.  Without an answer the turn ends, and the object stays.
DeleteDocument(c, u, outcome) ==
    /\ At(c, "document") /\ u \in entry[c]
    /\ expired[c] => outcome = "refused"
    /\ documents' = IF outcome = "refused" THEN documents ELSE documents \ {u}
    /\ IF outcome = "ok" /\ u \in documents
       THEN Goto(c, "object") /\ UNCHANGED <<entry, done, failed>>
       ELSE TurnFails(c)
    /\ UNCHANGED <<site, objects, saves, records, now, base, target, urls, date,
                   expired>>
    /\ Miss(IF outcome = "lost" \/ saving[u] # None THEN {u} ELSE {})

\* A URL is done although its object could not be deleted.
DeleteObjectMutant(c, u, outcome) ==
    /\ At(c, "object") /\ u \in entry[c]
    /\ expired[c] => outcome = "refused"
    /\ objects' = IF outcome = "refused" THEN objects ELSE [objects EXCEPT ![u] = None]
    /\ TurnDone(c, u)
    /\ UNCHANGED <<site, documents, saves, missed, records, now, base, target, urls,
                   date, expired>>

\* cachedImagesStorage.Delete; an object that is not there is an error.  The
\* object that is not deleted has lost its document.
DeleteObject(c, u, outcome) ==
    /\ At(c, "object") /\ u \in entry[c]
    /\ expired[c] => outcome = "refused"
    /\ objects' = IF outcome = "refused" THEN objects ELSE [objects EXCEPT ![u] = None]
    /\ IF outcome = "ok" /\ objects[u] # None THEN TurnDone(c, u) ELSE TurnFails(c)
    /\ UNCHANGED <<site, documents, saves, records, now, base, target, urls, date,
                   expired>>
    /\ Miss(IF outcome = "refused" THEN {u} ELSE {})

\* The clock goes on, or not yet, to when it is looked at.
TakeDate(c) ==
    /\ At(c, "invalidate")
    /\ failed[c] \/ urls[c] = done[c]
    /\ Goto(c, "record")
    /\ now' \in {t \in {now, now + 1} : t <= MaxTime}
    /\ date' = [date EXCEPT ![c] = now']
    /\ UNCHANGED <<site, cache, records, base, target, urls, entry, done, failed,
                   expired>>

\* The client is answered 500 or 200, and the variables of the call are gone.
Finish(c, error) ==
    /\ Goto(c, IF error THEN "idle" ELSE "ok")
    /\ target' = [target EXCEPT ![c] = 0]
    /\ urls' = [urls EXCEPT ![c] = {}]
    /\ done' = [done EXCEPT ![c] = {}]
    /\ failed' = [failed EXCEPT ![c] = FALSE]
    /\ date' = [date EXCEPT ![c] = 0]
    /\ expired' = [expired EXCEPT ![c] = FALSE]

\* What is recorded of the call.
RecordOf(c) ==
    [commit |-> target[c], date |-> date[c], requested |-> urls[c], done |-> done[c]]

\* The error of the insertion replaces that of the invalidation, nil or not.
CreateInvalidationMutant(c, outcome) ==
    /\ At(c, "record")
    /\ expired[c] => outcome = "refused"
    /\ records' = IF outcome = "refused" THEN records ELSE records \cup {RecordOf(c)}
    /\ Finish(c, outcome # "ok")
    /\ UNCHANGED <<site, cache, now, base, entry>>

\* The record is inserted, or refused, or inserted with the answer lost, with
\* the context of the whole call; then the client is answered.
CreateInvalidation(c, outcome) ==
    /\ At(c, "record")
    /\ expired[c] => outcome = "refused"
    /\ records' = IF outcome = "refused" THEN records ELSE records \cup {RecordOf(c)}
    /\ Finish(c, outcome # "ok" \/ failed[c])
    /\ UNCHANGED <<site, cache, now, base, entry>>

\* The minute of the call is over.
Expire(c) ==
    /\ pc[c] \in InCall
    /\ ~ expired[c]
    /\ expired' = [expired EXCEPT ![c] = TRUE]
    /\ UNCHANGED <<site, cache, records, now, pc, base, target, urls, entry, done,
                   failed, date>>

\* A call is about to delete the object of u.
InHand(u) == \E c \in Clients : At(c, "object") /\ u \in entry[c]

\* What a call has done outlives it.
DropCallsMutant ==
    /\ pc' = [c \in Clients |-> IF pc[c] \in InCall THEN "idle" ELSE pc[c]]
    /\ saving' = [u \in URLs |-> None]
    /\ inserted' = {}
    /\ target' = [c \in Clients |-> 0]
    /\ urls' = [c \in Clients |-> {}]
    /\ entry' = [c \in Clients |-> {}]
    /\ failed' = [c \in Clients |-> FALSE]
    /\ date' = [c \in Clients |-> 0]
    /\ expired' = [c \in Clients |-> FALSE]
    /\ UNCHANGED <<site, documents, objects, records, now, base, done>>
    /\ Miss({u \in URLs : InHand(u)})

\* The process ends: calls under way get no answer, and neither they nor the
\* saves go on; the stores are left as they are.
DropCalls ==
    /\ pc' = [c \in Clients |-> IF pc[c] \in InCall THEN "idle" ELSE pc[c]]
    /\ saving' = [u \in URLs |-> None]
    /\ inserted' = {}
    /\ target' = [c \in Clients |-> 0]
    /\ urls' = [c \in Clients |-> {}]
    /\ entry' = [c \in Clients |-> {}]
    /\ done' = [c \in Clients |-> {}]
    /\ failed' = [c \in Clients |-> FALSE]
    /\ date' = [c \in Clients |-> 0]
    /\ expired' = [c \in Clients |-> FALSE]
    /\ UNCHANGED <<site, documents, objects, records, now, base>>
    /\ Miss({u \in URLs : InHand(u)})

----------------------------------------------------------------------------
\* A step of a turn.
Turn(c, outcome) ==
    \E u \in URLs :
       \/ ListEntries(c, u, outcome)
       \/ DeleteDocument(c, u, outcome)
       \/ DeleteObject(c, u, outcome)

\* The steps of a call that the server has taken, and those that fail.
ServeCall(c) == Turn(c, "ok") \/ TakeDate(c) \/ CreateInvalidation(c, "ok")

FailCall(c) ==
    \/ FailToGetLastKnown(c)
    \/ \E o \in {"refused", "lost"} : Turn(c, o) \/ CreateInvalidation(c, o)

Request(c) ==
    \/ GetLastKnownInvalidation(c)
    \/ \E t \in 1..published : RequestInvalidation(c, t)

----------------------------------------------------------------------------
\* Every variable has its type; what is done was asked for; commits heard of,
\* recorded or rendered have been published.
InvalidationsTypeOK ==
    /\ published \in 0..Len(History)
    /\ documents \subseteq URLs
    /\ shown \in [URLs -> 0..published]
    /\ objects \in [URLs -> None..published]
    /\ saving \in [URLs -> None..published]
    /\ inserted \subseteq URLs
    /\ missed \subseteq URLs
    /\ records \subseteq Record
    /\ \A r \in records : r.commit \in 1..published /\ r.done \subseteq r.requested
    /\ now \in Nat
    /\ pc \in [Clients -> Labels]
    /\ base \in [Clients -> 0..published]
    /\ target \in [Clients -> 0..published]
    /\ urls \in [Clients -> SUBSET URLs]
    /\ entry \in [Clients -> SUBSET URLs]
    /\ done \in [Clients -> SUBSET URLs]
    /\ \A c \in Clients : done[c] \subseteq urls[c]
    /\ failed \in [Clients -> BOOLEAN]
    /\ date \in [Clients -> Nat]
    /\ expired \in [Clients -> BOOLEAN]

\* Is the object of u an image from before commit k?
Older(u, k) == objects[u] # None /\ objects[u] < k

\* It is not, or a call is about to delete it, or it was missed.
Gone(u, k) == Older(u, k) => InHand(u) \/ u \in missed

\* An invalidation of commit k or a later one is recorded that did not do u.
Reported(u, k) == \E r \in records : r.commit >= k /\ u \in r.requested \ r.done

(***************************************************************************)
(* The commit of a record is a base to start from: of whatever changed up  *)
(* to it no older image is left in the bucket, or some record says that    *)
(* it was not done.  Builds that overlap or run in another order than      *)
(* their commits, records with equal dates or inserted in another order,   *)
(* insertions that fail or whose answer is lost and killed servers lose no *)
(* change silently (README.md: the latest commit hash tells which files to *)
(* look for).  What the code does lose is in `missed': an image that was   *)
(* being saved when its turn looked for it, and an object that lost its    *)
(* document to a turn that stopped between cache_service.go:66 and :71,    *)
(* which no later turn lists.                                              *)
(***************************************************************************)
RecordsAreBases ==
    \A r \in records : \A k \in 1..r.commit : \A u \in History[k] :
        Gone(u, k) \/ Reported(u, k)

(***************************************************************************)
(* A client that is answered 200 finds no older image left in the bucket   *)
(* of any URL it sent, unless missed or about to be deleted for another    *)
(* client, and its commit is recorded for the next build, whatever failed  *)
(* and was tried on the way (invalidation_service.go:62).                  *)
(***************************************************************************)
OKIsDone ==
    [][\A c \in Clients : At(c, "record") /\ pc'[c] = "ok" =>
         /\ \A k \in 1..target[c] : \A u \in urls[c] \cap History[k] : Gone(u, k)
         /\ \E r \in records' : r.commit = target[c] /\ r.done = urls[c]
      ]_invalidationVars
=============================================================================
