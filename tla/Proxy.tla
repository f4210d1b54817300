------------------------------- MODULE Proxy -------------------------------
(***************************************************************************)
(* pkg/proxy: ProxyService.Handle for requests with one signature, with    *)
(* the goroutines it starts and the HTTP handler around it.                *)
(*                                                                         *)
(* The first handler creates the stream and owns its input; the others     *)
(* attach to it.  The owner looks the image up in the cache, else has it   *)
(* processed, else fetches the original as a fallback.  Each of the three  *)
(* starts a worker goroutine that copies into the input and closes it.  A  *)
(* processed image is saved by a saver goroutine that reads the stream     *)
(* too.  Worker and saver use the context of the request, which ends with  *)
(* Handle (cmd/server/handlers.go:19) or after a minute.                   *)
(*                                                                         *)
(* The hub is the one its users expect: it keeps a stream until its input  *)
(* and all its outputs are closed (module DataHub says when the code does  *)
(* not).  A stream is what its readers tell apart: open, ended, failed.    *)
(***************************************************************************)
EXTENDS Naturals, Sequences

CONSTANTS
    Handlers,
    Faults,  \* what may fail, see FaultKinds
    Leaves,  \* may a user disconnect, or a request last a minute?
    Evicts   \* may the image be invalidated?

FaultKinds == {"hub", "cache", "processor", "source", "fetcher", "store"}

ASSUME FaultsAssumption == Faults \subseteq FaultKinds
ASSUME UsersAssumption  == Leaves \in BOOLEAN /\ Evicts \in BOOLEAN

VARIABLES
    pc,         \* where each handler is in Handle
    responses,  \* what it has written to its user in this request
    live,       \* handlers whose context is not cancelled
    stream,     \* "none", "open", "ended" or "failed"
    content,    \* what is copied into it
    cause,      \* history: why it failed
    inputs,     \* handlers whose DataStreamInput is open
    outputs,    \* handlers whose DataStreamOutput is open
    worker,     \* what each handler's worker copies, or "none"
    saver,      \* each handler's saver: "none", "reading", "storing"
    cached,     \* what the cache holds of the image
    served      \* history: how each handler's last copy to its user ended

hub    == <<stream, content, cause, inputs>>
vars   == <<pc, responses, live, hub, outputs, worker, saver, cached, served>>

Contents == {"cached", "processed", "original"}

Init ==
    /\ pc = [h \in Handlers |-> "idle"]
    /\ responses = [h \in Handlers |-> <<>>]
    /\ live = {}
    /\ stream = "none" /\ content = "none" /\ cause = "none"
    /\ inputs = {} /\ outputs = {}
    /\ worker = [h \in Handlers |-> "none"]
    /\ saver = [h \in Handlers |-> "none"]
    /\ cached = "none"
    /\ served = [h \in Handlers |-> "none"]

At(h, l)      == pc[h] = l
Goto(h, l)    == pc' = [pc EXCEPT ![h] = l]
Respond(h, r) == responses' = [responses EXCEPT ![h] = Append(@, r)]
Saving        == {h \in Handlers : saver[h] # "none"}

----------------------------------------------------------------------------
(* The stream                                                              *)

\* A Close that takes the error and the end for each other.
CloseInputMutant(h, end, why) ==
    IF h \notin inputs THEN UNCHANGED hub
    ELSE /\ inputs' = inputs \ {h}
         /\ stream' = why /\ cause' = end /\ UNCHANGED content

\* input.Close: the first one of this input ends the stream; the stream is
\* gone when nobody reads it.
CloseInput(h, end, why) ==
    IF h \notin inputs THEN UNCHANGED hub
    ELSE /\ inputs' = inputs \ {h}
         /\ IF outputs = {} /\ Saving = {}
            THEN stream' = "none" /\ content' = "none" /\ cause' = "none"
            ELSE stream' = end /\ cause' = why /\ UNCHANGED content

\* The last reader of a closed stream takes it with it.
LeaveStream(readers) ==
    IF stream # "open" /\ readers = {}
    THEN stream' = "none" /\ content' = "none" /\ cause' = "none" /\ UNCHANGED inputs
    ELSE UNCHANGED hub

StartWorker(h, what) ==
    /\ worker' = [worker EXCEPT ![h] = what]
    /\ content' = IF h \in inputs THEN what ELSE content

----------------------------------------------------------------------------
(* Handle                                                                  *)

\* parseRequest refuses the origin, the path, the processor or the domain.
Reject(h) ==
    /\ At(h, "idle")
    /\ worker[h] = "none" /\ saver[h] = "none"
    /\ responses' = [responses EXCEPT ![h] = <<"error">>]
    /\ served' = [served EXCEPT ![h] = "none"]
    /\ UNCHANGED <<pc, live, hub, outputs, worker, saver, cached>>

GetOrCreateStream(h) ==
    /\ At(h, "idle")
    /\ worker[h] = "none" /\ saver[h] = "none"
    /\ live' = live \cup {h}
    /\ outputs' = outputs \cup {h}
    /\ served' = [served EXCEPT ![h] = "none"]
    /\ IF stream = "none"
       THEN /\ stream' = "open"
            /\ inputs' = inputs \cup {h}
            /\ responses' = [responses EXCEPT ![h] = <<>>]
            /\ Goto(h, "lookup")
            /\ UNCHANGED <<content, cause>>
       ELSE /\ responses' = [responses EXCEPT ![h] = <<"ok">>]
            /\ Goto(h, "serve")
            /\ UNCHANGED hub
    /\ UNCHANGED <<worker, saver, cached>>

\* The hub fails, and has closed an input it created.  Handle responds and
\* goes on to defer Close of a nil output, which panics; net/http recovers.
FailToCreate(h) ==
    /\ At(h, "idle")
    /\ worker[h] = "none" /\ saver[h] = "none"
    /\ "hub" \in Faults
    /\ responses' = [responses EXCEPT ![h] = <<"error">>]
    /\ served' = [served EXCEPT ![h] = "panic"]
    /\ UNCHANGED <<pc, live, hub, outputs, worker, saver, cached>>

\* tryToGetImageFromCache
FindInCache(h) ==
    /\ At(h, "lookup")
    /\ cached # "none"
    /\ StartWorker(h, "cached")
    /\ Respond(h, "ok")
    /\ Goto(h, "serve")
    /\ UNCHANGED <<live, stream, cause, inputs, outputs, saver, cached, served>>

MissCache(h) ==
    /\ At(h, "lookup")
    /\ cached = "none"
    /\ Goto(h, "process")
    /\ UNCHANGED <<responses, live, hub, outputs, worker, saver, cached, served>>

\* A failed look-up that answers, leaves the input open and does not go on.
FailToLookUpMutant(h) ==
    /\ At(h, "lookup")
    /\ "cache" \in Faults \/ h \notin live
    /\ Respond(h, "error")
    /\ Goto(h, "serve")
    /\ UNCHANGED <<live, hub, outputs, worker, saver, cached, served>>

\* It responds, closes the input, and the handler goes on all the same.
FailToLookUp(h) ==
    /\ At(h, "lookup")
    /\ "cache" \in Faults \/ h \notin live
    /\ CloseInput(h, "failed", "cache")
    /\ Respond(h, "error")
    /\ Goto(h, "process")
    /\ UNCHANGED <<live, outputs, worker, saver, cached, served>>

\* tryToProcessAndServeImage: ProcessImage has a response with an image.
Process(h) ==
    /\ At(h, "process")
    /\ h \in live
    /\ StartWorker(h, "processed")
    /\ Goto(h, "save")
    /\ UNCHANGED <<responses, live, stream, cause, inputs, outputs, saver, cached, served>>

FailToProcess(h) ==
    /\ At(h, "process")
    /\ "processor" \in Faults \/ h \notin live
    /\ Goto(h, "fallback")
    /\ UNCHANGED <<responses, live, hub, outputs, worker, saver, cached, served>>

\* saveImageInCache; without an output of its own it saves nothing.
SaveImageInCache(h) ==
    /\ At(h, "save")
    /\ \/ saver' = [saver EXCEPT ![h] = "reading"]
       \/ "hub" \in Faults /\ UNCHANGED saver
    /\ Respond(h, "ok")
    /\ Goto(h, "serve")
    /\ UNCHANGED <<live, hub, outputs, worker, cached, served>>

\* writeFallbackImage
FetchFallback(h) ==
    /\ At(h, "fallback")
    /\ h \in live
    /\ StartWorker(h, "original")
    /\ Respond(h, "fallback")
    /\ Goto(h, "serve")
    /\ UNCHANGED <<live, stream, cause, inputs, outputs, saver, cached, served>>

\* A failed fetch that answers and goes on to serve the fallback.
FallThroughMutant(h) ==
    /\ At(h, "fallback")
    /\ "fetcher" \in Faults \/ h \notin live
    /\ CloseInput(h, "failed", IF h \in live THEN "source" ELSE "cancel")
    /\ responses' = [responses EXCEPT ![h] = @ \o <<"error", "fallback">>]
    /\ Goto(h, "serve")
    /\ UNCHANGED <<live, outputs, worker, saver, cached, served>>

\* A Fetch that fails without closing the input.
FailToFetchMutant(h) ==
    /\ At(h, "fallback")
    /\ "fetcher" \in Faults \/ h \notin live
    /\ Respond(h, "error")
    /\ Goto(h, "return")
    /\ UNCHANGED <<live, hub, outputs, worker, saver, cached, served>>

\* Fetch closes the input itself.
FailToFetch(h) ==
    /\ At(h, "fallback")
    /\ "fetcher" \in Faults \/ h \notin live
    /\ CloseInput(h, "failed", IF h \in live THEN "source" ELSE "cancel")
    /\ Respond(h, "error")
    /\ Goto(h, "return")
    /\ UNCHANGED <<live, outputs, worker, saver, cached, served>>

\* Handle returns: its output is closed and its context cancelled.
Finish(h, how) ==
    /\ Goto(h, "idle")
    /\ served' = [served EXCEPT ![h] = how]
    /\ live' = live \ {h}
    /\ outputs' = outputs \ {h}
    /\ LeaveStream((outputs \ {h}) \cup Saving)
    /\ UNCHANGED <<responses, worker, saver, cached>>

Return(h) == At(h, "return") /\ Finish(h, "none")

\* WriteOK and WriteErrorWithFallback copy the stream to the user, to its end.
\* The user cannot tell: a failed stream ends the response like a whole one.
Serve(h) ==
    /\ At(h, "serve")
    /\ stream # "open"
    /\ Finish(h, IF stream = "ended" THEN content ELSE cause)

\* The user disconnects, and the copy ends at its next write.
Leave(h) ==
    /\ Leaves
    /\ At(h, "serve")
    /\ Finish(h, "left")

\* The minute of the request is over.
Timeout(h) ==
    /\ Leaves
    /\ h \in live
    /\ live' = live \ {h}
    /\ UNCHANGED <<pc, responses, hub, outputs, worker, saver, cached, served>>

----------------------------------------------------------------------------
(* Goroutines                                                              *)

\* The worker has copied all, or its source fails, or its context ends.
WorkerStep(h) ==
    /\ worker[h] # "none"
    /\ worker' = [worker EXCEPT ![h] = "none"]
    /\ \/ CloseInput(h, "ended", "none")
       \/ "source" \in Faults /\ CloseInput(h, "failed", "source")
       \/ h \notin live /\ CloseInput(h, "failed", "cancel")
    /\ UNCHANGED <<pc, responses, live, outputs, saver, cached, served>>

EndSave(h) ==
    /\ saver' = [saver EXCEPT ![h] = "none"]
    /\ LeaveStream(outputs \cup (Saving \ {h}))

\* A save that stores a failed stream as far as it was read.
SaverReadsMutant(h) ==
    /\ saver[h] = "reading"
    /\ stream # "open"
    /\ saver' = [saver EXCEPT ![h] = "storing"]
    /\ UNCHANGED <<pc, responses, live, hub, outputs, worker, cached, served>>

\* CacheService.Save reads the stream to its end; it is refused, also before
\* the stream ends (cache_service.go:42), or rolled back, when the stream
\* failed, the context ended or a store fails.
SaverReads(h) ==
    /\ saver[h] = "reading"
    /\ \/ /\ stream = "ended"
          /\ saver' = [saver EXCEPT ![h] = "storing"]
          /\ UNCHANGED hub
       \/ /\ stream = "failed" \/ h \notin live \/ "store" \in Faults
          /\ EndSave(h)
    /\ UNCHANGED <<pc, responses, live, outputs, worker, cached, served>>

SaverStores(h) ==
    /\ saver[h] = "storing"
    /\ \/ /\ h \in live
          /\ cached' = IF stream = "ended" THEN content ELSE "truncated"
       \/ /\ "store" \in Faults \/ h \notin live
          /\ UNCHANGED cached
    /\ EndSave(h)
    /\ UNCHANGED <<pc, responses, live, outputs, worker, served>>

\* An invalidation of the image.
Evict ==
    /\ Evicts
    /\ cached # "none"
    /\ cached' = "none"
    /\ UNCHANGED <<pc, responses, live, hub, outputs, worker, saver, served>>

----------------------------------------------------------------------------
Answer(h) ==
    \/ FindInCache(h) \/ MissCache(h) \/ FailToLookUp(h)
    \/ Process(h) \/ FailToProcess(h)
    \/ SaveImageInCache(h)
    \/ FetchFallback(h) \/ FailToFetch(h)
    \/ Return(h) \/ Serve(h)

Goroutines(h) == WorkerStep(h) \/ SaverReads(h) \/ SaverStores(h)

Next ==
    \/ \E h \in Handlers :
         \/ Reject(h) \/ GetOrCreateStream(h) \/ FailToCreate(h)
         \/ Answer(h) \/ Leave(h) \/ Timeout(h)
         \/ Goroutines(h)
    \/ Evict

Spec == Init /\ [][Next]_vars

\* A handler that is not waiting goes on, and so do its goroutines: calls of
\* the outside end, with an answer or with the minute of their context.
Fairness ==
    \A h \in Handlers :
        /\ WF_vars(Answer(h))
        /\ WF_vars(WorkerStep(h))
        /\ WF_vars(SaverReads(h) \/ SaverStores(h))

LiveSpec == Spec /\ Fairness

----------------------------------------------------------------------------
\* Types of the variables of Handle and of its goroutines.
TypeOK ==
    /\ pc \in [Handlers -> {"idle", "lookup", "process", "save", "fallback",
                            "serve", "return"}]
    /\ responses \in [Handlers -> Seq({"ok", "error", "fallback"})]
    /\ live \subseteq Handlers
    /\ stream \in {"none", "open", "ended", "failed"}
    /\ content \in Contents \cup {"none"}
    /\ cause \in {"none", "source", "cancel", "cache"}
    /\ inputs \subseteq Handlers /\ outputs \subseteq Handlers
    /\ worker \in [Handlers -> Contents \cup {"none"}]
    /\ saver \in [Handlers -> {"none", "reading", "storing"}]
    /\ cached \in Contents \cup {"none", "truncated"}
    /\ served \in [Handlers -> Contents \cup {"none", "panic", "left", "source",
                                               "cancel", "cache"}]

\* An open stream has exactly one open input, in the hands of a handler that
\* is still to start a worker on it or of a worker: no path of Handle drops
\* the input open, where its readers would wait for ever.
OpenIsAttended ==
    /\ stream = "open" <=> inputs # {}
    /\ \A h \in inputs :
         /\ inputs = {h}
         /\ worker[h] # "none" \/ pc[h] \in {"lookup", "process", "fallback"}

\* Only whole, processed images are cached: neither the fallback nor what a
\* failed or cancelled fetch left of an image (proxy_service.go:176, 194).
OnlyProcessedIsCached == cached \in {"none", "processed"}

\* A user is answered once, although errors are answered deep inside Handle.
\* A failed look-up (proxy_service.go:127) is the exception: it is answered
\* and goes on, to be answered again.
OneAnswer ==
    \A h \in Handlers :
        pc[h] \in {"serve", "return"} => Len(responses[h]) = 1 \/ cause = "cache"

\* Every request is answered: Handle returns.
RequestsEnd == \A h \in Handlers : pc[h] # "idle" ~> pc[h] = "idle"

\* No stream stays open for ever, whether its readers stay or not: its input
\* is closed on every path of Handle and of the goroutines it starts.
StreamsEnd == []<>(stream # "open")

=============================================================================
