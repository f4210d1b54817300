---------------------------- MODULE ProxyProofs ----------------------------
(***************************************************************************)
(* Theorems about Proxy, for any handlers and any faults: types, that no   *)
(* path leaves a stream open without somebody to close it, that only whole *)
(* processed images are cached, that a user has one answer, and that an    *)
(* image is saved by one request at a time.                                *)
(***************************************************************************)
EXTENDS Proxy, TLAPS

\* The kinds of step of one handler, as Next has them.
HandlerStep(h) ==
    \/ Reject(h) \/ GetOrCreateStream(h) \/ FailToCreate(h)
    \/ Answer(h) \/ Leave(h) \/ Timeout(h)
    \/ Goroutines(h)

----------------------------------------------------------------------------
(* Types                                                                   *)

\* The variables have their types in the initial state of Handle's world.
LEMMA TypeInit == Init => TypeOK
  BY DEF Init, TypeOK

\* Each step of a handler or of its goroutines preserves the types.
LEMMA TypeStep == TypeOK /\ [Next]_vars => TypeOK'
  <1> SUFFICES ASSUME TypeOK, [Next]_vars PROVE TypeOK'
    OBVIOUS
  <1> USE DEF TypeOK, Contents
  <1>1. CASE UNCHANGED vars
    BY <1>1 DEF vars, hub
  <1>2. CASE Evict
    BY <1>2 DEF Evict, hub
  <1>3. ASSUME NEW h \in Handlers, HandlerStep(h) PROVE TypeOK'
    <2>1. CASE Reject(h)
      BY <2>1 DEF Reject, hub
    <2>2. CASE GetOrCreateStream(h)
      <3>1. responses' \in [Handlers -> Seq({"ok", "error", "fallback"})]
        <4>1. CASE stream = "none"
          <5>1. <<>> \in Seq({"ok", "error", "fallback"})
            OBVIOUS
          <5>2. responses' = [responses EXCEPT ![h] = <<>>]
            BY <2>2, <4>1 DEF GetOrCreateStream
          <5>3. QED
            BY <5>1, <5>2
        <4>2. CASE stream # "none"
          <5>1. <<"ok">> \in Seq({"ok", "error", "fallback"})
            OBVIOUS
          <5>2. responses' = [responses EXCEPT ![h] = <<"ok">>]
            BY <2>2, <4>2 DEF GetOrCreateStream
          <5>3. QED
            BY <5>1, <5>2
        <4>3. QED
          BY <4>1, <4>2
      <3>2. /\ pc' \in [Handlers -> {"idle", "lookup", "process", "save",
                                     "fallback", "serve", "return"}]
            /\ stream' \in {"none", "open", "ended", "failed"}
            /\ UNCHANGED <<content, cause, worker, saver, cached>>
        BY <2>2 DEF GetOrCreateStream, Goto, hub
      <3>3. /\ live' \subseteq Handlers /\ outputs' \subseteq Handlers
            /\ inputs' \subseteq Handlers
        BY <2>2 DEF GetOrCreateStream, hub
      <3>4. served' \in [Handlers -> Contents \cup {"none", "panic", "left",
                                     "source", "cancel", "cache"}]
        BY <2>2 DEF GetOrCreateStream
      <3>5. QED
        BY <3>1, <3>2, <3>3, <3>4
    <2>3. CASE FailToCreate(h)
      BY <2>3 DEF FailToCreate, hub
    <2>4. CASE FindInCache(h)
      BY <2>4 DEF FindInCache, StartWorker, Respond, Goto
    <2>5. CASE MissCache(h)
      BY <2>5 DEF MissCache, Goto, hub
    <2>6. CASE FailToLookUp(h)
      BY <2>6 DEF FailToLookUp, CloseInput, Respond, Goto, hub
    <2>7. CASE Process(h)
      BY <2>7 DEF Process, StartWorker, Goto
    <2>8. CASE FailToProcess(h)
      BY <2>8 DEF FailToProcess, Goto, hub
    <2>9. CASE SaveImageInCache(h)
      <3>1. saver' \in [Handlers -> {"none", "reading", "storing"}]
        BY <2>9 DEF SaveImageInCache
      <3>2. responses' \in [Handlers -> Seq({"ok", "error", "fallback"})]
        BY <2>9 DEF SaveImageInCache, Respond
      <3>3. pc' \in [Handlers -> {"idle", "lookup", "process", "save",
                                 "fallback", "serve", "return"}]
        BY <2>9 DEF SaveImageInCache, Goto
      <3>4. QED
        BY <2>9, <3>1, <3>2, <3>3 DEF SaveImageInCache, hub
    <2>10. CASE FetchFallback(h)
      BY <2>10 DEF FetchFallback, StartWorker, Respond, Goto
    <2>11. CASE FailToFetch(h)
      BY <2>11 DEF FailToFetch, CloseInput, Respond, Goto, hub
    <2>12. CASE Return(h)
      BY <2>12 DEF Return, Finish, LeaveStream, Goto, hub
    <2>13. CASE Serve(h)
      BY <2>13 DEF Serve, Finish, LeaveStream, Goto, hub
    <2>14. CASE Leave(h)
      BY <2>14 DEF Leave, Finish, LeaveStream, Goto, hub
    <2>15. CASE Timeout(h)
      BY <2>15 DEF Timeout, hub
    <2>16. CASE WorkerStep(h)
      BY <2>16 DEF WorkerStep, CloseInput, hub
    <2>17. CASE SaverReads(h)
      BY <2>17 DEF SaverReads, EndSave, LeaveStream, hub
    <2>18. CASE SaverStores(h)
      BY <2>18 DEF SaverStores, EndSave, LeaveStream, hub
    <2>19. QED
      BY <1>3, <2>1, <2>2, <2>3, <2>4, <2>5, <2>6, <2>7, <2>8, <2>9, <2>10,
         <2>11, <2>12, <2>13, <2>14, <2>15, <2>16, <2>17, <2>18
         DEF HandlerStep, Answer, Goroutines
  <1>4. QED
    BY <1>1, <1>2, <1>3 DEF Next, HandlerStep

\* Every variable of the proxy always has its type.
THEOREM TypeCorrect == Spec => []TypeOK
  BY TypeInit, TypeStep, PTL DEF Spec

----------------------------------------------------------------------------
(* OpenIsAttended is inductive: whoever holds the input either is at a     *)
(* step of Handle that still disposes of it or has started a worker.       *)

\* No stream exists before the first request.
LEMMA AttendedInit == Init => OpenIsAttended
  BY DEF Init, OpenIsAttended

\* No step of Handle or of a goroutine drops an open input.
LEMMA AttendedStep ==
    TypeOK /\ OpenIsAttended /\ [Next]_vars => OpenIsAttended'
  <1> SUFFICES ASSUME TypeOK, OpenIsAttended, [Next]_vars
               PROVE OpenIsAttended'
    OBVIOUS
  <1> USE DEF OpenIsAttended, TypeOK, At, Goto
  <1>1. CASE UNCHANGED vars
    BY <1>1 DEF vars, hub
  <1>2. CASE Evict
    BY <1>2 DEF Evict, hub
  <1>3. ASSUME NEW h \in Handlers, HandlerStep(h) PROVE OpenIsAttended'
    <2>1. CASE Reject(h)
      BY <2>1 DEF Reject, hub
    <2>2. CASE GetOrCreateStream(h)
      <3> h \notin inputs
        BY <2>2 DEF GetOrCreateStream
      <3>1. CASE stream = "none"
        BY <2>2, <3>1 DEF GetOrCreateStream, hub
      <3>2. CASE stream # "none"
        BY <2>2, <3>2 DEF GetOrCreateStream, hub
      <3>3. QED
        BY <3>1, <3>2
    <2>3. CASE FailToCreate(h)
      BY <2>3 DEF FailToCreate, hub
    <2>4. CASE FindInCache(h)
      BY <2>4 DEF FindInCache, StartWorker
    <2>5. CASE MissCache(h)
      BY <2>5 DEF MissCache, hub
    <2>6. CASE FailToLookUp(h)
      BY <2>6 DEF FailToLookUp, CloseInput, hub
    <2>7. CASE Process(h)
      BY <2>7 DEF Process, StartWorker
    <2>8. CASE FailToProcess(h)
      BY <2>8 DEF FailToProcess, hub
    <2>9. CASE SaveImageInCache(h)
      BY <2>9 DEF SaveImageInCache, hub
    <2>10. CASE FetchFallback(h)
      BY <2>10 DEF FetchFallback, StartWorker
    <2>11. CASE FailToFetch(h)
      BY <2>11 DEF FailToFetch, CloseInput, hub
    <2>12. CASE Return(h)
      BY <2>12 DEF Return, Finish, LeaveStream, hub
    <2>13. CASE Serve(h)
      BY <2>13 DEF Serve, Finish, LeaveStream, hub
    <2>14. CASE Leave(h)
      BY <2>14 DEF Leave, Finish, LeaveStream, hub
    <2>15. CASE Timeout(h)
      BY <2>15 DEF Timeout, hub
    <2>16. CASE WorkerStep(h)
      BY <2>16 DEF WorkerStep, CloseInput, hub
    <2>17. CASE SaverReads(h)
      BY <2>17 DEF SaverReads, EndSave, LeaveStream, hub
    <2>18. CASE SaverStores(h)
      BY <2>18 DEF SaverStores, EndSave, LeaveStream, hub
    <2>19. QED
      BY <1>3, <2>1, <2>2, <2>3, <2>4, <2>5, <2>6, <2>7, <2>8, <2>9, <2>10,
         <2>11, <2>12, <2>13, <2>14, <2>15, <2>16, <2>17, <2>18
         DEF HandlerStep, Answer, Goroutines
  <1>4. QED
    BY <1>1, <1>2, <1>3 DEF Next, HandlerStep

\* An open stream always has its one input in the hands of a handler that has
\* still to decide about it or of a worker: no path of Handle leaks it.
THEOREM AttendedCorrect == Spec => []OpenIsAttended
  BY TypeInit, TypeStep, AttendedInit, AttendedStep, PTL DEF Spec

----------------------------------------------------------------------------
(* Why only processed images are cached.  A saver belongs to the stream    *)
(* whose owner started it: until the owner has chosen a worker its stream  *)
(* is empty and has no saver, and a stream lives while a saver reads it.   *)

Undecided == {"lookup", "process", "fallback"}

\* A handler in a call has its output open; before it starts a worker it has
\* none, and its input is open unless the cache failed.
HandlersHold ==
    \A h \in Handlers :
        /\ pc[h] # "idle" => h \in outputs
        /\ pc[h] \in Undecided =>
             /\ worker[h] = "none"
             /\ h \notin inputs => stream = "failed"

NoneIsEmpty ==
    stream = "none" =>
        /\ content = "none"
        /\ outputs = {}
        /\ \A h \in Handlers : saver[h] = "none"

\* No saver before the owner has decided.
UndecidedIsEmpty ==
    \A h \in Handlers : h \in inputs /\ pc[h] \in Undecided =>
        \A g \in Handlers : saver[g] = "none" /\ pc[g] # "save"

SaverReadsProcessed ==
    \A h \in Handlers :
        /\ pc[h] = "save" \/ saver[h] = "reading" =>
             stream = "failed" \/ content = "processed"
        /\ saver[h] = "storing" => stream = "ended" /\ content = "processed"

SaveInv ==
    /\ HandlersHold
    /\ NoneIsEmpty
    /\ UndecidedIsEmpty
    /\ SaverReadsProcessed
    /\ OnlyProcessedIsCached

\* The cache and the hub start empty.
LEMMA SaveInit == Init => SaveInv
  BY DEF Init, SaveInv, HandlersHold, NoneIsEmpty, UndecidedIsEmpty,
         SaverReadsProcessed, OnlyProcessedIsCached, Undecided

\* Each step keeps savers on the processed stream they were started for.
LEMMA SaveStep ==
    TypeOK /\ OpenIsAttended /\ SaveInv /\ [Next]_vars => SaveInv'
  <1> SUFFICES ASSUME TypeOK, OpenIsAttended, SaveInv, [Next]_vars
               PROVE SaveInv'
    OBVIOUS
  <1> USE DEF OpenIsAttended, TypeOK, At, Goto, Undecided, SaveInv, Saving,
              HandlersHold, NoneIsEmpty, UndecidedIsEmpty,
              SaverReadsProcessed, OnlyProcessedIsCached
  <1>1. CASE UNCHANGED vars
    BY <1>1 DEF vars, hub
  <1>2. CASE Evict
    BY <1>2 DEF Evict, hub
  <1>3. ASSUME NEW h \in Handlers, HandlerStep(h) PROVE SaveInv'
    <2>1. CASE Reject(h)
      <3>1. HandlersHold'
        BY <2>1 DEF Reject, hub
      <3>2. NoneIsEmpty'
        BY <2>1 DEF Reject, hub
      <3>3. UndecidedIsEmpty'
        BY <2>1 DEF Reject, hub
      <3>4. SaverReadsProcessed'
        BY <2>1 DEF Reject, hub
      <3>5. OnlyProcessedIsCached'
        BY <2>1 DEF Reject, hub
      <3>6. QED
        BY <3>1, <3>2, <3>3, <3>4, <3>5
    <2>2. CASE GetOrCreateStream(h)
      <3>1. HandlersHold'
        BY <2>2 DEF GetOrCreateStream, hub
      <3>2. NoneIsEmpty'
        BY <2>2 DEF GetOrCreateStream, hub
      <3>3. UndecidedIsEmpty'
        <4>1. CASE stream = "none"
          <5>1. inputs = {} /\ (\A g \in Handlers : saver[g] = "none" /\ pc[g] # "save")
            BY <4>1
          <5>2. \A g \in Handlers : saver'[g] = "none" /\ pc'[g] # "save"
            BY <2>2, <4>1, <5>1 DEF GetOrCreateStream
          <5>3. QED
            BY <5>2
        <4>2. CASE stream # "none"
          <5>1. \A g \in Handlers : pc'[g] = pc[g] \/ pc'[g] = "serve"
            BY <2>2, <4>2 DEF GetOrCreateStream
          <5>2. UNCHANGED <<inputs, saver>>
            BY <2>2, <4>2 DEF GetOrCreateStream, hub
          <5>3. QED
            BY <5>1, <5>2
        <4>3. QED
          BY <4>1, <4>2
      <3>4. SaverReadsProcessed'
        <4>1. CASE stream = "none"
          BY <2>2, <4>1 DEF GetOrCreateStream, hub
        <4>2. CASE stream # "none"
          <5>1. UNCHANGED <<stream, content, saver>>
            BY <2>2, <4>2 DEF GetOrCreateStream, hub
          <5>2. \A g \in Handlers : pc'[g] = "save" => pc[g] = "save"
            BY <2>2, <4>2 DEF GetOrCreateStream
          <5>3. QED
            BY <5>1, <5>2
        <4>3. QED
          BY <4>1, <4>2
      <3>5. OnlyProcessedIsCached'
        BY <2>2 DEF GetOrCreateStream, hub
      <3>6. QED
        BY <3>1, <3>2, <3>3, <3>4, <3>5
    <2>3. CASE FailToCreate(h)
      <3>1. HandlersHold'
        BY <2>3 DEF FailToCreate, hub
      <3>2. NoneIsEmpty'
        BY <2>3 DEF FailToCreate, hub
      <3>3. UndecidedIsEmpty'
        BY <2>3 DEF FailToCreate, hub
      <3>4. SaverReadsProcessed'
        BY <2>3 DEF FailToCreate, hub
      <3>5. OnlyProcessedIsCached'
        BY <2>3 DEF FailToCreate, hub
      <3>6. QED
        BY <3>1, <3>2, <3>3, <3>4, <3>5
    <2>4. CASE FindInCache(h)
      <3>1. HandlersHold'
        BY <2>4 DEF FindInCache, StartWorker, hub
      <3>2. NoneIsEmpty'
        BY <2>4 DEF FindInCache, StartWorker, hub
      <3>3. UndecidedIsEmpty'
        BY <2>4 DEF FindInCache, StartWorker, hub
      <3>4. SaverReadsProcessed'
        BY <2>4 DEF FindInCache, StartWorker, hub
      <3>5. OnlyProcessedIsCached'
        BY <2>4 DEF FindInCache, StartWorker, hub
      <3>6. QED
        BY <3>1, <3>2, <3>3, <3>4, <3>5
    <2>5. CASE MissCache(h)
      <3>1. HandlersHold'
        BY <2>5 DEF MissCache, hub
      <3>2. NoneIsEmpty'
        BY <2>5 DEF MissCache, hub
      <3>3. UndecidedIsEmpty'
        BY <2>5 DEF MissCache, hub
      <3>4. SaverReadsProcessed'
        BY <2>5 DEF MissCache, hub
      <3>5. OnlyProcessedIsCached'
        BY <2>5 DEF MissCache, hub
      <3>6. QED
        BY <3>1, <3>2, <3>3, <3>4, <3>5
    <2>6. CASE FailToLookUp(h)
      <3>1. HandlersHold'
        BY <2>6 DEF FailToLookUp, CloseInput, hub
      <3>2. NoneIsEmpty'
        BY <2>6 DEF FailToLookUp, CloseInput, hub
      <3>3. UndecidedIsEmpty'
        BY <2>6 DEF FailToLookUp, CloseInput, hub
      <3>4. SaverReadsProcessed'
        BY <2>6 DEF FailToLookUp, CloseInput, hub
      <3>5. OnlyProcessedIsCached'
        BY <2>6 DEF FailToLookUp, CloseInput, hub
      <3>6. QED
        BY <3>1, <3>2, <3>3, <3>4, <3>5
    <2>7. CASE Process(h)
      <3>1. HandlersHold'
        BY <2>7 DEF Process, StartWorker, hub
      <3>2. NoneIsEmpty'
        BY <2>7 DEF Process, StartWorker, hub
      <3>3. UndecidedIsEmpty'
        BY <2>7 DEF Process, StartWorker, hub
      <3>4. SaverReadsProcessed'
        BY <2>7 DEF Process, StartWorker, hub
      <3>5. OnlyProcessedIsCached'
        BY <2>7 DEF Process, StartWorker, hub
      <3>6. QED
        BY <3>1, <3>2, <3>3, <3>4, <3>5
    <2>8. CASE FailToProcess(h)
      <3>1. HandlersHold'
        BY <2>8 DEF FailToProcess, hub
      <3>2. NoneIsEmpty'
        BY <2>8 DEF FailToProcess, hub
      <3>3. UndecidedIsEmpty'
        BY <2>8 DEF FailToProcess, hub
      <3>4. SaverReadsProcessed'
        BY <2>8 DEF FailToProcess, hub
      <3>5. OnlyProcessedIsCached'
        BY <2>8 DEF FailToProcess, hub
      <3>6. QED
        BY <3>1, <3>2, <3>3, <3>4, <3>5
    <2>9. CASE SaveImageInCache(h)
      <3>1. HandlersHold'
        BY <2>9 DEF SaveImageInCache, hub
      <3>2. NoneIsEmpty'
        BY <2>9 DEF SaveImageInCache, hub
      <3>3. UndecidedIsEmpty'
        BY <2>9 DEF SaveImageInCache, hub
      <3>4. SaverReadsProcessed'
        BY <2>9 DEF SaveImageInCache, hub
      <3>5. OnlyProcessedIsCached'
        BY <2>9 DEF SaveImageInCache, hub
      <3>6. QED
        BY <3>1, <3>2, <3>3, <3>4, <3>5
    <2>10. CASE FetchFallback(h)
      <3>1. HandlersHold'
        BY <2>10 DEF FetchFallback, StartWorker, hub
      <3>2. NoneIsEmpty'
        BY <2>10 DEF FetchFallback, StartWorker, hub
      <3>3. UndecidedIsEmpty'
        BY <2>10 DEF FetchFallback, StartWorker, hub
      <3>4. SaverReadsProcessed'
        BY <2>10 DEF FetchFallback, StartWorker, hub
      <3>5. OnlyProcessedIsCached'
        BY <2>10 DEF FetchFallback, StartWorker, hub
      <3>6. QED
        BY <3>1, <3>2, <3>3, <3>4, <3>5
    <2>11. CASE FailToFetch(h)
      <3>1. HandlersHold'
        BY <2>11 DEF FailToFetch, CloseInput, hub
      <3>2. NoneIsEmpty'
        BY <2>11 DEF FailToFetch, CloseInput, hub
      <3>3. UndecidedIsEmpty'
        BY <2>11 DEF FailToFetch, CloseInput, hub
      <3>4. SaverReadsProcessed'
        BY <2>11 DEF FailToFetch, CloseInput, hub
      <3>5. OnlyProcessedIsCached'
        BY <2>11 DEF FailToFetch, CloseInput, hub
      <3>6. QED
        BY <3>1, <3>2, <3>3, <3>4, <3>5
    <2>12. CASE Return(h)
      <3>1. HandlersHold'
        BY <2>12 DEF Return, Finish, LeaveStream, hub
      <3>2. NoneIsEmpty'
        BY <2>12 DEF Return, Finish, LeaveStream, hub
      <3>3. UndecidedIsEmpty'
        BY <2>12 DEF Return, Finish, LeaveStream, hub
      <3>4. SaverReadsProcessed'
        BY <2>12 DEF Return, Finish, LeaveStream, hub
      <3>5. OnlyProcessedIsCached'
        BY <2>12 DEF Return, Finish, LeaveStream, hub
      <3>6. QED
        BY <3>1, <3>2, <3>3, <3>4, <3>5
    <2>13. CASE Serve(h)
      <3>1. HandlersHold'
        BY <2>13 DEF Serve, Finish, LeaveStream, hub
      <3>2. NoneIsEmpty'
        BY <2>13 DEF Serve, Finish, LeaveStream, hub
      <3>3. UndecidedIsEmpty'
        BY <2>13 DEF Serve, Finish, LeaveStream, hub
      <3>4. SaverReadsProcessed'
        BY <2>13 DEF Serve, Finish, LeaveStream, hub
      <3>5. OnlyProcessedIsCached'
        BY <2>13 DEF Serve, Finish, LeaveStream, hub
      <3>6. QED
        BY <3>1, <3>2, <3>3, <3>4, <3>5
    <2>14. CASE Leave(h)
      <3>1. HandlersHold'
        BY <2>14 DEF Leave, Finish, LeaveStream, hub
      <3>2. NoneIsEmpty'
        BY <2>14 DEF Leave, Finish, LeaveStream, hub
      <3>3. UndecidedIsEmpty'
        BY <2>14 DEF Leave, Finish, LeaveStream, hub
      <3>4. SaverReadsProcessed'
        BY <2>14 DEF Leave, Finish, LeaveStream, hub
      <3>5. OnlyProcessedIsCached'
        BY <2>14 DEF Leave, Finish, LeaveStream, hub
      <3>6. QED
        BY <3>1, <3>2, <3>3, <3>4, <3>5
    <2>15. CASE Timeout(h)
      <3>1. HandlersHold'
        BY <2>15 DEF Timeout, hub
      <3>2. NoneIsEmpty'
        BY <2>15 DEF Timeout, hub
      <3>3. UndecidedIsEmpty'
        BY <2>15 DEF Timeout, hub
      <3>4. SaverReadsProcessed'
        BY <2>15 DEF Timeout, hub
      <3>5. OnlyProcessedIsCached'
        BY <2>15 DEF Timeout, hub
      <3>6. QED
        BY <3>1, <3>2, <3>3, <3>4, <3>5
    <2>16. CASE WorkerStep(h)
      <3>1. HandlersHold'
        BY <2>16 DEF WorkerStep, CloseInput, hub
      <3>2. NoneIsEmpty'
        BY <2>16 DEF WorkerStep, CloseInput, hub
      <3>3. UndecidedIsEmpty'
        BY <2>16 DEF WorkerStep, CloseInput, hub
      <3>4. SaverReadsProcessed'
        BY <2>16 DEF WorkerStep, CloseInput, hub
      <3>5. OnlyProcessedIsCached'
        BY <2>16 DEF WorkerStep, CloseInput, hub
      <3>6. QED
        BY <3>1, <3>2, <3>3, <3>4, <3>5
    <2>17. CASE SaverReads(h)
      <3>1. HandlersHold'
        BY <2>17 DEF SaverReads, EndSave, LeaveStream, hub
      <3>2. NoneIsEmpty'
        <4>1. CASE UNCHANGED hub
          BY <2>17, <4>1 DEF SaverReads, hub
        <4>2. CASE ~ UNCHANGED hub
          <5>1. /\ outputs = {} /\ content' = "none" /\ outputs' = outputs
                /\ \A g \in Handlers \ {h} : saver[g] = "none"
                /\ saver' = [saver EXCEPT ![h] = "none"]
            BY <2>17, <4>2 DEF SaverReads, EndSave, LeaveStream
          <5>2. QED
            BY <5>1
        <4>3. QED
          BY <4>1, <4>2
      <3>3. UndecidedIsEmpty'
        <4>1. \A g \in Handlers : ~ (g \in inputs /\ pc[g] \in Undecided)
          BY <2>17 DEF SaverReads
        <4>2. UNCHANGED <<pc, inputs>>
          BY <2>17 DEF SaverReads, EndSave, LeaveStream, hub
        <4>3. QED
          BY <4>1, <4>2
      <3>4. SaverReadsProcessed'
        BY <2>17 DEF SaverReads, EndSave, LeaveStream, hub
      <3>5. OnlyProcessedIsCached'
        BY <2>17 DEF SaverReads, EndSave, LeaveStream, hub
      <3>6. QED
        BY <3>1, <3>2, <3>3, <3>4, <3>5
    <2>18. CASE SaverStores(h)
      <3>1. HandlersHold'
        BY <2>18 DEF SaverStores, EndSave, LeaveStream, hub
      <3>2. NoneIsEmpty'
        BY <2>18 DEF SaverStores, EndSave, LeaveStream, hub
      <3>3. UndecidedIsEmpty'
        BY <2>18 DEF SaverStores, EndSave, LeaveStream, hub
      <3>4. SaverReadsProcessed'
        BY <2>18 DEF SaverStores, EndSave, LeaveStream, hub
      <3>5. OnlyProcessedIsCached'
        BY <2>18 DEF SaverStores, EndSave, LeaveStream, hub
      <3>6. QED
        BY <3>1, <3>2, <3>3, <3>4, <3>5
    <2>19. QED
      BY <1>3, <2>1, <2>2, <2>3, <2>4, <2>5, <2>6, <2>7, <2>8, <2>9, <2>10,
         <2>11, <2>12, <2>13, <2>14, <2>15, <2>16, <2>17, <2>18
         DEF HandlerStep, Answer, Goroutines
  <1>4. QED
    BY <1>1, <1>2, <1>3 DEF Next, HandlerStep

\* The cache never holds a fallback, nor what a failed or cancelled fetch left
\* of an image, whatever the interleaving of handlers, workers and savers.
THEOREM OnlyProcessedCorrect == Spec => []OnlyProcessedIsCached
  <1>1. Init => TypeOK /\ OpenIsAttended /\ SaveInv
    BY TypeInit, AttendedInit, SaveInit
  <1>2. TypeOK /\ OpenIsAttended /\ SaveInv /\ [Next]_vars
          => TypeOK' /\ OpenIsAttended' /\ SaveInv'
    BY TypeStep, AttendedStep, SaveStep
  <1>3. SaveInv => OnlyProcessedIsCached
    BY DEF SaveInv
  <1>4. QED
    BY <1>1, <1>2, <1>3, PTL DEF Spec
----------------------------------------------------------------------------
(* Why a user has one answer.  An owner that has not decided has answered  *)
(* nothing, unless its look-up failed; then it is on a stream that failed  *)
(* with "cache", and while it is in Handle its output keeps that stream.   *)

CauseIsFailure == cause # "none" => stream = "failed"

\* What the owner has answered before it serves: nothing.
OwnersAnswers ==
    \A h \in Handlers :
        /\ pc[h] = "lookup" => h \in inputs /\ Len(responses[h]) = 0
        /\ pc[h] \in {"process", "fallback", "save"} =>
             Len(responses[h]) = 0 \/ cause = "cache"

AnswerInv ==
    /\ CauseIsFailure
    /\ OwnersAnswers
    /\ OneAnswer

\* The first request finds a hub without a failure and writes to a new user.
LEMMA AnswerInit == Init => AnswerInv
  BY DEF Init, AnswerInv, CauseIsFailure, OwnersAnswers, OneAnswer

\* An answer is written to one user; it is the first of one that had none.
LEMMA OneMoreAnswer ==
    ASSUME TypeOK, NEW h \in Handlers,
           NEW r \in {"ok", "error", "fallback"}, Respond(h, r)
    PROVE  /\ Len(responses[h]) = 0 => Len(responses'[h]) = 1
           /\ \A g \in Handlers \ {h} : responses'[g] = responses[g]
  <1>1. /\ responses[h] \in Seq({"ok", "error", "fallback"})
        /\ responses'[h] = Append(responses[h], r)
        /\ \A g \in Handlers \ {h} : responses'[g] = responses[g]
    BY DEF TypeOK, Respond
  <1>2. ASSUME NEW s \in Seq({"ok", "error", "fallback"}), Len(s) = 0
        PROVE  Len(Append(s, r)) = 1
    BY <1>2
  <1> QED
    BY Zenon, <1>1, <1>2

\* A Close of an input sets a cause only with a failure, and leaves one that
\* is set: the input of a failed stream is closed.
LEMMA CloseKeepsCause ==
    ASSUME TypeOK, OpenIsAttended, CauseIsFailure, NEW h \in Handlers,
           NEW end \in {"ended", "failed"}, NEW why,
           end = "ended" => why = "none",
           CloseInput(h, end, why)
    PROVE  CauseIsFailure' /\ (cause = "cache" => cause' = "cache")
  BY DEF TypeOK, OpenIsAttended, CauseIsFailure, CloseInput, hub

\* The last reader takes the cause with it; while there is another it stays.
LEMMA LeaveKeepsCause ==
    ASSUME CauseIsFailure, NEW readers, LeaveStream(readers)
    PROVE  /\ CauseIsFailure'
           /\ readers # {} => cause' = cause
           /\ inputs' = inputs
  BY DEF CauseIsFailure, LeaveStream, hub

\* A step that answers nobody, moves nobody and keeps a failed look-up's
\* cause for the handlers of the stream keeps the answers.
LEMMA QuietStep ==
    ASSUME TypeOK, OpenIsAttended, AnswerInv, CauseIsFailure',
           UNCHANGED <<pc, responses>>,
           \A h \in inputs : pc[h] = "lookup" => h \in inputs',
           (\E h \in Handlers : pc[h] # "idle") =>
               (cause = "cache" => cause' = "cache")
    PROVE  AnswerInv'
  <1>1. OwnersAnswers'
    BY DEF AnswerInv, OwnersAnswers, TypeOK
  <1>2. OneAnswer'
    BY DEF AnswerInv, OneAnswer, TypeOK
  <1> QED
    BY <1>1, <1>2 DEF AnswerInv

\* Handle's return keeps the answers of the handlers that stay.
LEMMA FinishStep ==
    ASSUME TypeOK, OpenIsAttended, HandlersHold, AnswerInv,
           NEW h \in Handlers, NEW how, Finish(h, how)
    PROVE  AnswerInv'
  <1>1. CauseIsFailure' /\ inputs' = inputs
    BY LeaveKeepsCause DEF AnswerInv, Finish
  <1>2. ASSUME NEW g \in Handlers, g # h, pc[g] # "idle"
        PROVE  cause' = cause
    <2>1. g \in outputs \ {h}
      BY <1>2 DEF HandlersHold
    <2> QED
      BY <2>1, LeaveKeepsCause DEF AnswerInv, Finish
  <1>3. responses' = responses /\ pc'[h] = "idle"
        /\ \A g \in Handlers \ {h} : pc'[g] = pc[g]
    BY DEF TypeOK, Finish, Goto
  <1>4. OwnersAnswers'
    BY <1>1, <1>2, <1>3 DEF AnswerInv, OwnersAnswers
  <1>5. OneAnswer'
    BY <1>2, <1>3 DEF AnswerInv, OneAnswer
  <1> QED
    BY <1>1, <1>4, <1>5 DEF AnswerInv

\* A step of the owner that moves it to its next label, on a stream that
\* keeps its cause, with as many answers as that label allows.
LEMMA OwnerStep ==
    ASSUME TypeOK, AnswerInv, CauseIsFailure', NEW h \in Handlers,
           NEW l \in {"process", "save", "fallback", "serve", "return"},
           Goto(h, l),
           cause = "cache" => cause' = "cache",
           \A g \in Handlers \ {h} : responses'[g] = responses[g],
           \A g \in inputs : g # h => g \in inputs',
           l \in {"process", "save", "fallback"} =>
               Len(responses'[h]) = 0 \/ cause' = "cache",
           l \in {"serve", "return"} =>
               Len(responses'[h]) = 1 \/ cause' = "cache"
    PROVE  AnswerInv'
  <1>1. pc'[h] = l /\ \A g \in Handlers \ {h} : pc'[g] = pc[g]
    BY DEF TypeOK, Goto
  <1>2. OwnersAnswers'
    BY <1>1 DEF AnswerInv, OwnersAnswers
  <1>3. OneAnswer'
    BY <1>1 DEF AnswerInv, OneAnswer
  <1> QED
    BY <1>2, <1>3 DEF AnswerInv

\* Each step of a handler or of its goroutines keeps the answers.
LEMMA AnswerStep ==
    TypeOK /\ OpenIsAttended /\ HandlersHold /\ AnswerInv /\ [Next]_vars
        => AnswerInv'
  <1> SUFFICES ASSUME TypeOK, OpenIsAttended, HandlersHold, AnswerInv,
                      [Next]_vars
               PROVE  AnswerInv'
    OBVIOUS
  <1>0. CauseIsFailure
    BY DEF AnswerInv
  <1>1. CASE UNCHANGED vars
    BY <1>1, QuietStep, <1>0 DEF vars, hub, CauseIsFailure
  <1>2. CASE Evict
    BY <1>2, QuietStep, <1>0 DEF Evict, hub, CauseIsFailure
  <1>3. ASSUME NEW h \in Handlers, HandlerStep(h) PROVE AnswerInv'
    <2>0. \A l \in {"process", "fallback", "save"} : pc[h] = l =>
             Len(responses[h]) = 0 \/ cause = "cache"
      BY DEF AnswerInv, OwnersAnswers
    <2>1. CASE Reject(h)
      <3>1. pc[h] = "idle" /\ UNCHANGED <<pc, hub>> /\ CauseIsFailure'
            /\ \A g \in Handlers \ {h} : responses'[g] = responses[g]
        BY <2>1, <1>0 DEF Reject, At, hub, CauseIsFailure, TypeOK
      <3> QED
        BY <3>1 DEF AnswerInv, OwnersAnswers, OneAnswer, hub
    <2>2. CASE GetOrCreateStream(h)
      <3>1. /\ pc[h] = "idle" /\ cause' = cause /\ inputs \subseteq inputs'
            /\ \A g \in Handlers \ {h} :
                 responses'[g] = responses[g] /\ pc'[g] = pc[g]
        BY <2>2 DEF GetOrCreateStream, At, Goto, hub, TypeOK
      <3>2. \/ pc'[h] = "lookup" /\ h \in inputs' /\ responses'[h] = <<>>
            \/ pc'[h] = "serve" /\ responses'[h] = <<"ok">>
        BY <2>2 DEF GetOrCreateStream, At, Goto, hub, TypeOK
      <3>3. \/ pc'[h] = "lookup" /\ h \in inputs' /\ Len(responses'[h]) = 0
            \/ pc'[h] = "serve" /\ Len(responses'[h]) = 1
        <4>1. Len(<<>>) = 0 /\ Len(<<"ok">>) = 1
          OBVIOUS
        <4> QED
          BY Zenon, <3>2, <4>1
      <3>4. CauseIsFailure'
        BY <2>2, <1>0 DEF GetOrCreateStream, hub, CauseIsFailure
      <3>5. OwnersAnswers'
        BY <3>1, <3>3 DEF AnswerInv, OwnersAnswers
      <3>6. OneAnswer'
        BY <3>1, <3>3 DEF AnswerInv, OneAnswer
      <3> QED
        BY <3>4, <3>5, <3>6 DEF AnswerInv
    <2>3. CASE FailToCreate(h)
      <3>1. pc[h] = "idle" /\ UNCHANGED <<pc, hub>> /\ CauseIsFailure'
            /\ \A g \in Handlers \ {h} : responses'[g] = responses[g]
        BY <2>3, <1>0 DEF FailToCreate, At, hub, CauseIsFailure, TypeOK
      <3> QED
        BY <3>1 DEF AnswerInv, OwnersAnswers, OneAnswer, hub
    <2>4. CASE FindInCache(h)
      <3>1. Len(responses[h]) = 0
        BY <2>4 DEF FindInCache, At, AnswerInv, OwnersAnswers
      <3>2. /\ Goto(h, "serve") /\ UNCHANGED <<stream, cause, inputs>>
            /\ Respond(h, "ok")
        BY <2>4 DEF FindInCache
      <3>3. CauseIsFailure'
        BY <3>2, <1>0 DEF CauseIsFailure
      <3>4. Len(responses'[h]) = 1
            /\ \A g \in Handlers \ {h} : responses'[g] = responses[g]
        BY <3>1, <3>2, OneMoreAnswer
      <3> QED
        BY <3>2, <3>3, <3>4, OwnerStep
    <2>5. CASE MissCache(h)
      <3>1. Len(responses[h]) = 0
        BY <2>5 DEF MissCache, At, AnswerInv, OwnersAnswers
      <3>2. Goto(h, "process") /\ UNCHANGED <<responses, hub>>
        BY <2>5 DEF MissCache
      <3>3. CauseIsFailure'
        BY <3>2, <1>0 DEF CauseIsFailure, hub
      <3> QED
        BY <3>1, <3>2, <3>3, OwnerStep DEF hub
    <2>6. CASE FailToLookUp(h)
      <3>1. h \in inputs /\ h \in outputs
        BY <2>6 DEF FailToLookUp, At, AnswerInv, OwnersAnswers, HandlersHold
      <3>2. /\ Goto(h, "process") /\ CloseInput(h, "failed", "cache")
            /\ Respond(h, "error")
        BY <2>6 DEF FailToLookUp
      <3>3. CauseIsFailure'
        BY <3>2, <1>0, CloseKeepsCause
      <3>4. cause' = "cache" /\ \A g \in inputs : g # h => g \in inputs'
        BY <3>1, <3>2 DEF CloseInput
      <3>5. \A g \in Handlers \ {h} : responses'[g] = responses[g]
        BY <3>2, OneMoreAnswer
      <3> QED
        BY <3>2, <3>3, <3>4, <3>5, OwnerStep
    <2>7. CASE Process(h)
      <3>1. /\ Goto(h, "save") /\ UNCHANGED <<responses, stream, cause, inputs>>
            /\ pc[h] = "process"
        BY <2>7 DEF Process, At
      <3>2. CauseIsFailure'
        BY <3>1, <1>0 DEF CauseIsFailure
      <3> QED
        BY <2>0, <3>1, <3>2, OwnerStep
    <2>8. CASE FailToProcess(h)
      <3>1. /\ Goto(h, "fallback") /\ UNCHANGED <<responses, hub>>
            /\ pc[h] = "process"
        BY <2>8 DEF FailToProcess, At
      <3>2. CauseIsFailure'
        BY <3>1, <1>0 DEF CauseIsFailure, hub
      <3> QED
        BY <2>0, <3>1, <3>2, OwnerStep DEF hub
    <2>9. CASE SaveImageInCache(h)
      <3>1. /\ Goto(h, "serve") /\ UNCHANGED hub /\ Respond(h, "ok")
            /\ pc[h] = "save"
        BY <2>9 DEF SaveImageInCache, At
      <3>2. CauseIsFailure'
        BY <3>1, <1>0 DEF CauseIsFailure, hub
      <3>3. (Len(responses'[h]) = 1 \/ cause = "cache")
            /\ \A g \in Handlers \ {h} : responses'[g] = responses[g]
        BY <2>0, <3>1, OneMoreAnswer
      <3> QED
        BY <3>1, <3>2, <3>3, OwnerStep DEF hub
    <2>10. CASE FetchFallback(h)
      <3>1. /\ Goto(h, "serve") /\ UNCHANGED <<stream, cause, inputs>>
            /\ Respond(h, "fallback") /\ pc[h] = "fallback"
        BY <2>10 DEF FetchFallback, At
      <3>2. CauseIsFailure'
        BY <3>1, <1>0 DEF CauseIsFailure
      <3>3. (Len(responses'[h]) = 1 \/ cause = "cache")
            /\ \A g \in Handlers \ {h} : responses'[g] = responses[g]
        BY <2>0, <3>1, OneMoreAnswer
      <3> QED
        BY <3>1, <3>2, <3>3, OwnerStep
    <2>11. CASE FailToFetch(h)
      <3>1. /\ Goto(h, "return") /\ Respond(h, "error") /\ pc[h] = "fallback"
            /\ \E why : CloseInput(h, "failed", why)
        BY <2>11 DEF FailToFetch, At
      <3>2. CauseIsFailure' /\ (cause = "cache" => cause' = "cache")
        BY <3>1, <1>0, CloseKeepsCause
      <3>3. \A g \in inputs : g # h => g \in inputs'
        BY <3>1 DEF CloseInput, hub
      <3>4. (Len(responses'[h]) = 1 \/ cause = "cache")
            /\ \A g \in Handlers \ {h} : responses'[g] = responses[g]
        BY <2>0, <3>1, OneMoreAnswer
      <3> QED
        BY <3>1, <3>2, <3>3, <3>4, OwnerStep
    <2>12. CASE Return(h) \/ Serve(h) \/ Leave(h)
      BY <2>12, FinishStep DEF Return, Serve, Leave
    <2>13. CASE Timeout(h)
      BY <2>13, QuietStep, <1>0 DEF Timeout, hub, CauseIsFailure
    <2>14. CASE WorkerStep(h)
      <3>1. PICK end \in {"ended", "failed"}, why \in {"none", "source", "cancel"} :
               CloseInput(h, end, why) /\ (end = "ended" => why = "none")
        BY <2>14 DEF WorkerStep
      <3>2. CauseIsFailure' /\ (cause = "cache" => cause' = "cache")
        BY <3>1, <1>0, CloseKeepsCause
      <3>3. \A g \in inputs : pc[g] = "lookup" => g \in inputs'
        <4>1. pc[h] # "lookup"
          BY <2>14 DEF WorkerStep, HandlersHold, Undecided
        <4> QED
          BY <3>1, <4>1 DEF CloseInput, hub
      <3>4. UNCHANGED <<pc, responses>>
        BY <2>14 DEF WorkerStep
      <3> QED
        BY <3>2, <3>3, <3>4, QuietStep
    <2>15. CASE SaverReads(h) \/ SaverStores(h)
      <3>1. /\ UNCHANGED <<pc, responses, outputs>>
            /\ \/ UNCHANGED hub
               \/ LeaveStream(outputs \cup (Saving \ {h}))
        BY <2>15 DEF SaverReads, SaverStores, EndSave
      <3>2. CauseIsFailure' /\ inputs' = inputs
            /\ (outputs # {} => cause' = cause)
        BY <3>1, <1>0, LeaveKeepsCause DEF hub, CauseIsFailure
      <3>3. (\E g \in Handlers : pc[g] # "idle") => outputs # {}
        BY DEF HandlersHold
      <3> QED
        BY <3>1, <3>2, <3>3, QuietStep
    <2> QED
      BY <1>3, <2>1, <2>2, <2>3, <2>4, <2>5, <2>6, <2>7, <2>8, <2>9, <2>10,
         <2>11, <2>12, <2>13, <2>14, <2>15
         DEF HandlerStep, Answer, Goroutines
  <1> QED
    BY <1>1, <1>2, <1>3 DEF Next, HandlerStep

\* A user is answered once, wherever in Handle the answer is written; the one
\* path that answers twice is that of a failed look-up, which goes on.
THEOREM OneAnswerCorrect == Spec => []OneAnswer
  <1>1. Init => TypeOK /\ OpenIsAttended /\ SaveInv /\ AnswerInv
    BY TypeInit, AttendedInit, SaveInit, AnswerInit
  <1>2. TypeOK /\ OpenIsAttended /\ SaveInv /\ AnswerInv /\ [Next]_vars
          => TypeOK' /\ OpenIsAttended' /\ SaveInv' /\ AnswerInv'
    BY TypeStep, AttendedStep, SaveStep, AnswerStep DEF SaveInv
  <1>3. AnswerInv => OneAnswer
    BY DEF AnswerInv
  <1>4. QED
    BY <1>1, <1>2, <1>3, PTL DEF Spec

----------------------------------------------------------------------------
(* One owner.  A stream is created when nobody reads one, and its owner    *)
(* reads it until it serves, and its saver until the image is saved.       *)

\* A handler that looks the image up, has it made, or whose saver is at work.
Owner(h) == pc[h] \in {"lookup", "process", "save", "fallback"} \/ saver[h] # "none"

\* The requests for one image look it up and save it one after the other.
OneOwner == \A h, g \in Handlers : Owner(h) /\ Owner(g) => h = g

\* A step with which nobody becomes an owner.
LEMMA OwnersFrame ==
    ASSUME OneOwner, \A g \in Handlers : Owner(g)' => Owner(g)
    PROVE  OneOwner'
  BY DEF OneOwner

\* A handler becomes an owner when it creates the stream: nobody reads one.
LEMMA OwnersStep ==
    TypeOK /\ SaveInv /\ OneOwner /\ [Next]_vars => OneOwner'
  <1> SUFFICES ASSUME TypeOK, SaveInv, OneOwner, [Next]_vars
               PROVE OneOwner'
    OBVIOUS
  <1> USE DEF TypeOK, At, Goto, Owner
  <1>1. CASE UNCHANGED vars
    BY <1>1, OwnersFrame DEF vars
  <1>2. CASE Evict
    BY <1>2, OwnersFrame DEF Evict
  <1>3. ASSUME NEW h \in Handlers, HandlerStep(h) PROVE OneOwner'
    <2>1. CASE GetOrCreateStream(h) /\ stream = "none"
      <3>1. \A g \in Handlers : pc[g] = "idle" /\ saver[g] = "none"
        BY <2>1 DEF SaveInv, HandlersHold, NoneIsEmpty
      <3>2. \A g \in Handlers \ {h} : pc'[g] = "idle"
        BY <2>1, <3>1 DEF GetOrCreateStream
      <3>3. \A g \in Handlers : saver'[g] = "none"
        BY <2>1, <3>1 DEF GetOrCreateStream
      <3>4. QED
        BY <3>2, <3>3 DEF OneOwner
    <2>2. CASE GetOrCreateStream(h) /\ stream # "none"
      BY <2>2, OwnersFrame DEF GetOrCreateStream
    <2>3. CASE Reject(h) \/ FailToCreate(h) \/ Timeout(h)
      BY <2>3, OwnersFrame DEF Reject, FailToCreate, Timeout
    <2>4. CASE FindInCache(h) \/ MissCache(h) \/ FailToLookUp(h)
      BY <2>4, OwnersFrame DEF FindInCache, MissCache, FailToLookUp
    <2>5. CASE Process(h) \/ FailToProcess(h)
      BY <2>5, OwnersFrame DEF Process, FailToProcess
    <2>6. CASE SaveImageInCache(h)
      BY <2>6, OwnersFrame DEF SaveImageInCache
    <2>7. CASE FetchFallback(h) \/ FailToFetch(h)
      BY <2>7, OwnersFrame DEF FetchFallback, FailToFetch
    <2>8. CASE Return(h) \/ Serve(h) \/ Leave(h)
      BY <2>8, OwnersFrame DEF Return, Serve, Leave, Finish
    <2>9. CASE WorkerStep(h)
      BY <2>9, OwnersFrame DEF WorkerStep
    <2>10. CASE SaverReads(h) \/ SaverStores(h)
      BY <2>10, OwnersFrame DEF SaverReads, SaverStores, EndSave
    <2>11. QED
      BY <1>3, <2>1, <2>2, <2>3, <2>4, <2>5, <2>6, <2>7, <2>8, <2>9, <2>10
         DEF HandlerStep, Answer, Goroutines
  <1>4. QED
    BY <1>1, <1>2, <1>3 DEF Next, HandlerStep

(***************************************************************************)
(* For any requests and failures, one handler at a time is between the     *)
(* look-up of the image and the end of its save (proxy_service.go:121 to   *)
(* cache_service.go:56): while the hub keeps a stream for its readers, two *)
(* saves of an image do not overlap.  This is what Cache assumes as        *)
(* OneStream, and with which it has at most one document for an image.     *)
(***************************************************************************)
THEOREM OneOwnerCorrect == Spec => []OneOwner
  <1>1. Init => OneOwner
    BY DEF Init, OneOwner, Owner
  <1>2. QED
    BY <1>1, TypeInit, TypeStep, AttendedInit, AttendedStep, SaveInit, SaveStep,
       OwnersStep, PTL DEF Spec

=============================================================================
