--------------------------- MODULE TopicRegistry ---------------------------
(***************************************************************************)
(* What notification_hub.go promises to the storage: a registry of topics  *)
(* whose requests are each served in one step.  A process asks, is served  *)
(* at some later moment and takes its answer.  A request to listen is      *)
(* served at once only if there is no such topic; otherwise its answer     *)
(* comes with the next notification, or with the close, of the topic.      *)
(* NotificationHub refines this module; the monitor steps of Storage are   *)
(* its Serve steps.                                                        *)
(***************************************************************************)
CONSTANTS Procs, Topics, Absent, NoAnswer

Kinds  == {"register", "close", "send", "listen"}
Errors == {"nil", "failed", "exists", "notFound", "canceled"}

\* The error that a close request forwards; the other kinds have "nil".
Request == [kind: Kinds, topic: Topics, err: {"nil", "failed"}]

\* notification{closed, err}, and the plain error of the other requests.
Answer  == [closed: BOOLEAN, err: Errors]
Reply(e)     == [closed |-> FALSE, err |-> e]
Notify(c, e) == [closed |-> c, err |-> e]

VARIABLES
    listeners,  \* topic -> the processes that listen to it, or Absent
    request,    \* process -> its request, or Absent
    answer,     \* process -> the answer it has not taken yet, or NoAnswer
    serving     \* FALSE once the monitor has seen its context cancelled

regVars == <<listeners, request, answer, serving>>

Init ==
    /\ listeners = [t \in Topics |-> Absent]
    /\ request = [p \in Procs |-> Absent]
    /\ answer = [p \in Procs |-> NoAnswer]
    /\ serving = TRUE

Ask(p, r) ==
    /\ request[p] = Absent
    /\ request' = [request EXCEPT ![p] = r]
    /\ UNCHANGED <<listeners, answer, serving>>

\* Every process of woken is answered n, and p is answered e.
AnswerAll(p, e, woken, n) ==
    answer' = [q \in Procs |-> IF q = p THEN Reply(e)
                               ELSE IF q \in woken THEN n ELSE answer[q]]

Serve(p) ==
    LET r == request[p]
        t == r.topic
        Known == listeners[t] # Absent
    IN
    /\ serving
    /\ r # Absent
    /\ answer[p] = NoAnswer
    /\ \A u \in Topics : listeners[u] = Absent \/ p \notin listeners[u]
    /\ \/ /\ r.kind = "register" /\ ~ Known
          /\ listeners' = [listeners EXCEPT ![t] = {}]
          /\ AnswerAll(p, "nil", {}, NoAnswer)
       \/ /\ r.kind = "register" /\ Known
          /\ AnswerAll(p, "exists", {}, NoAnswer)
          /\ UNCHANGED listeners
       \/ /\ r.kind \in {"close", "send"} /\ ~ Known
          /\ AnswerAll(p, "notFound", {}, NoAnswer)
          /\ UNCHANGED listeners
       \/ /\ r.kind = "close" /\ Known
          /\ listeners' = [listeners EXCEPT ![t] = Absent]
          /\ AnswerAll(p, "nil", listeners[t], Notify(TRUE, r.err))
       \/ /\ r.kind = "send" /\ Known
          /\ listeners' = [listeners EXCEPT ![t] = {}]
          /\ AnswerAll(p, "nil", listeners[t], Notify(FALSE, "nil"))
       \/ /\ r.kind = "listen" /\ ~ Known
          /\ answer' = [answer EXCEPT ![p] = Notify(TRUE, "notFound")]
          /\ UNCHANGED listeners
       \/ /\ r.kind = "listen" /\ Known
          /\ listeners' = [listeners EXCEPT ![t] = @ \cup {p}]
          /\ UNCHANGED answer
    /\ UNCHANGED <<request, serving>>

Take(p) ==
    /\ answer[p] # NoAnswer
    /\ answer' = [answer EXCEPT ![p] = NoAnswer]
    /\ request' = [request EXCEPT ![p] = Absent]
    /\ UNCHANGED <<listeners, serving>>

\* The context is cancelled: all listeners are answered, nothing is served.
Stop ==
    /\ serving
    /\ serving' = FALSE
    /\ listeners' = [t \in Topics |-> Absent]
    /\ answer' = [q \in Procs |->
                    IF \E t \in Topics : listeners[t] # Absent /\ q \in listeners[t]
                    THEN Notify(TRUE, "canceled") ELSE answer[q]]
    /\ UNCHANGED request

Next ==
    \/ \E p \in Procs : (\E r \in Request : Ask(p, r)) \/ Serve(p) \/ Take(p)
    \/ Stop

Spec == Init /\ [][Next]_regVars

=============================================================================
