-------------------------- MODULE NotificationHub --------------------------
(***************************************************************************)
(* pkg/hub/storage/notification_hub.go, step by step.                      *)
(*                                                                         *)
(* A process sends its request on an unbuffered channel and then receives  *)
(* on a channel of capacity 1 that it made for this request.  The monitor  *)
(* goroutine takes one request at a time, answers the listeners of the     *)
(* topic one after the other, updates its map and answers the request.     *)
(* A process may take its answer and ask again while the monitor is still  *)
(* busy with the request that answered it.                                 *)
(*                                                                         *)
(* Channels are objects with an identity: a new request takes a channel    *)
(* that nobody refers to.  The monitor's send on a channel and its close   *)
(* are one step: nobody else writes on it, and its owner receives once.    *)
(***************************************************************************)
EXTENDS Naturals, Sequences, FiniteSets

CONSTANTS
    Procs, Topics,
    Channels,       \* enough for those that can be referred to at once
    Absent, NoAnswer, NoChannel,
    AllowCancel

ASSUME ChannelsAssumption == NoChannel \notin Channels
ASSUME AllowCancelAssumption == AllowCancel \in BOOLEAN

VARIABLES
    topics,    \* hub.topics: the listening channels of a topic, in order
    mailbox,   \* channel -> the answer in it ("open": none was sent yet)
    closed,    \* channels that were closed
    request,   \* process -> the request it sends or that is being served
    chan,      \* process -> the response channel of that request
    sent,      \* processes whose request the monitor received
    monitor,   \* "select", "notify", "cancel" or "stopped"
    current,   \* the process whose request the monitor serves, or Absent
    todo,      \* listeners the monitor has yet to answer
    panicked   \* the monitor sent on a closed channel

vars == <<topics, mailbox, closed, request, chan, sent, monitor, current,
          todo, panicked>>

\* Requests: only a close forwards an error.
Kinds == {"register", "close", "send", "listen"}
Request ==
    [kind: Kinds \ {"close"}, topic: Topics, err: {"nil"}]
        \cup [kind: {"close"}, topic: Topics, err: {"nil", "failed"}]
Reply(e)     == [closed |-> FALSE, err |-> e]
Notify(c, e) == [closed |-> c, err |-> e]

\* No process, no request, no topic, no answer: nil is none of the values.
ASSUME AbsentAssumption ==
    /\ Absent \notin Procs
    /\ Absent \notin Request
    /\ Absent \notin Seq(Channels)
    /\ \A S \in SUBSET Procs : S # Absent
ASSUME NoAnswerAssumption ==
    NoAnswer \notin [closed: BOOLEAN,
                     err: {"nil", "failed", "exists", "notFound", "canceled"}]

ToSet(s) == {s[i] : i \in 1 .. Len(s)}
Known(t) == topics[t] # Absent

\* Channels somebody still refers to; the others are garbage, or fresh.
Referred ==
    ToSet(todo)
        \cup {chan[p] : p \in Procs}
        \cup UNION {ToSet(topics[t]) : t \in {u \in Topics : Known(u)}}

Init ==
    /\ topics = [t \in Topics |-> Absent]
    /\ mailbox = [ch \in Channels |-> NoAnswer]
    /\ closed = {}
    /\ request = [p \in Procs |-> Absent]
    /\ chan = [p \in Procs |-> NoChannel]
    /\ sent = {}
    /\ monitor = "select"
    /\ current = Absent
    /\ todo = <<>>
    /\ panicked = FALSE

----------------------------------------------------------------------------
(* The callers: RegisterTopic, CloseTopic, SendNotification, OnNotify.     *)

NewRequest(p, r, ch) ==
    /\ request[p] = Absent
    /\ ch \in Channels \ Referred
    /\ request' = [request EXCEPT ![p] = r]
    /\ chan' = [chan EXCEPT ![p] = ch]
    /\ mailbox' = [mailbox EXCEPT ![ch] = NoAnswer]
    /\ closed' = closed \ {ch}
    /\ UNCHANGED <<topics, sent, monitor, current, todo, panicked>>

Receive(p) ==
    /\ p \in sent
    /\ mailbox[chan[p]] # NoAnswer
    /\ request' = [request EXCEPT ![p] = Absent]
    /\ mailbox' = [mailbox EXCEPT ![chan[p]] = NoAnswer]
    /\ chan' = [chan EXCEPT ![p] = NoChannel]
    /\ sent' = sent \ {p}
    /\ UNCHANGED <<topics, closed, monitor, current, todo, panicked>>

----------------------------------------------------------------------------
(* The monitor *)

\* sendNotificationOnChan and sendResponseOnChan.  A send on a closed
\* channel panics; one on a full channel waits for the receiver.
SendOn(ch, a) ==
    /\ ch \in closed \/ mailbox[ch] = NoAnswer
    /\ panicked' = (ch \in closed)
    /\ mailbox' = IF ch \in closed THEN mailbox ELSE [mailbox EXCEPT ![ch] = a]
    /\ closed' = closed \cup {ch}

Accept(p, kind) ==
    /\ monitor = "select"
    /\ ~ panicked
    /\ request[p] # Absent
    /\ request[p].kind = kind
    /\ p \notin sent
    /\ sent' = sent \cup {p}
    /\ UNCHANGED <<request, chan>>

\* A monitor that registers a topic again, and loses its listeners.
AcceptRegisterMutant(p) ==
    /\ Accept(p, "register")
    /\ topics' = [topics EXCEPT ![request[p].topic] = <<>>]
    /\ SendOn(chan[p], Reply("nil"))
    /\ UNCHANGED <<monitor, current, todo>>

AcceptRegister(p) ==
    LET t == request[p].topic IN
    /\ Accept(p, "register")
    /\ \/ /\ Known(t)
          /\ SendOn(chan[p], Reply("exists"))
          /\ UNCHANGED topics
       \/ /\ ~ Known(t)
          /\ topics' = [topics EXCEPT ![t] = <<>>]
          /\ SendOn(chan[p], Reply("nil"))
    /\ UNCHANGED <<monitor, current, todo>>

AcceptListener(p) ==
    LET t == request[p].topic IN
    /\ Accept(p, "listen")
    /\ \/ /\ ~ Known(t)
          /\ SendOn(chan[p], Notify(TRUE, "notFound"))
          /\ UNCHANGED topics
       \/ /\ Known(t)
          /\ topics' = [topics EXCEPT ![t] = Append(@, chan[p])]
          /\ UNCHANGED <<mailbox, closed, panicked>>
    /\ UNCHANGED <<monitor, current, todo>>

\* A monitor that does not answer a request for a missing topic.
AcceptForListenersMutant(p, kind) ==
    LET t == request[p].topic IN
    /\ Accept(p, kind)
    /\ IF Known(t)
       THEN /\ monitor' = "notify"
            /\ current' = p
            /\ todo' = topics[t]
       ELSE UNCHANGED <<monitor, current, todo>>
    /\ UNCHANGED <<topics, mailbox, closed, panicked>>

\* A close or a notification: first the listeners, one by one.
AcceptForListeners(p, kind) ==
    LET t == request[p].topic IN
    /\ Accept(p, kind)
    /\ \/ /\ ~ Known(t)
          /\ SendOn(chan[p], Reply("notFound"))
          /\ UNCHANGED <<monitor, current, todo>>
       \/ /\ Known(t)
          /\ monitor' = "notify"
          /\ current' = p
          /\ todo' = topics[t]
          /\ UNCHANGED <<mailbox, closed, panicked>>
    /\ UNCHANGED topics

Message(r) == IF r.kind = "close" THEN Notify(TRUE, r.err) ELSE Notify(FALSE, "nil")

NotifyListener ==
    /\ monitor = "notify"
    /\ ~ panicked
    /\ todo # <<>>
    /\ SendOn(Head(todo), Message(request[current]))
    /\ todo' = Tail(todo)
    /\ UNCHANGED <<topics, request, chan, sent, monitor, current>>

\* A monitor that forgets which request it has finished.
FinishRequestMutant ==
    /\ SendOn(chan[current], Reply("nil"))
    /\ monitor' = "select"
    /\ UNCHANGED current

\* The request under way is answered and the monitor selects again.
FinishRequest ==
    /\ SendOn(chan[current], Reply("nil"))
    /\ monitor' = "select"
    /\ current' = Absent

\* A monitor that forgets to empty the topic it has notified.
UpdateTopicMutant ==
    LET r == request[current] IN
    /\ monitor = "notify"
    /\ ~ panicked
    /\ todo = <<>>
    /\ topics' = IF r.kind = "close" THEN [topics EXCEPT ![r.topic] = Absent] ELSE topics
    /\ FinishRequest
    /\ UNCHANGED <<request, chan, sent, todo>>

\* The map is updated, then the request is answered.
UpdateTopic ==
    LET r == request[current] IN
    /\ monitor = "notify"
    /\ ~ panicked
    /\ todo = <<>>
    /\ topics' = [topics EXCEPT ![r.topic] =
                    IF r.kind = "close" THEN Absent ELSE <<>>]
    /\ FinishRequest
    /\ UNCHANGED <<request, chan, sent, todo>>

\* ctx.Done: every listener of every topic, topic by topic, in any order.
StartCancel ==
    /\ AllowCancel
    /\ monitor = "select"
    /\ ~ panicked
    /\ monitor' = "cancel"
    /\ UNCHANGED <<topics, mailbox, closed, request, chan, sent, current, todo, panicked>>

CancelTopic(t) ==
    /\ monitor = "cancel"
    /\ ~ panicked
    /\ Known(t)
    /\ \/ /\ topics[t] # <<>>
          /\ SendOn(Head(topics[t]), Notify(TRUE, "canceled"))
          /\ topics' = [topics EXCEPT ![t] = Tail(@)]
       \/ /\ topics[t] = <<>>
          /\ topics' = [topics EXCEPT ![t] = Absent]
          /\ UNCHANGED <<mailbox, closed, panicked>>
    /\ UNCHANGED <<request, chan, sent, monitor, current, todo>>

StopMonitor ==
    /\ monitor = "cancel"
    /\ \A t \in Topics : ~ Known(t)
    /\ monitor' = "stopped"
    /\ UNCHANGED <<topics, mailbox, closed, request, chan, sent, current, todo, panicked>>

----------------------------------------------------------------------------

MonitorAccepts(p) ==
    \/ AcceptRegister(p) \/ AcceptListener(p)
    \/ AcceptForListeners(p, "close") \/ AcceptForListeners(p, "send")

MonitorGoesOn ==
    \/ NotifyListener \/ UpdateTopic
    \/ (\E t \in Topics : CancelTopic(t)) \/ StopMonitor

Next ==
    \/ \E p \in Procs :
          \/ \E r \in Request, ch \in Channels : NewRequest(p, r, ch)
          \/ Receive(p)
          \/ MonitorAccepts(p)
    \/ MonitorGoesOn
    \/ StartCancel

Spec == Init /\ [][Next]_vars

----------------------------------------------------------------------------
(* The abstraction.  The monitor commits a request when it takes it: what  *)
(* it will do from there on is settled, and no other request sees the      *)
(* state in between.                                                       *)

Cancelled == monitor \in {"cancel", "stopped"}

Pending(t) == monitor = "notify" /\ request[current].topic = t

AbstractListeners ==
    [t \in Topics |->
        IF Cancelled \/ ~ Known(t) THEN Absent
        ELSE IF ~ Pending(t) THEN {p \in sent : chan[p] \in ToSet(topics[t])}
        ELSE IF request[current].kind = "close" THEN Absent
        ELSE {}]

\* The answer a process has, or is bound to get from the steps under way.
AbstractAnswer ==
    [p \in Procs |->
        IF p \notin sent THEN NoAnswer
        ELSE IF mailbox[chan[p]] # NoAnswer THEN mailbox[chan[p]]
        ELSE IF p = current THEN Reply("nil")
        ELSE IF chan[p] \in ToSet(todo) THEN Message(request[current])
        ELSE IF Cancelled /\ \E t \in Topics : Known(t) /\ chan[p] \in ToSet(topics[t])
             THEN Notify(TRUE, "canceled")
        ELSE NoAnswer]

Registry == INSTANCE TopicRegistry
    WITH listeners <- AbstractListeners,
         answer <- AbstractAnswer,
         serving <- ~ Cancelled

----------------------------------------------------------------------------
(* Properties *)

\* Every variable has its type, and the monitor has a current request and
\* listeners to answer exactly while it works on one.
TypeOK ==
    /\ topics \in [Topics -> {Absent} \cup Seq(Channels)]
    /\ mailbox \in [Channels -> {NoAnswer} \cup Registry!Answer]
    /\ closed \subseteq Channels
    /\ request \in [Procs -> {Absent} \cup Request]
    /\ chan \in [Procs -> Channels \cup {NoChannel}]
    /\ sent \subseteq Procs
    /\ monitor \in {"select", "notify", "cancel", "stopped"}
    /\ current \in {Absent} \cup Procs
    /\ todo \in Seq(Channels)
    /\ panicked \in BOOLEAN
    /\ current \in Procs <=> monitor = "notify"
    /\ todo # <<>> => monitor = "notify"

(***************************************************************************)
(* The monitor never sends on a closed channel: each listening channel is  *)
(* answered once, although it is reachable from the map until the topic is *)
(* updated.  Such a send would panic and stop the whole server.            *)
(***************************************************************************)
NeverPanics == ~ panicked

(***************************************************************************)
(* To the storage the monitor is a registry that serves a request in one   *)
(* step: no process sees a topic half closed or half notified.             *)
(***************************************************************************)
RefinesRegistry == Registry!Spec

(***************************************************************************)
(* No request the monitor has taken is forgotten: it is answered, or it is *)
(* the one under way, or it listens and the monitor still has its channel, *)
(* in its topic or among those it is about to answer.  A caller waits for  *)
(* its answer without a timeout.                                           *)
(***************************************************************************)
NoneForgotten ==
    \A p \in sent :
        \/ mailbox[chan[p]] # NoAnswer
        \/ p = current
        \/ /\ request[p].kind = "listen"
           /\ \/ chan[p] \in ToSet(todo)
              \/ /\ Known(request[p].topic)
                 /\ chan[p] \in ToSet(topics[request[p].topic])

=============================================================================
