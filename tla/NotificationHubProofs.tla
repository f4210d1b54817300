----------------------- MODULE NotificationHubProofs -----------------------
(***************************************************************************)
(* Proofs about NotificationHub, for any processes, topics and channels.   *)
(***************************************************************************)
EXTENDS NotificationHub, SequenceTheorems, TLAPS

----------------------------------------------------------------------------
(* The inductive invariant *)

\* The listening channels of a topic that the monitor has still to answer.
Waiting(t) ==
    IF Pending(t) THEN ToSet(todo)
    ELSE IF Known(t) THEN ToSet(topics[t]) ELSE {}

\* Process p waits on channel ch for a notification of topic t.
Listens(p, t, ch) ==
    /\ p # current
    /\ chan[p] = ch
    /\ request[p].kind = "listen"
    /\ request[p].topic = t

\* No element twice.
Distinct(s) == \A i, j \in 1 .. Len(s) : s[i] = s[j] => i = j

\* A process has a channel exactly while it has a request, and one of its own.
OwnChannels ==
    /\ \A p \in Procs : chan[p] \in Channels <=> request[p] # Absent
    /\ \A p, q \in Procs : chan[p] = chan[q] => p = q \/ chan[p] = NoChannel
    /\ \A p \in sent : request[p] # Absent

\* Nothing was sent yet to a process whose request is not answered.
Unanswered ==
    \A p \in Procs :
        request[p] # Absent /\ (p \notin sent \/ p = current) =>
            chan[p] \notin closed /\ mailbox[chan[p]] = NoAnswer

\* The request under way is a taken close or notification of a known topic.
CurrentRequest ==
    monitor = "notify" =>
        /\ current \in sent
        /\ request[current].kind \in {"close", "send"}
        /\ Known(request[current].topic)

\* Nothing was sent yet on a waiting channel, and its owner listens.
ListenersWait ==
    \A t \in Topics : \A ch \in Waiting(t) :
        /\ ch \notin closed
        /\ mailbox[ch] = NoAnswer
        /\ \E p \in sent : Listens(p, t, ch)

\* No list has a channel twice, so no channel is sent on twice.
ListedOnce ==
    /\ Distinct(todo)
    /\ \A t \in Topics : Known(t) => Distinct(topics[t])

\* NoneForgotten, with the list the channel is in.
AllServed ==
    \A p \in sent :
        \/ mailbox[chan[p]] # NoAnswer
        \/ p = current
        \/ request[p].kind = "listen" /\ chan[p] \in Waiting(request[p].topic)

\* The inductive invariant.
HubInv ==
    /\ TypeOK
    /\ ~ panicked
    /\ OwnChannels
    /\ Unanswered
    /\ CurrentRequest
    /\ ListenersWait
    /\ ListedOnce
    /\ AllServed

----------------------------------------------------------------------------
(* Lists of channels *)

\* What the members of a list are: none, one more, or all but the head.
LEMMA ListMembers ==
    ASSUME NEW S, NEW s \in Seq(S)
    PROVE  /\ ToSet(<<>>) = {}
           /\ ToSet(s) \subseteq S
           /\ \A ch \in S : ToSet(Append(s, ch)) = ToSet(s) \cup {ch}
           /\ s # <<>> => Head(s) \in ToSet(s)
  <1>1. ToSet(<<>>) = {}
    BY DEF ToSet
  <1>2. ToSet(s) \subseteq S
    BY DEF ToSet
  <1>3. ASSUME NEW ch \in S PROVE ToSet(Append(s, ch)) = ToSet(s) \cup {ch}
    <2>1. /\ Len(Append(s, ch)) = Len(s) + 1
          /\ \A i \in 1 .. Len(s) : Append(s, ch)[i] = s[i]
          /\ Append(s, ch)[Len(s) + 1] = ch
      BY AppendProperties
    <2>2. Len(s) \in Nat
      OBVIOUS
    <2> QED
      BY <2>1, <2>2 DEF ToSet
  <1>4. s # <<>> => Head(s) \in ToSet(s)
    BY DEF ToSet
  <1> QED
    BY <1>1, <1>2, <1>3, <1>4

\* A list that holds each channel once still does after the head is taken,
\* which is then no member, or after a channel it lacks is appended.
LEMMA DistinctLists ==
    ASSUME NEW S, NEW s \in Seq(S), Distinct(s)
    PROVE  /\ s # <<>> =>
                /\ Distinct(Tail(s))
                /\ ToSet(Tail(s)) = ToSet(s) \ {Head(s)}
           /\ \A ch \in S \ ToSet(s) : Distinct(Append(s, ch))
  <1>1. ASSUME s # <<>>
        PROVE  /\ Distinct(Tail(s))
               /\ ToSet(Tail(s)) = ToSet(s) \ {Head(s)}
    <2>1. /\ Len(s) \in Nat \ {0}
          /\ Len(Tail(s)) = Len(s) - 1
          /\ \A i \in 1 .. Len(Tail(s)) : Tail(s)[i] = s[i + 1]
          /\ Head(s) = s[1]
      BY <1>1, HeadTailProperties, EmptySeq
    <2>2. Distinct(Tail(s))
      BY <2>1 DEF Distinct
    <2>3. ASSUME NEW i \in 1 .. Len(Tail(s))
          PROVE  Tail(s)[i] \in ToSet(s) \ {Head(s)}
      BY <2>1 DEF Distinct, ToSet
    <2>4. ASSUME NEW i \in 1 .. Len(s), s[i] # Head(s)
          PROVE  s[i] \in ToSet(Tail(s))
      <3>1. i - 1 \in 1 .. Len(Tail(s)) /\ Tail(s)[i - 1] = s[i]
        BY <2>1, <2>4
      <3> QED
        BY <3>1 DEF ToSet
    <2> QED
      BY <2>2, <2>3, <2>4 DEF ToSet
  <1>2. ASSUME NEW ch \in S \ ToSet(s) PROVE Distinct(Append(s, ch))
    <2>1. /\ Len(Append(s, ch)) = Len(s) + 1
          /\ \A i \in 1 .. Len(s) : Append(s, ch)[i] = s[i]
          /\ Append(s, ch)[Len(s) + 1] = ch
      BY AppendProperties
    <2>2. Len(s) \in Nat /\ \A i \in 1 .. Len(s) : s[i] # ch
      BY DEF ToSet
    <2> QED
      BY <2>1, <2>2 DEF Distinct
  <1> QED
    BY <1>1, <1>2

----------------------------------------------------------------------------
(* The steps of the callers *)

\* A send on an open channel of an unanswered process arrives and closes it.
LEMMA SendOnOpen ==
    ASSUME TypeOK, NEW ch \in Channels, NEW a \in Registry!Answer,
           ch \notin closed, SendOn(ch, a)
    PROVE  /\ panicked' = FALSE
           /\ mailbox' = [mailbox EXCEPT ![ch] = a]
           /\ mailbox' \in [Channels -> {NoAnswer} \cup Registry!Answer]
           /\ mailbox[ch] = NoAnswer
           /\ closed' = closed \cup {ch}
           /\ closed' \subseteq Channels
  <1>1. /\ ch \in closed \/ mailbox[ch] = NoAnswer
        /\ panicked' = (ch \in closed)
        /\ mailbox' = IF ch \in closed THEN mailbox ELSE [mailbox EXCEPT ![ch] = a]
        /\ closed' = closed \cup {ch}
    BY Zenon DEF SendOn
  <1>2. panicked' = FALSE
    <2>1. (ch \in closed) = FALSE
      OBVIOUS
    <2> QED
      BY <1>1, <2>1
  <1>3. /\ mailbox' = [mailbox EXCEPT ![ch] = a]
        /\ mailbox[ch] = NoAnswer
    BY <1>1
  <1>4. mailbox' \in [Channels -> {NoAnswer} \cup Registry!Answer]
    BY <1>3 DEF TypeOK
  <1> QED
    BY <1>1, <1>2, <1>3, <1>4 DEF TypeOK

\* Every answer is one of the registry's, and none is NoAnswer.
LEMMA Answers ==
    /\ \A e \in {"nil", "failed", "exists", "notFound", "canceled"} :
          Reply(e) \in Registry!Answer /\ Notify(TRUE, e) \in Registry!Answer
    /\ \A r \in Request : Message(r) \in Registry!Answer
    /\ NoAnswer \notin Registry!Answer
  BY NoAnswerAssumption DEF Reply, Notify, Message, Request, Kinds,
     Registry!Answer, Registry!Errors

\* At first the monitor selects and nobody has sent a request.
LEMMA InitInv == Init => HubInv
  <1> SUFFICES ASSUME Init PROVE HubInv
    OBVIOUS
  <1>1. TypeOK
    <2>1. /\ topics \in [Topics -> {Absent} \cup Seq(Channels)]
          /\ mailbox \in [Channels -> {NoAnswer} \cup Registry!Answer]
          /\ request \in [Procs -> {Absent} \cup Request]
          /\ chan \in [Procs -> Channels \cup {NoChannel}]
      BY DEF Init
    <2>2. todo \in Seq(Channels) /\ todo = <<>>
      BY DEF Init
    <2>3. /\ closed = {} /\ sent = {} /\ monitor = "select"
          /\ current = Absent /\ current \notin Procs /\ panicked = FALSE
      BY AbsentAssumption DEF Init
    <2> QED
      BY <2>1, <2>2, <2>3 DEF TypeOK
  <1>2. OwnChannels /\ Unanswered /\ CurrentRequest /\ AllServed
    BY ChannelsAssumption
    DEF Init, OwnChannels, Unanswered, CurrentRequest, AllServed
  <1>3. ListenersWait /\ ListedOnce
    BY DEF Init, ListenersWait, ListedOnce, Waiting, Pending, Known, Distinct
  <1> QED
    BY <1>1, <1>2, <1>3 DEF HubInv, Init

\* A new request has a channel that waits for nothing and was not sent on.
LEMMA NewRequestInv ==
    ASSUME HubInv, NEW p \in Procs, NEW r \in Request, NEW ch \in Channels,
           NewRequest(p, r, ch)
    PROVE  HubInv'
  <1>0. TypeOK
    BY DEF HubInv
  <1>1. TypeOK'
    BY <1>0, AbsentAssumption DEF TypeOK, NewRequest
  <1>2. /\ request' = [request EXCEPT ![p] = r]
        /\ chan' = [chan EXCEPT ![p] = ch]
        /\ mailbox' = [mailbox EXCEPT ![ch] = NoAnswer]
        /\ closed' = closed \ {ch}
        /\ UNCHANGED <<topics, sent, monitor, current, todo, panicked>>
    BY DEF NewRequest
  <1>3. /\ request[p] = Absent
        /\ p \notin sent
        /\ p # current
    BY AbsentAssumption DEF HubInv, OwnChannels, CurrentRequest, NewRequest, TypeOK
  <1>4. /\ \A q \in Procs : chan[q] # ch
        /\ ch \notin ToSet(todo)
        /\ \A t \in Topics : Known(t) => ch \notin ToSet(topics[t])
    BY DEF NewRequest, Referred
  <1>5. OwnChannels'
    BY <1>0, <1>2, <1>3, <1>4, AbsentAssumption DEF HubInv, OwnChannels, TypeOK
  <1>6. Unanswered'
    BY <1>0, <1>2, <1>3, <1>4, AbsentAssumption
    DEF HubInv, OwnChannels, Unanswered, TypeOK
  <1>7. \A t \in Topics : Waiting(t)' = Waiting(t) /\ ch \notin Waiting(t)
    BY <1>0, <1>2, <1>3, <1>4 DEF TypeOK, Waiting, Pending, Known
  <1>8. CurrentRequest'
    BY <1>0, <1>2, <1>3 DEF HubInv, CurrentRequest, Known, TypeOK
  <1>9. ListenersWait'
    <2> SUFFICES ASSUME NEW t \in Topics, NEW c \in Waiting(t)
                 PROVE  /\ c \notin closed'
                        /\ mailbox'[c] = NoAnswer
                        /\ \E q \in sent : Listens(q, t, c)'
      BY <1>2, <1>7 DEF ListenersWait
    <2>1. /\ c \notin closed
          /\ mailbox[c] = NoAnswer
          /\ \E q \in sent : Listens(q, t, c)
          /\ c # ch
      BY <1>7 DEF HubInv, ListenersWait
    <2> QED
      BY <1>0, <1>2, <1>3, <2>1 DEF Listens, TypeOK
  <1>10. ListedOnce'
    BY <1>2 DEF HubInv, ListedOnce, Known
  <1>11. AllServed'
    <2> SUFFICES ASSUME NEW q \in sent
                 PROVE  (\/ mailbox[chan[q]] # NoAnswer
                         \/ q = current
                         \/ /\ request[q].kind = "listen"
                            /\ chan[q] \in Waiting(request[q].topic))'
      BY <1>2 DEF AllServed
    <2>1. q # p /\ q \in Procs /\ chan[q] # ch /\ chan[q] \in Channels
          /\ request[q] \in Request
      BY <1>0, <1>3, <1>4 DEF TypeOK, HubInv, OwnChannels
    <2>2. /\ chan'[q] = chan[q]
          /\ request'[q] = request[q]
          /\ mailbox'[chan[q]] = mailbox[chan[q]]
      BY <1>0, <1>2, <2>1 DEF TypeOK
    <2>3. PICK t \in Topics : request[q].topic = t
      BY <2>1 DEF Request
    <2>4. Waiting(t)' = Waiting(t)
      BY <1>7
    <2> QED
      BY <1>2, <2>1, <2>2, <2>3, <2>4 DEF HubInv, AllServed
  <1> QED
    BY <1>1, <1>2, <1>5, <1>6, <1>8, <1>9, <1>10, <1>11 DEF HubInv

\* A process takes its answer: it listens no more, and nobody sees a change.
LEMMA ReceiveInv ==
    ASSUME HubInv, NEW p \in Procs, Receive(p)
    PROVE  HubInv'
  <1>0. TypeOK
    BY DEF HubInv
  <1>1. TypeOK'
    BY <1>0 DEF TypeOK, Receive
  <1>2. /\ request' = [request EXCEPT ![p] = Absent]
        /\ mailbox' = [mailbox EXCEPT ![chan[p]] = NoAnswer]
        /\ chan' = [chan EXCEPT ![p] = NoChannel]
        /\ sent' = sent \ {p}
        /\ UNCHANGED <<topics, closed, monitor, current, todo, panicked>>
        /\ p \in sent
        /\ mailbox[chan[p]] # NoAnswer
    BY DEF Receive
  <1>3. /\ chan[p] \in Channels
        /\ request[p] # Absent
        /\ p # current
        /\ \A q \in Procs : q # p => chan[q] # chan[p]
    BY <1>0, <1>2, ChannelsAssumption
    DEF HubInv, OwnChannels, Unanswered, TypeOK
  <1>4. OwnChannels'
    BY <1>0, <1>2, <1>3, ChannelsAssumption DEF HubInv, OwnChannels, TypeOK
  <1>5. Unanswered'
    BY <1>0, <1>2, <1>3 DEF HubInv, Unanswered, TypeOK
  <1>6. CurrentRequest'
    BY <1>0, <1>2, <1>3 DEF HubInv, CurrentRequest, Known, TypeOK
  <1>7. \A t \in Topics : Waiting(t)' = Waiting(t)
    BY <1>0, <1>2, <1>3 DEF TypeOK, Waiting, Pending, Known
  <1>8. ListenersWait'
    <2> SUFFICES ASSUME NEW t \in Topics, NEW c \in Waiting(t)
                 PROVE  /\ c \notin closed
                        /\ mailbox'[c] = NoAnswer
                        /\ \E q \in sent' : Listens(q, t, c)'
      BY <1>2, <1>7 DEF ListenersWait
    <2>1. PICK q \in sent : Listens(q, t, c)
      BY DEF HubInv, ListenersWait
    <2>2. c \notin closed /\ mailbox[c] = NoAnswer /\ c # chan[p] /\ q # p
      BY <1>2, <2>1 DEF HubInv, ListenersWait, Listens
    <2>3. mailbox'[c] = NoAnswer
      BY <1>0, <1>2, <1>3, <2>1, <2>2 DEF Listens, TypeOK, HubInv, OwnChannels
    <2>4. q \in sent' /\ Listens(q, t, c)'
      BY <1>0, <1>2, <2>1, <2>2 DEF Listens, TypeOK
    <2> QED
      BY <2>2, <2>3, <2>4
  <1>9. ListedOnce'
    BY <1>2 DEF HubInv, ListedOnce, Known
  <1>10. AllServed'
    <2> SUFFICES ASSUME NEW q \in sent'
                 PROVE  (\/ mailbox[chan[q]] # NoAnswer
                         \/ q = current
                         \/ /\ request[q].kind = "listen"
                            /\ chan[q] \in Waiting(request[q].topic))'
      BY <1>2 DEF AllServed
    <2>1. q # p /\ q \in sent /\ q \in Procs /\ chan[q] # chan[p]
          /\ chan[q] \in Channels /\ request[q] \in Request
      BY <1>0, <1>2, <1>3 DEF TypeOK, HubInv, OwnChannels
    <2>2. /\ chan'[q] = chan[q]
          /\ request'[q] = request[q]
          /\ mailbox'[chan[q]] = mailbox[chan[q]]
      BY <1>0, <1>2, <2>1 DEF TypeOK
    <2>3. PICK t \in Topics : request[q].topic = t
      BY <2>1 DEF Request
    <2>4. Waiting(t)' = Waiting(t)
      BY <1>7
    <2> QED
      BY <1>2, <2>1, <2>2, <2>3, <2>4 DEF HubInv, AllServed
  <1> QED
    BY <1>1, <1>2, <1>4, <1>5, <1>6, <1>8, <1>9, <1>10 DEF HubInv

----------------------------------------------------------------------------
(* The steps of the monitor: those that answer a request as they take it,  *)
(* those that answer a listener, those that send nothing, and the others.  *)

\* A request is answered when it is taken, and no list of listeners changes.
LEMMA AnswerAtOnceInv ==
    ASSUME HubInv, NEW p \in Procs, NEW a \in Registry!Answer,
           monitor = "select", request[p] # Absent, p \notin sent,
           sent' = sent \cup {p}, SendOn(chan[p], a),
           UNCHANGED <<request, chan, monitor, current, todo>>,
           TypeOK', ListedOnce', \A t \in Topics : Waiting(t)' = Waiting(t)
    PROVE  HubInv'
  <1>0. TypeOK
    BY DEF HubInv
  <1>1. /\ chan[p] \in Channels /\ chan[p] \notin closed
        /\ mailbox[chan[p]] = NoAnswer
        /\ \A q \in Procs : chan[q] = chan[p] => q = p
        /\ current \notin Procs
    BY <1>0, ChannelsAssumption DEF HubInv, OwnChannels, Unanswered, TypeOK
  <1>2. /\ mailbox' = [mailbox EXCEPT ![chan[p]] = a]
        /\ closed' = closed \cup {chan[p]}
        /\ ~ panicked'
    BY <1>0, <1>1, SendOnOpen
  <1>3. a # NoAnswer
    BY Answers
  <1>4. OwnChannels'
    BY <1>0 DEF HubInv, OwnChannels, TypeOK
  <1>5. Unanswered'
    BY <1>0, <1>1, <1>2 DEF HubInv, Unanswered, OwnChannels, TypeOK
  <1>6. CurrentRequest'
    BY DEF CurrentRequest
  <1>7. ASSUME NEW t \in Topics, NEW c \in Waiting(t)
        PROVE  /\ c \notin closed'
               /\ mailbox'[c] = NoAnswer
               /\ \E q \in sent' : Listens(q, t, c)'
    <2>1. PICK q \in sent : Listens(q, t, c)
      BY DEF HubInv, ListenersWait
    <2>2. /\ c \notin closed
          /\ mailbox[c] = NoAnswer
          /\ c # chan[p]
          /\ c \in Channels
      BY <1>0, <1>1, <2>1, ChannelsAssumption
      DEF HubInv, ListenersWait, Listens, TypeOK, OwnChannels
    <2>3. c \notin closed' /\ mailbox'[c] = NoAnswer
      BY <1>0, <1>2, <2>2 DEF TypeOK
    <2>4. Listens(q, t, c)'
      BY <2>1 DEF Listens
    <2> QED
      BY <2>1, <2>3, <2>4
  <1>8. ListenersWait'
    BY <1>7 DEF ListenersWait
  <1>9. AllServed'
    <2> SUFFICES ASSUME NEW q \in sent'
                 PROVE  (\/ mailbox[chan[q]] # NoAnswer
                         \/ q = current
                         \/ /\ request[q].kind = "listen"
                            /\ chan[q] \in Waiting(request[q].topic))'
      BY DEF AllServed
    <2>1. q \in Procs
      BY <1>0 DEF TypeOK
    <2>2. CASE q = p
      BY <1>0, <1>1, <1>2, <1>3, <2>2 DEF TypeOK
    <2>3. CASE q # p
      <3>1. /\ q \in sent
            /\ mailbox'[chan[q]] = mailbox[chan[q]]
            /\ request[q] \in Request
        BY <1>0, <1>1, <1>2, <2>1, <2>3 DEF TypeOK, HubInv, OwnChannels
      <3>2. PICK t \in Topics : request[q].topic = t
        BY <3>1 DEF Request
      <3> QED
        BY <3>1, <3>2 DEF HubInv, AllServed
    <2> QED
      BY <2>2, <2>3
  <1> QED
    BY <1>2, <1>4, <1>5, <1>6, <1>8, <1>9 DEF HubInv

\* A waiting channel gets its answer and leaves the list it is in.
LEMMA AnswerListenerInv ==
    ASSUME HubInv, NEW t \in Topics, NEW ch \in Waiting(t),
           NEW a \in Registry!Answer, SendOn(ch, a),
           UNCHANGED <<request, chan, sent, monitor, current>>,
           Waiting(t)' = Waiting(t) \ {ch},
           \A u \in Topics \ {t} : Waiting(u)' = Waiting(u),
           TypeOK', CurrentRequest', ListedOnce'
    PROVE  HubInv'
  <1>0. TypeOK
    BY DEF HubInv
  <1>1. PICK p \in sent : Listens(p, t, ch)
    BY DEF HubInv, ListenersWait
  <1>2. /\ p \in Procs
        /\ p # current
        /\ chan[p] = ch
        /\ ch \in Channels
        /\ ch \notin closed
        /\ \A q \in Procs : q # p => chan[q] # ch
        /\ request[p].topic = t
    BY <1>0, <1>1, ChannelsAssumption
    DEF HubInv, OwnChannels, ListenersWait, Listens, TypeOK
  <1>3. /\ mailbox' = [mailbox EXCEPT ![ch] = a]
        /\ closed' = closed \cup {ch}
        /\ ~ panicked'
    BY <1>0, <1>2, SendOnOpen
  <1>4. a # NoAnswer
    BY Answers
  <1>5. OwnChannels'
    BY <1>0 DEF HubInv, OwnChannels, TypeOK
  <1>6. Unanswered'
    BY <1>0, <1>1, <1>2, <1>3 DEF HubInv, Unanswered, OwnChannels, TypeOK
  <1>7. ASSUME NEW u \in Topics, NEW c \in Waiting(u)'
        PROVE  /\ c \notin closed'
               /\ mailbox'[c] = NoAnswer
               /\ \E q \in sent' : Listens(q, u, c)'
    <2>0. c \in Waiting(u)
      OBVIOUS
    <2>1. PICK q \in sent : Listens(q, u, c)
      BY <2>0 DEF HubInv, ListenersWait
    <2>2. c # ch
      BY <1>0, <1>2, <2>1 DEF Listens, TypeOK
    <2>3. /\ c \notin closed
          /\ mailbox[c] = NoAnswer
          /\ c \in Channels
      BY <1>0, <2>0, <2>1, ChannelsAssumption
      DEF HubInv, ListenersWait, Listens, TypeOK, OwnChannels
    <2>4. c \notin closed' /\ mailbox'[c] = NoAnswer
      BY <1>0, <1>3, <2>2, <2>3 DEF TypeOK
    <2>5. Listens(q, u, c)'
      BY <2>1 DEF Listens
    <2> QED
      BY <2>1, <2>4, <2>5
  <1>8. ListenersWait'
    BY <1>7 DEF ListenersWait
  <1>9. AllServed'
    <2> SUFFICES ASSUME NEW q \in sent
                 PROVE  (\/ mailbox[chan[q]] # NoAnswer
                         \/ q = current
                         \/ /\ request[q].kind = "listen"
                            /\ chan[q] \in Waiting(request[q].topic))'
      BY DEF AllServed
    <2>1. q \in Procs
      BY <1>0 DEF TypeOK
    <2>2. CASE q = p
      BY <1>0, <1>2, <1>3, <1>4, <2>2 DEF TypeOK
    <2>3. CASE q # p
      <3>1. /\ mailbox'[chan[q]] = mailbox[chan[q]]
            /\ request[q] \in Request
            /\ chan[q] # ch
        BY <1>0, <1>2, <1>3, <2>1, <2>3 DEF TypeOK, HubInv, OwnChannels
      <3>2. PICK u \in Topics : request[q].topic = u
        BY <3>1 DEF Request
      <3>3. chan[q] \in Waiting(u) => chan[q] \in Waiting(u)'
        BY <3>1
      <3> QED
        BY <3>1, <3>2, <3>3 DEF HubInv, AllServed
    <2> QED
      BY <2>2, <2>3
  <1> QED
    BY <1>3, <1>5, <1>6, <1>8, <1>9 DEF HubInv

\* Nothing is sent and no list of waiting channels changes.
LEMMA QuietInv ==
    ASSUME HubInv, TypeOK', CurrentRequest', ListedOnce',
           UNCHANGED <<mailbox, closed, request, chan, sent, current, panicked>>,
           \A t \in Topics : Waiting(t)' = Waiting(t)
    PROVE  HubInv'
  <1>0. TypeOK
    BY DEF HubInv
  <1>1. OwnChannels'
    BY DEF HubInv, OwnChannels
  <1>2. Unanswered'
    BY DEF HubInv, Unanswered
  <1>3. ListenersWait'
    BY DEF HubInv, ListenersWait, Listens
  <1>4. AllServed'
    <2> SUFFICES ASSUME NEW q \in sent
                 PROVE  (\/ mailbox[chan[q]] # NoAnswer
                         \/ q = current
                         \/ /\ request[q].kind = "listen"
                            /\ chan[q] \in Waiting(request[q].topic))'
      BY DEF AllServed
    <2>1. request[q] \in Request
      BY <1>0 DEF TypeOK, HubInv, OwnChannels
    <2>2. PICK t \in Topics : request[q].topic = t
      BY <2>1 DEF Request
    <2> QED
      BY <2>2 DEF HubInv, AllServed
  <1> QED
    BY <1>1, <1>2, <1>3, <1>4 DEF HubInv

----------------------------------------------------------------------------
(* The actions of the monitor *)

\* The monitor takes the request of a process whose channel is open.
LEMMA Accepted ==
    ASSUME HubInv, NEW p \in Procs, NEW k, Accept(p, k)
    PROVE  /\ monitor = "select"
           /\ ~ panicked
           /\ request[p] \in Request
           /\ request[p] # Absent
           /\ request[p].kind = k
           /\ request[p].topic \in Topics
           /\ p \notin sent
           /\ sent' = sent \cup {p}
           /\ sent' \subseteq Procs
           /\ UNCHANGED <<request, chan>>
           /\ chan[p] \in Channels
           /\ chan[p] \notin closed
           /\ mailbox[chan[p]] = NoAnswer
           /\ current \notin Procs
           /\ todo = <<>>
           /\ \A t \in Topics : ~ Pending(t)
  <1>1. /\ monitor = "select" /\ ~ panicked
        /\ request[p] # Absent /\ request[p].kind = k
        /\ p \notin sent /\ sent' = sent \cup {p}
        /\ UNCHANGED <<request, chan>>
    BY DEF Accept
  <1>2. request[p] \in Request /\ request[p].topic \in Topics
    <2>1. request[p] \in Request
      BY <1>1 DEF HubInv, TypeOK
    <2> QED
      BY <2>1 DEF Request
  <1>3. /\ chan[p] \in Channels
        /\ chan[p] \notin closed
        /\ mailbox[chan[p]] = NoAnswer
    BY <1>1 DEF HubInv, OwnChannels, Unanswered
  <1>4. /\ current \notin Procs
        /\ todo = <<>>
        /\ sent' \subseteq Procs
    BY <1>1 DEF HubInv, TypeOK
  <1> QED
    BY <1>1, <1>2, <1>3, <1>4 DEF Pending

\* Registering a topic is answered at once: a new one has no listeners.
LEMMA AcceptRegisterInv ==
    ASSUME HubInv, NEW p \in Procs, AcceptRegister(p)
    PROVE  HubInv'
  <1>0. TypeOK
    BY DEF HubInv
  <1>1. /\ Accept(p, "register")
        /\ UNCHANGED <<monitor, current, todo>>
    BY DEF AcceptRegister
  <1> PICK t \in Topics : t = request[p].topic
    BY <1>1, Accepted
  <1>2. PICK a \in Registry!Answer :
          /\ SendOn(chan[p], a)
          /\ \/ topics' = topics
             \/ topics' = [topics EXCEPT ![t] = <<>>] /\ ~ Known(t)
    BY Answers DEF AcceptRegister
  <1>3. \A u \in Topics : ~ Pending(u) /\ ~ Pending(u)'
    BY <1>1, Accepted DEF Pending
  <1>4. /\ topics' \in [Topics -> {Absent} \cup Seq(Channels)]
        /\ \A u \in Topics :
              \/ topics'[u] = topics[u]
              \/ topics'[u] = <<>> /\ ~ Known(u)
    <2>1. CASE topics' = topics
      BY <1>0, <2>1 DEF TypeOK
    <2>2. CASE topics' = [topics EXCEPT ![t] = <<>>] /\ ~ Known(t)
      <3>1. <<>> \in Seq(Channels)
        OBVIOUS
      <3>2. topics \in [Topics -> {Absent} \cup Seq(Channels)]
        BY <1>0 DEF TypeOK
      <3> QED
        BY <1>3, <2>2, <3>1, <3>2
    <2> QED
      BY <1>2, <2>1, <2>2
  <1>5. /\ mailbox' \in [Channels -> {NoAnswer} \cup Registry!Answer]
        /\ closed' \subseteq Channels
        /\ panicked' = FALSE
    BY <1>0, <1>1, <1>2, Accepted, SendOnOpen
  <1>6. TypeOK'
    BY <1>0, <1>1, <1>4, <1>5, Accepted DEF TypeOK
  <1>7. \A u \in Topics : Waiting(u)' = Waiting(u)
    <2> SUFFICES ASSUME NEW u \in Topics
                 PROVE  (IF Known(u) THEN ToSet(topics[u]) ELSE {})'
                          = IF Known(u) THEN ToSet(topics[u]) ELSE {}
      BY <1>3 DEF Waiting
    <2>1. CASE topics'[u] = topics[u]
      BY <2>1 DEF Known, ToSet
    <2>2. CASE topics'[u] = <<>> /\ ~ Known(u)
      <3>1. ToSet(topics[u])' = {}
        BY <2>2 DEF ToSet
      <3> QED
        BY <2>2, <3>1 DEF Known
    <2> QED
      BY <1>4, <2>1, <2>2
  <1>8. ListedOnce'
    <2>1. Distinct(<<>>)
      BY DEF Distinct
    <2> QED
      BY <1>1, <1>4, <2>1 DEF HubInv, ListedOnce, Known
  <1> QED
    BY <1>1, <1>2, <1>6, <1>7, <1>8, Accepted, AnswerAtOnceInv

\* A listener that is answered at once, or appended to a topic's list.
LEMMA AcceptListenerInv ==
    ASSUME HubInv, NEW p \in Procs, AcceptListener(p)
    PROVE  HubInv'
  <1>0. TypeOK
    BY DEF HubInv
  <1>1. /\ Accept(p, "listen")
        /\ UNCHANGED <<monitor, current, todo>>
    BY DEF AcceptListener
  <1> PICK t \in Topics : t = request[p].topic
    BY <1>1, Accepted
  <1>2. \/ /\ SendOn(chan[p], Notify(TRUE, "notFound"))
           /\ topics' = topics
        \/ /\ Known(t)
           /\ topics' = [topics EXCEPT ![t] = Append(topics[t], chan[p])]
           /\ UNCHANGED <<mailbox, closed, panicked>>
    BY DEF AcceptListener
  <1>3. \A u \in Topics : ~ Pending(u) /\ ~ Pending(u)'
    BY <1>1, Accepted DEF Pending
  <1>4. CASE SendOn(chan[p], Notify(TRUE, "notFound")) /\ topics' = topics
    <2>1. /\ mailbox' \in [Channels -> {NoAnswer} \cup Registry!Answer]
          /\ closed' \subseteq Channels
          /\ panicked' = FALSE
      BY <1>0, <1>1, <1>4, Accepted, SendOnOpen, Answers
    <2>2. TypeOK'
      BY <1>0, <1>1, <1>4, <2>1, Accepted DEF TypeOK
    <2>3. \A u \in Topics : Waiting(u)' = Waiting(u)
      BY <1>3, <1>4 DEF Waiting, Known
    <2>4. ListedOnce'
      BY <1>1, <1>4 DEF HubInv, ListedOnce, Known
    <2> QED
      BY <1>1, <1>4, <2>2, <2>3, <2>4, Accepted, AnswerAtOnceInv, Answers
  <1>5. CASE /\ Known(t)
             /\ topics' = [topics EXCEPT ![t] = Append(topics[t], chan[p])]
             /\ UNCHANGED <<mailbox, closed, panicked>>
    <2>1. /\ topics[t] \in Seq(Channels)
          /\ topics \in [Topics -> {Absent} \cup Seq(Channels)]
      BY <1>0, <1>3, <1>5 DEF TypeOK, Known
    <2>2. /\ chan[p] \in Channels
          /\ chan[p] \notin closed
          /\ mailbox[chan[p]] = NoAnswer
          /\ p \notin sent
          /\ sent' = sent \cup {p}
          /\ sent' \subseteq Procs
          /\ UNCHANGED <<request, chan>>
          /\ request[p].kind = "listen"
          /\ current \notin Procs
      BY <1>1, Accepted
    <2>3. /\ Append(topics[t], chan[p]) \in Seq(Channels)
          /\ Append(topics[t], chan[p]) # Absent
          /\ ToSet(Append(topics[t], chan[p])) = ToSet(topics[t]) \cup {chan[p]}
      <3>1. Append(topics[t], chan[p]) \in Seq(Channels)
        BY <2>1, <2>2
      <3>2. ToSet(Append(topics[t], chan[p])) = ToSet(topics[t]) \cup {chan[p]}
        BY <2>1, <2>2, ListMembers
      <3> QED
        BY <3>1, <3>2, AbsentAssumption
    <2>4. /\ topics' \in [Topics -> {Absent} \cup Seq(Channels)]
          /\ topics'[t] = Append(topics[t], chan[p])
          /\ \A u \in Topics \ {t} : topics'[u] = topics[u]
      BY <1>3, <1>5, <2>1, <2>3
    <2>5. TypeOK'
      BY <1>0, <1>1, <1>5, <2>2, <2>4 DEF TypeOK
    <2>6. /\ Waiting(t)' = Waiting(t) \cup {chan[p]}
          /\ \A u \in Topics \ {t} : Waiting(u)' = Waiting(u)
      BY <1>3, <1>5, <2>3, <2>4 DEF Waiting, Known
    <2>7. \A u \in Topics : chan[p] \notin Waiting(u)
      <3> SUFFICES ASSUME NEW u \in Topics, chan[p] \in Waiting(u)
                   PROVE  FALSE
        OBVIOUS
      <3>1. PICK q \in sent : Listens(q, u, chan[p])
        BY DEF HubInv, ListenersWait
      <3> QED
        BY <1>0, <2>2, <3>1, ChannelsAssumption
        DEF HubInv, OwnChannels, Listens, TypeOK
    <2>8. OwnChannels'
      BY <1>0, <1>1, <2>2, Accepted DEF HubInv, OwnChannels, TypeOK
    <2>9. Unanswered'
      BY <1>1, <1>5, <2>2 DEF HubInv, Unanswered
    <2>10. CurrentRequest'
      BY <1>1, Accepted DEF CurrentRequest
    <2>11. ASSUME NEW u \in Topics, NEW c \in Waiting(u)'
           PROVE  /\ c \notin closed'
                  /\ mailbox'[c] = NoAnswer
                  /\ \E q \in sent' : Listens(q, u, c)'
      <3>1. CASE c \in Waiting(u)
        <4>1. PICK q \in sent : Listens(q, u, c)
          BY <3>1 DEF HubInv, ListenersWait
        <4>2. q \in sent' /\ Listens(q, u, c)'
          BY <1>1, <2>2, <4>1 DEF Listens
        <4> QED
          BY <1>5, <3>1, <4>2 DEF HubInv, ListenersWait
      <3>2. CASE c \notin Waiting(u)
        <4>1. u = t /\ c = chan[p]
          BY <2>6, <3>2
        <4>2. p \in sent' /\ Listens(p, t, chan[p])'
          BY <1>1, <1>3, <2>2 DEF Listens
        <4> QED
          BY <1>5, <2>2, <4>1, <4>2
      <3> QED
        BY <3>1, <3>2
    <2>12. ListenersWait'
      BY <2>11 DEF ListenersWait
    <2>13. ListedOnce'
      <3>1. chan[p] \notin ToSet(topics[t])
        BY <1>3, <1>5, <2>7 DEF Waiting
      <3>2. Distinct(topics[t])
        BY <1>3, <1>5 DEF HubInv, ListedOnce
      <3>3. Distinct(Append(topics[t], chan[p]))
        BY <2>1, <2>2, <3>1, <3>2, DistinctLists
      <3>4. \A u \in Topics \ {t} : Known(u)' => Distinct(topics'[u])
        BY <2>4 DEF HubInv, ListedOnce, Known
      <3> QED
        BY <1>1, <2>4, <3>3, <3>4 DEF HubInv, ListedOnce
    <2>14. AllServed'
      <3> SUFFICES ASSUME NEW q \in sent'
                   PROVE  (\/ mailbox[chan[q]] # NoAnswer
                           \/ q = current
                           \/ /\ request[q].kind = "listen"
                              /\ chan[q] \in Waiting(request[q].topic))'
        BY DEF AllServed
      <3>1. CASE q = p
        BY <1>3, <2>2, <2>6, <3>1
      <3>2. CASE q # p
        <4>1. q \in sent /\ request[q] \in Request
          BY <1>0, <2>2, <3>2 DEF TypeOK, HubInv, OwnChannels
        <4>2. PICK u \in Topics : request[q].topic = u
          BY <4>1 DEF Request
        <4>3. chan[q] \in Waiting(u) => chan[q] \in Waiting(u)'
          BY <2>6
        <4> QED
          BY <1>1, <1>5, <2>2, <4>1, <4>2, <4>3 DEF HubInv, AllServed
      <3> QED
        BY <3>1, <3>2
    <2> QED
      BY <1>5, <2>5, <2>8, <2>9, <2>10, <2>12, <2>13, <2>14 DEF HubInv
  <1> QED
    BY <1>2, <1>4, <1>5

\* A close or a notification: it is answered, or its listeners are to be.
LEMMA AcceptForListenersInv ==
    ASSUME HubInv, NEW p \in Procs, NEW k \in {"close", "send"},
           AcceptForListeners(p, k)
    PROVE  HubInv'
  <1>0. TypeOK
    BY DEF HubInv
  <1>1. Accept(p, k) /\ UNCHANGED topics
    BY DEF AcceptForListeners
  <1> PICK t \in Topics : t = request[p].topic
    BY <1>1, Accepted
  <1>2. \/ /\ SendOn(chan[p], Reply("notFound"))
           /\ UNCHANGED <<monitor, current, todo>>
        \/ /\ Known(t)
           /\ monitor' = "notify"
           /\ current' = p
           /\ todo' = topics[t]
           /\ UNCHANGED <<mailbox, closed, panicked>>
    BY DEF AcceptForListeners
  <1>3. CASE /\ SendOn(chan[p], Reply("notFound"))
             /\ UNCHANGED <<monitor, current, todo>>
    <2>1. /\ mailbox' \in [Channels -> {NoAnswer} \cup Registry!Answer]
          /\ closed' \subseteq Channels
          /\ panicked' = FALSE
      BY <1>0, <1>1, <1>3, Accepted, SendOnOpen, Answers
    <2>2. TypeOK'
      BY <1>0, <1>1, <1>3, <2>1, Accepted DEF TypeOK
    <2>3. \A u \in Topics : Waiting(u)' = Waiting(u)
      BY <1>1, <1>3, Accepted DEF Waiting, Known, Pending
    <2>4. ListedOnce'
      BY <1>1, <1>3 DEF HubInv, ListedOnce, Known
    <2> QED
      BY <1>1, <1>3, <2>2, <2>3, <2>4, Accepted, AnswerAtOnceInv, Answers
  <1>4. CASE /\ Known(t)
             /\ monitor' = "notify"
             /\ current' = p
             /\ todo' = topics[t]
             /\ UNCHANGED <<mailbox, closed, panicked>>
    <2>1. /\ request[p] # Absent
          /\ request[p].kind = k
          /\ p \notin sent
          /\ sent' = sent \cup {p}
          /\ sent' \subseteq Procs
          /\ UNCHANGED <<request, chan>>
          /\ chan[p] \in Channels
          /\ chan[p] \notin closed
          /\ mailbox[chan[p]] = NoAnswer
          /\ current \notin Procs
          /\ \A u \in Topics : ~ Pending(u)
      BY <1>1, Accepted
    <2>2. topics[t] \in Seq(Channels)
      BY <1>0, <1>4 DEF TypeOK, Known
    <2>3. TypeOK'
      BY <1>0, <1>1, <1>4, <2>1, <2>2 DEF TypeOK
    <2>4. \A u \in Topics : Waiting(u)' = Waiting(u)
      <3> SUFFICES ASSUME NEW u \in Topics PROVE Waiting(u)' = Waiting(u)
        OBVIOUS
      <3>1. Pending(u)' <=> u = t
        BY <1>4, <2>1 DEF Pending
      <3>2. ToSet(todo)' = ToSet(topics[t])
        BY <1>4 DEF ToSet
      <3>3. Waiting(u) = IF Known(u) THEN ToSet(topics[u]) ELSE {}
        BY <2>1 DEF Waiting
      <3>4. CASE u = t
        BY <1>4, <3>1, <3>2, <3>3, <3>4 DEF Waiting
      <3>5. CASE u # t
        BY <1>1, <3>1, <3>3, <3>5 DEF Waiting, Known
      <3> QED
        BY <3>4, <3>5
    <2>5. OwnChannels'
      BY <1>0, <2>1 DEF HubInv, OwnChannels, TypeOK
    <2>6. Unanswered'
      BY <1>4, <2>1 DEF HubInv, Unanswered
    <2>7. CurrentRequest'
      BY <1>1, <1>4, <2>1 DEF CurrentRequest, Known
    <2>8. ASSUME NEW u \in Topics, NEW c \in Waiting(u)
          PROVE  \E q \in sent' : Listens(q, u, c)'
      <3>1. PICK q \in sent : Listens(q, u, c)
        BY DEF HubInv, ListenersWait
      <3>2. q \in sent' /\ Listens(q, u, c)'
        BY <1>4, <2>1, <3>1 DEF Listens
      <3> QED
        BY <3>2
    <2>9. ListenersWait'
      BY <1>4, <2>4, <2>8 DEF HubInv, ListenersWait
    <2>10. ListedOnce'
      BY <1>1, <1>4 DEF HubInv, ListedOnce, Known
    <2>11. AllServed'
      <3> SUFFICES ASSUME NEW q \in sent', q # current'
                   PROVE  (\/ mailbox[chan[q]] # NoAnswer
                           \/ /\ request[q].kind = "listen"
                              /\ chan[q] \in Waiting(request[q].topic))'
        BY DEF AllServed
      <3>1. /\ q \in sent
            /\ q # current
            /\ request[q] \in Request
        BY <1>0, <1>4, <2>1 DEF TypeOK, HubInv, OwnChannels
      <3>2. PICK u \in Topics : request[q].topic = u
        BY <3>1 DEF Request
      <3> QED
        BY <1>4, <2>1, <2>4, <3>1, <3>2 DEF HubInv, AllServed
    <2> QED
      BY <1>4, <2>3, <2>5, <2>6, <2>7, <2>9, <2>10, <2>11 DEF HubInv
  <1> QED
    BY <1>2, <1>3, <1>4

\* The monitor answers the first of the listeners it has yet to answer.
LEMMA NotifyListenerInv == HubInv /\ NotifyListener => HubInv'
  <1> SUFFICES ASSUME HubInv, NotifyListener PROVE HubInv'
    OBVIOUS
  <1>0. TypeOK
    BY DEF HubInv
  <1>1. /\ monitor = "notify"
        /\ todo # <<>>
        /\ SendOn(Head(todo), Message(request[current]))
        /\ todo' = Tail(todo)
        /\ UNCHANGED <<topics, request, chan, sent, monitor, current>>
    BY DEF NotifyListener
  <1>2. /\ current \in Procs
        /\ request[current] \in Request
        /\ Message(request[current]) \in Registry!Answer
    BY <1>0, <1>1, Answers DEF TypeOK, HubInv, CurrentRequest, OwnChannels
  <1>3. PICK t \in Topics : t = request[current].topic
    BY <1>2 DEF Request
  <1>4. \A u \in Topics : (Pending(u) <=> u = t) /\ (Pending(u)' <=> u = t)
    BY <1>1, <1>3 DEF Pending
  <1>5. /\ todo \in Seq(Channels)
        /\ Tail(todo) \in Seq(Channels)
        /\ Distinct(todo)
    BY <1>0, <1>1 DEF TypeOK, HubInv, ListedOnce
  <1>6. /\ Head(todo) \in ToSet(todo)
        /\ Distinct(Tail(todo))
        /\ ToSet(Tail(todo)) = ToSet(todo) \ {Head(todo)}
    BY <1>1, <1>5, ListMembers, DistinctLists
  <1>7. /\ Waiting(t) = ToSet(todo)
        /\ Waiting(t)' = ToSet(todo) \ {Head(todo)}
        /\ \A u \in Topics \ {t} : Waiting(u)' = Waiting(u)
    <2>1. ToSet(todo)' = ToSet(Tail(todo))
      BY <1>1 DEF ToSet
    <2> QED
      BY <1>1, <1>4, <1>6, <2>1 DEF Waiting, Known
  <1>8. /\ Head(todo) \in Channels
        /\ Head(todo) \notin closed
    BY <1>1, <1>5, <1>6, <1>7 DEF HubInv, ListenersWait
  <1>9. /\ mailbox' \in [Channels -> {NoAnswer} \cup Registry!Answer]
        /\ closed' \subseteq Channels
        /\ panicked' = FALSE
    BY <1>0, <1>1, <1>2, <1>8, SendOnOpen
  <1>10. TypeOK'
    BY <1>0, <1>1, <1>5, <1>9 DEF TypeOK
  <1>11. CurrentRequest'
    BY <1>1 DEF HubInv, CurrentRequest, Known
  <1>12. ListedOnce'
    BY <1>1, <1>6 DEF HubInv, ListedOnce, Known
  <1> QED
    BY <1>1, <1>2, <1>6, <1>7, <1>10, <1>11, <1>12, AnswerListenerInv

\* All listeners are answered: the topic is emptied or gone, and then the
\* process that asked for it has its answer.
LEMMA UpdateTopicInv == HubInv /\ UpdateTopic => HubInv'
  <1> SUFFICES ASSUME HubInv, UpdateTopic PROVE HubInv'
    OBVIOUS
  <1>0. TypeOK
    BY DEF HubInv
  <1>1. /\ monitor = "notify"
        /\ todo = <<>>
        /\ SendOn(chan[current], Reply("nil"))
        /\ monitor' = "select"
        /\ current' = Absent
        /\ UNCHANGED <<request, chan, sent, todo>>
    BY DEF UpdateTopic, FinishRequest
  <1>2. PICK p \in Procs : p = current
    BY <1>0, <1>1 DEF TypeOK
  <1>3. /\ p \in sent
        /\ request[p] \in Request
        /\ request[p] # Absent
    BY <1>0, <1>1, <1>2 DEF HubInv, CurrentRequest, OwnChannels, TypeOK
  <1>4. PICK t \in Topics : t = request[p].topic
    BY <1>3 DEF Request
  <1>5. /\ chan[p] \in Channels
        /\ chan[p] \notin closed
        /\ \A q \in Procs : q # p => chan[q] # chan[p]
        /\ \A q \in Procs : q # Absent
    BY <1>2, <1>3, ChannelsAssumption, AbsentAssumption
    DEF HubInv, OwnChannels, Unanswered
  <1>6. PICK new \in {Absent, <<>>} : topics' = [topics EXCEPT ![t] = new]
    BY <1>2, <1>4 DEF UpdateTopic
  <1>7. /\ mailbox' = [mailbox EXCEPT ![chan[p]] = Reply("nil")]
        /\ mailbox' \in [Channels -> {NoAnswer} \cup Registry!Answer]
        /\ closed' = closed \cup {chan[p]}
        /\ closed' \subseteq Channels
        /\ panicked' = FALSE
        /\ Reply("nil") # NoAnswer
    BY <1>0, <1>1, <1>2, <1>5, SendOnOpen, Answers
  <1>8. /\ topics' \in [Topics -> {Absent} \cup Seq(Channels)]
        /\ topics'[t] = new
        /\ \A u \in Topics \ {t} : topics'[u] = topics[u]
    <2>1. /\ topics \in [Topics -> {Absent} \cup Seq(Channels)]
          /\ new \in {Absent} \cup Seq(Channels)
      <3>1. <<>> \in Seq(Channels)
        OBVIOUS
      <3> QED
        BY <1>0, <3>1 DEF TypeOK
    <2> QED
      BY <1>6, <2>1
  <1>9. TypeOK'
    BY <1>0, <1>1, <1>5, <1>7, <1>8 DEF TypeOK
  <1>10. \A u \in Topics : Waiting(u)' = Waiting(u)
    <2> SUFFICES ASSUME NEW u \in Topics PROVE Waiting(u)' = Waiting(u)
      OBVIOUS
    <2>1. ~ Pending(u)' /\ (Pending(u) <=> u = t)
      BY <1>1, <1>2, <1>4 DEF Pending
    <2>2. ToSet(<<>>) = {}
      BY DEF ToSet
    <2>3. CASE u = t
      BY <1>1, <1>8, <2>1, <2>2, <2>3 DEF Waiting, Known
    <2>4. CASE u # t
      BY <1>8, <2>1, <2>4 DEF Waiting, Known
    <2> QED
      BY <2>3, <2>4
  <1>11. OwnChannels'
    BY <1>1 DEF HubInv, OwnChannels
  <1>12. Unanswered'
    BY <1>0, <1>1, <1>2, <1>3, <1>5, <1>7 DEF HubInv, Unanswered, OwnChannels, TypeOK
  <1>13. CurrentRequest'
    BY <1>1 DEF CurrentRequest
  <1>14. ASSUME NEW u \in Topics, NEW c \in Waiting(u)
         PROVE  /\ c \notin closed'
                /\ mailbox'[c] = NoAnswer
                /\ \E q \in sent' : Listens(q, u, c)'
    <2>1. PICK q \in sent : Listens(q, u, c)
      BY DEF HubInv, ListenersWait
    <2>2. /\ q \in Procs
          /\ q # p
          /\ chan[q] = c
          /\ c # chan[p]
          /\ c \in Channels
      BY <1>0, <1>2, <1>5, <2>1, ChannelsAssumption
      DEF Listens, TypeOK, HubInv, OwnChannels
    <2>3. c \notin closed' /\ mailbox'[c] = NoAnswer
      BY <1>0, <1>7, <2>2 DEF HubInv, ListenersWait, TypeOK
    <2>4. q \in sent' /\ Listens(q, u, c)'
      BY <1>1, <1>5, <2>1, <2>2 DEF Listens
    <2> QED
      BY <2>3, <2>4
  <1>15. ListenersWait'
    BY <1>10, <1>14 DEF ListenersWait
  <1>16. ListedOnce'
    <2>1. Distinct(<<>>)
      BY DEF Distinct
    <2> QED
      BY <1>1, <1>8, <2>1 DEF HubInv, ListedOnce, Known
  <1>17. AllServed'
    <2> SUFFICES ASSUME NEW q \in sent'
                 PROVE  (\/ mailbox[chan[q]] # NoAnswer
                         \/ /\ request[q].kind = "listen"
                            /\ chan[q] \in Waiting(request[q].topic))'
      BY DEF AllServed
    <2>1. q \in sent /\ q \in Procs
      BY <1>0, <1>1 DEF TypeOK
    <2>2. CASE q = p
      BY <1>0, <1>1, <1>5, <1>7, <2>2 DEF TypeOK
    <2>3. CASE q # p
      <3>1. /\ mailbox'[chan[q]] = mailbox[chan[q]]
            /\ request[q] \in Request
        BY <1>0, <1>5, <1>7, <2>1, <2>3 DEF TypeOK, HubInv, OwnChannels
      <3>2. PICK u \in Topics : request[q].topic = u
        BY <3>1 DEF Request
      <3> QED
        BY <1>1, <1>2, <1>10, <2>1, <2>3, <3>1, <3>2 DEF HubInv, AllServed
    <2> QED
      BY <2>2, <2>3
  <1> QED
    BY <1>7, <1>9, <1>11, <1>12, <1>13, <1>15, <1>16, <1>17 DEF HubInv

\* The context is cancelled.  The topics are emptied one listener at a time.
LEMMA CancelInv ==
    HubInv /\ (StartCancel \/ StopMonitor \/ \E t \in Topics : CancelTopic(t))
        => HubInv'
  <1> SUFFICES ASSUME HubInv,
                      StartCancel \/ StopMonitor \/ \E t \in Topics : CancelTopic(t)
               PROVE  HubInv'
    OBVIOUS
  <1>0. TypeOK
    BY DEF HubInv
  <1>1. CASE StartCancel \/ StopMonitor
    <2>1. /\ monitor \in {"select", "cancel"}
          /\ monitor' \in {"cancel", "stopped"}
          /\ UNCHANGED <<topics, mailbox, closed, request, chan, sent, current,
                         todo, panicked>>
      BY <1>1 DEF StartCancel, StopMonitor
    <2>2. TypeOK'
      BY <1>0, <2>1 DEF TypeOK
    <2>3. CurrentRequest' /\ ListedOnce'
      BY <2>1 DEF HubInv, CurrentRequest, ListedOnce, Known
    <2>4. \A u \in Topics : Waiting(u)' = Waiting(u)
      BY <2>1 DEF Waiting, Pending, Known
    <2> QED
      BY <2>1, <2>2, <2>3, <2>4, QuietInv
  <1>2. ASSUME NEW t \in Topics, CancelTopic(t) PROVE HubInv'
    <2>1. /\ monitor = "cancel"
          /\ Known(t)
          /\ topics \in [Topics -> {Absent} \cup Seq(Channels)]
          /\ topics[t] \in Seq(Channels)
          /\ Distinct(topics[t])
          /\ UNCHANGED <<request, chan, sent, monitor, current, todo>>
      BY <1>0, <1>2 DEF CancelTopic, TypeOK, Known, HubInv, ListedOnce
    <2>2. /\ Waiting(t) = ToSet(topics[t])
          /\ \A u \in Topics : ~ Pending(u) /\ ~ Pending(u)'
          /\ CurrentRequest'
      BY <2>1 DEF Waiting, Pending, CurrentRequest
    <2>3. CASE /\ topics[t] = <<>>
               /\ topics' = [topics EXCEPT ![t] = Absent]
               /\ UNCHANGED <<mailbox, closed, panicked>>
      <3>1. TypeOK'
        BY <1>0, <2>1, <2>3 DEF TypeOK
      <3>2. ListedOnce'
        BY <2>1, <2>3 DEF HubInv, ListedOnce, Known
      <3>3. \A u \in Topics : Waiting(u)' = Waiting(u)
        <4>1. ToSet(<<>>) = {}
          BY DEF ToSet
        <4> QED
          BY <2>1, <2>2, <2>3, <4>1 DEF Waiting, Known
      <3> QED
        BY <2>1, <2>2, <2>3, <3>1, <3>2, <3>3, QuietInv
    <2>4. CASE /\ topics[t] # <<>>
               /\ SendOn(Head(topics[t]), Notify(TRUE, "canceled"))
               /\ topics' = [topics EXCEPT ![t] = Tail(topics[t])]
      <3>1. /\ Tail(topics[t]) \in Seq(Channels)
            /\ Tail(topics[t]) # Absent
            /\ Head(topics[t]) \in ToSet(topics[t])
            /\ Distinct(Tail(topics[t]))
            /\ ToSet(Tail(topics[t])) = ToSet(topics[t]) \ {Head(topics[t])}
        <4>1. Tail(topics[t]) \in Seq(Channels)
          BY <2>1, <2>4
        <4> QED
          BY <2>1, <2>4, <4>1, ListMembers, DistinctLists, AbsentAssumption
      <3>2. /\ topics' \in [Topics -> {Absent} \cup Seq(Channels)]
            /\ topics'[t] = Tail(topics[t])
            /\ \A u \in Topics \ {t} : topics'[u] = topics[u]
        BY <2>1, <2>4, <3>1
      <3>3. /\ Head(topics[t]) \in Channels
            /\ Head(topics[t]) \notin closed
        BY <2>1, <2>2, <2>4, <3>1 DEF HubInv, ListenersWait
      <3>4. /\ mailbox' \in [Channels -> {NoAnswer} \cup Registry!Answer]
            /\ closed' \subseteq Channels
            /\ panicked' = FALSE
        BY <1>0, <2>4, <3>3, SendOnOpen, Answers
      <3>5. TypeOK'
        BY <1>0, <2>1, <3>2, <3>4 DEF TypeOK
      <3>6. ListedOnce'
        BY <2>1, <3>1, <3>2 DEF HubInv, ListedOnce, Known
      <3>7. /\ Waiting(t)' = Waiting(t) \ {Head(topics[t])}
            /\ \A u \in Topics \ {t} : Waiting(u)' = Waiting(u)
        BY <2>1, <2>2, <3>1, <3>2 DEF Waiting, Known
      <3> QED
        BY <2>1, <2>2, <2>4, <3>1, <3>5, <3>6, <3>7, AnswerListenerInv, Answers
    <2> QED
      BY <1>2, <2>3, <2>4 DEF CancelTopic
  <1> QED
    BY <1>1, <1>2

----------------------------------------------------------------------------
(* The theorems *)

\* Every step of the callers, the monitor and the context keeps the invariant.
LEMMA StepInv == HubInv /\ [Next]_vars => HubInv'
  <1> SUFFICES ASSUME HubInv, [Next]_vars PROVE HubInv'
    OBVIOUS
  <1>1. ASSUME NEW p \in Procs, NEW r \in Request, NEW ch \in Channels,
               NewRequest(p, r, ch)
        PROVE  HubInv'
    BY <1>1, NewRequestInv
  <1>2. ASSUME NEW p \in Procs, Receive(p) PROVE HubInv'
    BY <1>2, ReceiveInv
  <1>3. ASSUME NEW p \in Procs, MonitorAccepts(p) PROVE HubInv'
    BY <1>3, AcceptRegisterInv, AcceptListenerInv, AcceptForListenersInv
    DEF MonitorAccepts
  <1>4. ASSUME MonitorGoesOn \/ StartCancel PROVE HubInv'
    BY <1>4, NotifyListenerInv, UpdateTopicInv, CancelInv DEF MonitorGoesOn
  <1>5. CASE UNCHANGED vars
    <2>1. /\ UNCHANGED <<topics, mailbox, closed, request, chan, sent, monitor,
                         current, todo, panicked>>
      BY <1>5 DEF vars
    <2>2. TypeOK'
      BY <2>1 DEF HubInv, TypeOK
    <2>3. CurrentRequest' /\ ListedOnce'
      BY <2>1 DEF HubInv, CurrentRequest, ListedOnce, Known
    <2>4. \A t \in Topics : Waiting(t)' = Waiting(t)
      BY <2>1 DEF Waiting, Pending, Known
    <2> QED
      BY <2>1, <2>2, <2>3, <2>4, QuietInv
  <1> QED
    BY <1>1, <1>2, <1>3, <1>4, <1>5 DEF Next

\* The monitor's lists hold exactly the channels that wait for an answer, each
\* once, and every other request that was sent is answered or under way.
THEOREM HubInvHolds == Spec => []HubInv
  BY InitInv, StepInv, PTL DEF Spec

\* Every variable of the monitor and its callers has its type, and the
\* monitor has a current request exactly while it works on one.
THEOREM TypeOKHolds == Spec => []TypeOK
  <1>1. HubInv => TypeOK
    BY DEF HubInv
  <1> QED
    BY <1>1, HubInvHolds, PTL

\* The monitor never sends on a closed channel: sendNotificationOnChan
\* reaches each listening channel once, although the map keeps it meanwhile.
THEOREM NeverPanicsHolds == Spec => []NeverPanics
  <1>1. HubInv => NeverPanics
    BY DEF HubInv, NeverPanics
  <1> QED
    BY <1>1, HubInvHolds, PTL

\* No request that the monitor has taken is forgotten: it is answered, under
\* way, or its channel is in a list that the monitor still has.
THEOREM NoneForgottenHolds == Spec => []NoneForgotten
  <1>1. HubInv => NoneForgotten
    <2> SUFFICES ASSUME HubInv, NEW p \in sent,
                        mailbox[chan[p]] = NoAnswer, p # current
                 PROVE  /\ request[p].kind = "listen"
                        /\ \/ chan[p] \in ToSet(todo)
                           \/ /\ Known(request[p].topic)
                              /\ chan[p] \in ToSet(topics[request[p].topic])
      BY DEF NoneForgotten
    <2>1. request[p].kind = "listen" /\ chan[p] \in Waiting(request[p].topic)
      BY DEF HubInv, AllServed
    <2> QED
      BY <2>1 DEF Waiting
  <1> QED
    BY <1>1, HubInvHolds, PTL

----------------------------------------------------------------------------
(* The refinement of TopicRegistry.  A request is served when it is taken, *)
(* the registry stops when the monitor sees its context cancelled, and the *)
(* other steps of the monitor only deliver what was settled by then.       *)

\* At first there are no topics and nobody has an answer.
LEMMA InitRefines == Init => Registry!Init
  BY DEF Init, Registry!Init, AbstractListeners, AbstractAnswer, Cancelled, Known

\* The abstract variables are functions, before and after a step.
LEMMA AbstractFunctions ==
    /\ AbstractListeners = [t \in Topics |-> AbstractListeners[t]]
    /\ AbstractListeners' = [t \in Topics |-> AbstractListeners'[t]]
    /\ AbstractAnswer = [p \in Procs |-> AbstractAnswer[p]]
    /\ AbstractAnswer' = [p \in Procs |-> AbstractAnswer'[p]]
  <1>1. AbstractListeners = [t \in Topics |-> AbstractListeners[t]]
    BY DEF AbstractListeners
  <1>2. AbstractListeners' = [t \in Topics |-> AbstractListeners'[t]]
    BY DEF AbstractListeners
  <1>3. AbstractAnswer = [p \in Procs |-> AbstractAnswer[p]]
    BY DEF AbstractAnswer
  <1>4. AbstractAnswer' = [p \in Procs |-> AbstractAnswer'[p]]
    BY DEF AbstractAnswer
  <1> QED
    BY <1>1, <1>2, <1>3, <1>4

\* Two waiting lists share no channel: its owner listens to one topic.
LEMMA WaitingApart ==
    ASSUME HubInv, NEW t \in Topics, NEW u \in Topics,
           NEW ch \in Waiting(t), ch \in Waiting(u)
    PROVE  t = u
  <1>1. PICK p \in sent : Listens(p, t, ch)
    BY DEF HubInv, ListenersWait
  <1>2. PICK q \in sent : Listens(q, u, ch)
    BY DEF HubInv, ListenersWait
  <1>3. p \in Procs /\ q \in Procs /\ request[p] # Absent
    BY <1>1, <1>2 DEF HubInv, TypeOK, OwnChannels
  <1>4. p = q
    BY <1>1, <1>2, <1>3, ChannelsAssumption DEF HubInv, OwnChannels, Listens
  <1> QED
    BY <1>1, <1>2, <1>4 DEF Listens

\* While the monitor selects, the registry's listeners are the processes
\* whose channels are in the lists, and only they have no answer.
LEMMA SelectState ==
    ASSUME HubInv, monitor = "select"
    PROVE  /\ ~ Cancelled
           /\ \A t \in Topics : AbstractListeners[t] =
                IF Known(t) THEN {p \in sent : chan[p] \in ToSet(topics[t])}
                ELSE Absent
           /\ \A t \in Topics : AbstractListeners[t] # Absent <=> Known(t)
           /\ \A p \in Procs : AbstractAnswer[p] =
                IF p \in sent THEN mailbox[chan[p]] ELSE NoAnswer
  <1>1. ~ Cancelled /\ \A t \in Topics : ~ Pending(t)
    BY DEF Cancelled, Pending
  <1>2. \A t \in Topics : AbstractListeners[t] =
            IF Known(t) THEN {p \in sent : chan[p] \in ToSet(topics[t])}
            ELSE Absent
    BY <1>1 DEF AbstractListeners
  <1>3. \A t \in Topics : AbstractListeners[t] # Absent <=> Known(t)
    <2> SUFFICES ASSUME NEW t \in Topics, Known(t)
                 PROVE  AbstractListeners[t] # Absent
      BY <1>2
    <2>1. AbstractListeners[t] \in SUBSET Procs
      BY <1>2 DEF HubInv, TypeOK
    <2> QED
      BY <2>1, AbsentAssumption
  <1>4. todo = <<>> /\ ToSet(todo) = {} /\ current \notin Procs
    BY DEF HubInv, TypeOK, ToSet
  <1>5. ASSUME NEW p \in Procs
        PROVE  AbstractAnswer[p] = IF p \in sent THEN mailbox[chan[p]] ELSE NoAnswer
    BY <1>1, <1>4 DEF AbstractAnswer
  <1> QED
    BY <1>1, <1>2, <1>3, <1>5

\* What the registry requires of a request to serve is true of one that the
\* monitor takes, and the taker is in no list.
LEMMA TakenCanBeServed ==
    ASSUME HubInv, NEW p \in Procs, NEW k, Accept(p, k)
    PROVE  /\ ~ Cancelled
           /\ request[p] # Absent
           /\ AbstractAnswer[p] = NoAnswer
           /\ \A u \in Topics :
                AbstractListeners[u] = Absent \/ p \notin AbstractListeners[u]
           /\ UNCHANGED request
           /\ \A u \in Topics : Known(u) => chan[p] \notin ToSet(topics[u])
  <1>1. /\ monitor = "select" /\ request[p] # Absent /\ UNCHANGED request
        /\ p \notin sent /\ \A t \in Topics : ~ Pending(t)
    BY Accepted
  <1>2. ASSUME NEW u \in Topics, Known(u), chan[p] \in ToSet(topics[u])
        PROVE  FALSE
    <2>1. chan[p] \in Waiting(u)
      BY <1>1, <1>2 DEF Waiting
    <2>2. PICK q \in sent : Listens(q, u, chan[p])
      BY <2>1 DEF HubInv, ListenersWait
    <2> QED
      BY <1>1, <2>2, ChannelsAssumption DEF HubInv, OwnChannels, TypeOK, Listens
  <1> QED
    BY <1>1, <1>2, SelectState

\* While the monitor selects, taking a request changes no list by itself.
LEMMA TakingListensToNothing ==
    ASSUME HubInv, NEW p \in Procs, NEW k, Accept(p, k), monitor' = "select",
           NEW t \in Topics, topics'[t] = topics[t]
    PROVE  AbstractListeners'[t] = AbstractListeners[t]
  <1>1. /\ ~ Cancelled /\ ~ Cancelled'
        /\ ~ Pending(t) /\ ~ Pending(t)'
        /\ sent' = sent \cup {p} /\ UNCHANGED chan
    BY Accepted DEF Cancelled, Pending
  <1>2. Known(t) => chan[p] \notin ToSet(topics[t])
    BY TakenCanBeServed
  <1>3. Known(t)' <=> Known(t)
    BY DEF Known
  <1>4. ToSet(topics[t])' = ToSet(topics[t])
    BY DEF ToSet
  <1>5. Known(t) => {q \in sent' : chan'[q] \in ToSet(topics[t])'}
                      = {q \in sent : chan[q] \in ToSet(topics[t])}
    BY <1>1, <1>2, <1>4
  <1> QED
    BY <1>1, <1>3, <1>5 DEF AbstractListeners

\* A request that is answered when it is taken changes no other answer.
LEMMA AnswerAtOnceRefines ==
    ASSUME HubInv, HubInv', NEW p \in Procs, NEW k, Accept(p, k),
           NEW a \in Registry!Answer, SendOn(chan[p], a),
           UNCHANGED <<monitor, current, todo>>
    PROVE  /\ ~ Cancelled'
           /\ AbstractAnswer' = [AbstractAnswer EXCEPT ![p] = a]
           /\ topics' = topics => AbstractListeners' = AbstractListeners
  <1>1. /\ monitor = "select" /\ monitor' = "select"
        /\ p \notin sent /\ sent' = sent \cup {p} /\ UNCHANGED chan
        /\ chan[p] \in Channels /\ chan[p] \notin closed
        /\ sent \subseteq Procs
    BY Accepted DEF HubInv, TypeOK
  <1>2. mailbox' = [mailbox EXCEPT ![chan[p]] = a]
    BY <1>1, SendOnOpen DEF HubInv
  <1>3. ~ Cancelled' /\ \A t \in Topics : ~ Pending(t) /\ ~ Pending(t)'
    BY <1>1 DEF Cancelled, Pending
  <1>4. ASSUME NEW q \in Procs
        PROVE  AbstractAnswer'[q] = IF q = p THEN a ELSE AbstractAnswer[q]
    <2>1. AbstractAnswer[q] = IF q \in sent THEN mailbox[chan[q]] ELSE NoAnswer
      BY <1>1, SelectState
    <2>2. AbstractAnswer'[q] =
            IF q \in sent' THEN mailbox'[chan'[q]] ELSE NoAnswer
      <3>1. todo' = <<>> /\ ToSet(todo)' = {} /\ current' \notin Procs
        BY <1>1 DEF HubInv, TypeOK, ToSet
      <3> QED
        BY <1>3, <3>1 DEF AbstractAnswer
    <2>3. q # p /\ q \in sent => chan[q] # chan[p] /\ chan[q] \in Channels
      BY <1>1, ChannelsAssumption DEF HubInv, OwnChannels
    <2>4. mailbox \in [Channels -> {NoAnswer} \cup Registry!Answer]
      BY DEF HubInv, TypeOK
    <2> QED
      BY <1>1, <1>2, <2>1, <2>2, <2>3, <2>4
  <1>5. AbstractAnswer' = [AbstractAnswer EXCEPT ![p] = a]
    BY <1>4, AbstractFunctions
  <1>6. ASSUME topics' = topics PROVE AbstractListeners' = AbstractListeners
    <2>1. \A t \in Topics : AbstractListeners'[t] = AbstractListeners[t]
      BY <1>1, <1>6, TakingListensToNothing
    <2> QED
      BY <2>1, AbstractFunctions
  <1> QED
    BY <1>3, <1>5, <1>6

\* Registering a topic is the registry's service of that request.
LEMMA AcceptRegisterRefines ==
    ASSUME HubInv, HubInv', NEW p \in Procs, AcceptRegister(p)
    PROVE  Registry!Serve(p)
  <1>1. /\ Accept(p, "register")
        /\ UNCHANGED <<monitor, current, todo>>
    BY DEF AcceptRegister
  <1> PICK t \in Topics : t = request[p].topic
    BY <1>1, Accepted
  <1>2. /\ request[p].kind = "register"
        /\ monitor = "select"
        /\ sent' \subseteq Procs
        /\ sent' = sent \cup {p}
        /\ UNCHANGED <<request, chan>>
    BY <1>1, Accepted
  <1>3. ~ Cancelled' /\ \A u \in Topics : ~ Pending(u) /\ ~ Pending(u)'
    BY <1>1, <1>2 DEF Cancelled, Pending
  <1>4. CASE Known(t) /\ SendOn(chan[p], Reply("exists")) /\ UNCHANGED topics
    <2>1. /\ AbstractAnswer' = [AbstractAnswer EXCEPT ![p] = Reply("exists")]
          /\ AbstractListeners' = AbstractListeners
      BY <1>1, <1>4, AnswerAtOnceRefines, Answers
    <2>2. Registry!AnswerAll(p, "exists", {}, NoAnswer)
      BY <2>1 DEF Registry!AnswerAll, AbstractAnswer, Reply, Registry!Reply
    <2> QED
      BY <1>1, <1>2, <1>3, <1>4, <2>1, <2>2, SelectState, TakenCanBeServed
      DEF Registry!Serve, Cancelled
  <1>5. CASE /\ ~ Known(t) /\ SendOn(chan[p], Reply("nil"))
             /\ topics' = [topics EXCEPT ![t] = <<>>]
    <2>1. AbstractAnswer' = [AbstractAnswer EXCEPT ![p] = Reply("nil")]
      BY <1>1, <1>5, AnswerAtOnceRefines, Answers
    <2>2. Registry!AnswerAll(p, "nil", {}, NoAnswer)
      BY <2>1 DEF Registry!AnswerAll, AbstractAnswer, Reply, Registry!Reply
    <2>3. AbstractListeners' = [AbstractListeners EXCEPT ![t] = {}]
      <3>1. topics'[t] = <<>> /\ <<>> # Absent /\ ToSet(<<>>) = {}
        <4>1. <<>> \in Seq(Channels) /\ ToSet(<<>>) = {}
          BY DEF ToSet
        <4>2. topics \in [Topics -> {Absent} \cup Seq(Channels)]
          BY DEF HubInv, TypeOK
        <4>3. topics'[t] = <<>>
          BY <1>5, <4>2
        <4> QED
          BY <4>1, <4>3, AbsentAssumption
      <3>2. AbstractListeners'[t] = {}
        BY <1>3, <3>1 DEF AbstractListeners, Known
      <3>3. ASSUME NEW u \in Topics \ {t}
            PROVE  AbstractListeners'[u] = AbstractListeners[u]
        <4>1. topics'[u] = topics[u]
          BY <1>5 DEF HubInv, TypeOK
        <4> QED
          BY <1>1, <1>2, <4>1, TakingListensToNothing
      <3> QED
        BY <3>2, <3>3, AbstractFunctions
    <2> QED
      BY <1>1, <1>2, <1>3, <1>5, <2>2, <2>3, SelectState, TakenCanBeServed
      DEF Registry!Serve, Cancelled
  <1> QED
    BY <1>4, <1>5 DEF AcceptRegister

\* A listener joins its topic in the registry, or is told that there is none.
LEMMA AcceptListenerRefines ==
    ASSUME HubInv, HubInv', NEW p \in Procs, AcceptListener(p)
    PROVE  Registry!Serve(p)
  <1>1. /\ Accept(p, "listen")
        /\ UNCHANGED <<monitor, current, todo>>
    BY DEF AcceptListener
  <1> PICK t \in Topics : t = request[p].topic
    BY <1>1, Accepted
  <1>2. /\ request[p].kind = "listen"
        /\ monitor = "select" /\ monitor' = "select"
        /\ p \notin sent
        /\ sent' = sent \cup {p}
        /\ UNCHANGED <<request, chan>>
        /\ chan[p] \in Channels
        /\ mailbox[chan[p]] = NoAnswer
    BY <1>1, Accepted
  <1>3. ~ Cancelled' /\ \A u \in Topics : ~ Pending(u) /\ ~ Pending(u)'
    BY <1>1, <1>2 DEF Cancelled, Pending
  <1>4. CASE /\ ~ Known(t) /\ SendOn(chan[p], Notify(TRUE, "notFound"))
             /\ UNCHANGED topics
    <2>1. /\ AbstractAnswer' = [AbstractAnswer EXCEPT ![p] = Notify(TRUE, "notFound")]
          /\ AbstractListeners' = AbstractListeners
      BY <1>1, <1>4, AnswerAtOnceRefines, Answers
    <2>2. Notify(TRUE, "notFound") = Registry!Notify(TRUE, "notFound")
      BY DEF Notify, Registry!Notify
    <2> QED
      BY <1>1, <1>2, <1>3, <1>4, <2>1, <2>2, SelectState, TakenCanBeServed
      DEF Registry!Serve, Cancelled
  <1>5. CASE /\ Known(t)
             /\ topics' = [topics EXCEPT ![t] = Append(topics[t], chan[p])]
             /\ UNCHANGED <<mailbox, closed, panicked>>
    <2>1. AbstractAnswer' = AbstractAnswer
      <3>1. ASSUME NEW q \in Procs
            PROVE  AbstractAnswer'[q] = AbstractAnswer[q]
        <4>1. AbstractAnswer[q] = IF q \in sent THEN mailbox[chan[q]] ELSE NoAnswer
          BY <1>2, SelectState
        <4>2. todo' = <<>> /\ ToSet(todo)' = {} /\ current' \notin Procs
          BY <1>2 DEF HubInv, TypeOK, ToSet
        <4>3. AbstractAnswer'[q] =
                IF q \in sent' THEN mailbox'[chan'[q]] ELSE NoAnswer
          BY <1>3, <4>2 DEF AbstractAnswer
        <4> QED
          BY <1>2, <1>5, <4>1, <4>3
      <3> QED
        BY <3>1, AbstractFunctions
    <2>2. /\ topics'[t] = Append(topics[t], chan[p])
          /\ Known(t)'
          /\ ToSet(topics'[t]) = ToSet(topics[t]) \cup {chan[p]}
          /\ \A u \in Topics \ {t} : topics'[u] = topics[u]
      <3>1. topics \in [Topics -> {Absent} \cup Seq(Channels)]
        BY DEF HubInv, TypeOK
      <3>2. topics[t] \in Seq(Channels)
        BY <1>5, <3>1 DEF Known
      <3>3. Append(topics[t], chan[p]) \in Seq(Channels)
        BY <1>2, <3>2
      <3>4. ToSet(Append(topics[t], chan[p])) = ToSet(topics[t]) \cup {chan[p]}
        BY <1>2, <3>2, ListMembers
      <3> QED
        BY <1>5, <3>1, <3>3, <3>4, AbsentAssumption DEF Known
    <2>3. AbstractListeners' =
            [AbstractListeners EXCEPT ![t] = AbstractListeners[t] \cup {p}]
      <3>1. AbstractListeners[t] = {q \in sent : chan[q] \in ToSet(topics[t])}
        BY <1>2, <1>5, SelectState
      <3>2. AbstractListeners'[t] =
              {q \in sent' : chan'[q] \in ToSet(topics'[t])}
        BY <1>3, <2>2 DEF AbstractListeners
      <3>3. \A q \in sent : chan[q] # chan[p]
        BY <1>2, ChannelsAssumption DEF HubInv, OwnChannels, TypeOK
      <3>4. AbstractListeners'[t] = AbstractListeners[t] \cup {p}
        BY <1>2, <2>2, <3>1, <3>2, <3>3
      <3>5. \A u \in Topics \ {t} : AbstractListeners'[u] = AbstractListeners[u]
        BY <1>1, <1>2, <2>2, TakingListensToNothing
      <3> QED
        BY <3>4, <3>5, AbstractFunctions
    <2> QED
      BY <1>1, <1>2, <1>3, <1>5, <2>1, <2>3, SelectState, TakenCanBeServed
      DEF Registry!Serve, Cancelled
  <1> QED
    BY <1>4, <1>5 DEF AcceptListener

\* A notification is served when it is taken: the registry drops the listeners
\* whom the monitor is still to answer one by one.
LEMMA AcceptForListenersRefines ==
    ASSUME HubInv, HubInv', NEW p \in Procs, NEW k \in {"close", "send"},
           AcceptForListeners(p, k)
    PROVE  Registry!Serve(p)
  <1>1. Accept(p, k) /\ UNCHANGED topics
    BY DEF AcceptForListeners
  <1> PICK t \in Topics : t = request[p].topic
    BY <1>1, Accepted
  <1>2. /\ request[p].kind = k
        /\ request[p] \in Request
        /\ monitor = "select"
        /\ p \notin sent
        /\ sent' = sent \cup {p}
        /\ UNCHANGED <<request, chan>>
        /\ mailbox[chan[p]] = NoAnswer
    BY <1>1, Accepted
  <1>3. CASE /\ ~ Known(t) /\ SendOn(chan[p], Reply("notFound"))
             /\ UNCHANGED <<monitor, current, todo>>
    <2>1. /\ AbstractAnswer' = [AbstractAnswer EXCEPT ![p] = Reply("notFound")]
          /\ AbstractListeners' = AbstractListeners
          /\ ~ Cancelled'
      BY <1>1, <1>3, AnswerAtOnceRefines, Answers
    <2>2. Registry!AnswerAll(p, "notFound", {}, NoAnswer)
      BY <2>1 DEF Registry!AnswerAll, AbstractAnswer, Reply, Registry!Reply
    <2> QED
      BY <1>1, <1>2, <1>3, <2>1, <2>2, SelectState, TakenCanBeServed
      DEF Registry!Serve
  <1>4. CASE /\ Known(t)
             /\ monitor' = "notify"
             /\ current' = p
             /\ todo' = topics[t]
             /\ UNCHANGED <<mailbox, closed, panicked>>
    <2>1. /\ ~ Cancelled'
          /\ \A u \in Topics : ~ Pending(u) /\ (Pending(u)' <=> u = t)
      BY <1>1, <1>2, <1>4 DEF Cancelled, Pending
    <2>2. AbstractListeners[t] = {q \in sent : chan[q] \in ToSet(topics[t])}
      BY <1>2, <1>4, SelectState
    <2>3. ToSet(todo)' = ToSet(topics[t])
      BY <1>4 DEF ToSet
    <2>4. ASSUME NEW q \in AbstractListeners[t]
          PROVE  /\ q \in sent /\ q # p
                 /\ mailbox[chan[q]] = NoAnswer
                 /\ chan[q] \in ToSet(topics[t])
      <3>1. chan[q] \in Waiting(t)
        BY <1>4, <2>1, <2>2, <2>4 DEF Waiting
      <3> QED
        BY <1>2, <2>2, <2>4, <3>1 DEF HubInv, ListenersWait
    <2>5. AbstractAnswer' =
            [q \in Procs |-> IF q = p THEN Reply("nil")
                             ELSE IF q \in AbstractListeners[t]
                                  THEN Message(request[p]) ELSE AbstractAnswer[q]]
      <3>1. ASSUME NEW q \in Procs
            PROVE  AbstractAnswer'[q] =
                     IF q = p THEN Reply("nil")
                     ELSE IF q \in AbstractListeners[t]
                          THEN Message(request[p]) ELSE AbstractAnswer[q]
        <4>1. AbstractAnswer[q] = IF q \in sent THEN mailbox[chan[q]] ELSE NoAnswer
          BY <1>2, SelectState
        <4>2. Message(request[current])' = Message(request[p])
          BY <1>2, <1>4 DEF Message
        <4>3. AbstractAnswer'[q] =
                IF q \notin sent' THEN NoAnswer
                ELSE IF mailbox[chan[q]] # NoAnswer THEN mailbox[chan[q]]
                ELSE IF q = p THEN Reply("nil")
                ELSE IF chan[q] \in ToSet(topics[t]) THEN Message(request[p])
                ELSE NoAnswer
          BY <1>2, <1>4, <2>1, <2>3, <4>2 DEF AbstractAnswer
        <4> QED
          BY <1>2, <2>2, <2>4, <4>1, <4>3
      <3> QED
        BY <3>1, AbstractFunctions
    <2>6. AbstractListeners' =
            [AbstractListeners EXCEPT ![t] = IF k = "close" THEN Absent ELSE {}]
      <3>1. Known(t)'
        BY <1>1, <1>4 DEF Known
      <3>2. AbstractListeners'[t] = IF k = "close" THEN Absent ELSE {}
        BY <1>2, <1>4, <2>1, <3>1 DEF AbstractListeners
      <3>3. ASSUME NEW u \in Topics \ {t}
            PROVE  AbstractListeners'[u] = AbstractListeners[u]
        <4>1. Known(u)' <=> Known(u)
          BY <1>1 DEF Known
        <4>2. ToSet(topics[u])' = ToSet(topics[u])
          BY <1>1 DEF ToSet
        <4>3. Known(u) => chan[p] \notin ToSet(topics[u])
          BY <1>1, TakenCanBeServed
        <4>4. AbstractListeners[u] =
                IF Known(u) THEN {q \in sent : chan[q] \in ToSet(topics[u])}
                ELSE Absent
          BY <1>2, SelectState
        <4>5. AbstractListeners'[u] =
                IF Known(u) THEN {q \in sent' : chan[q] \in ToSet(topics[u])}
                ELSE Absent
          BY <1>2, <2>1, <4>1, <4>2 DEF AbstractListeners
        <4> QED
          BY <1>2, <4>3, <4>4, <4>5
      <3> QED
        BY <3>2, <3>3, AbstractFunctions
    <2>7. Registry!AnswerAll(p, "nil", AbstractListeners[t], Message(request[p]))
      BY <2>5 DEF Registry!AnswerAll, Reply, Registry!Reply
    <2>8. Message(request[p]) = IF k = "close"
                                THEN Registry!Notify(TRUE, request[p].err)
                                ELSE Registry!Notify(FALSE, "nil")
      BY <1>2 DEF Message, Notify, Registry!Notify
    <2> QED
      BY <1>1, <1>2, <1>4, <2>1, <2>6, <2>7, <2>8, SelectState, TakenCanBeServed
      DEF Registry!Serve
  <1> QED
    BY <1>3, <1>4 DEF AcceptForListeners

\* The owner of a channel is not the process whose request is under way.
LEMMA Owner ==
    ASSUME HubInv, NEW t \in Topics, NEW ch \in Waiting(t),
           NEW q \in sent, chan[q] = ch
    PROVE  q # current /\ mailbox[ch] = NoAnswer /\ ch \notin closed /\ ch \in Channels
  <1>1. PICK p \in sent : Listens(p, t, ch)
    BY DEF HubInv, ListenersWait
  <1>2. p = q /\ ch \in Channels
    BY <1>1, ChannelsAssumption DEF HubInv, OwnChannels, TypeOK, Listens
  <1> QED
    BY <1>1, <1>2 DEF HubInv, ListenersWait, Listens

\* A listener gets the notification it was bound to get: the registry sees
\* no change.
LEMMA NotifyListenerRefines ==
    HubInv /\ NotifyListener => UNCHANGED Registry!regVars
  <1> SUFFICES ASSUME HubInv, NotifyListener PROVE UNCHANGED Registry!regVars
    OBVIOUS
  <1>1. /\ monitor = "notify"
        /\ todo # <<>>
        /\ SendOn(Head(todo), Message(request[current]))
        /\ todo' = Tail(todo)
        /\ UNCHANGED <<topics, request, chan, sent, monitor, current>>
    BY DEF NotifyListener
  <1>2. /\ current \in Procs
        /\ request[current] \in Request
        /\ Message(request[current]) \in Registry!Answer
        /\ Message(request[current]) # NoAnswer
    BY <1>1, Answers DEF TypeOK, HubInv, CurrentRequest, OwnChannels
  <1>3. PICK t \in Topics : t = request[current].topic
    BY <1>2 DEF Request
  <1>4. Pending(t) /\ Waiting(t) = ToSet(todo)
    BY <1>1, <1>3 DEF Pending, Waiting
  <1>5. PICK ch : ch = Head(todo)
    OBVIOUS
  <1>6. /\ ch \in ToSet(todo)
        /\ ToSet(todo)' = ToSet(todo) \ {ch}
    <2>1. todo \in Seq(Channels) /\ Distinct(todo)
      BY DEF HubInv, TypeOK, ListedOnce
    <2>2. ToSet(todo)' = ToSet(Tail(todo))
      BY <1>1 DEF ToSet
    <2> QED
      BY <1>1, <1>5, <2>1, <2>2, ListMembers, DistinctLists
  <1>7. ch \in Channels /\ ch \notin closed
    BY <1>4, <1>6 DEF HubInv, ListenersWait, TypeOK, ToSet
  <1>8. /\ mailbox' = [mailbox EXCEPT ![ch] = Message(request[current])]
        /\ mailbox \in [Channels -> {NoAnswer} \cup Registry!Answer]
    BY <1>1, <1>2, <1>5, <1>7, SendOnOpen DEF HubInv, TypeOK
  <1>9. ~ Cancelled /\ ~ Cancelled'
    BY <1>1 DEF Cancelled
  <1>10. ASSUME NEW q \in Procs PROVE AbstractAnswer'[q] = AbstractAnswer[q]
    <2>1. Message(request[current])' = Message(request[current])
      BY <1>1 DEF Message
    <2>2. CASE q \notin sent
      BY <1>1, <2>2 DEF AbstractAnswer
    <2>3. CASE q \in sent /\ chan[q] = ch
      <3>1. q # current /\ mailbox[ch] = NoAnswer
        BY <1>4, <1>6, <2>3, Owner
      <3>2. AbstractAnswer[q] = Message(request[current])
        BY <1>6, <2>3, <3>1 DEF AbstractAnswer
      <3>3. mailbox'[ch] = Message(request[current])
        BY <1>7, <1>8
      <3>4. AbstractAnswer'[q] = Message(request[current])
        BY <1>1, <1>2, <2>3, <3>3 DEF AbstractAnswer
      <3> QED
        BY <3>2, <3>4
    <2>4. CASE q \in sent /\ chan[q] # ch
      <3>1. chan[q] \in Channels
        BY <2>4 DEF HubInv, OwnChannels
      <3>2. mailbox'[chan[q]] = mailbox[chan[q]]
        BY <1>8, <2>4, <3>1
      <3>3. chan[q] \in ToSet(todo)' <=> chan[q] \in ToSet(todo)
        BY <1>6, <2>4
      <3> QED
        BY <1>1, <1>9, <2>1, <2>4, <3>2, <3>3 DEF AbstractAnswer
    <2> QED
      BY <2>2, <2>3, <2>4
  <1>11. AbstractListeners' = AbstractListeners
    BY <1>1 DEF AbstractListeners, Cancelled, Known, Pending, ToSet
  <1> QED
    BY <1>1, <1>9, <1>10, <1>11, AbstractFunctions DEF Registry!regVars

\* The topic is updated and the request answered: both as settled before.
LEMMA UpdateTopicRefines ==
    HubInv /\ UpdateTopic => UNCHANGED Registry!regVars
  <1> SUFFICES ASSUME HubInv, UpdateTopic PROVE UNCHANGED Registry!regVars
    OBVIOUS
  <1>1. /\ monitor = "notify"
        /\ todo = <<>>
        /\ SendOn(chan[current], Reply("nil"))
        /\ monitor' = "select"
        /\ current' = Absent
        /\ UNCHANGED <<request, chan, sent, todo>>
    BY DEF UpdateTopic, FinishRequest
  <1>2. PICK p \in Procs : p = current
    BY <1>1 DEF HubInv, TypeOK
  <1>3. /\ p \in sent
        /\ request[p] \in Request
        /\ request[p] # Absent
        /\ request[p].kind \in {"close", "send"}
        /\ Known(request[p].topic)
    BY <1>1, <1>2 DEF HubInv, CurrentRequest, OwnChannels, TypeOK
  <1>4. PICK t \in Topics : t = request[p].topic
    BY <1>3 DEF Request
  <1>5. /\ chan[p] \in Channels
        /\ chan[p] \notin closed
        /\ mailbox[chan[p]] = NoAnswer
        /\ \A q \in Procs : q # p => chan[q] # chan[p]
        /\ \A q \in Procs : q # Absent
    BY <1>2, <1>3, ChannelsAssumption, AbsentAssumption
    DEF HubInv, OwnChannels, Unanswered
  <1>6. /\ mailbox' = [mailbox EXCEPT ![chan[p]] = Reply("nil")]
        /\ mailbox \in [Channels -> {NoAnswer} \cup Registry!Answer]
        /\ Reply("nil") # NoAnswer
    <2>1. TypeOK /\ mailbox \in [Channels -> {NoAnswer} \cup Registry!Answer]
      BY DEF HubInv, TypeOK
    <2> QED
      BY <1>1, <1>2, <1>5, <2>1, SendOnOpen, Answers
  <1>7. /\ ~ Cancelled /\ ~ Cancelled'
        /\ \A u \in Topics : ~ Pending(u)' /\ (Pending(u) <=> u = t)
    BY <1>1, <1>2, <1>4 DEF Cancelled, Pending
  <1>8. ToSet(todo) = {} /\ ToSet(todo)' = {}
    BY <1>1 DEF ToSet
  <1>9. ASSUME NEW q \in Procs PROVE AbstractAnswer'[q] = AbstractAnswer[q]
    <2>1. CASE q \notin sent
      BY <1>1, <2>1 DEF AbstractAnswer
    <2>2. CASE q = p
      <3>1. AbstractAnswer[q] = Reply("nil")
        BY <1>2, <1>3, <1>5, <2>2 DEF AbstractAnswer
      <3>2. mailbox'[chan[p]] = Reply("nil")
        BY <1>5, <1>6
      <3>3. AbstractAnswer'[q] = Reply("nil")
        BY <1>1, <1>3, <1>6, <2>2, <3>2 DEF AbstractAnswer
      <3> QED
        BY <3>1, <3>3
    <2>3. CASE q \in sent /\ q # p
      <3>1. mailbox'[chan[q]] = mailbox[chan[q]]
        BY <1>5, <1>6, <2>3 DEF HubInv, OwnChannels
      <3> QED
        BY <1>1, <1>2, <1>5, <1>7, <1>8, <2>3, <3>1 DEF AbstractAnswer
    <2> QED
      BY <2>1, <2>2, <2>3
  <1>10. ASSUME NEW u \in Topics
         PROVE  AbstractListeners'[u] = AbstractListeners[u]
    <2>1. topics \in [Topics -> {Absent} \cup Seq(Channels)]
      BY DEF HubInv, TypeOK
    <2>2. CASE u = t
      <3>1. topics'[t] = IF request[p].kind = "close" THEN Absent ELSE <<>>
        BY <1>2, <1>4, <2>1 DEF UpdateTopic
      <3>2. AbstractListeners[t] = IF request[p].kind = "close" THEN Absent ELSE {}
        BY <1>2, <1>3, <1>4, <1>7 DEF AbstractListeners
      <3>3. CASE request[p].kind = "close"
        BY <2>2, <3>1, <3>2, <3>3 DEF AbstractListeners, Known
      <3>4. CASE request[p].kind # "close"
        <4>1. topics'[t] = <<>> /\ <<>> # Absent
          <5>1. <<>> \in Seq(Channels)
            OBVIOUS
          <5> QED
            BY <3>1, <3>4, <5>1, AbsentAssumption
        <4>2. ToSet(topics'[t]) = {}
          BY <4>1 DEF ToSet
        <4>3. AbstractListeners'[t] = {q \in sent' : chan'[q] \in ToSet(topics'[t])}
          BY <1>7, <4>1 DEF AbstractListeners, Known
        <4> QED
          BY <2>2, <3>2, <3>4, <4>2, <4>3
      <3> QED
        BY <3>3, <3>4
    <2>3. CASE u # t
      <3>1. topics'[u] = topics[u]
        BY <1>2, <1>4, <2>1, <2>3 DEF UpdateTopic
      <3>2. Known(u)' = Known(u) /\ ToSet(topics[u])' = ToSet(topics[u])
        BY <3>1 DEF Known, ToSet
      <3> QED
        BY <1>1, <1>7, <2>3, <3>2 DEF AbstractListeners
    <2> QED
      BY <2>2, <2>3
  <1> QED
    BY <1>1, <1>7, <1>9, <1>10, AbstractFunctions DEF Registry!regVars

\* The context is cancelled: to the registry all listeners are answered.
LEMMA StartCancelRefines ==
    ASSUME HubInv, HubInv', StartCancel
    PROVE  Registry!Stop
  <1>1. /\ monitor = "select"
        /\ monitor' = "cancel"
        /\ UNCHANGED <<topics, mailbox, closed, request, chan, sent, current,
                       todo, panicked>>
    BY DEF StartCancel
  <1>2. ~ Cancelled /\ Cancelled' /\ \A t \in Topics : ~ Pending(t)
    BY <1>1 DEF Cancelled, Pending
  <1>3. todo = <<>> /\ ToSet(todo) = {} /\ ToSet(todo)' = {} /\ current \notin Procs
    BY <1>1 DEF HubInv, TypeOK, ToSet
  <1>4. AbstractListeners' = [t \in Topics |-> Absent]
    BY <1>2 DEF AbstractListeners
  <1>5. ASSUME NEW q \in Procs
        PROVE  AbstractAnswer'[q] =
                 IF \E t \in Topics : /\ AbstractListeners[t] # Absent
                                      /\ q \in AbstractListeners[t]
                 THEN Notify(TRUE, "canceled") ELSE AbstractAnswer[q]
    <2>1. AbstractAnswer[q] = IF q \in sent THEN mailbox[chan[q]] ELSE NoAnswer
      BY <1>1, SelectState
    <2>2. ASSUME NEW t \in Topics
          PROVE  AbstractListeners[t] # Absent /\ q \in AbstractListeners[t]
                    <=> Known(t) /\ q \in sent /\ chan[q] \in ToSet(topics[t])
      BY <1>1, SelectState
    <2>3. \A t \in Topics : Known(t)' = Known(t) /\ ToSet(topics[t])' = ToSet(topics[t])
      BY <1>1 DEF Known, ToSet
    <2>4. AbstractAnswer'[q] =
            IF q \notin sent THEN NoAnswer
            ELSE IF mailbox[chan[q]] # NoAnswer THEN mailbox[chan[q]]
            ELSE IF \E t \in Topics : Known(t) /\ chan[q] \in ToSet(topics[t])
                 THEN Notify(TRUE, "canceled")
            ELSE NoAnswer
      BY <1>1, <1>2, <1>3, <2>3 DEF AbstractAnswer
    <2>5. ASSUME NEW t \in Topics, Known(t), chan[q] \in ToSet(topics[t]), q \in sent
          PROVE  mailbox[chan[q]] = NoAnswer
      <3>1. chan[q] \in Waiting(t)
        BY <1>2, <2>5 DEF Waiting
      <3> QED
        BY <3>1 DEF HubInv, ListenersWait
    <2>6. CASE \E t \in Topics : Known(t) /\ q \in sent /\ chan[q] \in ToSet(topics[t])
      BY <2>2, <2>4, <2>5, <2>6
    <2>7. CASE ~ \E t \in Topics : Known(t) /\ q \in sent /\ chan[q] \in ToSet(topics[t])
      BY <2>1, <2>2, <2>4, <2>7
    <2> QED
      BY <2>6, <2>7
  <1>6. Notify(TRUE, "canceled") = Registry!Notify(TRUE, "canceled")
    BY DEF Notify, Registry!Notify
  <1> QED
    BY <1>1, <1>2, <1>4, <1>5, <1>6, AbstractFunctions DEF Registry!Stop

\* Cancelling the listeners of one more topic delivers what was settled.
LEMMA CancelTopicRefines ==
    ASSUME HubInv, NEW t \in Topics, CancelTopic(t)
    PROVE  UNCHANGED Registry!regVars
  <1>1. /\ monitor = "cancel"
        /\ Known(t)
        /\ topics \in [Topics -> {Absent} \cup Seq(Channels)]
        /\ topics[t] \in Seq(Channels)
        /\ Distinct(topics[t])
        /\ UNCHANGED <<request, chan, sent, monitor, current, todo>>
    BY DEF CancelTopic, TypeOK, Known, HubInv, ListedOnce
  <1>2. /\ Cancelled /\ Cancelled'
        /\ \A u \in Topics : ~ Pending(u)
        /\ current \notin Procs
        /\ todo = <<>>
    BY <1>1 DEF Cancelled, Pending, HubInv, TypeOK
  <1>3. ToSet(todo) = {} /\ ToSet(todo)' = {}
    BY <1>1, <1>2 DEF ToSet
  <1>4. AbstractListeners' = AbstractListeners
    BY <1>2 DEF AbstractListeners
  <1>5. \A ch : (\E u \in Topics : Known(u) /\ ch \in ToSet(topics[u]))
                   <=> \E u \in Topics : ch \in Waiting(u)
    BY <1>2 DEF Waiting
  <1>6. \A ch : (\E u \in Topics : Known(u) /\ ch \in ToSet(topics[u]))'
                   <=> \E u \in Topics : ch \in Waiting(u)'
    BY <1>1, <1>2 DEF Waiting, Pending
  <1>7. ASSUME NEW q \in Procs
        PROVE  /\ AbstractAnswer[q] =
                    IF q \notin sent THEN NoAnswer
                    ELSE IF mailbox[chan[q]] # NoAnswer THEN mailbox[chan[q]]
                    ELSE IF \E u \in Topics : chan[q] \in Waiting(u)
                         THEN Notify(TRUE, "canceled") ELSE NoAnswer
               /\ AbstractAnswer'[q] =
                    IF q \notin sent THEN NoAnswer
                    ELSE IF mailbox'[chan[q]] # NoAnswer THEN mailbox'[chan[q]]
                    ELSE IF \E u \in Topics : chan[q] \in Waiting(u)'
                         THEN Notify(TRUE, "canceled") ELSE NoAnswer
    <2>1. AbstractAnswer[q] =
            IF q \notin sent THEN NoAnswer
            ELSE IF mailbox[chan[q]] # NoAnswer THEN mailbox[chan[q]]
            ELSE IF \E u \in Topics : Known(u) /\ chan[q] \in ToSet(topics[u])
                 THEN Notify(TRUE, "canceled") ELSE NoAnswer
      BY <1>2, <1>3 DEF AbstractAnswer
    <2>2. AbstractAnswer'[q] =
            IF q \notin sent THEN NoAnswer
            ELSE IF mailbox'[chan[q]] # NoAnswer THEN mailbox'[chan[q]]
            ELSE IF (\E u \in Topics : Known(u) /\ chan[q] \in ToSet(topics[u]))'
                 THEN Notify(TRUE, "canceled") ELSE NoAnswer
      BY <1>1, <1>2, <1>3 DEF AbstractAnswer
    <2>3. (\E u \in Topics : Known(u) /\ chan[q] \in ToSet(topics[u]))'
            <=> \E u \in Topics : chan[q] \in Waiting(u)'
      BY <1>1, <1>6
    <2> QED
      BY <1>5, <2>1, <2>2, <2>3
  <1>8. CASE /\ topics[t] = <<>>
             /\ topics' = [topics EXCEPT ![t] = Absent]
             /\ UNCHANGED <<mailbox, closed, panicked>>
    <2>1. \A u \in Topics : Waiting(u)' = Waiting(u)
      <3>1. ToSet(<<>>) = {}
        BY DEF ToSet
      <3> QED
        BY <1>1, <1>2, <1>8, <3>1 DEF Waiting, Known, Pending
    <2>2. \A q \in Procs : AbstractAnswer'[q] = AbstractAnswer[q]
      BY <1>7, <1>8, <2>1
    <2> QED
      BY <1>1, <1>2, <1>4, <2>2, AbstractFunctions DEF Registry!regVars
  <1>9. CASE /\ topics[t] # <<>>
             /\ SendOn(Head(topics[t]), Notify(TRUE, "canceled"))
             /\ topics' = [topics EXCEPT ![t] = Tail(topics[t])]
    <2>1. PICK ch : ch = Head(topics[t])
      OBVIOUS
    <2>2. /\ ch \in ToSet(topics[t])
          /\ ToSet(Tail(topics[t])) = ToSet(topics[t]) \ {ch}
          /\ Tail(topics[t]) # Absent
      <3>1. Tail(topics[t]) \in Seq(Channels)
        BY <1>1, <1>9
      <3> QED
        BY <1>1, <1>9, <2>1, <3>1, ListMembers, DistinctLists, AbsentAssumption
    <2>3. ch \in Waiting(t) /\ ch \in Channels /\ ch \notin closed
      <3>1. ch \in Waiting(t)
        BY <1>1, <1>2, <2>2 DEF Waiting
      <3> QED
        BY <1>1, <2>2, <3>1, ListMembers DEF HubInv, ListenersWait
    <2>4. /\ mailbox' = [mailbox EXCEPT ![ch] = Notify(TRUE, "canceled")]
          /\ mailbox \in [Channels -> {NoAnswer} \cup Registry!Answer]
          /\ Notify(TRUE, "canceled") # NoAnswer
      BY <1>9, <2>1, <2>3, SendOnOpen, Answers DEF HubInv, TypeOK
    <2>5. /\ Waiting(t)' = Waiting(t) \ {ch}
          /\ \A u \in Topics \ {t} : Waiting(u)' = Waiting(u)
      <3>1. topics'[t] = Tail(topics[t]) /\ \A u \in Topics \ {t} : topics'[u] = topics[u]
        BY <1>1, <1>9
      <3> QED
        BY <1>1, <1>2, <2>2, <3>1 DEF Waiting, Known, Pending
    <2>6. ASSUME NEW q \in Procs PROVE AbstractAnswer'[q] = AbstractAnswer[q]
      <3>1. CASE q \in sent /\ chan[q] = ch
        <4>1. mailbox[ch] = NoAnswer /\ mailbox'[ch] = Notify(TRUE, "canceled")
          BY <2>3, <2>4, <3>1, Owner
        <4> QED
          BY <1>7, <2>3, <2>4, <3>1, <4>1
      <3>2. CASE q \in sent /\ chan[q] # ch
        <4>1. mailbox'[chan[q]] = mailbox[chan[q]]
          BY <2>4, <3>2 DEF HubInv, OwnChannels
        <4>2. \A u \in Topics : chan[q] \in Waiting(u)' <=> chan[q] \in Waiting(u)
          BY <2>5, <3>2
        <4> QED
          BY <1>7, <4>1, <4>2
      <3>3. CASE q \notin sent
        BY <1>7, <3>3
      <3> QED
        BY <3>1, <3>2, <3>3
    <2> QED
      BY <1>1, <1>2, <1>4, <2>6, AbstractFunctions DEF Registry!regVars
  <1> QED
    BY <1>8, <1>9 DEF CancelTopic

\* The monitor's return changes nothing that a caller can see.
LEMMA StopMonitorRefines == HubInv /\ StopMonitor => UNCHANGED Registry!regVars
  <1> SUFFICES ASSUME HubInv, StopMonitor PROVE UNCHANGED Registry!regVars
    OBVIOUS
  <1>1. /\ monitor = "cancel" /\ monitor' = "stopped"
        /\ UNCHANGED <<topics, mailbox, closed, request, chan, sent, current,
                       todo, panicked>>
    BY DEF StopMonitor
  <1>2. Cancelled /\ Cancelled'
    BY <1>1 DEF Cancelled
  <1>3. AbstractListeners' = AbstractListeners
    BY <1>2 DEF AbstractListeners
  <1>4. AbstractAnswer' = AbstractAnswer
    BY <1>1, <1>2 DEF AbstractAnswer, Known, ToSet, Message
  <1> QED
    BY <1>1, <1>2, <1>3, <1>4 DEF Registry!regVars

\* A new request has a channel of its own, so nobody's answer changes.
LEMMA NewRequestRefines ==
    ASSUME HubInv, HubInv', NEW p \in Procs, NEW r \in Request, NEW ch \in Channels,
           NewRequest(p, r, ch)
    PROVE  r \in Registry!Request /\ Registry!Ask(p, r)
  <1>1. /\ request[p] = Absent
        /\ request' = [request EXCEPT ![p] = r]
        /\ chan' = [chan EXCEPT ![p] = ch]
        /\ mailbox' = [mailbox EXCEPT ![ch] = NoAnswer]
        /\ UNCHANGED <<topics, sent, monitor, current, todo, panicked>>
    BY DEF NewRequest
  <1>2. /\ p \notin sent /\ p # current
        /\ \A q \in Procs : chan[q] # ch
        /\ sent \subseteq Procs
        /\ request \in [Procs -> {Absent} \cup Request]
        /\ chan \in [Procs -> Channels \cup {NoChannel}]
        /\ mailbox \in [Channels -> {NoAnswer} \cup Registry!Answer]
    BY <1>1, AbsentAssumption
    DEF HubInv, OwnChannels, CurrentRequest, NewRequest, Referred, TypeOK
  <1>3. monitor = "notify" => request'[current] = request[current]
    BY <1>1, <1>2 DEF HubInv, TypeOK
  <1>4. \A t \in Topics : Pending(t)' <=> Pending(t)
    BY <1>1, <1>3 DEF Pending
  <1>5. \A q \in sent : chan'[q] = chan[q] /\ mailbox'[chan[q]] = mailbox[chan[q]]
    <2> SUFFICES ASSUME NEW q \in sent
                 PROVE  chan'[q] = chan[q] /\ mailbox'[chan[q]] = mailbox[chan[q]]
      OBVIOUS
    <2>1. q \in Procs /\ q # p /\ chan[q] # ch /\ chan[q] \in Channels
      BY <1>2 DEF HubInv, OwnChannels
    <2> QED
      BY <1>1, <1>2, <2>1
  <1>6. ASSUME NEW t \in Topics PROVE AbstractListeners'[t] = AbstractListeners[t]
    <2>1. Known(t)' = Known(t) /\ ToSet(topics[t])' = ToSet(topics[t])
      BY <1>1 DEF Known, ToSet
    <2>2. {q \in sent' : chan'[q] \in ToSet(topics[t])}
            = {q \in sent : chan[q] \in ToSet(topics[t])}
      BY <1>1, <1>5
    <2>3. Pending(t) => request'[current] = request[current]
      BY <1>3 DEF Pending
    <2> QED
      BY <1>1, <1>4, <2>1, <2>2, <2>3 DEF AbstractListeners, Cancelled
  <1>7. ASSUME NEW q \in Procs PROVE AbstractAnswer'[q] = AbstractAnswer[q]
    <2>1. CASE q \notin sent
      BY <1>1, <2>1 DEF AbstractAnswer
    <2>2. CASE q \in sent
      <3>1. ToSet(todo)' = ToSet(todo)
            /\ \A t \in Topics : Known(t)' = Known(t) /\ ToSet(topics[t])' = ToSet(topics[t])
        BY <1>1 DEF Known, ToSet
      <3>2. chan[q] \in ToSet(todo) => Message(request[current])' = Message(request[current])
        <4>1. todo = <<>> => ToSet(todo) = {}
          BY DEF ToSet
        <4>2. chan[q] \in ToSet(todo) => monitor = "notify"
          BY <4>1 DEF HubInv, TypeOK
        <4>3. monitor = "notify" => request[current]' = request[current]
          BY <1>1, <1>3
        <4>4. monitor = "notify" => Message(request[current])' = Message(request[current])
          BY <4>3 DEF Message
        <4> QED
          BY <4>2, <4>4
      <3> QED
        BY <1>1, <1>5, <2>2, <3>1, <3>2 DEF AbstractAnswer, Cancelled
    <2> QED
      BY <2>1, <2>2
  <1>8. r \in Registry!Request
    BY DEF Request, Kinds, Registry!Request, Registry!Kinds
  <1>9. (~ Cancelled)' <=> ~ Cancelled
    BY <1>1 DEF Cancelled
  <1> QED
    BY <1>1, <1>6, <1>7, <1>8, <1>9, AbstractFunctions DEF Registry!Ask

\* A caller receives the answer that the registry gave it.
LEMMA ReceiveRefines ==
    ASSUME HubInv, HubInv', NEW p \in Procs, Receive(p)
    PROVE  Registry!Take(p)
  <1>1. /\ request' = [request EXCEPT ![p] = Absent]
        /\ mailbox' = [mailbox EXCEPT ![chan[p]] = NoAnswer]
        /\ chan' = [chan EXCEPT ![p] = NoChannel]
        /\ sent' = sent \ {p}
        /\ UNCHANGED <<topics, closed, monitor, current, todo, panicked>>
        /\ p \in sent
        /\ mailbox[chan[p]] # NoAnswer
    BY DEF Receive
  <1>2. /\ p # current
        /\ sent \subseteq Procs
        /\ request \in [Procs -> {Absent} \cup Request]
        /\ chan \in [Procs -> Channels \cup {NoChannel}]
        /\ mailbox \in [Channels -> {NoAnswer} \cup Registry!Answer]
        /\ chan[p] \in Channels
    BY <1>1 DEF HubInv, Unanswered, TypeOK, OwnChannels
  <1>3. monitor = "notify" => request'[current] = request[current]
    BY <1>1, <1>2 DEF HubInv, TypeOK
  <1>4. \A t \in Topics : Pending(t)' <=> Pending(t)
    BY <1>1, <1>3 DEF Pending
  <1>5. ASSUME NEW q \in sent'
        PROVE  /\ q \in sent /\ q # p
               /\ chan'[q] = chan[q]
               /\ mailbox'[chan[q]] = mailbox[chan[q]]
    <2>1. /\ q \in sent /\ q \in Procs /\ q # p
          /\ chan[q] # chan[p] /\ chan[q] \in Channels
      BY <1>1, <1>2, ChannelsAssumption DEF HubInv, OwnChannels
    <2> QED
      BY <1>1, <1>2, <2>1
  <1>6. ASSUME NEW t \in Topics PROVE AbstractListeners'[t] = AbstractListeners[t]
    <2>1. Known(t)' = Known(t) /\ ToSet(topics[t])' = ToSet(topics[t])
      BY <1>1 DEF Known, ToSet
    <2>2. Known(t) /\ ~ Pending(t) =>
            {q \in sent' : chan'[q] \in ToSet(topics[t])}
              = {q \in sent : chan[q] \in ToSet(topics[t])}
      <3>1. Known(t) /\ ~ Pending(t) => chan[p] \notin ToSet(topics[t])
        BY <1>1 DEF HubInv, ListenersWait, Waiting
      <3> QED
        BY <1>1, <1>5, <3>1
    <2>3. Pending(t) => request'[current] = request[current]
      BY <1>3 DEF Pending
    <2> QED
      BY <1>1, <1>4, <2>1, <2>2, <2>3 DEF AbstractListeners, Cancelled
  <1>7. AbstractAnswer[p] # NoAnswer
    BY <1>1, <1>2 DEF AbstractAnswer
  <1>8. ASSUME NEW q \in Procs
        PROVE  AbstractAnswer'[q] = IF q = p THEN NoAnswer ELSE AbstractAnswer[q]
    <2>1. CASE q \notin sent'
      BY <1>1, <2>1 DEF AbstractAnswer
    <2>2. CASE q \in sent'
      <3>1. ToSet(todo)' = ToSet(todo)
            /\ \A t \in Topics : Known(t)' = Known(t) /\ ToSet(topics[t])' = ToSet(topics[t])
        BY <1>1 DEF Known, ToSet
      <3>2. chan[q] \in ToSet(todo) => Message(request[current])' = Message(request[current])
        <4>1. todo = <<>> => ToSet(todo) = {}
          BY DEF ToSet
        <4>2. chan[q] \in ToSet(todo) => monitor = "notify"
          BY <4>1 DEF HubInv, TypeOK
        <4>3. monitor = "notify" => request[current]' = request[current]
          BY <1>1, <1>3
        <4>4. monitor = "notify" => Message(request[current])' = Message(request[current])
          BY <4>3 DEF Message
        <4> QED
          BY <4>2, <4>4
      <3> QED
        BY <1>1, <1>5, <2>2, <3>1, <3>2 DEF AbstractAnswer, Cancelled
    <2> QED
      BY <2>1, <2>2
  <1>9. (~ Cancelled)' <=> ~ Cancelled
    BY <1>1 DEF Cancelled
  <1> QED
    BY <1>1, <1>2, <1>6, <1>7, <1>8, <1>9, AbstractFunctions DEF Registry!Take

\* Every step is one of the registry's or is not seen by the callers.
LEMMA StepRefines ==
    HubInv /\ HubInv' /\ [Next]_vars => [Registry!Next]_(Registry!regVars)
  <1> SUFFICES ASSUME HubInv, HubInv', [Next]_vars
               PROVE  Registry!Next \/ UNCHANGED Registry!regVars
    OBVIOUS
  <1>1. ASSUME NEW p \in Procs, NEW r \in Request, NEW ch \in Channels,
               NewRequest(p, r, ch)
        PROVE  Registry!Next
    BY <1>1, NewRequestRefines DEF Registry!Next
  <1>2. ASSUME NEW p \in Procs, Receive(p) PROVE Registry!Next
    BY <1>2, ReceiveRefines DEF Registry!Next
  <1>3. ASSUME NEW p \in Procs, MonitorAccepts(p) PROVE Registry!Next
    BY <1>3, AcceptRegisterRefines, AcceptListenerRefines,
       AcceptForListenersRefines DEF MonitorAccepts, Registry!Next
  <1>4. ASSUME MonitorGoesOn PROVE UNCHANGED Registry!regVars
    BY <1>4, NotifyListenerRefines, UpdateTopicRefines, CancelTopicRefines,
       StopMonitorRefines DEF MonitorGoesOn
  <1>5. CASE StartCancel
    BY <1>5, StartCancelRefines DEF Registry!Next
  <1>6. CASE UNCHANGED vars
    BY <1>6 DEF vars, Registry!regVars, AbstractListeners, AbstractAnswer,
       Cancelled, Known, Pending, ToSet, Message
  <1> QED
    BY <1>1, <1>2, <1>3, <1>4, <1>5, <1>6 DEF Next

\* To the storage the monitor is a registry that serves a request in one
\* step: no process sees a topic half closed or half notified.
THEOREM RegistryRefined == Spec => RefinesRegistry
  BY InitRefines, StepRefines, HubInvHolds, PTL
  DEF Spec, RefinesRegistry, Registry!Spec

=============================================================================
