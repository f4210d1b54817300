------------------------------- MODULE Server -------------------------------
(***************************************************************************)
(* The server over its lifetimes: it starts, takes invalidations from the  *)
(* builds of a project while it serves, is killed and started again.  The  *)
(* records and the bucket outlive it, calls under way do not.              *)
(***************************************************************************)
EXTENDS Startup, Invalidations

CONSTANT Asked  \* bound: the URLs whose images users ask for

ASSUME AskedAssumption == Asked \subseteq URLs

vars == <<startupVars, invalidationVars>>

Init == StartupInit /\ InvalidationsInit

StartStep(A)  == A /\ UNCHANGED invalidationVars
ClientStep(c) == Serving /\ Request(c) /\ UNCHANGED startupVars

\* A call goes on; when its time is over, what it still asks for fails.
ServerStep(c) ==
    /\ Serving
    /\ ServeCall(c) \/ (expired[c] /\ FailCall(c))
    /\ UNCHANGED startupVars

FailStep(c) ==
    /\ Serving
    /\ ~ expired[c]
    /\ FailCall(c) \/ Expire(c)
    /\ Fault
    /\ UNCHANGED <<process, missing, bucket>>

\* A request fills the cache.
SaveStep(u) == Serving /\ Fill(u) /\ UNCHANGED startupVars

Crash == Kill /\ DropCalls

Next ==
    \/ StartStep(Start) \/ StartStep(Configure) \/ StartStep(Initializing)
    \/ \E c \in Clients : ClientStep(c) \/ ServerStep(c) \/ FailStep(c)
    \/ \E u \in Asked : SaveStep(u)
    \/ Crash
    \/ Publish /\ UNCHANGED startupVars

(***************************************************************************)
(* Fairness.  main goes on; somebody mends the environment and starts the  *)
(* server again.  Calls go on.  Some build asks again and again, and now   *)
(* and then it is one of the newest commit.  Failures are bounded.  Every  *)
(* step of these actions changes the variables of its subscript.           *)
(***************************************************************************)
Fairness ==
    /\ WF_process(StartStep(Start \/ Initializing))
    /\ SF_missing(StartStep(Configure))
    /\ \A c \in Clients : WF_<<pc, done, failed>>(ServerStep(c))
    /\ WF_pc(Serving /\ (\E c \in Clients : GetLastKnownInvalidation(c))
                     /\ UNCHANGED startupVars)
    /\ SF_pc(Serving /\ (\E c \in Clients : RequestInvalidation(c, published))
                     /\ UNCHANGED startupVars)

Spec == Init /\ [][Next]_vars /\ Fairness

----------------------------------------------------------------------------
\* Types, what a process that is gone may not have kept, and that what is
\* recorded or heard of was published.
TypeOK == StartupTypeOK /\ InvalidationsTypeOK

\* However often the process is killed or gives up, also between making the
\* bucket and hearing of it (minio.go:43), the server serves again.
ServesAgain == []<>Serving

\* In the end no image is left that was rendered before the last change of its
\* URL, but for those missed, or the URL is reported as not done, through
\* kills, timeouts, refused records and overlapping builds.
ChangesReach ==
    published = Len(History) ~>
        \A k \in 1..Len(History) : \A u \in History[k] :
            Reported(u, k) \/ (Older(u, k) => u \in missed)
=============================================================================
