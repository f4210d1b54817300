------------------------------ MODULE Startup -------------------------------
(***************************************************************************)
(* cmd/server: what main does before the first request, and again after    *)
(* every crash.  The services are made one after the other, each from      *)
(* environment variables and a connection; what is missing or fails ends   *)
(* the process (log.Panic, log.Fatal).                                     *)
(*                                                                         *)
(* One step is one Initialize function of wire.go, in the order of the     *)
(* injectors.  Only the bucket in Minio outlives the process.  Connect of  *)
(* MongoDB does not talk to the server yet: it fails for a bad address.    *)
(***************************************************************************)
EXTENDS Naturals

CONSTANT MaxFaults  \* bound: failures, timeouts and kills

ASSUME FaultsAssumption == MaxFaults \in Nat

VARIABLES
    phase,    \* the function main is in
    missing,  \* services whose environment variables are not set right
    bucket,   \* does the bucket exist in Minio?
    ready,    \* what this process has made
    faults    \* history: failures, timeouts and kills so far

process     == <<phase, ready>>
startupVars == <<process, missing, bucket, faults>>

Services == {"mongo", "minio", "imaginary"}
Parts    == {"cacheDB", "blockStorage", "invalidationsDB", "processor", "monitors"}
Phases   == Parts \cup {"down", "listen", "serving"}

StartupInit ==
    /\ phase = "down"
    /\ missing \in SUBSET Services
    /\ bucket = FALSE
    /\ ready = {}
    /\ faults = 0

\* A process that leaves something behind.
PanicMutant == phase' = "down" /\ UNCHANGED ready

Panic == phase' = "down" /\ ready' = {}

\* One of the failures that the environment is not to blame for.
Fault ==
    /\ faults < MaxFaults
    /\ faults' = faults + 1

Made(part, next) ==
    /\ phase' = next
    /\ ready' = ready \cup {part}

\* The variables of a service are looked at, and what they lead to is made
\* or refused.
Initialize(part, service, next) ==
    /\ phase = part
    /\ \/ service \notin missing /\ Made(part, next) /\ UNCHANGED faults
       \/ service \in missing /\ Panic /\ UNCHANGED faults
       \/ Panic /\ Fault

----------------------------------------------------------------------------
Start ==
    /\ phase = "down"
    /\ phase' = "cacheDB"
    /\ UNCHANGED <<ready, missing, bucket, faults>>

InitializeCacheDB ==
    /\ Initialize("cacheDB", "mongo", "blockStorage")
    /\ UNCHANGED <<missing, bucket>>

\* MakeBucket makes the bucket, or finds it there from an earlier process
\* (BucketAlreadyOwnedByYou is no error), or is refused; its answer may be
\* lost after the bucket was made.
MakeBucket ==
    /\ bucket' \in {bucket, "minio" \notin missing \/ bucket}
    /\ phase' # "down" => bucket'

\* A connection that takes a bucket of its own for a failure.
InitializeMinioConnectionMutant ==
    \/ /\ ~ bucket
       /\ Initialize("blockStorage", "minio", "invalidationsDB")
       /\ MakeBucket
       /\ UNCHANGED missing
    \/ /\ bucket
       /\ phase = "blockStorage"
       /\ Panic
       /\ UNCHANGED <<missing, bucket, faults>>

InitializeMinioConnection ==
    /\ Initialize("blockStorage", "minio", "invalidationsDB")
    /\ MakeBucket
    /\ UNCHANGED missing

InitializeInvalidatorDB ==
    /\ Initialize("invalidationsDB", "mongo", "processor")
    /\ UNCHANGED <<missing, bucket>>

\* Imaginary is not asked: only its address is needed.
InitializeProcessor ==
    /\ phase = "processor"
    /\ IF "imaginary" \in missing THEN Panic ELSE Made("processor", "monitors")
    /\ UNCHANGED <<missing, bucket, faults>>

\* A hub that is used without its monitors.
InitializeDataHubMutant ==
    /\ phase = "monitors"
    /\ phase' = "listen"
    /\ UNCHANGED <<ready, missing, bucket, faults>>

InitializeDataHub ==
    /\ phase = "monitors"
    /\ Made("monitors", "listen")
    /\ UNCHANGED <<missing, bucket, faults>>

\* The port may be taken.
ListenAndServe ==
    /\ phase = "listen"
    /\ \/ phase' = "serving" /\ UNCHANGED <<ready, faults>>
       \/ Panic /\ Fault
    /\ UNCHANGED <<missing, bucket>>

\* The process is killed, at any point.
Kill ==
    /\ phase # "down"
    /\ Panic /\ Fault
    /\ UNCHANGED <<missing, bucket>>

\* Somebody sets the variables right while the server is down.
Configure ==
    /\ phase = "down"
    /\ missing # {}
    /\ missing' = {}
    /\ UNCHANGED <<process, bucket, faults>>

Initializing ==
    \/ InitializeCacheDB \/ InitializeMinioConnection \/ InitializeInvalidatorDB
    \/ InitializeProcessor \/ InitializeDataHub \/ ListenAndServe

Serving == phase = "serving"

----------------------------------------------------------------------------
\* Every variable has its type, and a process that is not there has made
\* nothing.
StartupTypeOK ==
    /\ phase \in Phases
    /\ missing \subseteq Services
    /\ bucket \in BOOLEAN
    /\ ready \subseteq Parts
    /\ faults \in 0..MaxFaults
    /\ phase \in {"down", "cacheDB"} => ready = {}

\* Requests are served only by a process that has made everything they use:
\* the bucket, both connections, the processor and the monitors of the hub,
\* without which GetOrCreateStream panics (data_hub.go:83).
ServingIsReady == Serving => bucket /\ ready = Parts
=============================================================================
