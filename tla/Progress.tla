------------------------------ MODULE Progress ------------------------------
(***************************************************************************)
(* The components of which progress is asked too: the provider gateway, the *)
(* tab that follows a Run, the Run that goes through the agents, the Run    *)
(* executed by the API process, and the streams of an A2A Task.  A          *)
(* behaviour is one of a single service, the one named by `service`; the    *)
(* variables of the others keep their initial values, in which none of      *)
(* their fair actions is enabled.                                           *)
(***************************************************************************)
EXTENDS Integers, Sequences, FiniteSets

CONSTANTS
    Services,       \* the services that are looked at
    None,           \* the absent value of every component

    Callers, Lookups, Threshold, Permits, MaxRetries, MaxCache, MaxCalls, MaxFaults,
    Questions, Plans, Titles, Versions, MaxRuns, MaxEvents, MaxRequests,
    Modes, MaxAttempts,
    Interactive, MaxTasks,
    Writers, Subscribers, MaxVersion

VARIABLES
    service,
    circuit, cache, idempotency, locks, held, calls, adrift, stray, answered, made, up, outages,
    runs, trip, known, storage, ui, cursor, pending, stream, requests, keys,
    asked, breaks, applied, doubtful,
    mode, publishable, run, workers, tasks, cancel, failures,
    inline, threads, entry, forgets, caller, access, process, gathered, errors,
    record, writers, streams

Gateway  == INSTANCE ProviderGateway WITH faults <- outages
Follower == INSTANCE RunFollower WITH faults <- breaks
Run      == INSTANCE Orchestrator WITH faults <- failures
Local    == INSTANCE LocalRun WITH run <- inline, tasks <- threads, faults <- errors
Stream   == INSTANCE TaskStream

\* What the proofs assume of the constants.
ASSUME GatewayConstants == Gateway!GatewayAssumption
ASSUME FollowerConstants == Follower!FollowerAssumption
ASSUME OrchestrationConstants == Run!OrchestratorAssumption
ASSUME LocalConstants == Local!LocalAssumption

gatewayVars  == <<circuit, cache, idempotency, locks, held, calls, adrift, stray, answered, made,
                  up, outages>>
followerVars == <<runs, trip, known, storage, ui, cursor, pending, stream,
                  requests, keys, asked, breaks, applied, doubtful>>
runVars      == <<mode, publishable, run, workers, tasks, cancel, failures>>
localVars    == <<inline, threads, entry, forgets, caller, access, process, gathered, errors>>
streamVars   == <<record, writers, streams>>
vars         == <<service, gatewayVars, followerVars, runVars, localVars, streamVars>>

\* A Run that is not looked at has been canceled, so that nobody claims it.
Idle ==
    /\ mode = "brief" /\ publishable = FALSE
    /\ run = [life |-> "canceled", holder |-> 0, error |-> None, saved |-> FALSE,
              result |-> None]
    /\ workers = <<>> /\ tasks = [i \in Run!Interfaces |-> None]
    /\ cancel = [at |-> "idle", left |-> {}] /\ failures = 0
\* An API process that is not looked at is down.
Down ==
    /\ inline = [life |-> "canceled", version |-> 0, asks |-> FALSE, published |-> FALSE]
    /\ threads = <<>> /\ entry = 0 /\ forgets = 0
    /\ caller = [at |-> "idle", ok |-> TRUE, seen |-> 0]
    /\ access = TRUE /\ process = "down" /\ gathered = 0 /\ errors = 0

Init ==
    /\ service \in Services
    /\ Gateway!Init /\ Follower!Init /\ Stream!Init
    /\ IF service = "run" THEN Run!Init ELSE Idle
    /\ IF service = "local" THEN Local!Init ELSE Down

Next ==
    /\ UNCHANGED service
    /\ \/ /\ service = "gateway" /\ Gateway!Next
          /\ UNCHANGED <<followerVars, runVars, localVars, streamVars>>
       \/ /\ service = "follower" /\ Follower!Next
          /\ UNCHANGED <<gatewayVars, runVars, localVars, streamVars>>
       \/ /\ service = "run" /\ Run!Next
          /\ UNCHANGED <<gatewayVars, followerVars, localVars, streamVars>>
       \/ /\ service = "local" /\ Local!Next
          /\ UNCHANGED <<gatewayVars, followerVars, runVars, streamVars>>
       \/ /\ service = "stream" /\ Stream!Next
          /\ UNCHANGED <<gatewayVars, followerVars, runVars, localVars>>

Spec == Init /\ [][Next]_vars

Fairness ==
    Gateway!Fairness /\ Follower!Fairness /\ Run!Fairness /\ Local!Fairness /\ Stream!Fairness
FairSpec == Spec /\ Fairness

-----------------------------------------------------------------------------
(* The components' properties, stated and explained in their modules. *)

\* What a call of the gateway returns is what it is said to be; no path keeps probe or lock.
GatewayIsSafe == Gateway!GatewayIsSafe
\* Every call of the gateway returns or raises.
CallsEnd == Gateway!CallsEnd
\* Submitting a command again makes no second Run; no event is missed.
FollowerIsSafe == Follower!FollowerIsSafe
\* A followed Run that ends is shown as ended, unless a late answer put the tab back.
FollowerCatchesUp == Follower!FollowerCatchesUp
\* Executions, Tasks and cancellation of a Run fit together.
RunIsCoherent == Run!RunIsCoherent
\* Every Run ends, unless its delivery was acknowledged although a lost lease kept it running.
RunsEnd == Run!RunsEnd
\* A Run fails only because an agent failed or its plan was not fit to publish.
FailsOnlyForCause == Run!FailsOnlyForCause
\* An inline Run has one task while it needs one, and none overtakes a cancellation.
ExecutionIsSafe == Local!ExecutionIsSafe
\* A repeated cancellation is carried out.
CancelIsCarriedOut == Local!CancelIsCarriedOut
\* A client is sent the Task's events since it subscribed, once each.
StreamIsExact == Stream!StreamIsExact
\* No stream of a Task that has ended stays open.
StreamsEnd == Stream!StreamsEnd
\* No stream of an intact Task is broken.
StreamsAreNotBroken == Stream!StreamsAreNotBroken
=============================================================================
