---------------------------- MODULE RunExecution ----------------------------
(***************************************************************************)
(* One Product Run executed by external workers.                            *)
(*                                                                          *)
(* The Run row (lifecycle state, control version, execution lease) and the  *)
(* artifact rows live in PostgreSQL; every store method is one transaction  *)
(* that locks the Run row, so every store call is one atomic step here.     *)
(* Between two calls of one actor anything may happen: a lease may expire,  *)
(* a worker may crash, be shut down, or lose its heartbeat, another worker  *)
(* may reclaim the queue entry, and a user may cancel or resume the Run.    *)
(*                                                                          *)
(*   worker.py    process_entry, run_once          Deliver .. Acknowledge   *)
(*   runtime.py   execute_existing, _execute       ReadBeforeClaim .. Release *)
(*   runtime.py   cancel, _finish_canceled         Cancel...                *)
(*   postgres_store.py  claim/renew/release/mutate_run, create_artifact     *)
(*                                                                          *)
(* Time is abstracted: a lease is live until an expiry step.  The owner     *)
(* string (consumer name and entry digest) is the worker itself, because a  *)
(* consumer handles one entry at a time.                                    *)
(***************************************************************************)
EXTENDS Integers, FiniteSets

CONSTANTS
    Workers,       \* consumers of the Redis group
    Callers,       \* API requests that cancel the Run
    NoWorker,      \* execution_lease_owner IS NULL
    NoArtifact,    \* result_artifact_id IS NULL
    NItems,        \* artifacts one execution saves; the last one is its result
    StableItems,   \* those whose identity comes from a persisted A2A task
    NProgress,     \* progress reports of one execution
    Faults,        \* the kinds of fault this instance allows
    MaxFaults      \* bound on the number of faults

FaultKinds ==
    {"crash", "shutdown", "heartbeat", "stall", "duplicate", "error",
     "propagation"}

ASSUME WorkersAssumption == NoWorker \notin Workers
ASSUME ItemsAssumption ==
    /\ NItems \in Nat /\ NItems >= 2
    /\ StableItems \subseteq 1..NItems /\ StableItems # {}
ASSUME BoundsAssumption ==
    /\ NProgress \in Nat /\ MaxFaults \in Nat /\ Faults \subseteq FaultKinds
    /\ NoArtifact \notin (1..NItems) \X Nat

VARIABLES
    \* v1_runs row
    state, version, attempt, owner, lease, input, pending, result,
    \* v1_artifacts rows, and what the executor's persisted tasks decided
    artifacts, verdict,
    \* v1_outbox_events rows awaiting relay, and unacknowledged stream entries
    outbox, entries, sent, deadLettered,
    \* the workers
    pc, entry, mine, seen, item, reports, signal, outcome,
    \* the API's cancel requests
    cpc, cseen,
    \* faults so far, and the attempt of the latest fenced write
    faults, writer

runVars    == <<state, version, attempt, owner, lease, input, pending, result>>
queueVars  == <<outbox, entries, sent, deadLettered>>
workerVars == <<pc, entry, mine, seen, item, reports, signal, outcome>>
callerVars == <<cpc, cseen>>
vars == <<runVars, artifacts, verdict, queueVars, workerVars, callerVars, faults, writer>>

-----------------------------------------------------------------------------
Terminal  == {"completed", "failed", "canceled"}
Active    == {"queued", "running"}
Lifecycle == Active \cup Terminal \cup {"waiting_input", "cancel_requested"}

\* Where a worker is.  Body: inside the try block of _execute; Handlers: inside
\* its except clauses and the _finish_* methods they call.
Body     == {"start", "begin", "input", "exec", "progress", "check", "save",
             "publish", "complete", "candidate", "block"}
Handlers == {"cancelled", "conflict", "fincancel", "cancelwrite", "finfail",
             "failwrite"}
Executing == Body \cup Handlers
Writes   == {"begin", "input", "progress", "publish", "complete", "candidate",
             "block", "cancelwrite", "failwrite"}
Outside  == {"idle", "fence", "claim", "busy", "release", "ack"}

\* An artifact's identity: stable across attempts when it was produced by an
\* A2A task (deterministic dispatch id), fresh for each attempt otherwise.
ArtifactId(i, a) == <<i, IF i \in StableItems THEN 0 ELSE a>>

NoEntry == [id |-> 0, cv |-> 0]

-----------------------------------------------------------------------------
(* The Run row. *)

\* create_run committed: the Run is queued and its dispatch is in the outbox.
Init ==
    /\ state = "queued" /\ version = 1 /\ attempt = 0
    /\ owner = NoWorker /\ lease = "over"
    /\ input \in {"missing", "given"} /\ pending = "none"
    /\ result = NoArtifact /\ artifacts = {} /\ verdict = "unknown"
    /\ outbox = {1} /\ entries = {} /\ sent = 0 /\ deadLettered = {}
    /\ pc = [w \in Workers |-> "idle"]
    /\ entry = [w \in Workers |-> NoEntry]
    /\ mine = [w \in Workers |-> 0]
    /\ seen = [w \in Workers |-> 0]
    /\ item = [w \in Workers |-> 1]
    /\ reports = [w \in Workers |-> 0]
    /\ signal = [w \in Workers |-> "none"]
    /\ outcome = [w \in Workers |-> "raised"]
    /\ cpc = [c \in Callers |-> "idle"]
    /\ cseen = [c \in Callers |-> 0]
    /\ faults = 0 /\ writer = 0

\* Mutant: a lease check that looks at the lifecycle but not at the token.
LeaseHeldWithoutToken(w) == lease = "live" /\ state \in Active

\* _assert_execution_lease_tx.
LeaseHeld(w) ==
    /\ owner = w /\ attempt = mine[w] /\ lease = "live"
    /\ state \in Active

\* mutate_run after its checks: one more version, and a state that ends the
\* execution gives up the lease.
MutateRun(s) ==
    /\ state' = s
    /\ version' = version + 1
    /\ IF s \in Terminal \cup {"cancel_requested", "waiting_input"}
       THEN owner' = NoWorker /\ lease' = "over"
       ELSE UNCHANGED <<owner, lease>>

\* A fault of kind f may still happen.
Fault(f) == f \in Faults /\ faults < MaxFaults /\ faults' = faults + 1

\* Where w goes next.  The version it has read is kept only for the write that
\* follows.
Goto(w, l) == pc' = [pc EXCEPT ![w] = l]
Keep(w, l, v) == seen' = [seen EXCEPT ![w] = IF l \in Writes THEN v ELSE 0]
Read(w, l) ==
    /\ Goto(w, l) /\ Keep(w, l, version)
    /\ UNCHANGED <<item, reports, outcome>>

\* An exception leaves the try block of _execute: its locals are gone.
Raise(w, handler) ==
    /\ Goto(w, handler)
    /\ seen' = [seen EXCEPT ![w] = 0]
    /\ item' = [item EXCEPT ![w] = 1]
    /\ reports' = [reports EXCEPT ![w] = 0]
    /\ UNCHANGED outcome

\* _execute returned, or raised: the finally clause releases the lease, then
\* the entry is acknowledged or left pending.
Leave(w, how) ==
    /\ Goto(w, "release")
    /\ seen' = [seen EXCEPT ![w] = 0]
    /\ item' = [item EXCEPT ![w] = 1]
    /\ reports' = [reports EXCEPT ![w] = 0]
    /\ outcome' = [outcome EXCEPT ![w] = how]

\* process_entry is over, or its process is: what it knew is gone.
Forget(w) ==
    /\ pc' = [pc EXCEPT ![w] = "idle"]
    /\ entry' = [entry EXCEPT ![w] = NoEntry]
    /\ mine' = [mine EXCEPT ![w] = 0]
    /\ seen' = [seen EXCEPT ![w] = 0]
    /\ item' = [item EXCEPT ![w] = 1]
    /\ reports' = [reports EXCEPT ![w] = 0]
    /\ signal' = [signal EXCEPT ![w] = "none"]
    /\ outcome' = [outcome EXCEPT ![w] = "raised"]

-----------------------------------------------------------------------------
(* Taking an entry from the stream (worker.py process_entry). *)

\* xreadgroup or xautoclaim hands an unacknowledged entry to an idle consumer.
\* An entry in work elsewhere may be reclaimed: idle time is not the lease.
Deliver(w) ==
    /\ pc[w] = "idle"
    /\ \E e \in entries : entry' = [entry EXCEPT ![w] = e]
    /\ Goto(w, "fence")
    /\ UNCHANGED <<runVars, artifacts, verdict, queueVars, mine, seen, item,
                   reports, signal, outcome, callerVars, faults, writer>>

\* Mutant: a Run that needs no worker is left alone, its entry unacknowledged.
ReadBeforeClaimWithoutAck(w) ==
    /\ pc[w] = "fence"
    /\ Goto(w, IF state \in Active THEN "claim" ELSE "idle")
    /\ UNCHANGED <<runVars, artifacts, verdict, queueVars, entry, mine,
                   seen, item, reports, signal, outcome, callerVars, faults, writer>>

\* get_run and the dispatch fence: a dispatch of a version the database does not
\* have yet is dead-lettered and acknowledged.  Then execute_existing reads the
\* Run: one that is not executable needs no worker.  (Two reads in the code; the
\* version only grows, so the fence's verdict is the same at the second one.)
ReadBeforeClaim(w) ==
    /\ pc[w] = "fence"
    /\ IF version < entry[w].cv
       THEN Goto(w, "ack") /\ deadLettered' = deadLettered \cup {entry[w].cv}
       ELSE /\ Goto(w, IF state \in Active THEN "claim" ELSE "ack")
            /\ UNCHANGED deadLettered
    /\ UNCHANGED <<runVars, artifacts, verdict, outbox, entries, sent, entry, mine,
                   seen, item, reports, signal, outcome, callerVars, faults, writer>>

\* Mutant: an expired lease still keeps others out.
ClaimIgnoringExpiry(w) ==
    /\ pc[w] = "claim"
    /\ IF state \in Active /\ owner = NoWorker
       THEN /\ owner' = w /\ lease' = "live" /\ attempt' = attempt + 1
            /\ mine' = [mine EXCEPT ![w] = attempt + 1]
            /\ Goto(w, "start")
       ELSE Goto(w, "busy") /\ UNCHANGED <<owner, lease, attempt, mine>>
    /\ UNCHANGED <<state, version, input, pending, result, artifacts, verdict,
                   queueVars, entry, seen, item, reports, signal, outcome, callerVars,
                   faults, writer>>

\* claim_run_execution: a new attempt, unless a live lease is in the way.
ClaimRunExecution(w) ==
    /\ pc[w] = "claim"
    /\ IF state \in Active /\ ~(owner # NoWorker /\ lease = "live")
       THEN /\ owner' = w /\ lease' = "live" /\ attempt' = attempt + 1
            /\ mine' = [mine EXCEPT ![w] = attempt + 1]
            /\ Goto(w, "start")
       ELSE Goto(w, "busy") /\ UNCHANGED <<owner, lease, attempt, mine>>
    /\ UNCHANGED <<state, version, input, pending, result, artifacts, verdict,
                   queueVars, entry, seen, item, reports, signal, outcome, callerVars,
                   faults, writer>>

\* Mutant: a busy Run is acknowledged, its owner will see to it.
AckWhenBusy(w) ==
    /\ pc[w] = "busy"
    /\ Goto(w, "ack")
    /\ UNCHANGED <<runVars, artifacts, verdict, queueVars, entry, mine, seen, item,
                   reports, signal, outcome, callerVars, faults, writer>>

\* The claim returned None: still executable means busy, and the entry is kept.
ReadWhenBusy(w) ==
    /\ pc[w] = "busy"
    /\ IF state \in Active
       THEN Forget(w)
       ELSE /\ Goto(w, "ack")
            /\ UNCHANGED <<entry, mine, seen, item, reports, signal, outcome>>
    /\ UNCHANGED <<runVars, artifacts, verdict, queueVars, callerVars, faults, writer>>

\* release_run_execution in the finally clause; a lost heartbeat turns a normal
\* return into RunExecutionLeaseLost, so the entry is not acknowledged.
Release(w) ==
    /\ pc[w] = "release"
    /\ IF owner = w /\ attempt = mine[w]
       THEN owner' = NoWorker /\ lease' = "over"
       ELSE UNCHANGED <<owner, lease>>
    /\ IF outcome[w] = "returned" /\ signal[w] # "lost"
       THEN /\ Goto(w, "ack")
            /\ UNCHANGED <<entry, mine, seen, item, reports, signal, outcome>>
       ELSE Forget(w)
    /\ UNCHANGED <<state, version, attempt, input, pending, result, artifacts,
                   verdict, queueVars, callerVars, faults, writer>>

\* xack, whichever consumer the entry belongs to by now.
Acknowledge(w) ==
    /\ pc[w] = "ack"
    /\ entries' = entries \ {entry[w]}
    /\ Forget(w)
    /\ UNCHANGED <<runVars, artifacts, verdict, outbox, sent, deadLettered, callerVars,
                   faults, writer>>

-----------------------------------------------------------------------------
(* _execute under a lease. *)

\* _transition with execution_lease: mutate_run asserts the lease, then compares
\* the version.  A lost lease is raised out of _execute; a conflict is caught.
FencedTransition(w, s, next) ==
    IF LeaseHeld(w) /\ seen[w] = version
    THEN /\ MutateRun(s)
         /\ writer' = mine[w]
         /\ IF next = "return"
            THEN Leave(w, "returned")
            ELSE Goto(w, next) /\ Keep(w, next, version + 1) /\ UNCHANGED <<item, reports, outcome>>
    ELSE /\ UNCHANGED <<state, version, owner, lease, writer>>
         /\ IF LeaseHeld(w) THEN Raise(w, "conflict") ELSE Leave(w, "raised")

\* Mutant: the input question is put only to a Run found running.
AfterStartSkippingInput ==
    IF input = "missing" /\ state = "running" THEN "input" ELSE "exec"

AfterStart == IF input = "missing" THEN "input" ELSE "exec"

ReadAtStart(w) ==
    /\ pc[w] = "start"
    /\ IF state \in Active
       THEN Read(w, IF state = "queued" THEN "begin" ELSE AfterStart)
       ELSE Leave(w, "returned")
    /\ UNCHANGED <<runVars, artifacts, verdict, queueVars, entry, mine, signal,
                   callerVars, faults, writer>>

BeginRun(w) ==
    /\ pc[w] = "begin"
    /\ FencedTransition(w, "running", AfterStart)
    /\ UNCHANGED <<attempt, input, pending, result, artifacts, verdict, queueVars,
                   entry, mine, signal, callerVars, faults>>

\* _required_input asked for typed fields: persist them and stop executing.
RequireInput(w) ==
    /\ pc[w] = "input"
    /\ FencedTransition(w, "waiting_input", "return")
    /\ pending' = IF state' # state THEN "open" ELSE pending
    /\ UNCHANGED <<attempt, input, result, artifacts, verdict, queueVars,
                   entry, mine, signal, callerVars, faults>>

\* The executor reports progress: get_run ...
ReadForProgress(w) ==
    /\ pc[w] = "exec" /\ reports[w] < NProgress
    /\ IF state \in Terminal \cup {"cancel_requested"}
       THEN Raise(w, "cancelled")
       ELSE /\ Goto(w, "progress") /\ Keep(w, "progress", version)
            /\ reports' = [reports EXCEPT ![w] = @ + 1]
            /\ UNCHANGED <<item, outcome>>
    /\ UNCHANGED <<runVars, artifacts, verdict, queueVars, entry, mine, signal,
                   callerVars, faults, writer>>

\* ... and the phase transition.
ReportProgress(w) ==
    /\ pc[w] = "progress"
    /\ FencedTransition(w, state, "exec")
    /\ UNCHANGED <<attempt, input, pending, result, artifacts, verdict, queueVars,
                   entry, mine, signal, callerVars, faults>>

\* The executor returns.  Its tasks are persisted and recovered by dispatch id,
\* so every attempt that finishes sees the verdict of the first one.
FinishExecution(w) ==
    /\ pc[w] = "exec" /\ reports[w] = NProgress
    /\ IF verdict = "unknown" THEN verdict' \in {"publishable", "blocked"}
                              ELSE UNCHANGED verdict
    /\ Goto(w, "check")
    /\ reports' = [reports EXCEPT ![w] = 0]
    /\ UNCHANGED <<runVars, artifacts, queueVars, entry, mine, seen, item, signal,
                   outcome, callerVars, faults, writer>>

\* Mutants: the loop over the items ends one too late, or one too early.
CheckStillRunningLate(w) ==
    /\ pc[w] = "check"
    /\ IF state # "running" THEN Raise(w, "cancelled")
       ELSE Read(w, IF item[w] <= NItems + 1 THEN "save"
                    ELSE IF verdict = "publishable" THEN "publish" ELSE "candidate")
    /\ UNCHANGED <<runVars, artifacts, verdict, queueVars, entry, mine, signal,
                   callerVars, faults, writer>>

CheckStillRunningEarly(w) ==
    /\ pc[w] = "check"
    /\ IF state # "running" THEN Raise(w, "cancelled")
       ELSE Read(w, IF item[w] < NItems THEN "save"
                    ELSE IF verdict = "publishable" THEN "publish" ELSE "candidate")
    /\ UNCHANGED <<runVars, artifacts, verdict, queueVars, entry, mine, signal,
                   callerVars, faults, writer>>

\* get_run before the supporting artifacts, before the result, and after it.
CheckStillRunning(w) ==
    /\ pc[w] = "check"
    /\ IF state # "running" THEN Raise(w, "cancelled")
       ELSE Read(w, IF item[w] <= NItems THEN "save"
                    ELSE IF verdict = "publishable" THEN "publish" ELSE "candidate")
    /\ UNCHANGED <<runVars, artifacts, verdict, queueVars, entry, mine, signal,
                   callerVars, faults, writer>>

\* Mutant: an artifact insert that is not fenced by the lease.
CreateArtifactUnfenced(w) ==
    LET id == ArtifactId(item[w], mine[w]) IN
    /\ pc[w] = "save"
    /\ IF id \notin artifacts
       THEN /\ artifacts' = artifacts \cup {id}
            /\ writer' = mine[w]
            /\ item' = [item EXCEPT ![w] = @ + 1]
            /\ Goto(w, IF item[w] + 1 >= NItems THEN "check" ELSE "save")
            /\ UNCHANGED <<seen, reports, outcome>>
       ELSE /\ UNCHANGED <<artifacts, writer>> /\ Raise(w, "finfail")
    /\ UNCHANGED <<runVars, verdict, queueVars, entry, mine, signal, callerVars, faults>>

\* create_artifact: lease asserted, then an INSERT whose primary key refuses an
\* identity that is already there.
CreateArtifact(w) ==
    LET id == ArtifactId(item[w], mine[w]) IN
    /\ pc[w] = "save"
    /\ IF LeaseHeld(w) /\ id \notin artifacts
       THEN /\ artifacts' = artifacts \cup {id}
            /\ writer' = mine[w]
            /\ item' = [item EXCEPT ![w] = @ + 1]
            /\ Goto(w, IF item[w] + 1 >= NItems THEN "check" ELSE "save")
            /\ UNCHANGED <<seen, reports, outcome>>
       ELSE /\ UNCHANGED <<artifacts, writer>>
            /\ IF LeaseHeld(w) THEN Raise(w, "finfail") ELSE Leave(w, "raised")
    /\ UNCHANGED <<runVars, verdict, queueVars, entry, mine, signal, callerVars, faults>>

\* Mutant: the artifact is published, but the Run does not record it.
PublishResultUnrecorded(w) ==
    /\ pc[w] = "publish"
    /\ FencedTransition(w, state, "complete")
    /\ UNCHANGED <<attempt, input, pending, result, artifacts, verdict, queueVars,
                   entry, mine, signal, callerVars, faults>>

\* mutate_run with result_artifact: the Run's result becomes PUBLISHED.
PublishResult(w) ==
    /\ pc[w] = "publish"
    /\ FencedTransition(w, state, "complete")
    /\ result' = IF version' # version THEN ArtifactId(NItems, mine[w]) ELSE result
    /\ UNCHANGED <<attempt, input, pending, artifacts, verdict, queueVars,
                   entry, mine, signal, callerVars, faults>>

CompleteRun(w) ==
    /\ pc[w] = "complete"
    /\ FencedTransition(w, "completed", "return")
    /\ UNCHANGED <<attempt, input, pending, result, artifacts, verdict, queueVars,
                   entry, mine, signal, callerVars, faults>>

\* The plan is not publishable: report the candidate, then fail the Run.
ReportCandidate(w) ==
    /\ pc[w] = "candidate"
    /\ FencedTransition(w, state, "block")
    /\ UNCHANGED <<attempt, input, pending, result, artifacts, verdict, queueVars,
                   entry, mine, signal, callerVars, faults>>

BlockRun(w) ==
    /\ pc[w] = "block"
    /\ FencedTransition(w, "failed", "return")
    /\ UNCHANGED <<attempt, input, pending, result, artifacts, verdict, queueVars,
                   entry, mine, signal, callerVars, faults>>

-----------------------------------------------------------------------------
(* The except clauses of _execute and the _finish_* methods. *)

\* CancelledError and VersionConflict both re-read the Run.  A CancelledError on
\* a Run that nobody canceled is re-raised; a conflict on one is swallowed.
ReadAfterInterruption(w) ==
    /\ pc[w] \in {"cancelled", "conflict"}
    /\ IF state = "cancel_requested"
       THEN Read(w, "fincancel")
       ELSE Leave(w, IF state \in Terminal \/ pc[w] = "conflict" THEN "returned" ELSE "raised")
    /\ UNCHANGED <<runVars, artifacts, verdict, queueVars, entry, mine, signal,
                   callerVars, faults, writer>>

\* _finish_canceled: no lease is passed.
ReadToCancel(w) ==
    /\ pc[w] = "fincancel"
    /\ IF state \in Terminal THEN Leave(w, "returned") ELSE Read(w, "cancelwrite")
    /\ UNCHANGED <<runVars, artifacts, verdict, queueVars, entry, mine, signal,
                   callerVars, faults, writer>>

WriteCanceled(w) ==
    /\ pc[w] = "cancelwrite"
    /\ IF seen[w] = version THEN MutateRun("canceled")
                            ELSE UNCHANGED <<state, version, owner, lease>>
    /\ Leave(w, "returned")
    /\ UNCHANGED <<attempt, input, pending, result, artifacts, verdict, queueVars,
                   entry, mine, signal, callerVars, faults, writer>>

\* _finish_failed: a Run whose cancellation was requested is canceled instead.
ReadToFail(w) ==
    /\ pc[w] = "finfail"
    /\ IF state \in Terminal THEN Leave(w, "returned")
       ELSE Read(w, IF state = "cancel_requested" THEN "fincancel" ELSE "failwrite")
    /\ UNCHANGED <<runVars, artifacts, verdict, queueVars, entry, mine, signal,
                   callerVars, faults, writer>>

\* A conflict and a lost lease are swallowed here: _execute returns normally.
WriteFailed(w) ==
    /\ pc[w] = "failwrite"
    /\ IF LeaseHeld(w) /\ seen[w] = version
       THEN MutateRun("failed") /\ writer' = mine[w]
       ELSE UNCHANGED <<state, version, owner, lease, writer>>
    /\ Leave(w, "returned")
    /\ UNCHANGED <<attempt, input, pending, result, artifacts, verdict, queueVars,
                   entry, mine, signal, callerVars, faults>>

-----------------------------------------------------------------------------
(* What goes wrong around a worker. *)

\* A CancelledError reaches the execution: inside the try block it is handled,
\* inside a handler it propagates.
Interrupt(w) ==
    IF pc[w] \in Body THEN Raise(w, "cancelled")
    ELSE IF pc[w] \in Handlers THEN Leave(w, "raised")
    ELSE UNCHANGED <<pc, seen, item, reports, outcome>>

\* renew_run_execution found no matching lease.
HeartbeatFindsLeaseLost(w) ==
    /\ pc[w] \in Executing \cup {"release"} /\ signal[w] # "lost"
    /\ ~LeaseHeld(w)
    /\ signal' = [signal EXCEPT ![w] = "lost"]
    /\ Interrupt(w)
    /\ UNCHANGED <<runVars, artifacts, verdict, queueVars, entry, mine, callerVars,
                   faults, writer>>

\* renew_run_execution raised: treated as a lost lease.
HeartbeatFails(w) ==
    /\ pc[w] \in Executing /\ signal[w] # "lost"
    /\ Fault("heartbeat")
    /\ signal' = [signal EXCEPT ![w] = "lost"]
    /\ Interrupt(w)
    /\ UNCHANGED <<runVars, artifacts, verdict, queueVars, entry, mine, callerVars, writer>>

\* The task that runs execute_existing is cancelled, and it cancels the execution.
Shutdown(w) ==
    /\ pc[w] \in Executing /\ signal[w] = "none"
    /\ Fault("shutdown")
    /\ signal' = [signal EXCEPT ![w] = "stop"]
    /\ Interrupt(w)
    /\ UNCHANGED <<runVars, artifacts, verdict, queueVars, entry, mine, callerVars, writer>>

\* A call in the try block raises something else: the executor, a provider, the
\* database.
ExecutionError(w) ==
    /\ pc[w] \in Body
    /\ Fault("error")
    /\ Raise(w, "finfail")
    /\ UNCHANGED <<runVars, artifacts, verdict, queueVars, entry, mine, signal,
                   callerVars, writer>>

\* The worker process dies; its lease and its pending entry stay behind.
Crash(w) ==
    /\ pc[w] # "idle"
    /\ Fault("crash")
    /\ Forget(w)
    /\ UNCHANGED <<runVars, artifacts, verdict, queueVars, callerVars, writer>>

\* w renews the live lease: its heartbeat task runs and was not told to stop.
Renewing(w) ==
    /\ owner = w /\ attempt = mine[w]
    /\ pc[w] \in Executing /\ signal[w] # "lost"

\* Nobody renews the lease: time makes it expire.
ExpireAbandonedLease ==
    /\ lease = "live" /\ \A w \in Workers : ~Renewing(w)
    /\ lease' = "over"
    /\ UNCHANGED <<state, version, attempt, owner, input, pending, result,
                   artifacts, verdict, queueVars, workerVars, callerVars, faults, writer>>

\* A stalled process or database keeps the heartbeat from renewing in time.
ExpireStalledLease ==
    /\ lease = "live" /\ \E w \in Workers : Renewing(w)
    /\ Fault("stall")
    /\ lease' = "over"
    /\ UNCHANGED <<state, version, attempt, owner, input, pending, result,
                   artifacts, verdict, queueVars, workerVars, callerVars, writer>>

-----------------------------------------------------------------------------
(* The outbox relay, and the user. *)

\* The dispatcher publishes a dispatch row to the stream and marks it.
RelayDispatch ==
    \E cv \in outbox :
        /\ entries' = entries \cup {[id |-> sent + 1, cv |-> cv]}
        /\ sent' = sent + 1
        /\ outbox' = outbox \ {cv}
        /\ UNCHANGED <<runVars, artifacts, verdict, deadLettered, workerVars, callerVars,
                       faults, writer>>

\* It publishes and fails before it marks the row: the row is relayed again.
RelayUnmarked ==
    \E cv \in outbox :
        /\ Fault("duplicate")
        /\ entries' = entries \cup {[id |-> sent + 1, cv |-> cv]}
        /\ sent' = sent + 1
        /\ UNCHANGED <<runVars, artifacts, verdict, outbox, deadLettered, workerVars,
                       callerVars, writer>>

\* Mutant: the dispatch names a version the Run does not have yet.
ResumeRunAhead ==
    /\ state = "waiting_input" /\ pending = "open"
    /\ state' = "queued" /\ version' = version + 1
    /\ input' = "given" /\ pending' = "none"
    /\ outbox' = outbox \cup {version + 2}
    /\ UNCHANGED <<attempt, owner, lease, result, artifacts, verdict, entries, sent,
                   deadLettered, workerVars, callerVars, faults, writer>>

\* resume_run with the version, the request and values the pending input wants.
ResumeRun ==
    /\ state = "waiting_input" /\ pending = "open"
    /\ state' = "queued" /\ version' = version + 1
    /\ input' = "given" /\ pending' = "none"
    /\ outbox' = outbox \cup {version + 1}
    /\ UNCHANGED <<attempt, owner, lease, result, artifacts, verdict, entries, sent,
                   deadLettered, workerVars, callerVars, faults, writer>>

\* The pending input's expires_at passes: resume_run refuses from now on.
ExpirePendingInput ==
    /\ state = "waiting_input" /\ pending = "open"
    /\ pending' = "none"
    /\ UNCHANGED <<state, version, attempt, owner, lease, input, result, artifacts,
                   verdict, queueVars, workerVars, callerVars, faults, writer>>

CGoto(c, l, v) ==
    /\ cpc' = [cpc EXCEPT ![c] = l]
    /\ cseen' = [cseen EXCEPT ![c] = v]

\* Mutant: a Run whose cancellation is under way is not taken up again.
ReadForCancelOnce(c) ==
    /\ cpc[c] = "idle" /\ state \notin Terminal \cup {"cancel_requested"}
    /\ CGoto(c, "request", version)
    /\ UNCHANGED <<runVars, artifacts, verdict, queueVars, workerVars, faults, writer>>

\* cancel: get_run.  The caller's expected_control_version is one it has read.
ReadForCancel(c) ==
    /\ cpc[c] = "idle" /\ state \notin Terminal
    /\ IF state = "cancel_requested" THEN CGoto(c, "propagate", 0)
                                     ELSE CGoto(c, "request", version)
    /\ UNCHANGED <<runVars, artifacts, verdict, queueVars, workerVars, faults, writer>>

RequestCancel(c) ==
    /\ cpc[c] = "request"
    /\ IF cseen[c] = version
       THEN MutateRun("cancel_requested") /\ CGoto(c, "propagate", 0)
       ELSE CGoto(c, "idle", 0) /\ UNCHANGED <<state, version, owner, lease>>
    /\ UNCHANGED <<attempt, input, pending, result, artifacts, verdict, queueVars,
                   workerVars, faults, writer>>

\* cancel_run_tasks, the callback into the A2A task service.
PropagateCancel(c) ==
    /\ cpc[c] = "propagate"
    /\ CGoto(c, "fincancel", 0)
    /\ UNCHANGED <<runVars, artifacts, verdict, queueVars, workerVars, faults, writer>>

\* The callback raised: the Run stays cancel_requested for a retry.
PropagationFails(c) ==
    /\ cpc[c] = "propagate"
    /\ Fault("propagation")
    /\ CGoto(c, "idle", 0)
    /\ UNCHANGED <<runVars, artifacts, verdict, queueVars, workerVars, writer>>

\* No local task in external mode: cancel itself calls _finish_canceled.
ReadToFinishCancel(c) ==
    /\ cpc[c] = "fincancel"
    /\ IF state \in Terminal THEN CGoto(c, "idle", 0)
                            ELSE CGoto(c, "cancelwrite", version)
    /\ UNCHANGED <<runVars, artifacts, verdict, queueVars, workerVars, faults, writer>>

FinishCancel(c) ==
    /\ cpc[c] = "cancelwrite"
    /\ IF cseen[c] = version THEN MutateRun("canceled")
                             ELSE UNCHANGED <<state, version, owner, lease>>
    /\ CGoto(c, "idle", 0)
    /\ UNCHANGED <<attempt, input, pending, result, artifacts, verdict, queueVars,
                   workerVars, faults, writer>>

\* The API process dies, or the request is dropped, between two of these steps.
CallerLost(c) ==
    /\ cpc[c] # "idle"
    /\ Fault("crash")
    /\ CGoto(c, "idle", 0)
    /\ UNCHANGED <<runVars, artifacts, verdict, queueVars, workerVars, writer>>

-----------------------------------------------------------------------------
HandleEntry(w) ==
    \/ ReadBeforeClaim(w) \/ ClaimRunExecution(w)
    \/ ReadWhenBusy(w) \/ Release(w) \/ Acknowledge(w)
Execute(w) ==
    \/ ReadAtStart(w) \/ BeginRun(w) \/ RequireInput(w) \/ ReadForProgress(w)
    \/ ReportProgress(w) \/ FinishExecution(w) \/ CheckStillRunning(w)
    \/ CreateArtifact(w) \/ PublishResult(w) \/ CompleteRun(w)
    \/ ReportCandidate(w) \/ BlockRun(w)
HandleException(w) ==
    \/ ReadAfterInterruption(w) \/ ReadToCancel(w) \/ WriteCanceled(w)
    \/ ReadToFail(w) \/ WriteFailed(w)
Disturb(w) ==
    \/ HeartbeatFails(w) \/ Shutdown(w) \/ ExecutionError(w) \/ Crash(w)
CancelCall(c) ==
    \/ RequestCancel(c) \/ PropagateCancel(c) \/ ReadToFinishCancel(c)
    \/ FinishCancel(c)

Next ==
    \/ \E w \in Workers :
        \/ Deliver(w) \/ HandleEntry(w) \/ Execute(w) \/ HandleException(w)
        \/ HeartbeatFindsLeaseLost(w) \/ Disturb(w)
    \/ \E c \in Callers :
        ReadForCancel(c) \/ CancelCall(c) \/ PropagationFails(c) \/ CallerLost(c)
    \/ ExpireAbandonedLease \/ ExpireStalledLease
    \/ RelayDispatch \/ RelayUnmarked \/ ResumeRun \/ ExpirePendingInput

Spec == Init /\ [][Next]_vars

-----------------------------------------------------------------------------
(* Properties. *)

\* The columns mutate_run, claim and release write.
RowTypeOK ==
    /\ state \in Lifecycle /\ version \in Nat /\ attempt \in Nat
    /\ owner \in Workers \cup {NoWorker} /\ lease \in {"live", "over"}

RunTypeOK ==
    /\ RowTypeOK
    /\ input \in {"missing", "given"} /\ pending \in {"open", "none"}
    /\ result \in ((1..NItems) \X Nat) \cup {NoArtifact}
    /\ artifacts \in SUBSET ((1..NItems) \X Nat)
    /\ verdict \in {"unknown", "publishable", "blocked"}

QueueTypeOK ==
    /\ outbox \in SUBSET Nat /\ entries \in SUBSET [id : Nat, cv : Nat]
    /\ sent \in Nat /\ deadLettered \in SUBSET Nat

\* Where the workers are in process_entry and _execute, and their locals.
PlaceTypeOK ==
    /\ pc \in [Workers -> Executing \cup Outside]
    /\ seen \in [Workers -> Nat] /\ item \in [Workers -> 1..(NItems + 1)]
    /\ reports \in [Workers -> Nat] /\ outcome \in [Workers -> {"returned", "raised"}]
    /\ \A w \in Workers : pc[w] = "save" => item[w] <= NItems

WorkerTypeOK ==
    /\ PlaceTypeOK
    /\ entry \in [Workers -> [id : Nat, cv : Nat]] /\ mine \in [Workers -> Nat]
    /\ signal \in [Workers -> {"none", "lost", "stop"}]

\* Every variable of the Run row, the queue, the workers and the callers has its
\* type, and a worker saves an item only while there is one left.
TypeOK ==
    /\ RunTypeOK /\ QueueTypeOK /\ WorkerTypeOK
    /\ cpc \in [Callers -> {"idle", "request", "propagate", "fincancel", "cancelwrite"}]
    /\ cseen \in [Callers -> Nat]
    /\ faults \in Nat /\ writer \in Nat

\* An executable Run is never forgotten: while it is queued or running, a dispatch
\* for it is in the outbox or unacknowledged in the stream, so some worker will
\* be handed it (process_entry acknowledges only what needs no more work).
RunHasDispatch == state \in Active => outbox # {} \/ entries # {}

\* The fence in process_entry compares the dispatch with the database, and never
\* rejects a dispatch the outbox really emitted.
DispatchNeverDeadLettered == deadLettered = {}

\* Whoever holds the lease is the only one to move the version while the Run is
\* executable, so _execute's "except VersionConflict", which returns normally and
\* lets a running Run be acknowledged, is never entered by an external worker.
LeaseHolderNeverConflicts == \A w \in Workers : pc[w] # "conflict"

\* Unless the process is told to stop or loses its heartbeat, a worker raises
\* CancelledError only on a Run that was canceled or has ended: a CancelledError
\* that _execute re-raised would pass process_entry's "except Exception" and
\* stop the consumer.
InterruptedOnlyByCancel ==
    \A w \in Workers :
        pc[w] = "cancelled" /\ signal[w] = "none"
            => state \in Terminal \cup {"cancel_requested"}

\* A published result and all its supporting artifacts were saved by one and the
\* same attempt, and a completed Run has published.
PublishedSetIsWhole ==
    /\ result # NoArtifact =>
         \E a \in 1..attempt :
            /\ result = ArtifactId(NItems, a)
            /\ \A i \in 1..NItems : ArtifactId(i, a) \in artifacts
    /\ state = "completed" => result # NoArtifact

\* Run transitions and artifact writes of a late attempt are rejected: once an
\* attempt has written, no earlier attempt writes again.
LateAttemptsAreFenced == [][writer' >= writer]_vars

Ended == Terminal \cup {"cancel_requested"}
OnlyCanceled ==
    /\ UNCHANGED <<artifacts, result, attempt, owner>>
    /\ version' # version => state = "cancel_requested" /\ state' = "canceled"

\* After a cancellation was requested, and after the end, nothing is written on
\* the Run's behalf but the cancellation itself, whoever was executing it.
CanceledRunWritesNothing ==
    [][(state \in Ended) => OnlyCanceled]_vars

\* Execution by leased workers implements the lifecycle users are promised.
Lifecycles == INSTANCE RunLifecycle WITH Artifacts <- (1..NItems) \X Nat
ImplementsLifecycle == Lifecycles!LifecycleSpec

-----------------------------------------------------------------------------
(* The inductive invariant behind the safety properties. *)

\* Past the input question of _execute.
Past   == {"exec", "progress", "check", "save", "publish", "complete", "candidate", "block"}
\* In the part of _execute that counts the items it has saved.
Saving == {"check", "save", "publish", "complete", "candidate", "block"}

\* w's lease has not been taken over (though it may have expired).
Token(w) == owner = w /\ attempt = mine[w] /\ state \in Active

\* An attempt number belongs to the claim that drew it; only an executable Run
\* has an owner; nothing was written by an attempt yet to come.
LeaseInv ==
    /\ writer <= attempt
    /\ state \notin Active => owner = NoWorker
    /\ \A w \in Workers : mine[w] <= attempt
    /\ \A w, v \in Workers : mine[w] = mine[v] /\ mine[w] # 0 => w = v
    /\ \A w \in Workers : pc[w] \in Executing \cup {"release"} => mine[w] # 0

\* What a worker knows about the state when the version it has read is current.
ReadsAreCurrent(w) ==
    seen[w] = version =>
        /\ pc[w] = "begin" => state = "queued"
        /\ pc[w] = "input" => state = "running" /\ input = "missing"
        /\ pc[w] \in {"progress", "publish", "complete", "candidate", "block"}
              => state = "running"
        /\ pc[w] = "cancelwrite" => state = "cancel_requested"

\* How far a worker can be, given the state of the Run.
ProgressInv(w) ==
    /\ pc[w] \in Past => input = "given" /\ state \notin {"queued", "waiting_input"}
    /\ pc[w] \in {"fincancel", "cancelwrite"} => state \in {"cancel_requested", "canceled"}
    /\ pc[w] = "cancelled" /\ signal[w] = "none" => state \in Ended
    /\ pc[w] # "conflict"
    /\ pc[w] \in {"publish", "complete", "candidate", "block"} => item[w] = NItems + 1
    /\ pc[w] \notin Saving => item[w] = 1
    /\ pc[w] = "complete" => result # NoArtifact

\* Everything a worker has counted as saved is there under its attempt's identities.
SavedInv(w) ==
    pc[w] \in Saving => \A i \in 1..(item[w] - 1) : ArtifactId(i, mine[w]) \in artifacts

\* The holder of the token is the only one to move the version.
HolderIsCurrent(w) ==
    /\ seen[w] <= version
    /\ Token(w) /\ pc[w] \in Writes \ {"cancelwrite"} => seen[w] = version

\* Of all attempts, at most one gets past a given stable item: the insert of an
\* artifact that is already there fails.  So at most one attempt publishes.
StableItem == CHOOSE i \in StableItems : TRUE
Passed(w) == pc[w] \in Saving /\ item[w] > StableItem
PublishInv ==
    /\ \A w \in Workers : Passed(w) => <<StableItem, 0>> \in artifacts
    /\ \A w, v \in Workers : Passed(w) /\ Passed(v) => w = v
    /\ result # NoArtifact => <<StableItem, 0>> \in artifacts
    /\ result # NoArtifact => \A w \in Workers : Passed(w) => pc[w] = "complete"
    /\ input = "missing" => result = NoArtifact

CallerInv(c) ==
    /\ cseen[c] <= version
    /\ cpc[c] = "request" /\ cseen[c] = version => state \in Active \cup {"waiting_input"}
    /\ cpc[c] \in {"propagate", "fincancel", "cancelwrite"}
          => state \in {"cancel_requested", "canceled"}
    /\ cpc[c] = "cancelwrite" /\ cseen[c] = version => state = "cancel_requested"

\* No dispatch names a version the Run does not have yet.
DispatchInv ==
    /\ deadLettered = {}
    /\ \A cv \in outbox : cv <= version
    /\ \A e \in entries : e.cv <= version
    /\ \A w \in Workers : entry[w].cv <= version

IndInv ==
    /\ TypeOK
    /\ LeaseInv
    /\ \A w \in Workers :
         ReadsAreCurrent(w) /\ ProgressInv(w) /\ SavedInv(w) /\ HolderIsCurrent(w)
    /\ PublishInv
    /\ PublishedSetIsWhole
    /\ \A c \in Callers : CallerInv(c)
    /\ DispatchInv

-----------------------------------------------------------------------------
(* Why no Run is forgotten.  A dispatch is acknowledged by a worker that        *)
(* returned, and the one return that may leave the Run executable is the write  *)
(* of "failed" under a lease that is gone.  That takes a stalled lease and one  *)
(* more fault.                                                                  *)

\* No lease has stalled, and so far nothing else has gone wrong either if one may.
Undisturbed == faults = 0 \/ "stall" \notin Faults
\* A stalled lease would be the only fault.
HardlyDisturbed == faults <= 1 \/ "stall" \notin Faults

\* An execution that was not told of a lost lease has one, or the Run has ended.
Leased(w) == signal[w] # "lost" => LeaseHeld(w) \/ state \in Ended
ExecutionsAreLeased ==
    Undisturbed => \A w \in Workers : pc[w] \in Executing => Leased(w)
FailuresAreLeased ==
    HardlyDisturbed => \A w \in Workers : pc[w] \in {"finfail", "failwrite"} => Leased(w)

\* Before the first fault nobody fails: what is saved was saved by the execution under
\* way, so its inserts are not refused.
SavedBy(w) == {ArtifactId(i, mine[w]) : i \in 1..(item[w] - 1)}
FirstExecution ==
    faults = 0 =>
        /\ \A w \in Workers : pc[w] \notin {"finfail", "failwrite"}
        /\ \A id \in artifacts :
             \/ state \in Ended
             \/ \E w \in Workers :
                  /\ LeaseHeld(w) /\ pc[w] \in Saving /\ signal[w] # "lost"
                  /\ id \in SavedBy(w)

\* An execution that was told to stop is out of the try block.
SignalsInterrupt ==
    \A w \in Workers : signal[w] # "none" => pc[w] \in Handlers \cup {"release", "ack"}

\* Entries are numbered as they are sent.
EntriesAreSent ==
    /\ \A e \in entries : e.id <= sent
    /\ \A w \in Workers : entry[w].id <= sent

\* w will acknowledge its entry, or is about to.
Finishing(w) ==
    \/ pc[w] = "ack"
    \/ pc[w] = "release" /\ outcome[w] = "returned" /\ signal[w] # "lost"

\* An executable Run has a dispatch that nobody is about to acknowledge.
DispatchIsKept ==
    HardlyDisturbed /\ state \in Active =>
        \/ outbox # {}
        \/ \E e \in entries : \A w \in Workers : Finishing(w) => entry[w] # e

KeptInv ==
    /\ ExecutionsAreLeased /\ FailuresAreLeased /\ FirstExecution
    /\ SignalsInterrupt /\ EntriesAreSent /\ DispatchIsKept

-----------------------------------------------------------------------------
(* Liveness.  Workers and API requests make progress, the relay and the clock   *)
(* advance, and a client whose cancel call failed calls again; nothing is        *)
(* assumed of users otherwise, and faults are never required.                    *)

RetryCancel(c) == state = "cancel_requested" /\ ReadForCancel(c)

Fairness ==
    /\ \A w \in Workers :
         /\ WF_vars(Deliver(w))
         /\ WF_vars(HandleEntry(w) \/ Execute(w) \/ HandleException(w))
    /\ \A c \in Callers : WF_vars(CancelCall(c)) /\ WF_vars(RetryCancel(c))
    /\ WF_vars(RelayDispatch) /\ WF_vars(ExpireAbandonedLease)

FairSpec == Spec /\ Fairness

\* Every executable Run is executed to a verdict, to a question for the user, or
\* to the cancellation the user asked for, despite the faults.
RunSettles == state \in Active ~> state \notin Active

\* A requested cancellation is carried out, given a caller that retries.
CancelFinishes == state = "cancel_requested" ~> state = "canceled"

\* Every stream entry is acknowledged in the end: none is redelivered for ever.
EntriesAreDrained == entries # {} ~> entries = {}
=============================================================================
