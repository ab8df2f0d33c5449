----------------------------- MODULE AgentTask -----------------------------
(***************************************************************************)
(* One A2A task and the TaskService processes that execute it.              *)
(*                                                                          *)
(* The task row (state, version, execution lease, pending question, answer) *)
(* is in PostgreSQL; every store call is one atomic step.  Each process     *)
(* keeps at most one local job for the task, relaunches that wait for that  *)
(* job to end, a caller that sends, waits or answers, and a caller that     *)
(* cancels.  Any process may launch the task; the lease decides who         *)
(* executes it.                                                             *)
(*                                                                          *)
(*   service.py   send_message, _wait_until_settled    Send .. ExpireWrite  *)
(*   service.py   _launch, _execute_job, _transition   Relaunch .. Release  *)
(*   service.py   _resume_input                        Answer .. AnswerWrite *)
(*   service.py   cancel_task, cancel_run_tasks        Cancel...            *)
(*   postgres_store.py  claim/renew/release_execution, replace              *)
(*                                                                          *)
(* Time is abstracted: a lease is live until an expiry step, and the task's *)
(* deadline passes once.  A job's owner string is its process: a process    *)
(* has one job at a time and every claim draws a new attempt.               *)
(***************************************************************************)
EXTENDS Integers, FiniteSets

CONSTANTS
    Processes,      \* API and worker processes with a TaskService
    Cancelers,      \* the processes that are asked to cancel
    Modes,          \* how callers send: "wait" blocks, "stream" returns at once
    Nobody,         \* execution_lease_owner IS NULL
    MaxQuestions,   \* bound on how often the executor asks for input
    MaxQueued,      \* bound on the relaunches that wait for one job
    Faults,         \* the kinds of fault this instance allows
    MaxFaults       \* bound on the number of faults

FaultKinds == {"crash", "shutdown", "heartbeat", "stall", "claim"}

ASSUME ProcessesAssumption == Nobody \notin Processes /\ Cancelers \subseteq Processes
ASSUME TaskBoundsAssumption ==
    /\ MaxQuestions \in Nat /\ MaxQueued \in Nat \ {0} /\ MaxFaults \in Nat
    /\ Modes \subseteq {"wait", "stream"} /\ Faults \subseteq FaultKinds

VARIABLES
    \* a2a_tasks row
    state, version, attempt, owner, lease,
    asked,          \* the number of the latest question, pending in input_required
    answer,         \* execution_input: the question it answers, 0 for none
    late,           \* the deadline has passed
    \* the job of each process, and the relaunches waiting for it
    jpc, jseen, mine, used, goal, queued,
    \* the caller and the canceling caller of each process
    wpc, wseen, reply, cpc, cseen,
    faults

rowVars    == <<state, version, attempt, owner, lease, asked, answer>>
jobVars    == <<jpc, jseen, mine, used, goal, queued>>
callerVars == <<wpc, wseen, reply>>
cancelVars == <<cpc, cseen>>
vars == <<rowVars, late, jobVars, callerVars, cancelVars, faults>>

-----------------------------------------------------------------------------
Open       == {"submitted", "working"}
Terminal   == {"completed", "failed", "canceled"}
\* Mutant: only a result ends waiting.
SettledByResult == Terminal
Settled    == Terminal \cup {"input_required", "auth_required"}
Cancelable == Open \cup {"input_required", "auth_required"}
States     == {"absent"} \cup Open \cup Settled

Init ==
    /\ state = "absent" /\ version = 0 /\ attempt = 0 /\ owner = Nobody /\ lease = "over"
    /\ asked = 0 /\ answer = 0 /\ late = FALSE
    /\ jpc = [p \in Processes |-> "none"] /\ jseen = [p \in Processes |-> 0]
    /\ mine = [p \in Processes |-> 0] /\ used = [p \in Processes |-> 0]
    /\ goal = [p \in Processes |-> "none"] /\ queued = [p \in Processes |-> 0]
    /\ wpc = [p \in Processes |-> "idle"] /\ wseen = [p \in Processes |-> 0]
    /\ reply = [p \in Processes |-> 0]
    /\ cpc = [p \in Processes |-> "idle"] /\ cseen = [p \in Processes |-> 0]
    /\ faults = 0

Fault(f) == f \in Faults /\ faults < MaxFaults /\ faults' = faults + 1

\* The lease predicates of replace and renew_execution, for the job of p.
LeaseHeld(p) == owner = p /\ attempt = mine[p] /\ lease = "live"

\* replace, once its predicates hold: a new version; a state in which nobody executes
\* clears the lease; only a working task keeps an answer.
Replace(s, a) ==
    /\ state' = s /\ version' = version + 1
    /\ answer' = IF s = "working" THEN a ELSE 0
    /\ asked' = IF s = "input_required" THEN asked + 1 ELSE asked
    /\ IF s \in Open THEN UNCHANGED <<owner, lease>> ELSE owner' = Nobody /\ lease' = "over"
    /\ UNCHANGED attempt

Saturate(n) == IF n > MaxQueued THEN MaxQueued ELSE n

\* Mutant: a launch while a job is active is dropped.
LaunchOrDrop(p, n) ==
    /\ jpc' = [jpc EXCEPT ![p] = IF @ = "none" THEN "claim" ELSE @]
    /\ UNCHANGED queued

\* n calls of _launch in a row: the first starts a job if none is active, the others
\* wait for the active one to end.
Launch(p, n) ==
    IF jpc[p] = "none"
    THEN /\ jpc' = [jpc EXCEPT ![p] = "claim"]
         /\ queued' = [queued EXCEPT ![p] = Saturate(@ + n - 1)]
    ELSE queued' = [queued EXCEPT ![p] = Saturate(@ + n)] /\ UNCHANGED jpc

\* The done callbacks of a job that has ended launch the next one.  Its record is
\* stale, but all it decides is the task, whose row is read again after the claim.
Relaunch(p) ==
    /\ jpc[p] = "none" /\ queued[p] > 0
    /\ jpc' = [jpc EXCEPT ![p] = "claim"]
    /\ queued' = [queued EXCEPT ![p] = @ - 1]
    /\ UNCHANGED <<rowVars, late, jseen, mine, used, goal, callerVars, cancelVars, faults>>

-----------------------------------------------------------------------------
(* _execute_job. *)

\* Where the job of p goes; the locals of a job that ends are gone.
JobGoto(p, l) ==
    /\ jpc' = [jpc EXCEPT ![p] = l]
    /\ jseen' = [jseen EXCEPT ![p] = IF l \in {"beginwrite", "applywrite"} THEN version ELSE 0]
    /\ mine' = [mine EXCEPT ![p] = IF l = "none" THEN 0 ELSE @]
    /\ used' = [used EXCEPT ![p] = IF l \in {"none", "release"} THEN 0 ELSE @]
    /\ goal' = [goal EXCEPT ![p] = IF l \in {"none", "release"} THEN "none" ELSE @]

\* Mutant: the finally clause releases a lease the job never got.
JobEndsReleasing(p) == JobGoto(p, "release")

\* The job returns or raises: the finally clause releases a lease it has claimed.
JobEnds(p) == JobGoto(p, IF mine[p] = 0 THEN "none" ELSE "release")

\* claim_execution: a submitted or working task whose lease is free or expired.
ClaimExecution(p) ==
    /\ jpc[p] = "claim"
    /\ IF state \in Open /\ (owner = Nobody \/ lease = "over")
       THEN /\ owner' = p /\ lease' = "live" /\ attempt' = attempt + 1
            /\ mine' = [mine EXCEPT ![p] = attempt + 1]
            /\ jpc' = [jpc EXCEPT ![p] = "begin"] /\ UNCHANGED <<jseen, used, goal>>
       ELSE JobEnds(p) /\ UNCHANGED <<owner, lease, attempt>>
    /\ UNCHANGED <<state, version, asked, answer, late, queued, callerVars, cancelVars, faults>>

\* claim_execution raised: the except clause fails the task, with no lease to show.
ClaimRaises(p) ==
    /\ jpc[p] = "claim" /\ Fault("claim")
    /\ jpc' = [jpc EXCEPT ![p] = "apply"] /\ goal' = [goal EXCEPT ![p] = "failed"]
    /\ UNCHANGED <<rowVars, late, jseen, mine, used, queued, callerVars, cancelVars>>

\* _transition to working, or the get of a task that is working already.  The executor
\* gets the answer that the row holds.
BeginRead(p) ==
    /\ jpc[p] = "begin"
    /\ \/ state = "submitted" /\ JobGoto(p, "beginwrite")
       \/ /\ state = "working"
          /\ jpc' = [jpc EXCEPT ![p] = "exec"] /\ used' = [used EXCEPT ![p] = answer]
          /\ UNCHANGED <<jseen, mine, goal>>
       \/ state \notin Open /\ JobEnds(p)
    /\ UNCHANGED <<rowVars, late, queued, callerVars, cancelVars, faults>>

BeginWrite(p) ==
    /\ jpc[p] = "beginwrite"
    /\ IF jseen[p] = version /\ LeaseHeld(p)
       THEN Replace("working", answer) /\ JobGoto(p, "exec")
       ELSE /\ UNCHANGED rowVars
            /\ IF jseen[p] # version THEN JobGoto(p, "begin") ELSE JobEnds(p)
    /\ UNCHANGED <<late, queued, callerVars, cancelVars, faults>>

JobDecides(p, g) ==
    /\ jpc' = [jpc EXCEPT ![p] = "apply"] /\ goal' = [goal EXCEPT ![p] = g]
    /\ UNCHANGED <<rowVars, late, jseen, mine, used, queued, callerVars, cancelVars, faults>>

\* The executor returns a result, or raises: a failure.
FinishExecution(p) ==
    /\ jpc[p] = "exec"
    /\ \E g \in {"completed", "input_required", "auth_required", "failed"} :
        (g = "input_required" => asked < MaxQuestions) /\ JobDecides(p, g)

\* asyncio.timeout cuts the executor off at the deadline.
ExecutionTimesOut(p) == jpc[p] = "exec" /\ late /\ JobDecides(p, "failed")

\* Mutant: the heartbeat renews as long as the owner is the same process.
HeartbeatIgnoresState(p) ==
    /\ jpc[p] = "exec" /\ owner \notin {p, Nobody}
    /\ JobEnds(p)
    /\ UNCHANGED <<rowVars, late, queued, callerVars, cancelVars, faults>>

\* renew_execution returned None: cancel token set, executor cancelled, the job returns.
HeartbeatFindsLeaseLost(p) ==
    /\ jpc[p] = "exec" /\ ~(LeaseHeld(p) /\ state \in Open)
    /\ JobEnds(p)
    /\ UNCHANGED <<rowVars, late, queued, callerVars, cancelVars, faults>>

\* renew_execution raised: the same.
HeartbeatFails(p) ==
    /\ jpc[p] = "exec" /\ Fault("heartbeat")
    /\ JobEnds(p)
    /\ UNCHANGED <<rowVars, late, queued, callerVars, cancelVars>>

\* The states _apply_execution_result and _fail_if_working start from.
Allowed(g) == IF g = "failed" THEN Open ELSE {"working"}

ApplyRead(p) ==
    /\ jpc[p] = "apply"
    /\ IF state \in Allowed(goal[p]) THEN JobGoto(p, "applywrite") ELSE JobEnds(p)
    /\ UNCHANGED <<rowVars, late, queued, callerVars, cancelVars, faults>>

\* Mutant: the version is compared, the lease is not.
ApplyUnfenced(p) ==
    /\ jpc[p] = "applywrite"
    /\ IF jseen[p] = version
       THEN Replace(goal[p], answer) /\ JobEnds(p)
       ELSE UNCHANGED rowVars /\ JobGoto(p, "apply")
    /\ UNCHANGED <<late, queued, callerVars, cancelVars, faults>>

\* A changed version is read again; a lost lease ends the job.  A job without a lease
\* passes none, and is not fenced.
ApplyWrite(p) ==
    /\ jpc[p] = "applywrite"
    /\ IF jseen[p] = version /\ (mine[p] = 0 \/ LeaseHeld(p))
       THEN Replace(goal[p], answer) /\ JobEnds(p)
       ELSE /\ UNCHANGED rowVars
            /\ IF jseen[p] # version THEN JobGoto(p, "apply") ELSE JobEnds(p)
    /\ UNCHANGED <<late, queued, callerVars, cancelVars, faults>>

\* release_execution of the matching attempt; then the job is done.
Release(p) ==
    /\ jpc[p] = "release"
    /\ IF owner = p /\ attempt = mine[p] THEN owner' = Nobody /\ lease' = "over"
                                        ELSE UNCHANGED <<owner, lease>>
    /\ JobGoto(p, "none")
    /\ UNCHANGED <<state, version, attempt, asked, answer, late, queued, callerVars,
                   cancelVars, faults>>

\* job.cancel(): CancelledError at the job's current await.  In the finally clause it
\* keeps the lease from being released; during the claim, the claim may have been
\* committed without the job having learnt its lease.
StopJob(p) ==
    /\ \/ jpc[p] \in {"none", "claim", "release"} /\ JobGoto(p, "none")
       \/ jpc[p] \notin {"none", "claim", "release"} /\ JobEnds(p)
    /\ \/ UNCHANGED <<owner, lease, attempt>>
       \/ /\ jpc[p] = "claim" /\ state \in Open /\ (owner = Nobody \/ lease = "over")
          /\ owner' = p /\ lease' = "live" /\ attempt' = attempt + 1

-----------------------------------------------------------------------------
(* Callers: send, wait, answer. *)

WaiterGoto(p, l, v) ==
    /\ wpc' = [wpc EXCEPT ![p] = l]
    /\ wseen' = [wseen EXCEPT ![p] = v]

\* create_or_get: the dispatch inbox makes the task unique.
CreateOrGet ==
    IF state = "absent" THEN state' = "submitted" /\ version' = 1
                        ELSE UNCHANGED <<state, version>>

\* send_message or recover_dispatch: the first caller creates the task, every caller of an
\* open one launches it.  A waiting caller launches it once more on entering
\* _wait_until_settled.
Send(p) ==
    /\ wpc[p] = "idle" /\ state \in {"absent"} \cup Open
    /\ CreateOrGet
    /\ \E m \in Modes :
        /\ Launch(p, IF m = "wait" THEN 2 ELSE 1)
        /\ WaiterGoto(p, IF m = "wait" THEN "wait" ELSE "idle", 0)
    /\ UNCHANGED <<attempt, owner, lease, asked, answer, late, jseen, mine, used, goal,
                   reply, cancelVars, faults>>

\* get_task and list_tasks launch an open task, too.
GetTask(p) ==
    /\ state \in Open /\ Launch(p, 1)
    /\ UNCHANGED <<rowVars, late, jseen, mine, used, goal, callerVars, cancelVars, faults>>

\* wait_for_change returned a record, or timed out and the row is read again.
WaitRead(p) ==
    /\ wpc[p] = "wait"
    /\ IF state \in Settled
       THEN WaiterGoto(p, "idle", 0) /\ UNCHANGED <<jpc, queued>>
       ELSE Launch(p, 1) /\ UNCHANGED <<wpc, wseen>>
    /\ UNCHANGED <<rowVars, late, jseen, mine, used, goal, reply, cancelVars, faults>>

\* It timed out after the deadline, so nothing was new: _fail_if_working, without a lease.
WaitExpires(p) ==
    /\ wpc[p] = "wait" /\ late /\ state \in Open
    /\ WaiterGoto(p, "expire", 0)
    /\ UNCHANGED <<rowVars, late, jobVars, reply, cancelVars, faults>>

ExpireRead(p) ==
    /\ wpc[p] = "expire"
    /\ IF state \in Open THEN WaiterGoto(p, "expirewrite", version) ELSE WaiterGoto(p, "wait", 0)
    /\ UNCHANGED <<rowVars, late, jobVars, reply, cancelVars, faults>>

ExpireWrite(p) ==
    /\ wpc[p] = "expirewrite"
    /\ IF wseen[p] = version
       THEN Replace("failed", 0) /\ WaiterGoto(p, "wait", 0)
       ELSE UNCHANGED rowVars /\ WaiterGoto(p, "expire", 0)
    /\ UNCHANGED <<late, jobVars, reply, cancelVars, faults>>

\* _resume_input: the response names the question that is pending ...
Answer(p) ==
    /\ wpc[p] = "idle" /\ state = "input_required"
    /\ WaiterGoto(p, "answer", 0)
    /\ reply' = [reply EXCEPT ![p] = asked]
    /\ UNCHANGED <<rowVars, late, jobVars, cancelVars, faults>>

\* ... then the row is read again, and only its state is looked at.
AnswerRead(p) ==
    /\ wpc[p] = "answer"
    /\ IF state = "input_required"
       THEN WaiterGoto(p, "answerwrite", version) /\ UNCHANGED reply
       ELSE WaiterGoto(p, "idle", 0) /\ reply' = [reply EXCEPT ![p] = 0]
    /\ UNCHANGED <<rowVars, late, jobVars, cancelVars, faults>>

AnswerWrite(p) ==
    /\ wpc[p] = "answerwrite"
    /\ IF wseen[p] = version
       THEN /\ Replace("working", reply[p])
            /\ reply' = [reply EXCEPT ![p] = 0]
            /\ \E m \in Modes :
                /\ Launch(p, IF m = "wait" THEN 2 ELSE 1)
                /\ WaiterGoto(p, IF m = "wait" THEN "wait" ELSE "idle", 0)
       ELSE UNCHANGED <<rowVars, jpc, queued, reply>> /\ WaiterGoto(p, "answer", 0)
    /\ UNCHANGED <<late, jseen, mine, used, goal, cancelVars, faults>>

-----------------------------------------------------------------------------
(* Cancellation. *)

CancelGoto(p, l, v) ==
    /\ cpc' = [cpc EXCEPT ![p] = l]
    /\ cseen' = [cseen EXCEPT ![p] = v]

\* cancel_task reads with get_task, which launches an open task; cancel_run_tasks with
\* list_for_run, which does not.
Cancel(p) ==
    /\ p \in Cancelers /\ cpc[p] = "idle" /\ state \in Cancelable
    /\ CancelGoto(p, "read", 0)
    /\ \/ state \in Open /\ Launch(p, 1)
       \/ UNCHANGED <<jpc, queued>>
    /\ UNCHANGED <<rowVars, late, jseen, mine, used, goal, callerVars, faults>>

\* _transition.  If the task has ended otherwise, cancel_task still stops the local job,
\* cancel_run_tasks does not.
CancelRead(p) ==
    /\ cpc[p] = "read"
    /\ \/ state \in Cancelable /\ CancelGoto(p, "write", version)
       \/ state \in Terminal /\ CancelGoto(p, "local", 0)
       \/ state \in Terminal \ {"canceled"} /\ CancelGoto(p, "idle", 0)
    /\ UNCHANGED <<rowVars, late, jobVars, callerVars, faults>>

\* Mutant: what was read is written, whatever happened since.
CancelWithoutCAS(p) ==
    /\ cpc[p] = "write"
    /\ Replace("canceled", 0) /\ CancelGoto(p, "local", 0)
    /\ UNCHANGED <<late, jobVars, callerVars, faults>>

CancelWrite(p) ==
    /\ cpc[p] = "write"
    /\ IF cseen[p] = version
       THEN Replace("canceled", 0) /\ CancelGoto(p, "local", 0)
       ELSE UNCHANGED rowVars /\ CancelGoto(p, "read", 0)
    /\ UNCHANGED <<late, jobVars, callerVars, faults>>

\* _cancel_local: only the job of the same process.
CancelLocal(p) ==
    /\ cpc[p] = "local"
    /\ StopJob(p) /\ CancelGoto(p, "idle", 0)
    /\ UNCHANGED <<state, version, asked, answer, late, queued, callerVars, faults>>

-----------------------------------------------------------------------------
(* Time and faults. *)

DeadlinePasses ==
    /\ state # "absent" /\ ~late
    /\ late' = TRUE
    /\ UNCHANGED <<rowVars, jobVars, callerVars, cancelVars, faults>>

\* The job of p is at work under the current lease.
Holding(p) == owner = p /\ attempt = mine[p] /\ jpc[p] \notin {"none", "claim"}

LeaseExpires ==
    /\ lease = "live" /\ \A p \in Processes : ~Holding(p)
    /\ lease' = "over"
    /\ UNCHANGED <<state, version, attempt, owner, asked, answer, late, jobVars, callerVars,
                   cancelVars, faults>>

\* A stalled process or database keeps the holder from renewing in time.
LeaseStalls ==
    /\ lease = "live" /\ \E p \in Processes : Holding(p)
    /\ Fault("stall")
    /\ lease' = "over"
    /\ UNCHANGED <<state, version, attempt, owner, asked, answer, late, jobVars, callerVars,
                   cancelVars>>

\* The callers of a process that stops are gone.
CallersGone(p) ==
    /\ WaiterGoto(p, "idle", 0) /\ reply' = [reply EXCEPT ![p] = 0]
    /\ CancelGoto(p, "idle", 0)
    /\ queued' = [queued EXCEPT ![p] = 0]

\* shutdown cancels the jobs and waits for them.
Shutdown(p) ==
    /\ jpc[p] # "none" /\ Fault("shutdown")
    /\ StopJob(p) /\ CallersGone(p)
    /\ UNCHANGED <<state, version, asked, answer, late>>

\* The process dies; its lease stays.
Crash(p) ==
    /\ jpc[p] # "none" \/ wpc[p] # "idle" \/ cpc[p] # "idle"
    /\ Fault("crash")
    /\ JobGoto(p, "none") /\ CallersGone(p)
    /\ UNCHANGED <<rowVars, late>>

-----------------------------------------------------------------------------
\* What a job does by itself; the executor's result is not promised.
JobStep(p) ==
    \/ Relaunch(p) \/ ClaimExecution(p) \/ BeginRead(p) \/ BeginWrite(p)
    \/ ExecutionTimesOut(p) \/ HeartbeatFindsLeaseLost(p)
    \/ ApplyRead(p) \/ ApplyWrite(p) \/ Release(p)
WaiterStep(p) ==
    \/ WaitRead(p) \/ ExpireRead(p) \/ ExpireWrite(p) \/ AnswerRead(p) \/ AnswerWrite(p)
CancelStep(p) == CancelRead(p) \/ CancelWrite(p) \/ CancelLocal(p)

Next ==
    \/ \E p \in Processes :
        \/ JobStep(p) \/ FinishExecution(p) \/ HeartbeatFails(p) \/ ClaimRaises(p)
        \/ Send(p) \/ GetTask(p) \/ WaiterStep(p) \/ WaitExpires(p) \/ Answer(p)
        \/ Cancel(p) \/ CancelStep(p)
        \/ Shutdown(p) \/ Crash(p)
    \/ DeadlinePasses \/ LeaseExpires \/ LeaseStalls

Spec == Init /\ [][Next]_vars

-----------------------------------------------------------------------------
(* Properties. *)

\* Columns and locals have their types, and a job with a lease has drawn an attempt.
TypeOK ==
    /\ state \in States /\ version \in Nat /\ attempt \in Nat
    /\ owner \in Processes \cup {Nobody} /\ lease \in {"live", "over"}
    /\ asked \in 0..MaxQuestions /\ answer \in 0..MaxQuestions /\ late \in BOOLEAN
    /\ jpc \in [Processes -> {"none", "claim", "begin", "beginwrite", "exec", "apply",
                              "applywrite", "release"}]
    /\ jseen \in [Processes -> Nat] /\ mine \in [Processes -> Nat]
    /\ used \in [Processes -> 0..MaxQuestions]
    /\ goal \in [Processes -> {"none"} \cup Settled]
    /\ queued \in [Processes -> 0..MaxQueued]
    /\ wpc \in [Processes -> {"idle", "wait", "expire", "expirewrite", "answer", "answerwrite"}]
    /\ wseen \in [Processes -> Nat] /\ reply \in [Processes -> 0..MaxQuestions]
    /\ cpc \in [Processes -> {"idle", "read", "write", "local"}] /\ cseen \in [Processes -> Nat]
    /\ faults \in Nat
    /\ \A p \in Processes :
         jpc[p] \in {"begin", "beginwrite", "exec", "release"} => mine[p] # 0

\* "Late results cannot overwrite cancellation": a task that has ended does not change,
\* whatever jobs, waiters and cancelers had read before.
EndedTaskIsFinal ==
    [][(state \in Terminal) => UNCHANGED <<state, version, attempt, owner>>]_vars

ComputedUnderLease ==
    state = "working" /\ state' \in Settled \ {"failed", "canceled"} =>
        \E p \in Processes : LeaseHeld(p) /\ used[p] = answer

\* A result is recorded only by the job that holds the lease at that moment, and it was
\* computed from the answer the task holds, not from an earlier execution's input.
ResultIsCurrent == [][ComputedUnderLease]_vars

-----------------------------------------------------------------------------
(* The inductive invariant: what the properties rest on. *)

\* A version that was read and is still current stands for the state that was read with
\* it, so that a compare-and-swap starts from a state its writer has seen.
ReadsAreCurrent ==
    /\ state = "absent" => version = 0
    /\ \A p \in Processes :
        /\ jseen[p] <= version /\ wseen[p] <= version /\ cseen[p] <= version
        /\ jpc[p] = "beginwrite" /\ jseen[p] = version => state = "submitted"
        /\ jpc[p] = "applywrite" /\ jseen[p] = version => state \in Allowed(goal[p])
        /\ wpc[p] = "expirewrite" /\ wseen[p] = version => state \in Open
        /\ wpc[p] = "answerwrite" /\ wseen[p] = version => state = "input_required"
        /\ cpc[p] = "write" /\ cseen[p] = version => state \in Cancelable

\* A task nobody may execute has no lease, and attempts are drawn in order.
LeaseInv ==
    /\ state \notin Open => owner = Nobody /\ lease = "over"
    /\ \A p \in Processes : mine[p] <= attempt

\* What the place of a job says about its locals: only a job with a lease may bring
\* anything but a failure.
JobInv ==
    \A p \in Processes :
        /\ jpc[p] \in {"none", "claim"} => mine[p] = 0
        /\ jpc[p] \in {"none", "claim", "begin", "beginwrite", "release"} => used[p] = 0
        /\ jpc[p] \in {"apply", "applywrite"} => goal[p] \in Settled \ {"canceled"}
        /\ jpc[p] \in {"apply", "applywrite"} /\ goal[p] # "failed" => mine[p] # 0

\* The job of p executes under the latest attempt, whether or not its lease has run out.
Executes(p) ==
    /\ owner = p /\ attempt = mine[p] /\ mine[p] # 0
    /\ jpc[p] \in {"exec", "apply", "applywrite"}

\* While it does, answer and question stay as they were when its executor was called: both
\* move only with a state in which nobody has the lease.
AnswerInv ==
    /\ state \in {"absent", "submitted"} => answer = 0
    /\ \A p \in Processes : Executes(p) =>
        /\ state = "working" => used[p] = answer
        /\ goal[p] = "input_required" /\ jpc[p] # "exec" => asked < MaxQuestions

IndInv == TypeOK /\ ReadsAreCurrent /\ LeaseInv /\ JobInv /\ AnswerInv

-----------------------------------------------------------------------------
(* Liveness.  Jobs and callers make progress and abandoned leases expire; executors may    *)
(* hang, and nothing is assumed of users.                                                *)
Fairness ==
    /\ \A p \in Processes :
         /\ WF_vars(JobStep(p)) /\ WF_vars(WaiterStep(p)) /\ WF_vars(WaitExpires(p))
         /\ WF_vars(CancelStep(p))
    /\ WF_vars(LeaseExpires)

FairSpec == Spec /\ Fairness

\* Cancellation reaches the executor, in whichever process it runs and long before the
\* deadline: the heartbeat finds out.
CanceledExecutionStops ==
    state = "canceled" ~> \A p \in Processes : jpc[p] # "exec"

\* A caller that is still waiting at the deadline gets a settled task, even if
\* executors hang.
WaitersReturn == \A p \in Processes : (wpc[p] = "wait" /\ late) ~> wpc[p] = "idle"

\* A launch is never lost: if no executor hangs and nothing fails, a task that was sent or
\* answered is executed to a result, with nobody waiting for it, even if a previous job was
\* still ending at the launch.
LaunchedTaskIsExecuted ==
    (\A p \in Processes : []<>(jpc[p] # "exec"))
        => ((state \in Open /\ faults = 0) ~> (state \notin Open \/ faults > 0))
=============================================================================
