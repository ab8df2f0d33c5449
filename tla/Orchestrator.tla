---------------------------- MODULE Orchestrator ----------------------------
(***************************************************************************)
(* One Product Run through the A2A agents: the worker that executes it      *)
(* dispatches one Task per stage, waits for it and feeds its result to the  *)
(* next; a worker may crash or lose its lease, and another attempt then     *)
(* recovers the Tasks by their deterministic dispatch ids; a cancellation   *)
(* fences the Run first and its Tasks after.                                *)
(*                                                                          *)
(* An attempt is a process: the jobs it launched die with it.  Leases,      *)
(* queue deliveries and the writes of one execution are RunExecution's      *)
(* subject, a Task's own life is AgentTask's.  An artifact is reduced to    *)
(* the identity of the brief (or question) it was made from.                *)
(***************************************************************************)
EXTENDS Integers, Sequences, FiniteSets

CONSTANTS
    Modes,          \* of the command: "brief" (trip_brief), "request" (trip_request), "ask"
    MaxAttempts,    \* bound on the executions; the last neither crashes nor stalls
    MaxFaults,      \* bound on the agents' own failures
    None

VARIABLES
    mode,           \* what the command's payload holds
    publishable,    \* what the validation policy will decide
    run,            \* life, holder (the attempt with the lease, 0 if none), error,
                    \* saved (the artifacts of the result), result
    workers,        \* the attempts so far: at, stage, input
    tasks,          \* the Task of each interface: state, input, by, late, jobs
    cancel,         \* the cancellation: at, left
    faults

vars == <<mode, publishable, run, workers, tasks, cancel, faults>>

Terminal   == {"completed", "failed", "canceled"}
Interfaces == {"answering", "research", "planner", "validation", "semantic-verifier"}
Stages     == IF mode = "ask" THEN <<"answering">>
              ELSE <<"research", "planner", "validation", "semantic-verifier">>
Attempts   == 1 .. Len(workers)

Init ==
    /\ mode \in Modes /\ publishable \in BOOLEAN
    /\ run = [life |-> "queued", holder |-> 0, error |-> None, saved |-> FALSE,
              result |-> None]
    /\ workers = <<>> /\ tasks = [i \in Interfaces |-> None]
    /\ cancel = [at |-> "idle", left |-> {}] /\ faults = 0

At(a, where)   == a \in Attempts /\ workers[a].at = where
StageOf(a)     == Stages[workers[a].stage]
Goto(a, where) == workers' = [workers EXCEPT ![a].at = where]
Live(a)        == workers[a].at \notin {"over", "acked", "crashed"}

\* An execution of a Run that had not ended returned normally, so that the delivery was
\* acknowledged: nothing executes the Run again.
Acknowledged == \E a \in Attempts : workers[a].at = "acked"

\* The brief an execution works on: the payload's own, or one built now with a new identity.
\* Mutant: a pinned brief is rebuilt too.
InputRebuilt(a) == a
Question(a) == a
Input(a) ==
    CASE mode = "brief" -> 0
      [] mode = "ask"   -> Question(a)
      [] OTHER          -> a

\* execute_existing claims the lease for a delivery; _execute starts a queued Run.
Claim ==
    LET a == Len(workers) + 1 IN
    /\ run.holder = 0 /\ run.life \in {"queued", "running"} /\ a <= MaxAttempts
    /\ ~Acknowledged
    /\ run' = [run EXCEPT !.holder = a, !.life = "running"]
    /\ workers' = Append(workers, [at |-> "progress", stage |-> 1, input |-> Input(a)])
    /\ UNCHANGED <<mode, publishable, tasks, cancel, faults>>

\* _finish_canceled: by whoever finds the request; it holds no lease.
Canceled(r) == [r EXCEPT !.life = "canceled", !.holder = 0]

\* What a worker does on its way out.
Stop(a) ==
    /\ run' = [run EXCEPT !.holder = IF @ = a THEN 0 ELSE @]
    /\ Goto(a, "over")
StopCanceled(a) ==
    IF run.life = "cancel_requested" THEN run' = Canceled(run) /\ Goto(a, "over") ELSE Stop(a)

\* _finish_failed: a requested cancellation wins and an ended Run is left alone; a lost lease is
\* swallowed, and the worker acknowledges a Run that is still running.
MarkFailed(a) ==
    /\ run' = [run EXCEPT !.life = "failed", !.error = "RUN_EXECUTION_FAILED", !.holder = 0]
    /\ Goto(a, "over")
Fail(a) ==
    \/ run.life = "running" /\ run.holder = a /\ MarkFailed(a)
    \/ /\ run.life = "running" /\ run.holder # a
       /\ Goto(a, "acked") /\ UNCHANGED run
    \/ run.life # "running" /\ StopCanceled(a)

Continues(r) == r.life \notin Terminal \cup {"cancel_requested"}
\* Mutant: the next stage begins without a report.
ProgressUnreported(a) ==
    /\ At(a, "progress")
    /\ Goto(a, IF workers[a].stage > Len(Stages) THEN "save" ELSE "dispatch")
    /\ UNCHANGED <<mode, publishable, run, tasks, cancel, faults>>
\* _progress: the Run is read ...
ProgressRead(a) ==
    /\ At(a, "progress")
    /\ \/ /\ ~Continues(run)
          /\ StopCanceled(a)
       \/ /\ Continues(run)
          /\ Goto(a, "write")
          /\ UNCHANGED run
    /\ UNCHANGED <<mode, publishable, tasks, cancel, faults>>

\* ... and its new phase is written under the lease.  While the lease is held nobody else moves
\* the Run's version (RunExecution, LeaseHolderNeverConflicts), so versions are left out.
ProgressWrite(a) ==
    /\ At(a, "write")
    /\ \/ /\ run.holder # a
          /\ Stop(a)
       \/ /\ run.holder = a
          /\ UNCHANGED run
          /\ Goto(a, IF workers[a].stage > Len(Stages) THEN "save" ELSE "dispatch")
    /\ UNCHANGED <<mode, publishable, tasks, cancel, faults>>

\* _launch: the Task runs as a job of this attempt's process too.
\* Mutant: a Task found unfinished is only waited for.
LaunchedByItsSender(task, a) == task
Launched(task, a) == IF task.state = "open" THEN [task EXCEPT !.jobs = @ \cup {a}] ELSE task

\* recover_dispatch: the Task with this dispatch id, if there is one, and its stored input.
RecoverDispatch(a) ==
    /\ At(a, "dispatch")
    /\ IF tasks[StageOf(a)] = None
       THEN Goto(a, "send") /\ UNCHANGED tasks
       ELSE /\ Goto(a, "wait")
            /\ tasks' = [tasks EXCEPT ![StageOf(a)] = Launched(@, a)]
    /\ UNCHANGED <<mode, publishable, run, cancel, faults>>

\* send_message: a new Task with this attempt's artifacts; when another attempt was first,
\* its arguments differ, the call is refused and the Task recovered.
SendMessage(a) ==
    /\ At(a, "send")
    /\ tasks' = [tasks EXCEPT ![StageOf(a)] =
            IF @ # None THEN Launched(@, a)
            ELSE [state |-> "open", input |-> workers[a].input, by |-> a, jobs |-> {a},
                  late |-> run.life # "running"]]
    /\ Goto(a, "wait")
    /\ UNCHANGED <<mode, publishable, run, cancel, faults>>

\* build_candidate refuses candidates that were made for another brief.
\* Mutant: it takes any candidates.
AcceptsAny(i) == TRUE
Accepts(i) == i = "planner" => tasks["research"].input = tasks["planner"].input

\* An agent ends its Task: with its artifacts, refusing its input, or for a reason of its
\* own (no evidence, a provider's outage, the Task's deadline).
AgentEnds(i, outcome) ==
    /\ tasks[i] # None /\ tasks[i].state = "open" /\ tasks[i].jobs # {}
    /\ \/ /\ outcome = "completed" /\ Accepts(i)
          /\ UNCHANGED faults
       \/ /\ outcome = "failed" /\ ~Accepts(i)
          /\ UNCHANGED faults
       \/ /\ outcome = "failed" /\ Accepts(i) /\ faults < MaxFaults
          /\ faults' = faults + 1
    /\ tasks' = [tasks EXCEPT ![i].state = outcome, ![i].jobs = {}]
    /\ UNCHANGED <<mode, publishable, run, workers, cancel>>

\* The TripSnapshot embeds a brief and the plan of that brief.
SnapshotIsValid(a) == mode # "ask" => tasks["planner"].input = workers[a].input

\* _task_result, then the next stage; after the last one the policy's verdict and the snapshot.
Settled(a) ==
    /\ At(a, "wait") /\ tasks[StageOf(a)].state # "open"
    /\ LET ok == /\ tasks[StageOf(a)].state = "completed"
                 /\ workers[a].stage = Len(Stages) => SnapshotIsValid(a)
       IN  \/ /\ ok
              /\ workers' = [workers EXCEPT ![a].at = "progress", ![a].stage = @ + 1]
              /\ UNCHANGED run
           \/ /\ ~ok
              /\ Fail(a)
    /\ UNCHANGED <<mode, publishable, tasks, cancel, faults>>

\* _execute's end: the artifacts are saved; those that came out of Tasks have the ids the
\* Tasks gave them, so that a second attempt to save them fails ...
Save(a) ==
    /\ At(a, "save")
    /\ \/ /\ run.life # "running" \/ run.holder # a
          /\ StopCanceled(a)
       \/ /\ run.life = "running" /\ run.holder = a /\ run.saved
          /\ MarkFailed(a)
       \/ /\ run.life = "running" /\ run.holder = a /\ ~run.saved
          /\ run' = [run EXCEPT !.saved = TRUE]
          /\ Goto(a, "publish")
    /\ UNCHANGED <<mode, publishable, tasks, cancel, faults>>

\* ... and the result is published, or kept as a blocked candidate.
Publish(a) ==
    /\ At(a, "publish")
    /\ \/ /\ run.life # "running" \/ run.holder # a
          /\ StopCanceled(a)
       \/ /\ run.life = "running" /\ run.holder = a
          /\ run' = [run EXCEPT
                !.life = IF publishable \/ mode = "ask" THEN "completed" ELSE "failed",
                !.error = IF publishable \/ mode = "ask" THEN None ELSE "VALIDATION_BLOCKED",
                !.result = workers[a].input, !.holder = 0]
          /\ Goto(a, "over")
    /\ UNCHANGED <<mode, publishable, tasks, cancel, faults>>

\* The worker's process dies with its jobs, or its lease runs out while it goes on.
Crash(a) ==
    /\ a \in Attempts /\ a < MaxAttempts /\ Live(a)
    /\ run' = [run EXCEPT !.holder = IF @ = a THEN 0 ELSE @] /\ Goto(a, "crashed")
    /\ tasks' = [i \in Interfaces |->
                    IF tasks[i] = None THEN None ELSE [tasks[i] EXCEPT !.jobs = @ \ {a}]]
    /\ UNCHANGED <<mode, publishable, cancel, faults>>
LeaseExpires(a) ==
    /\ a \in Attempts /\ a < MaxAttempts /\ Live(a) /\ run.holder = a
    /\ run' = [run EXCEPT !.holder = 0]
    /\ UNCHANGED <<mode, publishable, workers, tasks, cancel, faults>>

\* The heartbeat finds the lease gone and cancels the execution, wherever it waits.
LeaseLost(a) ==
    /\ a \in Attempts /\ Live(a) /\ run.holder # a
    /\ StopCanceled(a)
    /\ UNCHANGED <<mode, publishable, tasks, cancel, faults>>

-----------------------------------------------------------------------------
(* cancel, in the API's process *)

\* list_for_run: the stages that have a Task; their order is that of its creation.
RunTasks == {n \in DOMAIN Stages : tasks[Stages[n]] # None}

\* Mutant: the Tasks are listed before the request is durable.
RequestCancelLate ==
    /\ cancel.at = "idle" /\ run.life \in {"queued", "running"}
    /\ cancel' = [at |-> "each", left |-> RunTasks]
    /\ UNCHANGED <<mode, publishable, run, workers, tasks, faults>>
\* The request takes the lease away from the execution (mutate_run).
RequestCancel ==
    /\ cancel.at = "idle" /\ run.life \in {"queued", "running"}
    /\ run' = [run EXCEPT !.life = "cancel_requested", !.holder = 0]
    /\ cancel' = [cancel EXCEPT !.at = "list"]
    /\ UNCHANGED <<mode, publishable, workers, tasks, faults>>

\* cancel_run_tasks: the Run's Tasks are listed once ...
ListTasks ==
    /\ cancel.at = "list"
    /\ cancel' = [at |-> "each", left |-> RunTasks]
    /\ UNCHANGED <<mode, publishable, run, workers, tasks, faults>>

\* ... and each that is still cancelable is canceled.
CancelTask ==
    /\ cancel.at = "each"
    /\ \E n \in cancel.left :
        /\ \A m \in cancel.left : n <= m
        /\ cancel' = [cancel EXCEPT !.left = @ \ {n}]
        /\ tasks' = [tasks EXCEPT ![Stages[n]] =
                IF @.state = "open" THEN [@ EXCEPT !.state = "canceled", !.jobs = {}] ELSE @]
    /\ UNCHANGED <<mode, publishable, run, workers, faults>>

FinishCanceled ==
    /\ cancel.at = "each" /\ cancel.left = {}
    /\ cancel' = [cancel EXCEPT !.at = "done"]
    /\ run' = IF run.life \in Terminal THEN run ELSE Canceled(run)
    /\ UNCHANGED <<mode, publishable, workers, tasks, faults>>

-----------------------------------------------------------------------------

WorkerStep(a) ==
    \/ ProgressRead(a) \/ ProgressWrite(a) \/ RecoverDispatch(a) \/ SendMessage(a)
    \/ Settled(a) \/ Save(a) \/ Publish(a)

CancelStep == ListTasks \/ CancelTask \/ FinishCanceled

Next ==
    \/ Claim
    \/ \E a \in 1 .. MaxAttempts : WorkerStep(a) \/ Crash(a) \/ LeaseExpires(a) \/ LeaseLost(a)
    \/ \E i \in Interfaces, outcome \in {"completed", "failed"} : AgentEnds(i, outcome)
    \/ RequestCancel \/ CancelStep

Spec == Init /\ [][Next]_vars

\* A delivery is redelivered until it is acknowledged, and the last attempt is neither killed nor
\* starved; an agent ends its Task by its deadline at the latest; the API answers a
\* cancellation it has begun.
Fairness ==
    /\ WF_vars(Claim)
    /\ \A a \in 1 .. MaxAttempts : WF_vars(WorkerStep(a) \/ LeaseLost(a))
    /\ WF_vars(\E i \in Interfaces, outcome \in {"completed", "failed"} : AgentEnds(i, outcome))
    /\ WF_vars(CancelStep)

-----------------------------------------------------------------------------
(* Properties *)

\* "A reclaimed Product Run resumes the same Task" (deterministic_dispatch_id): a Run fails
\* only because an agent failed or the plan was not fit to publish, never because an earlier
\* attempt of it had crashed.
FailsOnlyForCause ==
    run.life = "failed" => faults > 0 \/ run.error = "VALIDATION_BLOCKED"

\* The same where the command carries its brief (a replan) or asks a question, up to the
\* point where an attempt dies with its result half saved.
PinnedRunsRecover == mode # "request" /\ ~run.saved => FailsOnlyForCause

\* The published snapshot, its plan and the evidence the plan rests on are about one brief,
\* whichever attempts dispatched the Tasks (build_candidate, TripSnapshot's validator).
ResultIsOneGraph ==
    run.result # None /\ mode # "ask" =>
        /\ tasks["research"].input = run.result
        /\ tasks["planner"].input = run.result

\* cancel_run_tasks reads the Tasks once: the only ones it may leave running were created
\* after the cancellation was durable ...
CancelReachesTasks ==
    cancel.at = "done" =>
        \A i \in Interfaces : tasks[i] # None /\ tasks[i].state = "open" => tasks[i].late

\* ... and of those there is one per execution at most: the next stage's _progress stops it.
OneLateDispatch ==
    \A a \in Attempts :
        Cardinality({i \in Interfaces : tasks[i] # None /\ tasks[i].late /\ tasks[i].by = a}) <= 1

\* Every Run ends for good, whichever of its attempts crashed while a Task was unfinished, unless
\* an attempt that had lost its lease met a failed Task and had its delivery acknowledged all the
\* same (_finish_failed; RunExecution's RunHasDispatch shows that this loses the Run).
RunsEnd == <>[](run.life \in Terminal \/ Acknowledged)

\* What a Run may rely on when its executions, its Tasks and a cancellation cross: recovery
\* from pinned input, a result about one brief, and a cancellation that reaches all but the
\* last dispatch.
RunIsCoherent == PinnedRunsRecover /\ ResultIsOneGraph /\ CancelReachesTasks /\ OneLateDispatch

-----------------------------------------------------------------------------
(* The inductive invariant: what the safety properties rest on. *)

RunRows == [life : {"queued", "running", "cancel_requested"} \cup Terminal,
            holder : Nat, error : {None, "RUN_EXECUTION_FAILED", "VALIDATION_BLOCKED"},
            saved : BOOLEAN, result : Nat \cup {None}]
Workers == [at : {"progress", "write", "dispatch", "send", "wait", "save", "publish", "over",
                  "acked", "crashed"},
            stage : Nat, input : Nat]
Tasks   == [state : {"open"} \cup Terminal, input : Nat, by : Nat, late : BOOLEAN,
            jobs : SUBSET Nat]

\* None is none of the values it stands in for.
OrchestratorAssumption ==
    /\ Modes \subseteq {"brief", "request", "ask"}
    /\ None \notin Nat \cup Tasks

TypeOK ==
    /\ mode \in {"brief", "request", "ask"} /\ publishable \in BOOLEAN /\ run \in RunRows
    /\ workers \in Seq(Workers) /\ tasks \in [Interfaces -> Tasks \cup {None}]
    /\ cancel \in [at : {"idle", "list", "each", "done"}, left : SUBSET (DOMAIN Stages)]
    /\ faults \in Nat

\* An execution has left completed Tasks behind it, and works on the brief its plan is of
\* when it has all of them.
OnStage(a) ==
    /\ workers[a].stage \in 1 .. Len(Stages) + 1
    /\ workers[a].at \in {"dispatch", "send", "wait"} => workers[a].stage <= Len(Stages)
    /\ workers[a].at \in {"save", "publish"} => workers[a].stage > Len(Stages)
    /\ workers[a].at = "wait" => tasks[StageOf(a)] # None
    /\ \A n \in 1 .. workers[a].stage - 1 :
            tasks[Stages[n]] # None /\ tasks[Stages[n]].state = "completed"
    /\ workers[a].stage > Len(Stages) => SnapshotIsValid(a)
StageInv == \A a \in Attempts : OnStage(a)

\* A Task is of one of the Run's stages; a plan was made of candidates for its own brief; a
\* Task fails by a fault or because attempts built different briefs.
OnTask(i) ==
    /\ \E n \in DOMAIN Stages : Stages[n] = i
    /\ i = "planner" =>
        /\ tasks["research"] # None
        /\ tasks[i].state = "completed" => tasks["research"].input = tasks[i].input
    /\ tasks[i].state = "failed" => faults > 0 \/ mode = "request"
    /\ tasks[i].state = "canceled" => cancel.at \in {"each", "done"}
TaskInv == \A i \in Interfaces : tasks[i] # None => OnTask(i)

\* The inputs of a command that carries its brief are all the same.
PinnedInv ==
    mode = "brief" =>
        /\ \A a \in Attempts : workers[a].input = 0
        /\ \A i \in Interfaces : tasks[i] # None => tasks[i].input = 0

\* A requested cancellation stops the Run for good, and what it has listed includes every
\* Task that was not sent after that.
FencedInv ==
    /\ cancel.at # "idle" => run.life \notin {"queued", "running"}
    /\ \A n \in cancel.left : tasks[Stages[n]] # None
    /\ cancel.at \in {"each", "done"} =>
        \A i \in Interfaces : tasks[i] # None /\ tasks[i].state = "open" =>
            tasks[i].late \/ (cancel.at = "each" /\ \E n \in cancel.left : Stages[n] = i)

\* After a late dispatch an execution sends no other.
LateInv ==
    /\ \A i \in Interfaces : tasks[i] # None /\ tasks[i].late =>
        /\ run.life \notin {"queued", "running"} /\ tasks[i].by \in Attempts
        /\ workers[tasks[i].by].at \in {"wait", "progress", "over", "acked", "crashed"}
    /\ \A i, j \in Interfaces :
        /\ tasks[i] # None /\ tasks[i].late
        /\ tasks[j] # None /\ tasks[j].late /\ tasks[i].by = tasks[j].by
        => i = j

\* The result is about the brief of the plan and its evidence.
ResultInv ==
    run.result # None /\ mode # "ask" =>
        /\ tasks["planner"] # None /\ tasks["planner"].state = "completed"
        /\ tasks["planner"].input = run.result

\* A Run that somebody has claimed is not queued again.
StartedInv == Attempts # {} => run.life # "queued"

IndInv == /\ TypeOK /\ StageInv /\ TaskInv /\ PinnedInv /\ FencedInv /\ LateInv /\ ResultInv
          /\ StartedInv /\ PinnedRunsRecover
=============================================================================
