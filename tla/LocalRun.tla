------------------------------ MODULE LocalRun ------------------------------
(***************************************************************************)
(* One Product Run executed inside the API process (execution mode          *)
(* "inline"): RunCoordinator keeps an asyncio task per Run in _tasks, and   *)
(* drops it by a callback that runs as a task of its own (_forget).         *)
(*                                                                          *)
(* Every call of the store is a step; between two of them a cancellation    *)
(* of the task may arrive, the user may cancel the Run, the owner may take  *)
(* the submitter's access away, and the process may be shut down.  There is *)
(* no lease, and no second process: RunExecution has those.                 *)
(***************************************************************************)
EXTENDS Integers, Sequences, FiniteSets

CONSTANTS
    Interactive,    \* the values of the command's payload field
    MaxTasks,       \* bound on the asyncio tasks started
    MaxFaults       \* bound on executor errors and failed propagations

VARIABLES
    run,            \* life, version, asks (input is still required), published
    tasks,          \* the asyncio tasks: at, seen, canceled (CancelledError is on its way)
    entry,          \* _tasks[run_id], or 0
    forgets,        \* _forget tasks that have not run
    caller,         \* a call of cancel: at, ok, seen
    access,         \* the submitter may see the Trip
    process,        \* "up", "closing", "down"
    gathered,       \* the task close waits for
    faults

vars == <<run, tasks, entry, forgets, caller, access, process, gathered, faults>>

Terminal == {"completed", "failed", "canceled"}
Body     == {"start", "begin", "ask", "progress", "report", "work", "check", "publish",
             "complete", "block", "leave"}
TaskIds  == 1 .. Len(tasks)
NewTask  == [at |-> "start", seen |-> 0, canceled |-> FALSE]

Init ==
    /\ \E i \in Interactive :
        run = [life |-> "queued", version |-> 1, asks |-> i, published |-> FALSE]
    /\ tasks = <<NewTask>> /\ entry = 1 /\ forgets = 0
    /\ caller = [at |-> "idle", ok |-> TRUE, seen |-> 0]
    /\ access = TRUE /\ process = "up" /\ gathered = 0 /\ faults = 0

\* The task goes on; when it is done, its callback starts a _forget.
Move(t, where, seen) ==
    /\ tasks' = [tasks EXCEPT ![t] = [at |-> where, seen |-> seen, canceled |-> FALSE]]
    /\ forgets' = IF where = "done" THEN forgets + 1 ELSE forgets
others == <<entry, caller, access, process, gathered, faults>>

\* mutate_run at the version the caller has seen.
Changed(new) == run' = [new EXCEPT !.version = @ + 1]
Write(t, new, next) ==
    \/ run.version = tasks[t].seen /\ Changed(new) /\ Move(t, next, run.version + 1)
    \/ run.version # tasks[t].seen /\ Move(t, "conflict", 0) /\ UNCHANGED run

At(t, where) == tasks[t].at = where /\ process # "down"
\* The task's next call of the store succeeds.
Served(t, where) == At(t, where) /\ ~tasks[t].canceled /\ access

-----------------------------------------------------------------------------
(* _execute without a lease *)

Start(t) ==
    /\ Served(t, "start") /\ UNCHANGED <<run, others>>
    /\ Move(t, CASE run.life = "queued"  -> "begin"
                 [] run.life = "running" -> "progress"
                 [] OTHER                -> "done", run.version)

Begin(t) ==
    /\ Served(t, "begin") /\ UNCHANGED others
    /\ Write(t, [run EXCEPT !.life = "running"], IF run.asks THEN "ask" ELSE "progress")

\* _required_input
Ask(t) ==
    /\ Served(t, "ask") /\ UNCHANGED others
    /\ Write(t, [run EXCEPT !.life = "waiting_input"], "leave")

\* _progress: its read raises CancelledError for a Run that has ended or is being canceled.
Progress(t) ==
    /\ Served(t, "progress") /\ UNCHANGED <<run, others>>
    /\ Move(t, IF run.life \in Terminal \cup {"cancel_requested"} THEN "cancelRead" ELSE "report",
            run.version)

Report(t) == Served(t, "report") /\ UNCHANGED others /\ Write(t, run, "work")

\* The executor returns or raises.
Work(t) ==
    /\ At(t, "work") /\ ~tasks[t].canceled
    /\ \/ Move(t, "check", 0) /\ UNCHANGED faults
       \/ faults < MaxFaults /\ faults' = faults + 1 /\ Move(t, "failRead", 0)
    /\ UNCHANGED <<run, entry, caller, access, process, gathered>>

\* The artifacts are saved (TripArtifacts) between reads that must find the Run running.
Check(t) ==
    /\ Served(t, "check") /\ UNCHANGED <<run, others>>
    /\ Move(t, IF run.life = "running" THEN "publish" ELSE "cancelRead", run.version)

\* A publishable result, or a candidate that the validation blocked.
Publish(t) ==
    /\ Served(t, "publish") /\ UNCHANGED others
    /\ \/ Write(t, [run EXCEPT !.published = TRUE], "complete")
       \/ Write(t, run, "block")

Complete(t) ==
    /\ UNCHANGED others
    /\ \/ Served(t, "complete") /\ Write(t, [run EXCEPT !.life = "completed"], "leave")
       \/ Served(t, "block") /\ Write(t, [run EXCEPT !.life = "failed"], "leave")

\* The last write has been committed, and its call returns.
Leave(t) == At(t, "leave") /\ ~tasks[t].canceled /\ Move(t, "done", 0) /\ UNCHANGED <<run, others>>

-----------------------------------------------------------------------------
(* Its handlers *)

\* CancelledError enters the first handler; in a handler, and in a task that has not run
\* its first step, it ends the task.
Interrupted(t) ==
    /\ tasks[t].at # "done" /\ tasks[t].canceled /\ process # "down"
    /\ \/ tasks[t].at \in Body /\ Move(t, "cancelRead", 0)
       \/ tasks[t].at \notin Body \ {"start"} /\ Move(t, "done", 0)
    /\ UNCHANGED <<run, others>>

\* The store refuses a principal without access, in the handlers too.
Denied(t) ==
    /\ tasks[t].at \notin {"work", "leave", "done"} /\ ~tasks[t].canceled /\ ~access /\ process # "down"
    /\ Move(t, IF tasks[t].at \in Body THEN "failRead" ELSE "done", 0)
    /\ UNCHANGED <<run, others>>

\* _finish_canceled
CancelRead(t) ==
    /\ Served(t, "cancelRead") /\ UNCHANGED <<run, others>>
    /\ Move(t, IF run.life \in Terminal THEN "done" ELSE "cancelWrite", run.version)
CancelWrite(t) ==
    /\ Served(t, "cancelWrite") /\ UNCHANGED others /\ Move(t, "done", 0)
    /\ IF run.version = tasks[t].seen THEN Changed([run EXCEPT !.life = "canceled"])
       ELSE UNCHANGED run

\* except VersionConflict
Conflict(t) ==
    /\ Served(t, "conflict") /\ UNCHANGED <<run, others>>
    /\ Move(t, IF run.life = "cancel_requested" THEN "cancelRead" ELSE "done", 0)

\* Mutant: a requested cancellation does not stop the failure.
FailableAlways(life) == life \notin Terminal
Failable(life) == life \notin Terminal \cup {"cancel_requested"}

\* _finish_failed
FailRead(t) ==
    /\ Served(t, "failRead") /\ UNCHANGED <<run, others>>
    /\ Move(t, CASE Failable(run.life)      -> "failWrite"
                 [] run.life \in Terminal   -> "done"
                 [] OTHER                   -> "cancelRead", run.version)
FailWrite(t) ==
    /\ Served(t, "failWrite") /\ UNCHANGED others /\ Move(t, "done", 0)
    /\ IF run.version = tasks[t].seen THEN Changed([run EXCEPT !.life = "failed"])
       ELSE UNCHANGED run

-----------------------------------------------------------------------------
(* The coordinator *)

\* Mutant: no task is started while one is registered.
StartTaskIfAbsent ==
    IF entry # 0 THEN UNCHANGED <<tasks, entry>>
    ELSE tasks' = Append(tasks, NewTask) /\ entry' = Len(tasks) + 1
\* create_task and its registration; the guard is never held across an await.
StartTask == tasks' = Append(tasks, NewTask) /\ entry' = Len(tasks) + 1

\* Mutant: a replayed answer starts a task too.
StartsAlways(replayed) == TRUE
Starts(replayed) == ~replayed

\* resume: the first answer puts the Run back into the queue, a replay reads it.
Resume(replayed) ==
    /\ process = "up" /\ access /\ Len(tasks) < MaxTasks
    /\ \/ ~replayed /\ run.life = "waiting_input"
          /\ Changed([run EXCEPT !.life = "queued", !.asks = FALSE])
       \/ replayed /\ Len(tasks) > 1 /\ UNCHANGED run
    /\ IF Starts(replayed) THEN StartTask ELSE UNCHANGED <<tasks, entry>>
    /\ UNCHANGED <<forgets, caller, access, process, gathered, faults>>

\* Mutant: the entry of a task that is done is kept.
ForgetNothing == UNCHANGED entry
DropEntry == entry' = 0

\* _forget, whichever task it was started for.
Forget ==
    /\ forgets > 0 /\ forgets' = forgets - 1 /\ DropEntry /\ process # "down"
    /\ UNCHANGED <<run, tasks, caller, access, process, gathered, faults>>

\* remove_trip_member by the owner.
RemoveMember ==
    /\ access /\ access' = FALSE
    /\ UNCHANGED <<run, tasks, entry, forgets, caller, process, gathered, faults>>

\* close cancels the registered task and waits for it; then the process ends.
Close ==
    /\ process = "up" /\ process' = "closing" /\ gathered' = entry
    /\ tasks' = IF entry = 0 THEN tasks ELSE [tasks EXCEPT ![entry].canceled = @ \/ tasks[entry].at # "done"]
    /\ UNCHANGED <<run, entry, forgets, caller, access, faults>>
Exit ==
    /\ process = "closing" /\ (gathered # 0 => tasks[gathered].at = "done")
    /\ process' = "down"
    /\ UNCHANGED <<run, tasks, entry, forgets, caller, access, gathered, faults>>

-----------------------------------------------------------------------------
(* cancel, by somebody who keeps access *)

CallerAt(where) == caller.at = where /\ process = "up"

RequestCancel ==
    /\ CallerAt("idle") /\ run.life \notin Terminal
    /\ caller' = [caller EXCEPT !.at = "propagate"]
    /\ IF run.life = "cancel_requested" THEN UNCHANGED run
       ELSE Changed([run EXCEPT !.life = "cancel_requested"])
    /\ UNCHANGED <<tasks, entry, forgets, access, process, gathered, faults>>

\* _cancel_run_tasks returns, raises, or the request is cut off.
Propagate ==
    /\ CallerAt("propagate")
    /\ \/ caller' = [caller EXCEPT !.at = "lookup", !.ok = TRUE] /\ UNCHANGED faults
       \/ /\ faults < MaxFaults /\ faults' = faults + 1
          /\ caller' = [caller EXCEPT !.at = "lookup", !.ok = FALSE]
    /\ UNCHANGED <<run, tasks, entry, forgets, access, process, gathered>>

\* The finally clause cancels the registered task; without one the caller finishes.
Lookup ==
    /\ CallerAt("lookup")
    /\ tasks' = IF entry = 0 THEN tasks ELSE [tasks EXCEPT ![entry].canceled = @ \/ tasks[entry].at # "done"]
    /\ caller' = [caller EXCEPT !.at = IF entry = 0 /\ caller.ok THEN "read" ELSE "idle"]
    /\ UNCHANGED <<run, entry, forgets, access, process, gathered, faults>>

FinishRead ==
    /\ CallerAt("read")
    /\ caller' = [caller EXCEPT !.at = IF run.life \in Terminal THEN "idle" ELSE "write",
                                !.seen = run.version]
    /\ UNCHANGED <<run, tasks, entry, forgets, access, process, gathered, faults>>
FinishWrite ==
    /\ CallerAt("write") /\ caller' = [caller EXCEPT !.at = "idle", !.seen = 0]
    /\ IF run.version = caller.seen THEN Changed([run EXCEPT !.life = "canceled"])
       ELSE UNCHANGED run
    /\ UNCHANGED <<tasks, entry, forgets, access, process, gathered, faults>>

TaskStep(t) ==
    \/ Start(t) \/ Begin(t) \/ Ask(t) \/ Progress(t) \/ Report(t) \/ Work(t) \/ Check(t)
    \/ Publish(t) \/ Complete(t) \/ Leave(t) \/ Interrupted(t) \/ Denied(t) \/ CancelRead(t)
    \/ CancelWrite(t) \/ Conflict(t) \/ FailRead(t) \/ FailWrite(t)
CallerStep == Propagate \/ Lookup \/ FinishRead \/ FinishWrite
Retry == run.life = "cancel_requested" /\ RequestCancel

Next ==
    \/ \E t \in TaskIds : TaskStep(t)
    \/ \E replayed \in BOOLEAN : Resume(replayed)
    \/ Forget \/ RemoveMember \/ Close \/ Exit
    \/ RequestCancel \/ CallerStep

Spec == Init /\ [][Next]_vars

\* The event loop runs what is ready, and a cancellation that is not carried out is asked
\* for again.
Fairness ==
    /\ \A t \in 1 .. MaxTasks : WF_vars(t \in TaskIds /\ TaskStep(t))
    /\ WF_vars(Forget) /\ WF_vars(CallerStep \/ Retry)

-----------------------------------------------------------------------------
(* Properties *)

\* While the process is up, a Run that waits for nobody has a task that executes it, though
\* the _forget of the task before may run at any time; only a submitter who lost access to
\* the Trip leaves it without one, since every call of its task is refused then.
RunHasTask ==
    process = "up" /\ access /\ run.life \in {"queued", "running"} =>
        \E t \in TaskIds : tasks[t].at # "done"

\* One task at a time executes the Run, whichever answers are repeated.
OneExecution ==
    Cardinality({t \in TaskIds : tasks[t].at \in Body \ {"start", "leave"}}) <= 1

\* Once a cancellation is durable the Run can only be canceled: no failure, completion or
\* question that was on its way overtakes it.
CancellationWins ==
    [][run.life = "cancel_requested" => run'.life \in {"cancel_requested", "canceled"}]_vars

\* A cancellation that is repeated is carried out, although task.cancel() may hit a task that
\* is done, not yet forgotten, or just about to write the cancellation itself.
CancelIsCarriedOut == []<>(process = "up" => run.life # "cancel_requested")

\* The inline mode's promises together: a Run that needs work has exactly one task for it, and
\* none once it is canceled.
ExecutionIsSafe == [](RunHasTask /\ OneExecution) /\ CancellationWins

-----------------------------------------------------------------------------
(* The inductive invariant: what the safety properties rest on. *)

Working == {"queued", "running"}
Stopped == Terminal \cup {"cancel_requested"}
\* Where a task is about to write what it has read the version for.
Writes  == {"begin", "ask", "report", "publish", "complete", "block", "failWrite"}
Places  == Body \cup {"cancelRead", "cancelWrite", "conflict", "failRead", "failWrite", "done"}
Runs    == [life : Working \cup {"waiting_input"} \cup Stopped, version : Nat, asks : BOOLEAN,
            published : BOOLEAN]
Tasks   == [at : Places, seen : Nat, canceled : BOOLEAN]

LocalAssumption == Interactive \subseteq BOOLEAN

TypeOK ==
    /\ run \in Runs /\ tasks \in Seq(Tasks) /\ entry \in 0 .. Len(tasks) /\ forgets \in Nat
    /\ caller \in [at : {"idle", "propagate", "lookup", "read", "write"}, ok : BOOLEAN, seen : Nat]
    /\ access \in BOOLEAN /\ process \in {"up", "closing", "down"} /\ faults \in Nat

\* A task that has the Run in its hands: it executes it, or is about to fail it.
InHand == (Body \ {"leave"}) \cup {"failRead", "failWrite"}
\* There is at most one, and none while an answer is awaited.
HandInv ==
    /\ \A t, u \in TaskIds : tasks[t].at \in InHand /\ tasks[u].at \in InHand => t = u
    /\ run.life = "waiting_input" => \A t \in TaskIds : tasks[t].at \notin InHand
    /\ run.life = "queued" =>
        \A t \in TaskIds : tasks[t].at \notin Body \ {"start", "begin", "leave"}

\* While the Run needs work, nobody but this task writes: its version is the current one.  Once
\* the Run has been stopped, the version has moved on.
VersionInv ==
    \A t \in TaskIds : tasks[t].at \in Writes =>
        tasks[t].seen <= run.version /\ (tasks[t].seen = run.version <=> run.life \in Working)

\* Tasks are canceled for a Run that has been stopped, or by a process that closes.
StopInv ==
    /\ caller.at # "idle" => run.life \in Stopped
    /\ \A t \in TaskIds : tasks[t].canceled => process # "up" \/ run.life \in Stopped

\* A Run that needs work is in the hands of a task.
WorkInv ==
    process = "up" /\ access /\ run.life \in Working =>
        \E t \in TaskIds : tasks[t].at \in InHand

IndInv == TypeOK /\ HandInv /\ VersionInv /\ StopInv /\ WorkInv
=============================================================================
