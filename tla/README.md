# RoutePilot: TLA+ models, checks and proofs

RoutePilot plans trips. A user creates a *Trip*, starts *Runs* on it (plan, replan, ask), follows
a Run's events, answers its questions, may cancel it, and gets *artifacts* (versions of a
`TripSnapshot`, a `TravelAnswer`, supporting reports). The API, any number of workers and any
number of outbox dispatchers are separate processes; PostgreSQL holds the state, a Redis stream
carries dispatches. This directory models the parts of that system in which processes, callbacks,
tabs and transactions race, die and retry, and the agents' algorithms; it checks them with TLC on small
instances, and proves most of the safety properties with TLAPS for every value of the constants.

All paths below are relative to the repository root; `v1/` is `backend/moyuan_web/v1/`.

## 1. Inventory

### Parts, their state, their operations

| Part | State | Operations | What makes it correct |
|---|---|---|---|
| Run row (`v1/postgres_store.py`, `v1/models.py`) | lifecycle state, control version, result, pending input, lease owner / expiry / attempt | `create_run`, `claim_`, `renew_`, `release_run_execution`, `mutate_run`, `resume_run` | one executor writes at a time; the seven states are left only along the allowed steps |
| Run coordinator (`v1/runtime.py`) | locals of `_execute`, heartbeat task | `execute_existing`, `_execute`, `_progress`, `_transition`, `_finish_*`, `cancel` | what it publishes is complete; it never returns normally from a Run that still needs a worker |
| Worker (`v1/worker.py`) | the entry in hand | `run_once`, `process_entry`, acknowledge | no dispatch is lost, none is redelivered for ever |
| Outbox (`v1/outbox.py`) | rows with lock, attempts, `available_at`, `published_at` | `_insert_outbox`, `claim_batch`, `publish`, `mark_published`, `mark_failed` | every row is sent; a duplicate has a cause |
| Redis stream and group | entries, pending list | `XADD MAXLEN`, `XREADGROUP`, `XAUTOCLAIM`, `XACK` | external |
| Trip and artifacts (`v1/postgres_store.py`) | trip status, current pointer, versions with status | `create_artifact`, publication in `mutate_run`, `command_artifact`, `patch_artifact`, `set_trip_status` | one official plan; the pointer and the statuses agree; history is kept |
| Idempotency journal (`v1/postgres_store.py`) | reservations and results per key | in `create_run`, `resume_run`, `command_artifact`, `patch_artifact` | a retry has the effect of one call |
| Event stream (`v1/routes.py`, `apps/web/src/shared/api/sse.ts`, `entities/run/reducer.ts`) | event log; cursor of each follower | `list_events`, `wait_for_events`, `_stream_events`, reconnect | every follower sees every event once, in order, to the last |
| A2A task service (`agent/travel_agent/a2a/`) | task row with version, lease, deadline; local jobs and cancel tokens | `send_message`, `_execute_job`, heartbeat, `_transition`, `cancel_task`, `cancel_run_tasks`, `recover_dispatch` | one execution writes a task; a settled task stays settled; a canceled Run leaves no task working |
| Orchestrator, executors (`agent/travel_agent/runtime_v2/`) | none of its own: recovers tasks by dispatch id | a fixed pipeline of dispatches | a reclaimed Run resumes the same tasks |
| Planning, validation, replanning | none | pure functions | results satisfy the constraints they were given |
| Provider gateway (`agent/travel_agent/providers/gateway.py`) | circuit, rate window, cache, idempotency locks and results, bulkhead | `_execute`, `_before_call`, `_record_*`, `_prune_state` | a fresh answer is valid and for its tenant; the probe comes back on every path, locks on all but those `_acquire` loses; calls end |
| Share service (`v1/share_service.py`) | shares with epoch and version, sessions, failure window, journal | create, rotate, revoke, exchange, public view | only the holder of the current secret sees the plan, which was current when shared |
| Knowledge base (`agent/travel_agent/rag/`) | documents with status and version, ingestion and command journals | ingest, change status, retrieve, apply a bundle | only published documents are retrieved; only an administrator publishes again |
| Web BFF (`apps/web/src/shared/server/`) | cookies in the browsers; consumed states and refreshes in flight in the process | sign-in, callback, refresh, logout, proxy | one exchange per sign-in, sessions of browsers stay apart |
| Web workspace (`apps/web/src/features/trip-workspace/`) | run shown, cursor, pending key | submit, cancel, load, stream | a command that is sent again makes one Run |
| Historical import (`scripts/migration_v1/core.py`) | inventory, state file, manifest, target rows | inventory, backfill, verify | an interrupted import loses nothing and overwrites nothing |
| Memberships (`v1/postgres_store.py`) | role per member | upsert, remove | who lost the right writes no more |
| Model gateway, adapters, operations, scripts | | I/O | not modelled, see section 8 |

### How they interact

`create_run` and `resume_run` commit the Run and a dispatch row of the outbox together. A dispatcher
relays the row to the stream. A worker takes the entry, compares its control version with the Run,
claims the Run's execution lease (a new *attempt*) and runs `_execute`, which reports progress, saves
artifacts one by one, publishes the result on the Trip, and completes. Every such write passes the
attempt to the store, which rejects it once the lease has expired or moved on. A heartbeat task renews
the lease and cancels the execution when it cannot. The API's `cancel` writes `cancel_requested`,
cancels the Run's A2A tasks, and writes `canceled`. Each store method is one transaction that holds
the rows it decides on; between two store calls of one actor anything may happen. `_execute` calls the
orchestrator, which dispatches one A2A task per stage under a dispatch id derived from the Run, so that a
second attempt finds the tasks of the first; the task service runs the agents, which look up the
knowledge base and the provider gateway. A browser tab submits commands under a stored idempotency key,
follows the Run's events through the web tier, and reconnects with the last sequence number it has shown.

### What is hard

The `hazards` of `PROJECT.json` list every place, with its line. In short: late writes of an attempt
whose lease is gone; a crash between any two steps of `_execute`; a cancellation racing publication;
exceptions that are swallowed and turn into an acknowledgement; duplicate and reclaimed entries; stale
locks and lost replies in the outbox; a bounded stream; a replan that outlives its base; user
commands interleaved with publication; results, deadlines, answers and cancellations of a task written
by processes that read it earlier; a stream that closes, or a Task that changes, between two reads of one
poll; Run cancellation against task creation; callbacks of finished asyncio tasks; probes and locks on
error paths; lost answers and retries under one key; the order of row locks; cookies that arrive late.

## 2. Modules

| Module | Models | Role |
|---|---|---|
| `RunLifecycle` | `models.py` `RunLifecycle`, `TERMINAL_RUN_STATES` | abstract specification of a Run: the states, the steps, the result |
| `RunExecution` | `runtime.py`, `worker.py`, the Run methods of `postgres_store.py` | one Run, external workers, API cancel requests, the queue |
| `TripArtifacts` | the Trip and artifact methods of `postgres_store.py` | one Trip, its Runs and its users |
| `Outbox` | `outbox.py`, `XADD` | rows, dispatchers, the stream |
| `AgentTask` | `a2a/service.py`, the task methods of `a2a/postgres_store.py` | one A2A task, the processes that execute, wait for, answer and cancel it |
| `TaskStream` | `subscribe`, the streaming handlers, `_load_tx`, `replace` and `wait_for_change` of `a2a/postgres_store.py` | one task's event log, its writers and streams, SELECT by SELECT |
| `Orchestrator` | `orchestrator.py`, `OrchestratedWholeRunExecutor`, `cancel_run_tasks` | one Run's attempts, its tasks and its cancellation |
| `LocalRun` | the inline mode of `RunCoordinator` | one Run, its asyncio tasks, `_tasks` and `_forget` |
| `RunFollower` | `routes.py` stream and creation, `sse.ts`, `reducer.ts`, `run-submission.ts`, `idempotency.ts`, `TripWorkspace.tsx` | one tab, the journal, the event log, the network |
| `TripLocks` | the transactions of `postgres_store.py` and of share creation | their statements, row locks and membership reads |
| `ShareLinks` | `share_service.py`, its PostgreSQL branch | shares of one Trip, their owners, holders and guessers |
| `KnowledgeBase` | `rag/postgres.py`, `rag/bundle.py`, `v1_knowledge_base.py` | operators, administrators and searches |
| `TravelAgents` | `a2a_executors.py`, `planning.py`, `validation.py`, `replanning.py`, `place_catalog.py` | the agents' algorithms as operators, over a chain of replans |
| `ProviderGateway` | `providers/gateway.py` | concurrent calls of one provider |
| `WebSession` | `oidc.ts`, `proxy.ts`, the auth routes | tabs, browsers, the provider |
| `Migration` | `migration_v1/core.py` | operator, sources, target, owners |
| `Services`, `Progress` | | sums of the eleven modules that share no state with others, see section 3; their constants are generic |
| `RunExecutionProofs`, `TripArtifactsProofs`, `OutboxProofs`, `AgentTaskProofs`, `ProviderGatewayProofs`, `TripLocksProofs` | | theorems about one module each |
| `ServicesProofs` | | theorems about `WebSession`, `ShareLinks`, `KnowledgeBase`, `Migration` and `TravelAgents` |
| `ProgressProofs` | | theorems about `RunFollower`, `Orchestrator`, `LocalRun` and `TaskStream` |
| `MCRunExecution`, `MCTripArtifacts`, `MCAgentTask` | | symmetry sets for TLC |
| `MCServices`, `MCProgress` | | values for TLC of the constants of `Services` and `Progress` |

`PROJECT.json` `map` gives the source lines of every definition. Definitions whose comment begins with
*Mutant* are wrong on purpose: put in the place of the definition that follows them, each makes TLC
report a property violated (`mutants` in `PROJECT.json`), so the property notices a plausible bug. Where a
property is a conjunction of named parts there is a mutant for every part.

### RunExecution

The Run row is `state, version, attempt, owner, lease, input, pending, result`; `lease` is `"live"` or
`"over"`, so time is a step that ends a lease. `artifacts` are the saved artifact identities:
`ArtifactId(i, a)` is the same for every attempt when item *i* came from an A2A task (the orchestrator
derives its dispatch id from the Run) and new for each attempt otherwise. `verdict` is what the
persisted tasks decided; a later attempt that finishes sees the same one.

A worker's `pc` names the store call it makes next. `_execute` is

    start -> begin -> input | exec <-> progress -> check -> save .. check -> save -> check
          -> publish -> complete        (publishable)
          -> candidate -> block         (not publishable)

with one action per call: `ReadAtStart`, `BeginRun`, `RequireInput`, `ReadForProgress`,
`ReportProgress`, `FinishExecution`, `CheckStillRunning`, `CreateArtifact`, `PublishResult`,
`CompleteRun`, `ReportCandidate`, `BlockRun`. `FencedTransition` is `_transition` with a lease: lease
first, then version; a lost lease is raised out of `_execute`, a conflict is caught by it. The except
clauses and `_finish_*` are `ReadAfterInterruption` .. `WriteFailed`, including that `_finish_failed`
swallows both errors. `Release` is the finally clause of `execute_existing`: it gives the lease back and
turns a normal return into `RunExecutionLeaseLost` when the heartbeat was lost. Around the worker:
`Deliver`, `ReadBeforeClaim` (the dispatch fence), `ClaimRunExecution`, `ReadWhenBusy`, `Acknowledge`.
`Interrupt` is a `CancelledError` arriving anywhere; `HeartbeatFindsLeaseLost`, `HeartbeatFails`,
`Shutdown`, `ExecutionError`, `Crash`, `ExpireAbandonedLease` and `ExpireStalledLease` are what goes
wrong. An API cancel request is a caller with its own program counter, its steps `ReadForCancel` ..
`FinishCancel`, `PropagationFails` and `CallerLost`.

Merged and left out: the two reads of `process_entry` and `execute_existing` before the claim are one
step (the version only grows, and the second read decides); the in-process mode, which is `LocalRun`'s;
the text of events.
The relay is one step here, or two for a duplicate; `Outbox` has its detail.

### TripArtifacts

`current` is the Trip's pointer, `latest` and `status` the versions of each artifact. An artifact is a
Run and a role (snapshot, answer, report). Actions are the store's transactions: `CreateRun` with the
preconditions of plan and replan, `SaveReport`, `SaveResult`, `PublishResult` (publication in
`mutate_run`), `CommandArtifact` (select, publish, revoke), `PatchArtifact`, `SetTripStatus`. The two
publishing methods retire different things: `mutate_run` the version the pointer designates,
`command_artifact` every other published version. `overwrote` is a history variable.

### Outbox

`lockedBy` and `stale` are `locked_by` and an old `locked_at`; `batch` and `pc` a dispatcher's locals in
`dispatch_once`; `stream` the entries that Redis still has. `AddToStream` may drop the oldest entries
beyond `MaxLength`, as an approximate `MAXLEN` does. `Settle` is the guarded UPDATE of both marks.

### AgentTask

The task row is `state, version, attempt, owner, lease, asked, answer`; questions are numbered, `asked` is
the latest, `answer` the number of the question the stored input answers. `late` says that the deadline
has passed. Every process has

- a job, `jpc`: `claim -> begin -> beginwrite -> exec -> apply -> applywrite -> release`, the store calls
  of `_execute_job` and of the `_transition`s it makes, with the version it has read (`jseen`), its
  attempt (`mine`), the answer the executor got (`used`) and the state it wants (`goal`); `queued` counts
  the launches that wait in done callbacks (`Launch`, `Relaunch`);
- a caller, `wpc`: `Send` (`send_message`, `recover_dispatch`), `WaitRead` and `WaitExpires` ..
  `ExpireWrite` (`_wait_until_settled`, which relaunches on every wake-up and fails the task at its
  deadline without a lease), `Answer` .. `AnswerWrite` (`_resume_input`);
- a canceling caller, `cpc`: `cancel_task` and `cancel_run_tasks`, which differ in what they read first
  and in whether they stop the local job of a task that ended otherwise.

`Replace` is the store's compare-and-swap once its predicates hold: it clears the lease when the task
leaves `submitted` and `working`, and keeps an answer only in `working`. `StopJob` is `job.cancel()`,
including a claim that commits unnoticed and a release that is cut off. Merged and left out: the retry of
an answer by message id (it returns the row and waits, like a second `Send`), `rejected` (nothing writes
it), the task's events and `subscribe` (`TaskStream` has them), a job that finds no row. A job's owner string is its process,
which has one job at a time; the attempt tells its jobs apart.

### TaskStream

A record is loaded by two SELECTs, the row and then the events, each of which sees what is committed when
it runs (PostgreSQL's default isolation): `LoadRow`/`LoadEvents` for writers, `Subscribe`/`Open` and
`Poll`/`WaitForChange` for streams. `Consistent` is what `_load_tx` checks of the two. `ReplaceTask` is the
UPDATE with its version predicate and the inserts of one transaction. The events after a cursor, which
`subscribe` filters out of the list, are those from `Position` on, as the list is in the order of versions
(the proofs show that it is). A stream ends with a settled
snapshot; `at = "broken"` is the error it gets from an inconsistent load.

### Orchestrator

`workers[a]` is attempt *a* of the Run (`Claim`, with the lease as `run.holder`), `tasks` the A2A Task of each
stage. A Task remembers the `input` it was dispatched with: 0 for a brief the command carries, the attempt's
number for one that `OrchestratedWholeRunExecutor` builds anew. Every stage is `Progress` (which notices a
cancellation), `RecoverDispatch`, `SendMessage`, `Settled`. The agents end their Tasks (`AgentEnds`); the
planner refuses candidates of another brief. `cancel` reads once which stages have a Task and cancels these
one by one, in the order of their creation, which is that of the stages. `Fail` is `_finish_failed`: it marks
the Run failed, finds it stopped, or swallows a lost lease; in that case the worker acknowledges the entry and
the attempt ends at `acked` (`Acknowledged`), after which nobody claims the Run again.

### LocalRun

The tasks of one Run in the order they were created, `entry` for `_tasks[run_id]`, `forgets` for the `_forget`
callbacks that have not run yet. Between any two store calls of `_execute` the task may be interrupted, the
user may cancel, the owner may remove the submitter, the process may close.

### RunFollower

`ui` is the reducer's state, `cursor` and `pending` what the browser stores, `requests` what is on the wire; a
request is sent, handled and answered in separate steps and may be lost before or after it was handled.
A sentence is sent as a `RunInput`, made of what the tab knows of the Trip (`known`: title, current plan and
its version), and its key is reserved for the `Fingerprint` of that input, which has the base's version and
not its identity. The Trip itself changes by publication (the event before a Run's end) and by `Edit`; the tab
learns of it by a reload. `storage` says that `sessionStorage` has kept every key written to it. `Reload` empties the page's memory;
`applied` is no such memory but a history of what this tab has ever shown.
The server's stream lists events, then looks whether the Run has ended (`EndOfStream`), as `_stream_events` does.

### TripLocks

A transaction is the list of its statements that matter to others: `lock` (`FOR UPDATE`, an UPDATE, an
advisory lock), `share` (the foreign key's lock on the Trip), `see`, the membership reads, and the UPDATE of
the Trip. Any two transactions run against each other (`Txns`); cycles of three and more are left to the
proof, which excludes them for any number of transactions.

### ProviderGateway

`_acquire` hands the acquisition to a child task and is called before the `try` that releases. So a call
takes its lock, or permit, in one step (`AcquireLock`, `AcquirePermit`) and goes on in another
(`ResumeLocked`, `ResumePermitted`); in between the deadline may pass, which `wait_for` lets win (with a
cancellation event `asyncio.wait` is used, which does not), or the caller's task may be cancelled (`Kill`). Then
what was acquired is `stray`: nobody will release it. A child task that a cancelled `asyncio.wait` leaves
behind is `adrift` and may acquire later (`AdriftAcquires`), for nobody.

### ShareLinks, KnowledgeBase, WebSession, Migration

One action per transaction, block without await, request or file write. A secret is what it is derived from
(operation, key, share, epoch); a document is its row and chunks, ranking is a choice among the rows that
qualify; circuit cool-down, validity and deadlines pass in steps of their own; a response's cookies take
effect when it is received; a record of the import is its cursor and a checksum the projection it is of.
Several operators may apply one bundle (`BundleId`), under the same ingestion keys; their script's request may
time out although its transaction commits. `ShareLinks` is the PostgreSQL branch of the service: the
in-memory one creates a share without reading the source again, and a rotation keeps its failures. The
clock that its sessions and failure windows are compared with is the API process's. In `WebSession` nothing expires and the process does not restart, so
`consumedStates` is emptied by neither. `Verify` leaves out the counts over the whole target
(`core.py:1019-1089`, `1145`), which can only refuse more; a new inventory comes with a new state file, so
that the refusal of another request's state file is not met.

### TravelAgents

Research merges knowledge base, provider and built-in catalog into candidates; `BuildCandidate` schedules
them into days (first fit, with routes and buffers), the validator's checks, the semantic verifier and
the policy follow, and `Patched` edits the published brief for the next plan. Times are minutes, days are
numbers. A term of a constraint is the set of places whose name it is part of (`Matches`), which is how the planner
looks for it, and the sequences of places across whose titles, joined by spaces, it can be read (`Spans`), which
the validator finds too (`Mentioned`, `validation.py:190`). A budget patch brings an amount and possibly a currency. Every combination of what the sources
return and of patches is an input, and so are route services (functions from two places to minutes). The scheduler's
two loops are recursive functions (of the blocks of a day, of the days of a trip), and a filter picks
positions (`Picked`), so that the algorithms can be proved about.

The planner compares clock times, which wrap at midnight, and a `TransitLeg` may last a week. So
`PlannerIsFeasible` promises free time for a route only below `RoundTheClock` (1185 minutes: a day less the
longest visit and the buffer). From there on a visit can fall into the same hours a day later; the check
of routes then fails, and the plan is not published. TLC reaches this with routes of 1185 minutes.

## 3. Runs

| Run | Instance | Shows |
|---|---|---|
| `run_safety` | 2 workers, 1 caller, 3 items, each fault kind, 1 fault; 2.02 M states | types; late attempts are fenced; the published set is whole; no Run without a dispatch, no dispatch dead-lettered; no version conflict under a lease; CancelledError only for cancel; nothing written after cancel; refinement of `RunLifecycle` |
| `run_live` | 1 worker, 1 caller, 2 of every fault but a stall, fairness; 478 k | every Run settles, every entry is drained, a requested cancellation is carried out |
| `run_lost` | a stalled lease and an executor error | *violation*, finding 1 |
| `trip_artifacts` | 2 Runs, 2 versions; 588 k | pointer published; one plan; history kept; pointer moves with publication |
| `trip_replan` | 3 Runs | *violation*, finding 2 |
| `outbox` | 2 dispatchers, 3 rows, batches of 2, 2 faults, a stream of 3, fairness; 511 k | only what was sent is marked; duplicates are explained; every row is published |
| `task_safety` | 2 processes, 1 canceler, 1 question, each fault kind, 1 fault; 3.07 M | an ended task is final; a result comes from the lease holder and the current answer |
| `task_live` | 2 processes, 1 canceler, 1 question, hanging executors, waiting and leaving callers, fairness; 232 k | a cancellation stops the executor in either process; who waits returns after the deadline; no launch is lost |
| `services` | `ShareLinks`, `KnowledgeBase`, `TravelAgents`, `WebSession`, `Migration`, `TripLocks`; 2.25 M | `SharesAreSafe`, `CorpusIsSafe`, `PlansAreSound`, `SessionsAreSafe`, `ImportIsFaithful`, `TransactionsAreSafe` |
| `progress` | `ProviderGateway`, `RunFollower`, `Orchestrator`, `LocalRun`, `TaskStream`, fairness; 572 k | `GatewayIsSafe`, `FollowerIsSafe`, `RunIsCoherent`, `ExecutionIsSafe`, `StreamIsExact`; calls and streams end, Runs do unless acknowledged, the tab catches up unless put back, cancellations are carried out |
| `run_reclaimed` | `Orchestrator` alone | *violation*, finding 3 |
| `stream_polling` | `TaskStream` alone | *violation*, finding 4 |

`Services` and `Progress` are sums, not compositions: `service` names the one component that moves in
a behaviour, so TLC explores the state spaces side by side, and every property is about one of them.
The bounds of each are in the `.cfg`. `MCSpec` of `MCServices` restricts the initial states of the services
that do not move, which would only multiply the states of the one that does.

The properties with a collective name are conjunctions, each part stated and commented in its module:

| Property | Parts |
|---|---|
| `SharesAreSafe` | `OldCapabilitiesDie`, `OneSharePerKey`, `ChangesFollowVersions`, `GuessesAreLimited`, `SharedPlanWasCurrent` |
| `CorpusIsSafe` | `InsertNeverCollides`, `SearchShowsPublished`, `AppliedIsComplete`, `PublishedOnPurpose` |
| `PlansAreSound` | `PlannerIsFeasible`, `PublishedPlanIsSound`, `ExcludedStaysOut`, `NoConflictIsPublished`, `AnswerIsGrounded` |
| `SessionsAreSafe` | `SessionsStayApart`, `EachSignInExchangedOnce`, `RefreshesInFlight` |
| `ImportIsFaithful` | `CursorIsCovered`, `ImportedAsInventoried`, `PassedMeansImported`, `EditsSurvive` |
| `TransactionsAreSafe` | `NoDeadlock`, `TripUpdateHits`, `WritersStayAllowed` |
| `GatewayIsSafe` | `FreshIsValid`, `PrivateStaysPrivate`, `ProbeIsGivenBack`, `LocksAreReleased` |
| `FollowerIsSafe` | `OneRunPerCommand`, `NothingSkipped` |
| `RunIsCoherent` | `PinnedRunsRecover`, `ResultIsOneGraph`, `CancelReachesTasks`, `OneLateDispatch` |
| `ExecutionIsSafe` | `RunHasTask`, `OneExecution`, `CancellationWins` |

Some of them state less than one might wish, because the code does less:

- `LocksAreReleased`: a locked lock belongs to a call under way or is `stray`. A stray lock stays locked, its
  key is not served again, and a stray permit shrinks the bulkhead; calls that wait for them still end (`CallsEnd`).
- `OneRunPerCommand`: while `storage` holds, one command makes one Run however often it is sent, and a
  command is the sentence *with* title and base version. After the first plan was published and the tab was reloaded,
  the same sentence is another command and makes a second Run (section 4).
- `FollowerCatchesUp`: `[]<>(~Behind \/ PutBack)`. A tab whose stream is closed may be put back to
  `cancel_requested` by the answer of a cancellation that arrives late, and stays there until a reload.
- `RunsEnd`: a Run ends, or its entry was acknowledged while it needed a worker (finding 1).
- `PublishedPlanIsSound`: visits and avoided terms in the validator's sense, with terms that span two titles.
- `WritersStayAllowed`: methods that hold the Trip's lock; `create_artifact`, `resume_run` and a `mutate_run` without a result are outside it.
- `RunHasTask`: the inline mode; what becomes of a worker's entry after its member was removed is not its subject.
- `EachSignInExchangedOnce`: as long as the process runs and `consumedStates` is not full.

**Bounds.** Two workers and one fault are what a takeover needs: the late attempt meets its successor.
Longer chains of attempts are left to the proofs, which hold for any number of workers and faults; so is
fencing. The liveness properties, which cannot be proved, are checked with two faults and one worker: a
crashed worker comes back while its old lease is live, so it also meets a busy Run. Three items with a stable one in the middle is the smallest shape with a fresh result after a stable
report, where the published set could be mixed. One progress report suffices, as every report is the same
read and write (none in `run_live`). Faults are counted because every one of them may recur for
ever; versions, attempts and entries are then bounded by the steps that remain. Two Runs and two
versions make publication, supersession by the other Run, revocation and patching of a published
version meet. Three rows with batches of two leave a row for the second dispatcher. For a task,
two processes make every race of the lease; one question makes a job meet the answer to the question it
has just asked; one canceler suffices, as cancellation ends the task. `MaxQueued` caps the launches
waiting for one job; they are alike, and a job that finds nothing to do ends at once. A stream of three
is trimmed when duplicates fill it.

Shares: two creations with the same or different keys, two plans and three versions make creation meet
supersession and a rotation meet a revocation; two rotations of one share need a second change key, which is
left to the proof. Knowledge: two operators with one bundle and a third whose bundle has its document in common, one
failure, one tenant, three documents and three versions make an ingestion wait for either lock, replay, and meet a withdrawn
document; tenants are kept apart by the proof only. Agents: three places (one closed on the second day, one dear, two matched by one term), a
term that only two names together contain, trips of
one or two days, routes that fit, fill or overrun a day or go round the clock, for all places or for one, two
replans. Sessions: two tabs of one browser and one of another, two sign-ins, three
token pairs, one fault; `MaxConsumed` is larger than the sign-ins, so `Pruned` drops nothing here. Import: three records in batches of two, so that a crash falls within and between
batches, two inventories, two changes of the sources, one edit. Locks: two transactions of any kind on
two Runs and two plans. Gateway: two callers, three lookups that share a key or a request, one with a cancellation event, a threshold
and a bulkhead of one, so that the circuit opens and the probe is contended for at once, and a lost permit is the last. Follower: a planning
sentence sent twice, two Runs of three events, one fault (a lost request or answer, a reload, a failed write of the key). Orchestrator: two attempts and one failing agent, for each kind of command.
Inline Run: three tasks (the first, the one resumed, one more for a repeated answer), one error. Streams:
two writers, one client that may come again, versions up to four, so that a poll may skip one.

Symmetry permutes workers, Runs or processes where they are alike;
no liveness run uses it.

Deadlock checking is off where the system may rest: a Run that has ended with a drained queue, rows
all published, a task that has ended, a service that has reached its bounds. The Trip runs check it.

**Fairness.** Weak fairness of each worker's deliver and execution steps, of the relay, of the expiry of
an abandoned lease (`run_live`): consumers loop for ever, `XAUTOCLAIM` hands out every
idle entry again, time passes. Weak fairness of a caller's own steps, and of its retry while the Run is
`cancel_requested`: the API answers a failed propagation with a retryable error and nothing else finishes
the cancellation, so `CancelFinishes` says what a retrying client gets. Faults are never fair; a user's
first cancel, a resume and an expired question are never required. `outbox`: dispatchers loop,
`available_at` and lock leases pass. `task_live`: jobs and callers take
their own steps (asyncio schedules every ready coroutine), abandoned leases expire, the heartbeat is
periodic. Nobody has to send, answer or cancel, executors may hang, and the deadline need not come:
`WaitersReturn` speaks of callers that see it pass, `LaunchedTaskIsExecuted` of executors that do not hang.
`progress`: a gateway call takes its steps and its deadline passes, but the provider need not answer
and locks need not be free; the tab's own steps, its reconnection timer and the server's handlers run, but
nobody has to ask, and a Run need not advance; attempts, jobs and agents of a Run take their steps, since
every Task has a deadline, and an expired lease is claimed again unless the entry was acknowledged (`Claim` is
disabled then); asyncio runs ready tasks and callbacks of
the inline mode, and a user whose cancellation was not carried out repeats it; the server polls and
yields for a stream, while writers and clients may stop for ever.

## 4. Findings

1. **A Run may be lost** (`run_lost`). `_finish_failed` swallows a lost lease (`v1/runtime.py:944`); the
   entry is acknowledged, the Run stays `running`, and no dispatch remains. A cancel still ends it.
2. **A stale replan overwrites** (`trip_replan`). The base is compared with the pointer at creation only
   (`v1/postgres_store.py:992`); RFC-0003 line 125 promises a conflict at publication.
3. **A reclaimed Run may fail without cause** (`run_reclaimed`). A plan request gets a brief with a new
   identity in every execution, while its Tasks are recovered by dispatch id: after a crash between research
   and planning the planner refuses the recovered candidates (`planning.py:279`) and the Run ends failed.
   `orchestrator.py:107` says that a reclaimed Run resumes the same Task. Commands with a pinned brief and
   questions recover (`PinnedRunsRecover`).
4. **A poll may break a stream** (`stream_polling`). A `replace` that commits between the two SELECTs of
   `_load_tx` makes it raise "stored Task event history is incomplete" (`a2a/postgres_store.py:355`) for an
   intact Task; `a2a/README.md:34` says that replay works by polling. Waiting callers get the error too.

Seen in the models, without a run of their own: after a crash that follows the insert of an artifact with
a stable id, the next attempt inserts it again and fails the Run (`v1/runtime.py:790`); a process whose
`claim_execution` raised fails a task that another one is executing (`a2a/service.py:668`); a slow second
answer to one question may be stored for the next one (`a2a/service.py:488`); `XADD MAXLEN` drops unread
entries of rows already marked published (`v1/outbox.py:207`); the catalog is filtered by the closing days
of the first day of the trip only (`a2a_executors.py:565`); a late response may clear, or bring back, a
session (`proxy.ts:170`); a lock or permit whose acquisition meets the deadline or a cancellation is lost
(`providers/gateway.py:299`, `580`, `597-634`); the answer of a cancellation may put a tab back to `cancel_requested`
after its stream has closed (`TripWorkspace.tsx:519`); a sentence that is sent again after its Run has published and the
tab was reloaded makes a second Run, because the base's version is part of its fingerprint
(`idempotency.ts:64`), where the message of `TripWorkspace.tsx:382` says that the same sentence makes none;
a visit or avoid term counts as mentioned when it is read across two titles (`validation.py:190`).

## 5. Proofs

All by invariance: `Init => IndInv`, `IndInv /\ [Next]_vars => IndInv'`, and `IndInv` implies the
property. Each `IndInv` is defined in the component's module, and TLC has checked it as an invariant on the
instance of the component's run. A component of `Services` or `Progress` is taken by itself
first (`...Invariance`, `...Safety`); the result about the sum's `Spec`, whose properties the runs check, follows
since every step of the sum is a step or a stutter of each component (`OneService`). A Run that is not looked
at starts at rest there (`Idle`, `Down`), which satisfies `IndInv` too.

What is assumed of the constants is the `ASSUME`s of `RunExecution`, `TripArtifacts`, `Outbox` and `AgentTask`,
and those of `Services` and `Progress`, which assume each component's operator (`GatewayAssumption`,
`ShareAssumption`, `LockAssumption`, `SessionAssumption`, `KnowledgeAssumption`, `ImportAssumption`,
`AgentAssumption`, `FollowerAssumption`, `OrchestratorAssumption`, `LocalAssumption`; `TaskStream` needs none).
TLC evaluates all of them. They say that bounds are naturals, that null values
are outside the sets they complete, that bundles and catalogs are sequences, that date windows do not end before they
start and visits take some time, that there is a route between any two places, and that dispatchers, callers and
lookups are finitely many; two more are named below, at `PublishInv` and `ConsumedInv`. Nothing else: any number of workers,
callers, items, Runs, versions, rows, dispatchers, processes, transactions, browsers, tabs, events, executions,
documents, records, places, constraints, days, streams, faults.

**RunExecutionProofs.** `TypeCorrect`, `NoConflictUnderLease`, `OnlyCancellationInterrupts`,
`DispatchIsNeverAhead`, `PublicationIsWhole`, `LateAttemptsRejected`, `NothingAfterCancel`,
`LifecycleRefinement`. None of the properties is inductive. `IndInv` adds:

- `LeaseInv`: an attempt number belongs to one worker, no executable Run, no owner, and no write carries
  an attempt yet to come. Fencing follows.
- `HolderIsCurrent`: the holder of the token has read the current version at every fenced write, because
  only it moves the version of an executable Run, apart from the cancellation, which takes the token.
  So no conflict occurs.
- `ReadsAreCurrent`: what a worker knows of the state if its version is current. The refinement needs it,
  to see that a write starts from the state the abstract step starts from.
- `ProgressInv`, `SavedInv`: how far a worker can be for a given state, and that what it has counted as
  saved is there.
- `PublishInv`: of all attempts at most one passes a stable item, as its second insert fails; hence one
  attempt publishes, and no other attempt's `publish` can follow. Here a stable item is needed
  (`ItemsAssumption`), which every flow of the orchestrator has.
- `CallerInv`, `DispatchInv`: the same for cancel requests and dispatch versions.

`RunIsNotForgotten`: `RunHasDispatch` holds for any number of workers and faults as long as no lease stalls, and with
a stalled lease as long as it is the only fault (`HardlyDisturbed`). The bound is sharp: `run_lost` loses a Run with
a stall and one error. A dispatch is acknowledged by a worker that returned, and the only return that may leave
the Run executable is the one after `_finish_failed`, which swallows a lost lease. `KeptInv`, inductive together
with `IndInv`, says why that is not met:

- `ExecutionsAreLeased`, `FailuresAreLeased`: an execution that nobody told of a lost lease has it, or the Run has
  ended; for a worker that writes "failed" that survives one fault, since the error it handles was that fault.
- `FirstExecution`: before the first fault no insert is refused, because everything saved was saved by
  the execution under way, so nobody fails at all.
- `SignalsInterrupt`, `EntriesAreSent`: a worker told to stop is out of the try block, and a new entry is not one
  that somebody is about to acknowledge.
- `DispatchIsKept`: the property made inductive. Some row or entry is left that no worker is about to acknowledge.

**TripArtifactsProofs.** `TypeCorrect`, `PointerCorrect`, `OnePlan`, `HistoryCorrect`,
`PointerMovesCorrect`. `OnePublishedPlan` needs to know that a user cannot publish a result before its
Run does: only reports are ever `validated` (`ValidatedAreReports`), so the result of a Run that may
still publish is a draft (`ResultsAreDrafts`); and a Run not yet created has no artifacts.

**OutboxProofs.** `TypeCorrect`, `NothingMarkedUnsent`, `DuplicatesAreBudgeted`. The bound on duplicates
needs a budget: copies sent, plus dispatchers that have claimed the row and not sent it, plus one if the
row is open to another claim, never exceed one plus the faults. A claim turns the open unit into a
dispatcher's, a publication turns that into a copy, and only a fault adds a unit.

**AgentTaskProofs.** `TypeCorrect`, `EndIsFinal`, `ResultsAreCurrent`. That an ended task is final needs
what every reader knows (`ReadsAreCurrent`): while the version a job, waiter, answer or canceler has read is
still the task's, so is the state it decided on, and the compare-and-swap does the rest. That a result is
current needs more than the lease: `LeaseInv` (a task nobody may execute has no owner, attempts are drawn in
order), `JobInv` (only a job with a lease brings anything but a failure) and `AnswerInv`: while a job executes
under the latest attempt, answer and question stay what they were when its executor was called, since both
move only in states in which nobody has the lease. `TypeOK` holds with the bound on questions, which also
rests on `AnswerInv`.

**ProviderGatewayProofs.** `GatewayCorrect`. `LockInv`: a call past its wait holds its lock alone, and a stray
lock is held and no call's.
`ProbeInv`: the probe's flag is up only in a circuit that has cooled down, and every change of phase takes it
back; so on every error path the flag is cleared, or belongs to an admitted call. `EntryInv`: cache and
idempotency entries were made for those who find them, and are fresh only while valid. The model draws the
identity of a new lock from as many as there are callers and keys; that one is always free, since the caller
itself holds none yet, is a counting argument over finite sets (`FreshLock`).

**TripLocksProofs.** `TransactionsCorrect`. Every list of statements that a transaction has still to execute
is `Disciplined`: rows are locked in the order of `Rank`, the `Guarded` ones (artifacts, versions) only under
the Trip's lock, the Trip is read before it is updated, rights are checked under the lock that protects them.
Each of the store's methods starts with such a list, and a list stays one when its head is executed.
In a set of transactions that all wait for one another, the one that waits for the highest rank waits for a
transaction that waits for a higher one, so there is none, of whatever size.

**ServicesProofs**, sessions: `SessionsCorrect`. `OwnershipInv`: a browser holds, sends and is sent only what
belongs to sign-ins it began itself. `ConsumedInv`: a state is in `consumedStates` once, and its code was sent
at most once, after it was put there. That holds only while nothing is evicted: the hypothesis
`MaxSignIns < MaxConsumed` says so, and that the list is then never full is a pigeonhole argument. (The code
drops expired states and then, if there are still 4096, the oldest one that has not expired,
`oidc.ts:209-215`; that state could be used again.) `AskedInv`: a refresh is asked for under the digest of its own token.

Shares: `SharesCorrect`, two invariants and three action properties. `CapabilityInv`: secret and
epoch of a share, and of a session, agree, so a rotation leaves every earlier secret and session behind.
`KeyInv`: the key of every share is reserved in the journal for that share. `VersionInv`: a change in the
journal was asked for at a version its share has left, so a replay finds no version to change. `GuessInv`: the
row counts the secrets compared in its window, and is blocked when they are too many.

Knowledge base: `CorpusCorrect`. `BundleInv`: an operator at work is at a document of its bundle, and those before it
are stored. `KeyInv`: an ingestion key stands for a document of its content, so a replay is one of that content.
`LockInv`: one ingestion at a time holds the lock on a content, and what it found under the lock, a document or
none, is still so when it inserts. `SearchInv`: between its two queries a search has seen only what was published
since it began, and the set of what was published since then includes what is published now.

Import: `ImportCorrect`. `JobInv`: a running backfill works on the sources and the mapping that it has loaded and
compared with the inventory when it started. `DoneInv`: up to its cursor everything is imported as inventoried and in its manifest;
the cursor moves to the last record of a batch, which exists because the order of the naturals is well-founded.
`FilesInv`: its manifest extends the file's, and has been written when the cursor is. So a crash between the three
writes leaves the cursor behind, never ahead.

Agents: `PlansCorrect`. `BriefInv`: what a brief avoids and asks for follows from its patches; a place that was excluded,
and not to be retained before, is avoided by every later brief, whatever was patched in between. `BundleInv`: every candidate
cites evidence of the bundle, whichever source it came from. `DayInv`, `DaysInv`: what one more block, and one more
day, keeps: a visit whose clock times are in order lasts as long as it takes, and starts late enough for its
route if that is shorter than `RoundTheClock`. The recursions are handled without induction over data: a set of
numbers has a least element (`AgentLeast`), so counting up reaches every bound (`CountingUp`) and the function
that a recursive definition chooses exists (`Repeated`); `PlanDayInv` and `ScheduleInv` then take the steps one by one. That
validator and verifier agree with the planner (`PlanPasses`, `PlanIsCovered`), and that the pairwise checks of a
day order all its visits (`DayIsInOrder`), follows from these. The sum of the costs (`FoldLeft`) stays opaque: the
proof needs only that what was compared with the budget is what is published.

**ProgressProofs**, follower: `FollowerCorrect`. `KnownInv`: what refers to a Run refers to one that was created,
and an answer to the Run it was asked of. `SeenInv`: the tab has shown everything up to every cursor it may come back to (its
own, the stored one, those of the commands on the wire). `StreamInv`: the events on the wire follow each other
up to the last one sent, and the tab has shown all that came before if it shows the stream's Run; if the
answer of an old cancellation put another Run in its place, no later one brings the stream's Run back. `KeyInv`: keys
are used once, and as long as `storage` holds, the key of a Run that the tab does not know of is still reserved, for
the fingerprint of the input that the Run was created with.

Orchestrator: `OrchestrationCorrect`. `StageInv`: an execution has completed Tasks behind it, and once it has
all of them works on the brief the plan was made of. `TaskInv`: a Task is of one of the stages, a plan was made of
candidates for its own brief, a Task fails by a fault or because executions built different briefs. `PinnedInv`: a
command that carries its brief gives all Tasks the same. `FencedInv`: a requested cancellation stops the Run for
good, and what it has listed includes every open Task that was not sent after it. `LateInv`: an execution that
has sent a Task too late sends no other, as its next progress report finds the Run ended. `ResultInv`: the
result is that of the completed plan.

Inline Run: `ExecutionCorrect`. `HandInv`: at most one task has the Run in hand, and none while an answer is awaited.
`VersionInv`: the version that task has read is the current one exactly while the Run needs work, so a write it
makes after a cancellation meets a conflict. `StopInv`: tasks are canceled only for a Run that has been stopped, or by a
process that closes. `WorkInv`: a Run that needs work is in the hands of a task, whatever `_forget` removes from
`_tasks`.

Task streams: `StreamsCorrect`. `LogInv`: the log is in the order of versions, and its last event has the Task's. `RowFits`:
a row that was read counts the events of its version, and there are more since it changed; so a load that passes the
check of `_load_tx` is one of the current Task. `WriterInv`: a writer whose version is still current has the whole log,
so a replacement extends it. `StreamInv`: a stream's cursor is its snapshot's version and a place in the log, and what was
sent and is to be sent is the stretch from where it began to there.

## 6. Model-checked only

The liveness properties (`RunSettles`, `EntriesAreDrained`, `CancelFinishes`, `EveryRowIsPublished`,
`CanceledExecutionStops`, `WaitersReturn`, `LaunchedTaskIsExecuted`, `CallsEnd`, `FollowerCatchesUp`,
`RunsEnd`, `CancelIsCarriedOut`, `StreamsEnd`):
liveness under fairness and `ENABLED` are outside the prover.
Every invariant and action property of the passing runs is a theorem, `RunHasDispatch` under the
hypothesis `HardlyDisturbed`, without which it is false (finding 1).

## 7. Plan

Done: all components above modelled and checked, and their safety properties proved. Next: `RunDispatch`, which
composes `Outbox`, stream and worker, to replace the atomic relay of `RunExecution`.

## 8. Not modelled

HTTP parsing and rendering, token verification and cryptography, header filtering; provider adapters and the
model gateway (external answers are nondeterministic choices); ranking, embedding and text splitting; the
projections that remove private fields from shares and imports; prompts and language parsing of the intake;
sizes and schemas of messages; metrics, audit and health; backup, grants, quality gate and schema migrations;
listing. The in-memory store of Runs and Trips repeats the PostgreSQL store under one lock, and is modelled where
the inline mode uses it; the in-memory branch of the share service differs (section 2) and is left out. Expiry of
sign-ins and restarts of the web tier; a browser whose `localStorage` refuses, where the page does not load.
