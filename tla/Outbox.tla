------------------------------- MODULE Outbox -------------------------------
(***************************************************************************)
(* The transactional outbox: rows committed with the state they announce,   *)
(* dispatcher processes that lock, publish and mark them, and the Redis      *)
(* stream they are published to.                                            *)
(*                                                                          *)
(* A lock carries the dispatcher's worker_id and the time it was taken.      *)
(* Time is abstracted: a lock is fresh until a step makes it stale, and a    *)
(* failed row is delayed until a step makes it available again.  A process   *)
(* that restarts draws a new worker_id and remembers no batch, so nothing    *)
(* tells it apart from a dispatcher that never held the old locks.           *)
(***************************************************************************)
EXTENDS Integers, FiniteSets, Sequences

CONSTANTS
    NRows,         \* rows ever inserted, numbered by created_at
    Dispatchers,   \* dispatcher processes
    Nobody,        \* locked_by IS NULL
    Limit,         \* rows one claim_batch takes
    MaxLength,     \* MAXLEN of the Redis stream
    Faults,        \* the kinds of fault this instance allows
    MaxFaults      \* bound on the number of faults

FaultKinds == {"crash", "slow", "refused", "reply_lost"}
Rows == 1..NRows

ASSUME RowsAssumption ==
    /\ NRows \in Nat /\ Limit \in Nat \ {0} /\ MaxLength \in Nat \ {0}
    /\ IsFiniteSet(Dispatchers) /\ Nobody \notin Dispatchers
    /\ Faults \subseteq FaultKinds /\ MaxFaults \in Nat

VARIABLES
    row,           \* absent, ready, delayed (available_at in the future), published
    lockedBy,      \* locked_by
    stale,         \* locked_at is older than the lease
    batch,         \* what a dispatcher has claimed and not finished
    pc,            \* idle, or what it does next with the first row of its batch
    stream,        \* entries of the Redis stream, oldest first
    copies,        \* how often a row was added to the stream
    acked,         \* rows some consumer has acknowledged
    faults

vars == <<row, lockedBy, stale, batch, pc, stream, copies, acked, faults>>

-----------------------------------------------------------------------------
Init ==
    /\ row = [r \in Rows |-> "absent"]
    /\ lockedBy = [r \in Rows |-> Nobody] /\ stale = {}
    /\ batch = [d \in Dispatchers |-> {}] /\ pc = [d \in Dispatchers |-> "idle"]
    /\ stream = <<>> /\ copies = [r \in Rows |-> 0] /\ acked = {} /\ faults = 0

Fault(f) == f \in Faults /\ faults < MaxFaults /\ faults' = faults + 1

\* Rows are processed in the order of created_at.
First(d) == CHOOSE r \in batch[d] : \A q \in batch[d] : r <= q

\* _insert_outbox inside a platform transaction; transactions that began earlier may
\* commit later.
InsertOutbox(r) ==
    /\ row[r] = "absent"
    /\ row' = [row EXCEPT ![r] = "ready"]
    /\ UNCHANGED <<lockedBy, stale, batch, pc, stream, copies, acked, faults>>

\* Mutants: a locked row stays locked, however old the lock; or locks are ignored.
ClaimableUnlocked == {r \in Rows : row[r] = "ready" /\ lockedBy[r] = Nobody}
ClaimableLocked == {r \in Rows : row[r] = "ready"}

\* The rows claim_batch selects from.
Claimable ==
    {r \in Rows : row[r] = "ready" /\ (lockedBy[r] = Nobody \/ r \in stale)}

\* claim_batch: lock the oldest claimable rows; SKIP LOCKED makes it one step.
ClaimBatch(d) ==
    /\ pc[d] = "idle" /\ Claimable # {}
    /\ LET taken == {r \in Claimable : Cardinality({q \in Claimable : q < r}) < Limit}
       IN  /\ batch' = [batch EXCEPT ![d] = taken]
           /\ lockedBy' = [r \in Rows |-> IF r \in taken THEN d ELSE lockedBy[r]]
           /\ stale' = stale \ taken
    /\ pc' = [pc EXCEPT ![d] = "publish"]
    /\ UNCHANGED <<row, stream, copies, acked, faults>>

\* XADD with an approximate MAXLEN: Redis may drop the oldest entries beyond it.
AddToStream(r) ==
    LET s == Append(stream, r) IN
    /\ \E n \in 1..Len(s) :
        /\ n > 1 => Len(s) - n + 1 >= MaxLength
        /\ stream' = SubSeq(s, n, Len(s))
    /\ copies' = [copies EXCEPT ![r] = @ + 1]

Publish(d) ==
    /\ pc[d] = "publish"
    /\ AddToStream(First(d))
    /\ pc' = [pc EXCEPT ![d] = "mark"]
    /\ UNCHANGED <<row, lockedBy, stale, batch, acked, faults>>

\* Redis refused the entry.
PublishRefused(d) ==
    /\ pc[d] = "publish" /\ Fault("refused")
    /\ pc' = [pc EXCEPT ![d] = "fail"]
    /\ UNCHANGED <<row, lockedBy, stale, batch, stream, copies, acked>>

\* Redis added the entry, but the dispatcher got an error.
PublishReplyLost(d) ==
    /\ pc[d] = "publish" /\ Fault("reply_lost")
    /\ AddToStream(First(d))
    /\ pc' = [pc EXCEPT ![d] = "fail"]
    /\ UNCHANGED <<row, lockedBy, stale, batch, acked>>

\* Mutant: the loop does not notice that it has handled the last record.
NextRecordForever(d) ==
    /\ batch' = [batch EXCEPT ![d] = @ \ {First(d)}]
    /\ pc' = [pc EXCEPT ![d] = "publish"]

\* The loop of dispatch_once goes on with the next record.
NextRecord(d) ==
    /\ batch' = [batch EXCEPT ![d] = @ \ {First(d)}]
    /\ pc' = [pc EXCEPT ![d] = IF batch[d] = {First(d)} THEN "idle" ELSE "publish"]

\* The UPDATE of mark_published and mark_failed: only by the holder of the lock, and
\* only on a row that is not published.
Settle(d, s) ==
    LET r == First(d) IN
    IF lockedBy[r] = d /\ row[r] # "published"
    THEN /\ row' = [row EXCEPT ![r] = s]
         /\ lockedBy' = [lockedBy EXCEPT ![r] = Nobody]
         /\ stale' = stale \ {r}
    ELSE UNCHANGED <<row, lockedBy, stale>>

MarkPublished(d) ==
    /\ pc[d] = "mark"
    /\ Settle(d, "published") /\ NextRecord(d)
    /\ UNCHANGED <<stream, copies, acked, faults>>

\* Mutant: a failure is recorded as if the entry had been published.
MarkFailedAsPublished(d) ==
    /\ pc[d] = "fail"
    /\ Settle(d, "published") /\ NextRecord(d)
    /\ UNCHANGED <<stream, copies, acked, faults>>

\* mark_failed: available again after a delay.
MarkFailed(d) ==
    /\ pc[d] = "fail"
    /\ Settle(d, "delayed") /\ NextRecord(d)
    /\ UNCHANGED <<stream, copies, acked, faults>>

\* A dispatcher dies, or a mark raises and ends run_forever; its locks stay.
Crash(d) ==
    /\ pc[d] # "idle" /\ Fault("crash")
    /\ batch' = [batch EXCEPT ![d] = {}] /\ pc' = [pc EXCEPT ![d] = "idle"]
    /\ UNCHANGED <<row, lockedBy, stale, stream, copies, acked>>

\* Time passes.
BecomeAvailable(r) ==
    /\ row[r] = "delayed"
    /\ row' = [row EXCEPT ![r] = "ready"]
    /\ UNCHANGED <<lockedBy, stale, batch, pc, stream, copies, acked, faults>>

LockExpires(r) ==
    /\ lockedBy[r] # Nobody /\ r \notin stale
    /\ r \notin batch[lockedBy[r]]
    /\ stale' = stale \cup {r}
    /\ UNCHANGED <<row, lockedBy, batch, pc, stream, copies, acked, faults>>

\* The holder is still at it, but slower than its lease.
LockOutlived(r) ==
    /\ lockedBy[r] # Nobody /\ r \notin stale
    /\ r \in batch[lockedBy[r]] /\ Fault("slow")
    /\ stale' = stale \cup {r}
    /\ UNCHANGED <<row, lockedBy, batch, pc, stream, copies, acked>>

\* Some consumer reads an entry and acknowledges it.
Consume ==
    /\ \E i \in 1..Len(stream) :
        stream[i] \notin acked /\ acked' = acked \cup {stream[i]}
    /\ UNCHANGED <<row, lockedBy, stale, batch, pc, stream, copies, faults>>

-----------------------------------------------------------------------------
Dispatch(d) == Publish(d) \/ MarkPublished(d) \/ MarkFailed(d)

Next ==
    \/ \E d \in Dispatchers :
        ClaimBatch(d) \/ Dispatch(d) \/ PublishRefused(d) \/ PublishReplyLost(d) \/ Crash(d)
    \/ \E r \in Rows :
        InsertOutbox(r) \/ BecomeAvailable(r) \/ LockExpires(r) \/ LockOutlived(r)
    \/ Consume

Spec == Init /\ [][Next]_vars

-----------------------------------------------------------------------------
(* Properties. *)

\* Columns and locals have their types, and a dispatcher at work has a row to work on.
TypeOK ==
    /\ row \in [Rows -> {"absent", "ready", "delayed", "published"}]
    /\ lockedBy \in [Rows -> Dispatchers \cup {Nobody}] /\ stale \subseteq Rows
    /\ batch \in [Dispatchers -> SUBSET Rows]
    /\ pc \in [Dispatchers -> {"idle", "publish", "mark", "fail"}]
    /\ \A d \in Dispatchers : pc[d] = "idle" <=> batch[d] = {}
    /\ stream \in Seq(Rows) /\ copies \in [Rows -> Nat]
    /\ acked \subseteq Rows /\ faults \in Nat

\* A row is marked published only after it was added to the stream, whichever
\* dispatchers took turns on it: nothing announced is dropped by the relay.
PublishedWasSent == \A r \in Rows : row[r] = "published" => copies[r] >= 1

\* A row is sent twice only because of a fault: a crash between XADD and the mark, a
\* lost reply, or a lock that expired under a slow dispatcher.
DuplicatesAreExplained == \A r \in Rows : copies[r] <= 1 + faults

-----------------------------------------------------------------------------
(* The inductive invariant behind the first three.  Every sending of a row is     *)
(* budgeted for: by a dispatcher that has claimed it and not sent it yet, or by a *)
(* lock that is free or will expire; only a fault creates more of these.          *)
Unsent(r) == {d \in Dispatchers : r \in batch[d] /\ ~(pc[d] = "mark" /\ r = First(d))}
Open(r) ==
    IF /\ row[r] # "published"
       /\ lockedBy[r] = Nobody \/ r \in stale \/ r \notin batch[lockedBy[r]]
    THEN 1 ELSE 0
Budgeted == \A r \in Rows : copies[r] + Cardinality(Unsent(r)) + Open(r) <= 1 + faults

MarksWhatWasSent == \A d \in Dispatchers : pc[d] = "mark" => copies[First(d)] >= 1

IndInv == TypeOK /\ PublishedWasSent /\ MarksWhatWasSent /\ Budgeted

-----------------------------------------------------------------------------
(* Liveness.  Dispatchers run and time passes; faults are never required.       *)
Fairness ==
    /\ \A d \in Dispatchers : WF_vars(ClaimBatch(d)) /\ WF_vars(Dispatch(d))
    /\ \A r \in Rows : WF_vars(BecomeAvailable(r)) /\ WF_vars(LockExpires(r))

FairSpec == Spec /\ Fairness

\* Every committed row is published in the end, despite crashes, refusals and locks that
\* dead dispatchers left behind.
EveryRowIsPublished == \A r \in Rows : row[r] = "ready" ~> row[r] = "published"
=============================================================================
