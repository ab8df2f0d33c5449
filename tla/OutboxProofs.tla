---------------------------- MODULE OutboxProofs ----------------------------
(***************************************************************************)
(* Proofs about Outbox, for any number of rows and dispatchers, any batch   *)
(* and stream length, and any number of faults: a row is marked published   *)
(* only after it was sent, and every duplicate is paid for by a fault.      *)
(***************************************************************************)
EXTENDS Outbox, FiniteSetTheorems, SequenceTheorems, WellFoundedInduction, TLAPS

-----------------------------------------------------------------------------
(* The order of a batch. *)

\* A set of row numbers has a least one.
LEMMA LeastElement ==
    ASSUME NEW T \in SUBSET Nat, T # {}
    PROVE  \E x \in T : \A y \in T : x <= y
<1>. DEFINE R == {p \in Nat \X Nat : p[1] < p[2]}
<1>1. OpToRel(<, Nat) = R BY Zenon DEF OpToRel
<1>2. IsWellFoundedOn(R, Nat) BY <1>1, NatLessThanWellFounded, Zenon
<1>3. PICK x \in T : \A y \in T : <<y, x>> \notin R BY <1>2, WFMin, Zenon
<1>4. ASSUME NEW y \in T PROVE x <= y
  <2>1. x \in Nat /\ y \in Nat OBVIOUS
  <2>2. <<y, x>> \notin R BY <1>3
  <2>3. ~(y < x) BY <2>1, <2>2
  <2>. QED BY <2>1, <2>3
<1>. QED BY <1>4

\* A dispatcher with a batch works on a row of it.
LEMMA FirstIsClaimed ==
    ASSUME TypeOK, NEW d \in Dispatchers, batch[d] # {}
    PROVE  First(d) \in batch[d] /\ First(d) \in Rows
<1>1. batch[d] \in SUBSET Nat BY RowsAssumption DEF TypeOK, Rows
<1>2. \E r \in batch[d] : \A q \in batch[d] : r <= q BY <1>1, LeastElement
<1>. QED BY <1>2 DEF First, TypeOK

\* Which row that is depends on the batch alone.
LEMMA FirstIsStable ==
    ASSUME NEW d, batch'[d] = batch[d]
    PROVE  First(d)' = First(d)
BY DEF First

-----------------------------------------------------------------------------
(* Types. *)

\* Adding an entry, trimmed or not, leaves a stream of rows and a count per row.
LEMMA StreamType ==
    ASSUME TypeOK, NEW r \in Rows, AddToStream(r)
    PROVE  stream' \in Seq(Rows) /\ copies' \in [Rows -> Nat]
<1>. DEFINE s == Append(stream, r)
<1>1. s \in Seq(Rows) BY AppendProperties DEF TypeOK
<1>2. PICK n \in 1..Len(s) : stream' = SubSeq(s, n, Len(s)) BY DEF AddToStream
<1>3. \A i \in n..Len(s) : s[i] \in Rows
    BY <1>1, ElementOfSeq
<1>4. stream' \in Seq(Rows)
  <2>1. Len(s) \in Int /\ n \in Int BY <1>1, LenProperties
  <2>. HIDE DEF s
  <2>2. SubSeq(s, n, Len(s)) \in Seq(Rows) BY <2>1, <1>3, SubSeqProperties
  <2>. QED BY <2>2, <1>2
<1>5. copies' = [copies EXCEPT ![r] = @ + 1] BY DEF AddToStream
<1>6. copies' \in [Rows -> Nat] BY <1>5 DEF TypeOK
<1>. QED BY <1>4, <1>6

\* Moving on to the next record of the batch keeps batch and pc in step.
LEMMA NextRecordType ==
    ASSUME TypeOK, NEW d \in Dispatchers, pc[d] # "idle", NextRecord(d)
    PROVE  /\ batch' \in [Dispatchers -> SUBSET Rows]
           /\ pc' \in [Dispatchers -> {"idle", "publish", "mark", "fail"}]
           /\ \A e \in Dispatchers : pc'[e] = "idle" <=> batch'[e] = {}
<1>1. First(d) \in batch[d] BY FirstIsClaimed DEF TypeOK
<1>. QED BY <1>1 DEF NextRecord, TypeOK

\* Settling a row, whether or not the lock is still held, keeps the columns' types.
LEMMA SettleType ==
    ASSUME TypeOK, NEW d \in Dispatchers, NEW s \in {"delayed", "published"}, Settle(d, s)
    PROVE  /\ row' \in [Rows -> {"absent", "ready", "delayed", "published"}]
           /\ lockedBy' \in [Rows -> Dispatchers \cup {Nobody}] /\ stale' \subseteq Rows
BY DEF Settle, TypeOK

\* A claim takes at least one row, only claimable ones, and locks exactly what it takes.
LEMMA ClaimTakes ==
    ASSUME TypeOK, NEW d \in Dispatchers, ClaimBatch(d)
    PROVE  /\ batch'[d] # {} /\ batch'[d] \subseteq Claimable
           /\ batch' = [batch EXCEPT ![d] = batch'[d]]
           /\ lockedBy' = [r \in Rows |-> IF r \in batch'[d] THEN d ELSE lockedBy[r]]
           /\ stale' = stale \ batch'[d]
<1>. DEFINE taken == {r \in Claimable : Cardinality({q \in Claimable : q < r}) < Limit}
<1>1. /\ batch' = [batch EXCEPT ![d] = taken]
      /\ lockedBy' = [r \in Rows |-> IF r \in taken THEN d ELSE lockedBy[r]]
      /\ stale' = stale \ taken
    BY DEF ClaimBatch
<1>2. batch'[d] = taken BY <1>1 DEF TypeOK
<1>3. Claimable \in SUBSET Nat /\ Claimable # {}
    BY RowsAssumption DEF Claimable, Rows, ClaimBatch
<1>4. PICK x \in Claimable : \A y \in Claimable : x <= y BY <1>3, LeastElement
<1>5. {q \in Claimable : q < x} = {}
  <2>1. ASSUME NEW q \in Claimable PROVE ~(q < x)
    <3>1. q \in Nat /\ x \in Nat /\ x <= q BY <1>3, <1>4
    <3>. QED BY <3>1
  <2>. QED BY <2>1
<1>6. Cardinality({q \in Claimable : q < x}) = 0 BY <1>5, FS_EmptySet, Zenon
<1>7. 0 < Limit BY RowsAssumption
<1>8. x \in taken BY <1>6, <1>7
<1>9. taken # {} /\ taken \subseteq Claimable BY <1>8
<1>. HIDE DEF taken
<1>. QED BY <1>1, <1>2, <1>9

\* Every step keeps the types.
LEMMA TypeStep == TypeOK /\ [Next]_vars => TypeOK'
<1>. SUFFICES ASSUME TypeOK, [Next]_vars PROVE TypeOK' OBVIOUS
<1>. USE RowsAssumption
<1>1. ASSUME NEW d \in Dispatchers, ClaimBatch(d) PROVE TypeOK'
  <2>1. Claimable \subseteq Rows BY DEF Claimable
  <2>2. batch'[d] # {} /\ batch'[d] \in SUBSET Rows BY <2>1, <1>1, ClaimTakes
  <2>3. batch' \in [Dispatchers -> SUBSET Rows] BY <2>2, <1>1, ClaimTakes DEF TypeOK
  <2>4. /\ pc' \in [Dispatchers -> {"idle", "publish", "mark", "fail"}]
        /\ \A e \in Dispatchers : pc'[e] = "idle" <=> batch'[e] = {}
      BY <2>2, <1>1, ClaimTakes DEF TypeOK, ClaimBatch
  <2>5. lockedBy' \in [Rows -> Dispatchers \cup {Nobody}] /\ stale' \subseteq Rows
      BY <1>1, ClaimTakes DEF TypeOK
  <2>. QED BY <2>3, <2>4, <2>5, <1>1 DEF TypeOK, ClaimBatch
<1>2. ASSUME NEW d \in Dispatchers, Publish(d) PROVE TypeOK'
  <2>1. First(d) \in Rows BY <1>2, FirstIsClaimed DEF Publish, TypeOK
  <2>2. stream' \in Seq(Rows) /\ copies' \in [Rows -> Nat] BY <2>1, <1>2, StreamType DEF Publish
  <2>. QED BY <2>2, <1>2 DEF TypeOK, Publish
<1>3. ASSUME NEW d \in Dispatchers, PublishRefused(d) PROVE TypeOK'
    BY <1>3 DEF TypeOK, PublishRefused, Fault
<1>4. ASSUME NEW d \in Dispatchers, PublishReplyLost(d) PROVE TypeOK'
  <2>1. First(d) \in Rows BY <1>4, FirstIsClaimed DEF PublishReplyLost, TypeOK
  <2>2. stream' \in Seq(Rows) /\ copies' \in [Rows -> Nat]
      BY <2>1, <1>4, StreamType DEF PublishReplyLost
  <2>. QED BY <2>2, <1>4 DEF TypeOK, PublishReplyLost, Fault
<1>5. ASSUME NEW d \in Dispatchers, MarkPublished(d) \/ MarkFailed(d) PROVE TypeOK'
  <2>1. pc[d] # "idle" /\ NextRecord(d) BY <1>5 DEF MarkPublished, MarkFailed
  <2>2. PICK s \in {"delayed", "published"} : Settle(d, s) BY <1>5 DEF MarkPublished, MarkFailed
  <2>3. UNCHANGED <<stream, copies, acked, faults>> BY <1>5 DEF MarkPublished, MarkFailed
  <2>. QED BY <2>1, <2>2, <2>3, NextRecordType, SettleType DEF TypeOK
<1>6. ASSUME NEW d \in Dispatchers, Crash(d) PROVE TypeOK'
    BY <1>6 DEF TypeOK, Crash, Fault
<1>7. ASSUME NEW r \in Rows,
             InsertOutbox(r) \/ BecomeAvailable(r) \/ LockExpires(r) \/ LockOutlived(r)
      PROVE  TypeOK'
  <2>1. CASE InsertOutbox(r) \/ BecomeAvailable(r)
      BY <2>1 DEF TypeOK, InsertOutbox, BecomeAvailable
  <2>2. CASE LockExpires(r) BY <2>2 DEF TypeOK, LockExpires
  <2>3. CASE LockOutlived(r) BY <2>3 DEF TypeOK, LockOutlived, Fault
  <2>. QED BY <1>7, <2>1, <2>2, <2>3
<1>8. ASSUME Consume PROVE TypeOK'
  <2>1. PICK i \in 1..Len(stream) : acked' = acked \cup {stream[i]} BY <1>8 DEF Consume
  <2>2. stream[i] \in Rows BY ElementOfSeq DEF TypeOK
  <2>. QED BY <2>1, <2>2, <1>8 DEF TypeOK, Consume
<1>9. CASE UNCHANGED vars BY <1>9 DEF TypeOK, vars
<1>. QED BY <1>1, <1>2, <1>3, <1>4, <1>5, <1>6, <1>7, <1>8, <1>9 DEF Next, Dispatch

-----------------------------------------------------------------------------
(* Only what was sent is marked. *)

\* copies never decrease.
LEMMA CopiesGrow ==
    ASSUME TypeOK, [Next]_vars
    PROVE  \A r \in Rows : copies'[r] \in Nat /\ copies[r] \in Nat /\ copies'[r] >= copies[r]
<1>1. TypeOK' BY TypeStep
<1>2. ASSUME NEW q \in Rows, AddToStream(q) PROVE \A r \in Rows : copies'[r] >= copies[r]
    BY <1>2 DEF AddToStream, TypeOK
<1>3. ASSUME NEW d \in Dispatchers, Publish(d) \/ PublishReplyLost(d)
      PROVE \A r \in Rows : copies'[r] >= copies[r]
  <2>1. First(d) \in Rows BY <1>3, FirstIsClaimed DEF Publish, PublishReplyLost, TypeOK
  <2>. QED BY <1>2, <1>3, <2>1 DEF Publish, PublishReplyLost
<1>4. copies' = copies \/ \E d \in Dispatchers : Publish(d) \/ PublishReplyLost(d)
    BY DEF Next, Dispatch, vars, ClaimBatch, PublishRefused, MarkPublished, MarkFailed, Crash,
           InsertOutbox, BecomeAvailable, LockExpires, LockOutlived, Consume
<1>5. \A r \in Rows : copies[r] \in Nat /\ copies'[r] \in Nat BY <1>1 DEF TypeOK
<1>. QED BY <1>3, <1>4, <1>5

\* Every step keeps the two facts about what was sent.
LEMMA SentStep ==
    ASSUME TypeOK, PublishedWasSent, MarksWhatWasSent, [Next]_vars
    PROVE  PublishedWasSent' /\ MarksWhatWasSent'
<1>. USE CopiesGrow
<1>a. TypeOK' BY TypeStep
\* A dispatcher that does not move still marks a row it sent.
<1>b. ASSUME NEW e \in Dispatchers, pc'[e] = pc[e], batch'[e] = batch[e]
      PROVE  pc'[e] = "mark" => copies'[First(e)'] >= 1
  <2>1. SUFFICES ASSUME pc[e] = "mark" PROVE copies'[First(e)] >= 1 BY <1>b, FirstIsStable
  <2>2. First(e) \in Rows BY <2>1, FirstIsClaimed DEF TypeOK
  <2>3. copies[First(e)] >= 1 BY <2>1 DEF MarksWhatWasSent
  <2>. QED BY <2>2, <2>3
\* A row that is not marked by this step was sent before.
<1>c. ASSUME NEW r \in Rows, row[r] = "published" PROVE copies'[r] >= 1
    BY <1>c DEF PublishedWasSent
<1>1. ASSUME NEW d \in Dispatchers, Publish(d) PROVE PublishedWasSent' /\ MarksWhatWasSent'
  <2>1. First(d) \in Rows BY <1>1, FirstIsClaimed DEF Publish, TypeOK
  <2>2. copies'[First(d)] >= 1 BY <1>1, <2>1 DEF Publish, AddToStream, TypeOK
  <2>3. First(d)' = First(d) BY <1>1, FirstIsStable DEF Publish
  <2>4. \A e \in Dispatchers \ {d} : pc'[e] = pc[e] /\ batch'[e] = batch[e]
      BY <1>1 DEF Publish, TypeOK
  <2>5. MarksWhatWasSent' BY <2>2, <2>3, <2>4, <1>b DEF MarksWhatWasSent
  <2>. QED BY <2>5, <1>1, <1>c DEF Publish, PublishedWasSent
<1>2. ASSUME NEW d \in Dispatchers, MarkPublished(d) PROVE PublishedWasSent' /\ MarksWhatWasSent'
  <2>1. \A e \in Dispatchers \ {d} : pc'[e] = pc[e] /\ batch'[e] = batch[e]
      BY <1>2 DEF MarkPublished, NextRecord, TypeOK
  <2>2. pc'[d] # "mark" BY <1>2 DEF MarkPublished, NextRecord, TypeOK
  <2>3. MarksWhatWasSent' BY <2>1, <2>2, <1>b DEF MarksWhatWasSent
  <2>4. First(d) \in Rows /\ copies[First(d)] >= 1
      BY <1>2, FirstIsClaimed DEF MarkPublished, MarksWhatWasSent, TypeOK
  <2>5. \A r \in Rows : row'[r] = "published" => row[r] = "published" \/ r = First(d)
      BY <1>2 DEF MarkPublished, Settle, TypeOK
  <2>. QED BY <2>3, <2>4, <2>5, <1>c DEF PublishedWasSent
<1>3. ASSUME NEW d \in Dispatchers, MarkFailed(d) PROVE PublishedWasSent' /\ MarksWhatWasSent'
  <2>1. \A e \in Dispatchers \ {d} : pc'[e] = pc[e] /\ batch'[e] = batch[e]
      BY <1>3 DEF MarkFailed, NextRecord, TypeOK
  <2>2. pc'[d] # "mark" BY <1>3 DEF MarkFailed, NextRecord, TypeOK
  <2>3. MarksWhatWasSent' BY <2>1, <2>2, <1>b DEF MarksWhatWasSent
  <2>4. \A r \in Rows : row'[r] = "published" => row[r] = "published"
      BY <1>3 DEF MarkFailed, Settle, TypeOK
  <2>. QED BY <2>3, <2>4, <1>c DEF PublishedWasSent
<1>4. ASSUME NEW d \in Dispatchers,
             ClaimBatch(d) \/ PublishRefused(d) \/ PublishReplyLost(d) \/ Crash(d)
      PROVE  PublishedWasSent' /\ MarksWhatWasSent'
  <2>1. \A e \in Dispatchers \ {d} : pc'[e] = pc[e] /\ batch'[e] = batch[e]
      BY <1>4 DEF ClaimBatch, PublishRefused, PublishReplyLost, Crash, TypeOK
  <2>2. pc'[d] # "mark" BY <1>4 DEF ClaimBatch, PublishRefused, PublishReplyLost, Crash, TypeOK
  <2>3. MarksWhatWasSent' BY <2>1, <2>2, <1>b DEF MarksWhatWasSent
  <2>4. row' = row BY <1>4 DEF ClaimBatch, PublishRefused, PublishReplyLost, Crash
  <2>. QED BY <2>3, <2>4, <1>c DEF PublishedWasSent
<1>5. ASSUME \/ \E r \in Rows :
                  InsertOutbox(r) \/ BecomeAvailable(r) \/ LockExpires(r) \/ LockOutlived(r)
             \/ Consume \/ UNCHANGED vars
      PROVE  PublishedWasSent' /\ MarksWhatWasSent'
  <2>1. pc' = pc /\ batch' = batch
      BY <1>5 DEF InsertOutbox, BecomeAvailable, LockExpires, LockOutlived, Consume, vars
  <2>2. \A r \in Rows : row'[r] = "published" => row[r] = "published"
      BY <1>5 DEF InsertOutbox, BecomeAvailable, LockExpires, LockOutlived, Consume, vars, TypeOK
  <2>3. MarksWhatWasSent' BY <2>1, <1>b DEF MarksWhatWasSent
  <2>. QED BY <2>2, <2>3, <1>c DEF PublishedWasSent
<1>. QED BY <1>1, <1>2, <1>3, <1>4, <1>5 DEF Next, Dispatch

-----------------------------------------------------------------------------
(* Every sending is budgeted for. *)

\* Only finitely many dispatchers can still send a row.
LEMMA UnsentIsFinite ==
    ASSUME NEW r
    PROVE  IsFiniteSet(Unsent(r)) /\ Cardinality(Unsent(r)) \in Nat
<1>1. Unsent(r) \in SUBSET Dispatchers BY DEF Unsent
<1>. QED BY <1>1, FS_Subset, FS_CardinalityType, RowsAssumption

\* A dispatcher that does not move is counted as before.
LEMMA UnsentIsStable ==
    ASSUME NEW r, NEW e \in Dispatchers, pc'[e] = pc[e], batch'[e] = batch[e]
    PROVE  e \in Unsent(r)' <=> e \in Unsent(r)
BY FirstIsStable DEF Unsent

\* A row counts once at most as open to another claim.
LEMMA OpenIsBit == \A r : Open(r) \in {0, 1} /\ Open(r)' \in {0, 1}
BY DEF Open

\* Nobody moves: the count is the same.
LEMMA UnsentIsKept ==
    ASSUME NEW r, pc' = pc, batch' = batch
    PROVE  Unsent(r)' = Unsent(r)
<1>1. \A e \in Dispatchers : e \in Unsent(r)' <=> e \in Unsent(r) BY UnsentIsStable
<1>. QED BY <1>1 DEF Unsent

\* Only d moves.
LEMMA UnsentChanges ==
    ASSUME NEW r, NEW d \in Dispatchers,
           \A e \in Dispatchers \ {d} : pc'[e] = pc[e] /\ batch'[e] = batch[e]
    PROVE  /\ (d \in Unsent(r)' <=> d \in Unsent(r)) => Unsent(r)' = Unsent(r)
           /\ d \in Unsent(r)' => Unsent(r)' = Unsent(r) \cup {d}
           /\ d \notin Unsent(r)' => Unsent(r)' = Unsent(r) \ {d}
<1>1. \A e \in Dispatchers \ {d} : e \in Unsent(r)' <=> e \in Unsent(r) BY UnsentIsStable
<1>2. Unsent(r) \subseteq Dispatchers /\ Unsent(r)' \subseteq Dispatchers BY DEF Unsent
<1>. QED BY <1>1, <1>2

\* Only d moves: the number changes by one at most.
LEMMA UnsentCount ==
    ASSUME NEW r, NEW d \in Dispatchers,
           \A e \in Dispatchers \ {d} : pc'[e] = pc[e] /\ batch'[e] = batch[e]
    PROVE  /\ Cardinality(Unsent(r)) \in Nat /\ Cardinality(Unsent(r)') \in Nat
           /\ (d \in Unsent(r)' <=> d \in Unsent(r))
                => Cardinality(Unsent(r)') = Cardinality(Unsent(r))
           /\ d \in Unsent(r)' /\ d \notin Unsent(r)
                => Cardinality(Unsent(r)') = Cardinality(Unsent(r)) + 1
           /\ d \notin Unsent(r)' /\ d \in Unsent(r)
                => Cardinality(Unsent(r)') = Cardinality(Unsent(r)) - 1
<1>1. IsFiniteSet(Unsent(r)) /\ Cardinality(Unsent(r)) \in Nat BY UnsentIsFinite
<1>2. (d \in Unsent(r)' <=> d \in Unsent(r)) => Cardinality(Unsent(r)') = Cardinality(Unsent(r))
    BY UnsentChanges
<1>3. d \in Unsent(r)' /\ d \notin Unsent(r)
        => Cardinality(Unsent(r)') = Cardinality(Unsent(r)) + 1
    BY <1>1, UnsentChanges, FS_AddElement
<1>4. d \notin Unsent(r)' /\ d \in Unsent(r)
        => Cardinality(Unsent(r)') = Cardinality(Unsent(r)) - 1
    BY <1>1, UnsentChanges, FS_RemoveElement
<1>5. Cardinality(Unsent(r)') \in Nat
  <2>1. Unsent(r)' \in SUBSET Dispatchers BY DEF Unsent
  <2>. QED BY <2>1, FS_Subset, FS_CardinalityType, RowsAssumption
<1>. QED BY <1>1, <1>2, <1>3, <1>4, <1>5

\* Only d moves, and not on r: whoever holds the lock on r goes on working on it, or not.
LEMMA HolderIsStable ==
    ASSUME TypeOK, NEW r \in Rows, NEW d \in Dispatchers,
           \A e \in Dispatchers \ {d} : batch'[e] = batch[e],
           lockedBy[r] = d => (r \in batch'[d] <=> r \in batch[d]),
           row'[r] = row[r], lockedBy'[r] = lockedBy[r], r \in stale' <=> r \in stale
    PROVE  Open(r)' = Open(r)
<1>1. lockedBy[r] \in Dispatchers \cup {Nobody} BY DEF TypeOK
<1>2. lockedBy[r] # Nobody => (r \in batch'[lockedBy[r]] <=> r \in batch[lockedBy[r]])
  <2>1. CASE lockedBy[r] = d BY <2>1
  <2>2. CASE lockedBy[r] # d BY <2>2, <1>1
  <2>. QED BY <2>1, <2>2
<1>. QED BY <1>2 DEF Open

\* Every step keeps the budget: a sending uses up a claim, a new claim needs a fault.
LEMMA BudgetStep ==
    ASSUME TypeOK, Budgeted, [Next]_vars
    PROVE  Budgeted'
<1>a. TypeOK' BY TypeStep
<1>. SUFFICES ASSUME NEW r \in Rows
              PROVE  copies'[r] + Cardinality(Unsent(r)') + Open(r)' <= 1 + faults'
    BY DEF Budgeted
<1>. DEFINE n == Cardinality(Unsent(r))
            m == Cardinality(Unsent(r)')
<1>b. copies[r] + n + Open(r) <= 1 + faults BY DEF Budgeted
<1>c. /\ copies[r] \in Nat /\ copies'[r] \in Nat /\ faults \in Nat /\ faults' \in Nat
      /\ Open(r) \in 0..1 /\ Open(r)' \in 0..1
    BY <1>a, OpenIsBit DEF TypeOK
<1>d. n \in Nat BY UnsentIsFinite
<1>1. ASSUME NEW d \in Dispatchers, ClaimBatch(d)
      PROVE  copies'[r] + m + Open(r)' <= 1 + faults'
  <2>1. /\ \A e \in Dispatchers \ {d} : pc'[e] = pc[e] /\ batch'[e] = batch[e]
        /\ pc'[d] = "publish" /\ batch[d] = {} /\ copies' = copies /\ faults' = faults /\ row' = row
      BY <1>1 DEF ClaimBatch, TypeOK
  <2>2. /\ batch'[d] \subseteq Claimable
        /\ lockedBy' = [q \in Rows |-> IF q \in batch'[d] THEN d ELSE lockedBy[q]]
        /\ stale' = stale \ batch'[d]
      BY <1>1, ClaimTakes
  <2>3. d \notin Unsent(r) BY <2>1 DEF Unsent
  <2>4. CASE r \in batch'[d]
    <3>1. d \in Unsent(r)' BY <2>4, <2>1 DEF Unsent
    <3>2. m = n + 1 BY <2>1, <2>3, <3>1, UnsentCount
    <3>3. Open(r) = 1 BY <2>2, <2>4 DEF Claimable, Open
    <3>4. Open(r)' = 0 BY <2>2, <2>4, RowsAssumption DEF Open
    <3>. HIDE DEF m, n
    <3>. QED BY <3>2, <3>3, <3>4, <2>1, <1>b, <1>c, <1>d
  <2>5. CASE r \notin batch'[d]
    <3>1. d \notin Unsent(r)' BY <2>5 DEF Unsent
    <3>2. m = n BY <2>1, <2>3, <3>1, UnsentCount
    <3>3. lockedBy'[r] = lockedBy[r] /\ (r \in stale' <=> r \in stale) BY <2>2, <2>5
    <3>4. Open(r)' = Open(r) BY <3>3, <2>1, <2>5, HolderIsStable
    <3>. HIDE DEF m, n
    <3>. QED BY <3>2, <3>4, <2>1, <1>b, <1>c, <1>d
  <2>. QED BY <2>4, <2>5
<1>2. ASSUME NEW d \in Dispatchers, Publish(d)
      PROVE  copies'[r] + m + Open(r)' <= 1 + faults'
  <2>1. /\ \A e \in Dispatchers \ {d} : pc'[e] = pc[e] /\ batch'[e] = batch[e]
        /\ pc[d] = "publish" /\ pc'[d] = "mark" /\ batch' = batch
        /\ faults' = faults /\ UNCHANGED <<row, lockedBy, stale>>
      BY <1>2 DEF Publish, TypeOK
  <2>2. First(d) \in Rows /\ First(d) \in batch[d] BY <1>2, FirstIsClaimed DEF Publish, TypeOK
  <2>3. First(d)' = First(d) BY <2>1, FirstIsStable
  <2>4. Open(r)' = Open(r) BY <2>1 DEF Open
  <2>5. CASE r = First(d)
    <3>1. d \in Unsent(r) BY <2>1, <2>2, <2>5 DEF Unsent
    <3>2. d \notin Unsent(r)' BY <2>1, <2>3, <2>5 DEF Unsent
    <3>3. m = n - 1 BY <2>1, <3>1, <3>2, UnsentCount
    <3>4. copies'[r] = copies[r] + 1 BY <1>2, <2>5 DEF Publish, AddToStream, TypeOK
    <3>. HIDE DEF m, n
    <3>. QED BY <3>3, <3>4, <2>4, <2>1, <1>b, <1>c, <1>d
  <2>6. CASE r # First(d)
    <3>1. d \in Unsent(r) <=> d \in Unsent(r)' BY <2>1, <2>3, <2>6 DEF Unsent
    <3>2. m = n BY <2>1, <3>1, UnsentCount
    <3>3. copies'[r] = copies[r] BY <1>2, <2>2, <2>6 DEF Publish, AddToStream, TypeOK
    <3>. HIDE DEF m, n
    <3>. QED BY <3>2, <3>3, <2>4, <2>1, <1>b, <1>c, <1>d
  <2>. QED BY <2>5, <2>6
<1>3. ASSUME NEW d \in Dispatchers, PublishRefused(d) \/ PublishReplyLost(d)
      PROVE  copies'[r] + m + Open(r)' <= 1 + faults'
  <2>1. /\ \A e \in Dispatchers \ {d} : pc'[e] = pc[e] /\ batch'[e] = batch[e]
        /\ pc[d] = "publish" /\ pc'[d] = "fail" /\ batch' = batch
        /\ faults' = faults + 1 /\ UNCHANGED <<row, lockedBy, stale>>
      BY <1>3 DEF PublishRefused, PublishReplyLost, Fault, TypeOK
  <2>2. Open(r)' = Open(r) BY <2>1 DEF Open
  <2>3. d \in Unsent(r) <=> d \in Unsent(r)' BY <2>1 DEF Unsent
  <2>4. m = n BY <2>1, <2>3, UnsentCount
  <2>5. copies'[r] = copies[r] \/ copies'[r] = copies[r] + 1
    <3>1. CASE PublishRefused(d) BY <3>1 DEF PublishRefused
    <3>2. CASE PublishReplyLost(d)
      <4>1. copies' = [copies EXCEPT ![First(d)] = @ + 1]
          BY <3>2 DEF PublishReplyLost, AddToStream
      <4>. QED BY <4>1 DEF TypeOK
    <3>. QED BY <1>3, <3>1, <3>2
  <2>. HIDE DEF m, n
  <2>. QED BY <2>1, <2>2, <2>4, <2>5, <1>b, <1>c, <1>d
<1>4. ASSUME NEW d \in Dispatchers, MarkPublished(d)
      PROVE  copies'[r] + m + Open(r)' <= 1 + faults'
  <2>1. /\ \A e \in Dispatchers \ {d} : pc'[e] = pc[e] /\ batch'[e] = batch[e]
        /\ pc[d] = "mark" /\ pc'[d] # "mark" /\ batch'[d] = batch[d] \ {First(d)}
        /\ copies' = copies /\ faults' = faults
      BY <1>4 DEF MarkPublished, NextRecord, TypeOK
  <2>2. d \in Unsent(r) <=> d \in Unsent(r)' BY <2>1 DEF Unsent
  <2>3. m = n BY <2>1, <2>2, UnsentCount
  <2>4. Open(r)' <= Open(r)
    <3>1. CASE r = First(d) /\ lockedBy[r] = d
      <4>1. row'[r] = "published" BY <3>1, <1>4 DEF MarkPublished, Settle, TypeOK
      <4>2. Open(r)' = 0 BY <4>1 DEF Open
      <4>. QED BY <4>2, <1>c
    <3>2. CASE ~(r = First(d) /\ lockedBy[r] = d)
      <4>1. row'[r] = row[r] /\ lockedBy'[r] = lockedBy[r] /\ (r \in stale' <=> r \in stale)
          BY <3>2, <1>4 DEF MarkPublished, Settle, TypeOK
      <4>2. Open(r)' = Open(r) BY <4>1, <3>2, <2>1, HolderIsStable
      <4>. QED BY <4>2, <1>c
    <3>. QED BY <3>1, <3>2
  <2>. HIDE DEF m, n
  <2>. QED BY <2>1, <2>3, <2>4, <1>b, <1>c, <1>d
<1>5. ASSUME NEW d \in Dispatchers, MarkFailed(d)
      PROVE  copies'[r] + m + Open(r)' <= 1 + faults'
  <2>1. /\ \A e \in Dispatchers \ {d} : pc'[e] = pc[e] /\ batch'[e] = batch[e]
        /\ pc[d] = "fail" /\ pc'[d] # "mark" /\ batch'[d] = batch[d] \ {First(d)}
        /\ copies' = copies /\ faults' = faults
      BY <1>5 DEF MarkFailed, NextRecord, TypeOK
  <2>2. First(d) \in batch[d] BY <2>1, FirstIsClaimed DEF TypeOK
  <2>3. CASE r = First(d)
    <3>1. d \in Unsent(r) /\ d \notin Unsent(r)' BY <2>1, <2>2, <2>3 DEF Unsent
    <3>2. m = n - 1 BY <2>1, <3>1, UnsentCount
    <3>. HIDE DEF m, n
    <3>. QED BY <3>2, <2>1, <1>b, <1>c, <1>d
  <2>4. CASE r # First(d)
    <3>1. d \in Unsent(r) <=> d \in Unsent(r)' BY <2>1, <2>4 DEF Unsent
    <3>2. m = n BY <2>1, <3>1, UnsentCount
    <3>3. row'[r] = row[r] /\ lockedBy'[r] = lockedBy[r] /\ (r \in stale' <=> r \in stale)
        BY <2>4, <1>5 DEF MarkFailed, Settle, TypeOK
    <3>4. Open(r)' = Open(r) BY <3>3, <2>1, <2>4, HolderIsStable
    <3>. HIDE DEF m, n
    <3>. QED BY <3>2, <3>4, <2>1, <1>b, <1>c, <1>d
  <2>. QED BY <2>3, <2>4
<1>6. ASSUME NEW d \in Dispatchers, Crash(d)
      PROVE  copies'[r] + m + Open(r)' <= 1 + faults'
  <2>1. /\ \A e \in Dispatchers \ {d} : pc'[e] = pc[e] /\ batch'[e] = batch[e]
        /\ batch'[d] = {} /\ copies' = copies /\ faults' = faults + 1
      BY <1>6 DEF Crash, Fault, TypeOK
  <2>2. d \notin Unsent(r)' BY <2>1 DEF Unsent
  <2>3. m = n \/ m = n - 1 BY <2>1, <2>2, UnsentCount
  <2>. HIDE DEF m, n
  <2>. QED BY <2>1, <2>3, <1>b, <1>c, <1>d
<1>7. ASSUME pc' = pc, batch' = batch, copies' = copies, faults' = faults, Open(r)' = Open(r)
      PROVE  copies'[r] + m + Open(r)' <= 1 + faults'
    BY <1>7, <1>b, UnsentIsKept
<1>8. ASSUME NEW q \in Rows, InsertOutbox(q) \/ BecomeAvailable(q)
      PROVE  copies'[r] + m + Open(r)' <= 1 + faults'
  <2>1. UNCHANGED <<pc, batch, copies, faults, lockedBy, stale>>
      BY <1>8 DEF InsertOutbox, BecomeAvailable
  <2>2. row'[r] = "published" <=> row[r] = "published"
      BY <1>8 DEF InsertOutbox, BecomeAvailable, TypeOK
  <2>3. Open(r)' = Open(r) BY <2>1, <2>2 DEF Open
  <2>. QED BY <2>1, <2>3, <1>7
<1>9. ASSUME NEW q \in Rows, LockExpires(q)
      PROVE  copies'[r] + m + Open(r)' <= 1 + faults'
  <2>1. UNCHANGED <<pc, batch, copies, faults, lockedBy, row>> BY <1>9 DEF LockExpires
  <2>2. q \notin batch[lockedBy[q]] /\ stale' = stale \cup {q} BY <1>9 DEF LockExpires
  <2>3. Open(r)' = Open(r) BY <2>1, <2>2 DEF Open
  <2>. QED BY <2>1, <2>3, <1>7
<1>10. ASSUME NEW q \in Rows, LockOutlived(q)
       PROVE  copies'[r] + m + Open(r)' <= 1 + faults'
  <2>1. UNCHANGED <<pc, batch, copies>> /\ faults' = faults + 1 BY <1>10 DEF LockOutlived, Fault
  <2>2. m = n BY <2>1, UnsentIsKept
  <2>. HIDE DEF m, n
  <2>. QED BY <2>1, <2>2, <1>b, <1>c, <1>d
<1>11. ASSUME Consume \/ UNCHANGED vars
       PROVE  copies'[r] + m + Open(r)' <= 1 + faults'
  <2>1. UNCHANGED <<pc, batch, copies, faults, row, lockedBy, stale>> BY <1>11 DEF Consume, vars
  <2>2. Open(r)' = Open(r) BY <2>1 DEF Open
  <2>. QED BY <2>1, <2>2, <1>7
<1>. HIDE DEF m, n
<1>. QED BY <1>1, <1>2, <1>3, <1>4, <1>5, <1>6, <1>8, <1>9, <1>10, <1>11 DEF Next, Dispatch, m

-----------------------------------------------------------------------------
\* Nothing was inserted, claimed or sent yet.
LEMMA Initially == Init => IndInv
<1>. SUFFICES ASSUME Init PROVE IndInv OBVIOUS
<1>1. stream \in Seq(Rows) BY EmptySeq DEF Init
<1>2. TypeOK BY <1>1 DEF Init, TypeOK
<1>3. PublishedWasSent /\ MarksWhatWasSent BY DEF Init, PublishedWasSent, MarksWhatWasSent
<1>4. ASSUME NEW r \in Rows PROVE copies[r] + Cardinality(Unsent(r)) + Open(r) <= 1 + faults
  <2>1. Unsent(r) = {} BY DEF Init, Unsent
  <2>2. Cardinality(Unsent(r)) = 0 BY <2>1, FS_EmptySet, Zenon
  <2>3. copies[r] = 0 /\ faults = 0 BY DEF Init
  <2>4. Open(r) \in 0..1 BY OpenIsBit
  <2>. QED BY <2>2, <2>3, <2>4
<1>. QED BY <1>2, <1>3, <1>4 DEF IndInv, Budgeted

\* The inductive invariant holds in every reachable state.
THEOREM Invariance == Spec => []IndInv
<1>1. IndInv /\ [Next]_vars => IndInv'
    BY TypeStep, SentStep, BudgetStep DEF IndInv
<1>. QED BY Initially, <1>1, PTL DEF Spec

\* Columns and locals keep their types, and a dispatcher at work has a row to work on.
THEOREM TypeCorrect == Spec => []TypeOK
<1>1. IndInv => TypeOK BY DEF IndInv
<1>. QED BY <1>1, Invariance, PTL

\* mark_published only ever settles a row whose entry some dispatcher added.
THEOREM NothingMarkedUnsent == Spec => []PublishedWasSent
<1>1. IndInv => PublishedWasSent BY DEF IndInv
<1>. QED BY <1>1, Invariance, PTL

\* With locks, expiry and several dispatchers, no more duplicates than faults.
THEOREM DuplicatesAreBudgeted == Spec => []DuplicatesAreExplained
<1>1. ASSUME IndInv, NEW r \in Rows PROVE copies[r] <= 1 + faults
  <2>1. copies[r] + Cardinality(Unsent(r)) + Open(r) <= 1 + faults BY <1>1 DEF IndInv, Budgeted
  <2>2. copies[r] \in Nat /\ faults \in Nat BY <1>1 DEF IndInv, TypeOK
  <2>3. Cardinality(Unsent(r)) \in Nat /\ Open(r) \in 0..1 BY UnsentIsFinite, OpenIsBit
  <2>. QED BY <2>1, <2>2, <2>3
<1>2. IndInv => DuplicatesAreExplained BY <1>1 DEF DuplicatesAreExplained
<1>. QED BY <1>2, Invariance, PTL
=============================================================================
