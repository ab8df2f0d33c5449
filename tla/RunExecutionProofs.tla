------------------------- MODULE RunExecutionProofs -------------------------
(***************************************************************************)
(* Proofs about RunExecution, for any number of workers, cancel requests,   *)
(* artifacts, progress reports and faults.                                  *)
(*                                                                          *)
(* TypeOK is inductive by itself.  The other invariants are not: IndInv adds *)
(* what a worker's place says about the row it has read (ReadsAreCurrent,   *)
(* ProgressInv), who may still move the version (HolderIsCurrent), which    *)
(* artifacts are there (SavedInv, PublishInv) and where a cancel request is *)
(* (CallerInv).  Each conjunct has a lemma that one step preserves it.      *)
(* KeptInv, on top of it, is what RunHasDispatch needs.                     *)
(***************************************************************************)
EXTENDS RunExecution, TLAPS

-----------------------------------------------------------------------------
(* Types. *)

\* A move of one worker to a place where it saves nothing.
LEMMA GotoTypes ==
    ASSUME TypeOK, NEW w \in Workers, NEW l \in Executing \cup Outside, l # "save",
           Goto(w, l), UNCHANGED <<seen, item, reports, outcome>>
    PROVE  PlaceTypeOK'
BY DEF TypeOK, WorkerTypeOK, PlaceTypeOK, Goto

\* A read that leads to place l.
LEMMA ReadTypes ==
    ASSUME TypeOK, NEW w \in Workers, NEW l \in Executing \cup Outside,
           l = "save" => item[w] <= NItems, Read(w, l)
    PROVE  PlaceTypeOK'
BY DEF TypeOK, RunTypeOK, RowTypeOK, WorkerTypeOK, PlaceTypeOK, Read, Goto, Keep

\* An exception that leads to one of the handlers of _execute.
LEMMA RaiseTypes ==
    ASSUME TypeOK, NEW w \in Workers, NEW l \in Handlers, Raise(w, l)
    PROVE  PlaceTypeOK'
BY ItemsAssumption
DEF TypeOK, WorkerTypeOK, PlaceTypeOK, Raise, Goto, Executing, Handlers

\* _execute is over.
LEMMA LeaveTypes ==
    ASSUME TypeOK, NEW w \in Workers, NEW how \in {"returned", "raised"}, Leave(w, how)
    PROVE  PlaceTypeOK'
BY ItemsAssumption DEF TypeOK, WorkerTypeOK, PlaceTypeOK, Leave, Goto, Outside

\* process_entry is over, or its process is.
LEMMA ForgetTypes ==
    ASSUME TypeOK, NEW w \in Workers, Forget(w)
    PROVE  WorkerTypeOK'
BY ItemsAssumption DEF TypeOK, WorkerTypeOK, PlaceTypeOK, Forget, Outside, NoEntry

\* mutate_run leaves a well-typed row, whatever the new state.
LEMMA MutateTypes ==
    ASSUME TypeOK, NEW s \in Lifecycle, MutateRun(s), UNCHANGED attempt
    PROVE  RowTypeOK'
BY DEF TypeOK, RunTypeOK, RowTypeOK, MutateRun

\* A fenced transition, accepted or refused, leaves row and worker well-typed.
LEMMA FencedTypes ==
    ASSUME TypeOK, NEW w \in Workers, NEW s \in Lifecycle,
           NEW l \in {"input", "exec", "complete", "block", "return"},
           FencedTransition(w, s, l), UNCHANGED attempt
    PROVE  RowTypeOK' /\ PlaceTypeOK' /\ writer' \in Nat
<1>1. CASE LeaseHeld(w) /\ seen[w] = version
  <2>1. RowTypeOK' BY <1>1, MutateTypes DEF FencedTransition
  <2>2. writer' \in Nat BY <1>1 DEF FencedTransition, TypeOK, WorkerTypeOK
  <2>3. CASE l = "return" BY <1>1, <2>1, <2>2, <2>3, LeaveTypes DEF FencedTransition
  <2>4. CASE l # "return"
    <3>1. l \in Executing BY <2>4 DEF Executing, Body
    <3>2. PlaceTypeOK'
      BY <1>1, <2>4, <3>1
      DEF FencedTransition, TypeOK, RunTypeOK, RowTypeOK, WorkerTypeOK, PlaceTypeOK, Goto, Keep
    <3> QED BY <2>1, <2>2, <3>2
  <2> QED BY <2>3, <2>4
<1>2. CASE ~(LeaseHeld(w) /\ seen[w] = version)
  <2>1. RowTypeOK' /\ writer' \in Nat
    BY <1>2 DEF FencedTransition, TypeOK, RunTypeOK, RowTypeOK
  <2>2. "conflict" \in Handlers BY DEF Handlers
  <2> QED BY <1>2, <2>1, <2>2, RaiseTypes, LeaveTypes DEF FencedTransition
<1> QED BY <1>1, <1>2

\* A CancelledError, wherever it strikes.
LEMMA InterruptTypes ==
    ASSUME TypeOK, NEW w \in Workers, Interrupt(w)
    PROVE  PlaceTypeOK'
<1>1. "cancelled" \in Handlers BY DEF Handlers
<1> QED BY <1>1, RaiseTypes, LeaveTypes DEF Interrupt, TypeOK, WorkerTypeOK, PlaceTypeOK

\* A move of one cancel request.
LEMMA CallerTypes ==
    ASSUME TypeOK, NEW c \in Callers, NEW v \in Nat,
           NEW l \in {"idle", "request", "propagate", "fincancel", "cancelwrite"},
           CGoto(c, l, v)
    PROVE  /\ cpc' \in [Callers -> {"idle", "request", "propagate", "fincancel", "cancelwrite"}]
           /\ cseen' \in [Callers -> Nat]
BY DEF TypeOK, CGoto

\* Every step keeps the types.
LEMMA TypeStep == TypeOK /\ [Next]_vars => TypeOK'
<1> SUFFICES ASSUME TypeOK, [Next]_vars PROVE TypeOK'
  OBVIOUS
<1> USE ItemsAssumption DEF TypeOK, RunTypeOK, RowTypeOK, QueueTypeOK, WorkerTypeOK, 
        runVars, queueVars, workerVars, callerVars
<1>1. ASSUME NEW w \in Workers,
             Deliver(w) \/ HandleEntry(w) \/ Execute(w) \/ HandleException(w)
                \/ HeartbeatFindsLeaseLost(w) \/ Disturb(w)
      PROVE  TypeOK'
  <2>1. CASE Deliver(w)
    BY <2>1 DEF Deliver, PlaceTypeOK, Goto, Executing, Outside, Body, Handlers
  <2>2. CASE ReadBeforeClaim(w)
    <3>1. PlaceTypeOK' BY <2>2, GotoTypes DEF ReadBeforeClaim, Outside
    <3>2. entry[w].cv \in Nat OBVIOUS
    <3>3. deadLettered' \in SUBSET Nat
      <4>1. CASE version < entry[w].cv BY <2>2, <3>2, <4>1 DEF ReadBeforeClaim
      <4>2. CASE ~(version < entry[w].cv) BY <2>2, <4>2 DEF ReadBeforeClaim
      <4> QED BY <4>1, <4>2
    <3> QED BY <2>2, <3>1, <3>3 DEF ReadBeforeClaim
  <2>3. CASE ClaimRunExecution(w)
    <3>1. PlaceTypeOK' BY <2>3, GotoTypes DEF ClaimRunExecution, Outside, Executing, Body
    <3> QED BY <2>3, <3>1 DEF ClaimRunExecution
  <2>4. CASE ReadWhenBusy(w)
    BY <2>4, ForgetTypes DEF ReadWhenBusy, PlaceTypeOK, Goto, Executing, Outside, Body, Handlers
  <2>5. CASE Release(w)
    BY <2>5, ForgetTypes DEF Release, PlaceTypeOK, Goto, Executing, Outside, Body, Handlers
  <2>6. CASE Acknowledge(w)
    BY <2>6, ForgetTypes DEF Acknowledge
  <2>7. CASE ReadAtStart(w)
    BY <2>7, ReadTypes, LeaveTypes
    DEF ReadAtStart, AfterStart, Active, Executing, Outside, Body, Handlers
  <2>8. CASE BeginRun(w)
    BY <2>8, FencedTypes DEF BeginRun, AfterStart, Lifecycle, Active
  <2>9. CASE RequireInput(w)
    BY <2>9, FencedTypes DEF RequireInput, Lifecycle
  <2>10. CASE ReadForProgress(w)
    <3>1. CASE state \in Terminal \cup {"cancel_requested"}
      BY <2>10, <3>1, RaiseTypes DEF ReadForProgress, Handlers
    <3>2. CASE ~(state \in Terminal \cup {"cancel_requested"})
      <4>1. "progress" \in Executing BY DEF Executing, Body
      <4>2. pc' \in [Workers -> Executing \cup Outside]
        BY <2>10, <3>2, <4>1 DEF ReadForProgress, PlaceTypeOK, Goto
      <4>6. seen' \in [Workers -> Nat]
        BY <2>10, <3>2 DEF ReadForProgress, PlaceTypeOK, Keep
      <4>3. reports' \in [Workers -> Nat]
        BY <2>10, <3>2 DEF ReadForProgress, PlaceTypeOK
      <4>4. \A v \in Workers : pc'[v] = "save" => pc[v] = "save"
        BY <2>10, <3>2 DEF ReadForProgress, PlaceTypeOK, Goto
      <4>5. PlaceTypeOK' BY <2>10, <3>2, <4>2, <4>6, <4>3, <4>4 DEF ReadForProgress, PlaceTypeOK
      <4> QED BY <2>10, <4>5 DEF ReadForProgress
    <3> QED BY <3>1, <3>2
  <2>11. CASE ReportProgress(w)
    BY <2>11, FencedTypes DEF ReportProgress
  <2>12. CASE FinishExecution(w)
    BY <2>12 DEF FinishExecution, PlaceTypeOK, Goto, Executing, Outside, Body, Handlers
  <2>13. CASE CheckStillRunning(w)
    BY <2>13, ReadTypes, RaiseTypes DEF CheckStillRunning, Executing, Outside, Body, Handlers
  <2>14. CASE CreateArtifact(w)
    <3> DEFINE id == ArtifactId(item[w], mine[w])
    <3>1. CASE LeaseHeld(w) /\ id \notin artifacts
      <4>1. item[w] \in 1..NItems BY <2>14 DEF CreateArtifact, PlaceTypeOK
      <4>2. artifacts' \in SUBSET ((1..NItems) \X Nat)
        BY <2>14, <3>1, <4>1 DEF CreateArtifact, ArtifactId
      <4>3. {"check", "save"} \subseteq Executing BY DEF Executing, Body
      <4>4. PlaceTypeOK'
        <5>1. pc' \in [Workers -> Executing \cup Outside]
          BY <2>14, <3>1, <4>3 DEF CreateArtifact, PlaceTypeOK, Goto
        <5>2. item' \in [Workers -> 1..(NItems + 1)]
          BY <2>14, <3>1, <4>1 DEF CreateArtifact, PlaceTypeOK
        <5>3. \A v \in Workers : pc'[v] = "save" => item'[v] <= NItems
          BY <2>14, <3>1, <4>1 DEF CreateArtifact, PlaceTypeOK, Goto
        <5> QED BY <2>14, <3>1, <5>1, <5>2, <5>3 DEF CreateArtifact, PlaceTypeOK
      <4>5. writer' \in Nat BY <2>14, <3>1 DEF CreateArtifact
      <4> QED BY <2>14, <4>2, <4>4, <4>5 DEF CreateArtifact
    <3>2. CASE ~(LeaseHeld(w) /\ id \notin artifacts)
      BY <2>14, <3>2, RaiseTypes, LeaveTypes DEF CreateArtifact, Handlers
    <3> QED BY <3>1, <3>2
  <2>15. CASE PublishResult(w)
    BY <2>15, FencedTypes DEF PublishResult, ArtifactId
  <2>16. CASE CompleteRun(w)
    BY <2>16, FencedTypes DEF CompleteRun, Lifecycle, Terminal
  <2>17. CASE ReportCandidate(w)
    BY <2>17, FencedTypes DEF ReportCandidate
  <2>18. CASE BlockRun(w)
    BY <2>18, FencedTypes DEF BlockRun, Lifecycle, Terminal
  <2>19. CASE ReadAfterInterruption(w)
    BY <2>19, ReadTypes, LeaveTypes
    DEF ReadAfterInterruption, Executing, Outside, Body, Handlers
  <2>20. CASE ReadToCancel(w)
    BY <2>20, ReadTypes, LeaveTypes DEF ReadToCancel, Executing, Outside, Body, Handlers
  <2>21. CASE WriteCanceled(w)
    BY <2>21, MutateTypes, LeaveTypes DEF WriteCanceled, Lifecycle, Terminal
  <2>22. CASE ReadToFail(w)
    BY <2>22, ReadTypes, LeaveTypes DEF ReadToFail, Executing, Outside, Body, Handlers
  <2>23. CASE WriteFailed(w)
    BY <2>23, MutateTypes, LeaveTypes DEF WriteFailed, Lifecycle, Terminal
  <2>24. CASE HeartbeatFindsLeaseLost(w)
    BY <2>24, InterruptTypes DEF HeartbeatFindsLeaseLost
  <2>25. CASE HeartbeatFails(w)
    BY <2>25, InterruptTypes DEF HeartbeatFails, Fault
  <2>26. CASE Shutdown(w)
    BY <2>26, InterruptTypes DEF Shutdown, Fault
  <2>27. CASE ExecutionError(w)
    BY <2>27, RaiseTypes DEF ExecutionError, Fault, Executing, Outside, Body, Handlers
  <2>28. CASE Crash(w)
    BY <2>28, ForgetTypes DEF Crash, Fault
  <2> QED BY <1>1, <2>1, <2>2, <2>3, <2>4, <2>5, <2>6, <2>7, <2>8, <2>9, <2>10, <2>11, <2>12,
        <2>13, <2>14, <2>15, <2>16, <2>17, <2>18, <2>19, <2>20, <2>21, <2>22, <2>23, <2>24,
        <2>25, <2>26, <2>27, <2>28 DEF HandleEntry, Execute, HandleException, Disturb
<1>2. ASSUME NEW c \in Callers,
             ReadForCancel(c) \/ CancelCall(c) \/ PropagationFails(c) \/ CallerLost(c)
      PROVE  TypeOK'
  <2>1. CASE ReadForCancel(c)
    BY <2>1, CallerTypes DEF ReadForCancel, PlaceTypeOK
  <2>2. CASE RequestCancel(c)
    BY <2>2, CallerTypes, MutateTypes DEF RequestCancel, PlaceTypeOK, Lifecycle, Terminal
  <2>3. CASE PropagateCancel(c)
    BY <2>3, CallerTypes DEF PropagateCancel, PlaceTypeOK
  <2>4. CASE ReadToFinishCancel(c)
    BY <2>4, CallerTypes DEF ReadToFinishCancel, PlaceTypeOK
  <2>5. CASE FinishCancel(c)
    BY <2>5, CallerTypes, MutateTypes DEF FinishCancel, PlaceTypeOK, Lifecycle, Terminal
  <2>6. CASE PropagationFails(c)
    BY <2>6, CallerTypes DEF PropagationFails, PlaceTypeOK, Fault
  <2>7. CASE CallerLost(c)
    BY <2>7, CallerTypes DEF CallerLost, PlaceTypeOK, Fault
  <2> QED BY <1>2, <2>1, <2>2, <2>3, <2>4, <2>5, <2>6, <2>7 DEF CancelCall
<1>3. CASE ExpireAbandonedLease BY <1>3
  DEF ExpireAbandonedLease, PlaceTypeOK, Lifecycle, Active, Fault
<1>4. CASE ExpireStalledLease BY <1>4
  DEF ExpireStalledLease, PlaceTypeOK, Lifecycle, Active, Fault
<1>5. CASE RelayDispatch BY <1>5 DEF RelayDispatch, PlaceTypeOK, Lifecycle, Active, Fault
<1>6. CASE RelayUnmarked BY <1>6 DEF RelayUnmarked, PlaceTypeOK, Lifecycle, Active, Fault
<1>7. CASE ResumeRun BY <1>7 DEF ResumeRun, PlaceTypeOK, Lifecycle, Active, Fault
<1>8. CASE ExpirePendingInput BY <1>8
  DEF ExpirePendingInput, PlaceTypeOK, Lifecycle, Active, Fault
<1>9. CASE UNCHANGED vars BY <1>9 DEF vars, PlaceTypeOK
<1> QED BY <1>1, <1>2, <1>3, <1>4, <1>5, <1>6, <1>7, <1>8, <1>9 DEF Next

-----------------------------------------------------------------------------
(* The inductive invariant, conjunct by conjunct. *)

\* Giving up an entry keeps the attempt numbers apart.
LEMMA TokensForgotten ==
    ASSUME TypeOK, LeaseInv, NEW w \in Workers, Forget(w)
    PROVE  /\ \A v \in Workers : mine'[v] <= attempt
           /\ \A v, u \in Workers : mine'[v] = mine'[u] /\ mine'[v] # 0 => v = u
           /\ \A v \in Workers : pc'[v] \in Executing \cup {"release"} => mine'[v] # 0
<1>1. /\ pc' = [pc EXCEPT ![w] = "idle"] /\ mine' = [mine EXCEPT ![w] = 0]
      /\ pc \in [Workers -> Executing \cup Outside] /\ mine \in [Workers -> Nat] /\ attempt \in Nat
  BY DEF TypeOK, RunTypeOK, RowTypeOK, WorkerTypeOK, PlaceTypeOK, Forget
<1>2. "idle" \notin Executing \cup {"release"} BY DEF Executing, Body, Handlers
<1> QED BY <1>1, <1>2 DEF LeaseInv

\* The lease invariant: only a claim draws an attempt number, and always a new one.
LEMMA LeaseStep ==
    ASSUME TypeOK, LeaseInv, [Next]_vars
    PROVE  LeaseInv'
<1> USE WorkersAssumption, ItemsAssumption
    DEF LeaseInv, TypeOK, RunTypeOK, RowTypeOK, WorkerTypeOK, PlaceTypeOK,
        Goto, Keep, Read, Raise, Leave, Forget, MutateRun, Fault, CGoto,
        FencedTransition, Interrupt, LeaseHeld, Executing, Body, Handlers,
        Active, Terminal, Lifecycle, runVars, queueVars, workerVars,
        callerVars
<1>1. ASSUME NEW w \in Workers,
             Deliver(w) \/ HandleEntry(w) \/ Execute(w) \/ HandleException(w)
                \/ HeartbeatFindsLeaseLost(w) \/ Disturb(w)
      PROVE  LeaseInv'
  <2>1. CASE Deliver(w) BY <2>1 DEF Deliver
  <2>2. CASE ReadBeforeClaim(w) BY <2>2 DEF ReadBeforeClaim
  <2>3. CASE ClaimRunExecution(w)
    <3>1. CASE state \in Active /\ ~(owner # NoWorker /\ lease = "live")
      <4>1. mine' = [mine EXCEPT ![w] = attempt + 1] /\ attempt' = attempt + 1
        BY <2>3, <3>1 DEF ClaimRunExecution
      <4>2. writer' <= attempt' /\ \A v \in Workers : mine'[v] <= attempt'
        BY <2>3, <4>1 DEF ClaimRunExecution
      <4>3. \A v, u \in Workers : mine'[v] = mine'[u] /\ mine'[v] # 0 => v = u
        BY <4>1
      <4>4. \A v \in Workers : pc'[v] \in Executing \cup {"release"} => mine'[v] # 0
        BY <2>3, <3>1, <4>1 DEF ClaimRunExecution
      <4> QED BY <2>3, <3>1, <4>2, <4>3, <4>4 DEF ClaimRunExecution
    <3>2. CASE ~(state \in Active /\ ~(owner # NoWorker /\ lease = "live"))
      BY <2>3, <3>2 DEF ClaimRunExecution
    <3> QED BY <3>1, <3>2
  <2>4. CASE ReadWhenBusy(w)
    <3>1. CASE state \in Active
      <4>1. Forget(w) BY <2>4, <3>1 DEF ReadWhenBusy
      <4> QED BY <2>4, <4>1, TokensForgotten DEF ReadWhenBusy
    <3>2. CASE state \notin Active BY <2>4, <3>2 DEF ReadWhenBusy
    <3> QED BY <3>1, <3>2
  <2>5. CASE Release(w)
    <3>1. state \notin Active => owner' = NoWorker BY <2>5 DEF Release
    <3>2. CASE outcome[w] = "returned" /\ signal[w] # "lost" BY <2>5, <3>1, <3>2 DEF Release
    <3>3. CASE ~(outcome[w] = "returned" /\ signal[w] # "lost")
      <4>1. Forget(w) BY <2>5, <3>3 DEF Release
      <4> QED BY <2>5, <3>1, <4>1, TokensForgotten DEF Release
    <3> QED BY <3>2, <3>3
  <2>6. CASE Acknowledge(w) BY <2>6 DEF Acknowledge
  <2>7. CASE ReadAtStart(w) BY <2>7 DEF ReadAtStart
  <2>8. CASE BeginRun(w) BY <2>8 DEF BeginRun
  <2>9. CASE RequireInput(w) BY <2>9 DEF RequireInput
  <2>10. CASE ReadForProgress(w) BY <2>10 DEF ReadForProgress
  <2>11. CASE ReportProgress(w) BY <2>11 DEF ReportProgress
  <2>12. CASE FinishExecution(w) BY <2>12 DEF FinishExecution
  <2>13. CASE CheckStillRunning(w) BY <2>13 DEF CheckStillRunning
  <2>14. CASE CreateArtifact(w) BY <2>14 DEF CreateArtifact
  <2>15. CASE PublishResult(w) BY <2>15 DEF PublishResult
  <2>16. CASE CompleteRun(w) BY <2>16 DEF CompleteRun
  <2>17. CASE ReportCandidate(w) BY <2>17 DEF ReportCandidate
  <2>18. CASE BlockRun(w) BY <2>18 DEF BlockRun
  <2>19. CASE ReadAfterInterruption(w) BY <2>19 DEF ReadAfterInterruption
  <2>20. CASE ReadToCancel(w) BY <2>20 DEF ReadToCancel
  <2>21. CASE WriteCanceled(w) BY <2>21 DEF WriteCanceled
  <2>22. CASE ReadToFail(w) BY <2>22 DEF ReadToFail
  <2>23. CASE WriteFailed(w) BY <2>23 DEF WriteFailed
  <2>24. CASE HeartbeatFindsLeaseLost(w) BY <2>24 DEF HeartbeatFindsLeaseLost
  <2>25. CASE HeartbeatFails(w) BY <2>25 DEF HeartbeatFails
  <2>26. CASE Shutdown(w) BY <2>26 DEF Shutdown
  <2>27. CASE ExecutionError(w) BY <2>27 DEF ExecutionError
  <2>28. CASE Crash(w) BY <2>28 DEF Crash
  <2> QED BY <1>1, <2>1, <2>2, <2>3, <2>4, <2>5, <2>6, <2>7, <2>8, <2>9, <2>10,
        <2>11, <2>12, <2>13, <2>14, <2>15, <2>16, <2>17, <2>18, <2>19, <2>20,
        <2>21, <2>22, <2>23, <2>24, <2>25, <2>26, <2>27, <2>28 DEF HandleEntry,
        Execute, HandleException, Disturb
<1>2. ASSUME NEW c \in Callers,
             ReadForCancel(c) \/ CancelCall(c) \/ PropagationFails(c) \/ CallerLost(c)
      PROVE  LeaseInv'
  <2>1. CASE ReadForCancel(c) BY <2>1 DEF ReadForCancel
  <2>2. CASE RequestCancel(c) BY <2>2 DEF RequestCancel
  <2>3. CASE PropagateCancel(c) BY <2>3 DEF PropagateCancel
  <2>4. CASE ReadToFinishCancel(c) BY <2>4 DEF ReadToFinishCancel
  <2>5. CASE FinishCancel(c) BY <2>5 DEF FinishCancel
  <2>6. CASE PropagationFails(c) BY <2>6 DEF PropagationFails
  <2>7. CASE CallerLost(c) BY <2>7 DEF CallerLost
  <2> QED BY <1>2, <2>1, <2>2, <2>3, <2>4, <2>5, <2>6, <2>7 DEF CancelCall
<1>3. CASE ExpireAbandonedLease BY <1>3 DEF ExpireAbandonedLease
<1>4. CASE ExpireStalledLease BY <1>4 DEF ExpireStalledLease
<1>5. CASE RelayDispatch BY <1>5 DEF RelayDispatch
<1>6. CASE RelayUnmarked BY <1>6 DEF RelayUnmarked
<1>7. CASE ResumeRun BY <1>7 DEF ResumeRun
<1>8. CASE ExpirePendingInput BY <1>8 DEF ExpirePendingInput
<1>9. CASE UNCHANGED vars BY <1>9 DEF vars
<1> QED BY <1>1, <1>2, <1>3, <1>4, <1>5, <1>6, <1>7, <1>8, <1>9 DEF Next

\* What a read said about the state stays true as long as the version does.
LEMMA ReadsStep ==
    ASSUME IndInv, NEW u \in Workers, [Next]_vars
    PROVE  ReadsAreCurrent(u)'
<1> USE WorkersAssumption, ItemsAssumption
    DEF IndInv, ReadsAreCurrent, ProgressInv, HolderIsCurrent, LeaseInv,
        Token, AfterStart, Writes, TypeOK, RunTypeOK, RowTypeOK, WorkerTypeOK,
        PlaceTypeOK, Goto, Keep, Read, Raise, Leave, Forget, MutateRun, Fault,
        CGoto, FencedTransition, Interrupt, LeaseHeld, Executing, Body,
        Handlers, Active, Terminal, Lifecycle, Past, runVars, queueVars,
        workerVars, callerVars
<1>1. ASSUME NEW w \in Workers,
             Deliver(w) \/ HandleEntry(w) \/ Execute(w) \/ HandleException(w)
                \/ HeartbeatFindsLeaseLost(w) \/ Disturb(w)
      PROVE  ReadsAreCurrent(u)'
  <2>1. CASE Deliver(w) BY <2>1 DEF Deliver
  <2>2. CASE ReadBeforeClaim(w) BY <2>2 DEF ReadBeforeClaim
  <2>3. CASE ClaimRunExecution(w) BY <2>3 DEF ClaimRunExecution
  <2>4. CASE ReadWhenBusy(w) BY <2>4 DEF ReadWhenBusy
  <2>5. CASE Release(w) BY <2>5 DEF Release
  <2>6. CASE Acknowledge(w) BY <2>6 DEF Acknowledge
  <2>7. CASE ReadAtStart(w) BY <2>7 DEF ReadAtStart
  <2>8. CASE BeginRun(w) BY <2>8 DEF BeginRun
  <2>9. CASE RequireInput(w) BY <2>9 DEF RequireInput
  <2>10. CASE ReadForProgress(w)
    <3>1. CASE state \in Terminal \cup {"cancel_requested"} BY <2>10, <3>1 DEF ReadForProgress
    <3>2. CASE state \notin Terminal \cup {"cancel_requested"}
      <4>1. pc' = [pc EXCEPT ![w] = "progress"] BY <2>10, <3>2 DEF ReadForProgress
      <4>2. u # w => seen'[u] = seen[u] BY <2>10, <3>2 DEF ReadForProgress
      <4>3. state = "running" BY <2>10, <3>2 DEF ReadForProgress, Past
      <4> QED BY <2>10, <4>1, <4>2, <4>3 DEF ReadForProgress
    <3> QED BY <3>1, <3>2
  <2>11. CASE ReportProgress(w) BY <2>11 DEF ReportProgress
  <2>12. CASE FinishExecution(w) BY <2>12 DEF FinishExecution
  <2>13. CASE CheckStillRunning(w) BY <2>13 DEF CheckStillRunning
  <2>14. CASE CreateArtifact(w) BY <2>14 DEF CreateArtifact
  <2>15. CASE PublishResult(w) BY <2>15 DEF PublishResult
  <2>16. CASE CompleteRun(w) BY <2>16 DEF CompleteRun
  <2>17. CASE ReportCandidate(w) BY <2>17 DEF ReportCandidate
  <2>18. CASE BlockRun(w) BY <2>18 DEF BlockRun
  <2>19. CASE ReadAfterInterruption(w) BY <2>19 DEF ReadAfterInterruption
  <2>20. CASE ReadToCancel(w) BY <2>20 DEF ReadToCancel
  <2>21. CASE WriteCanceled(w) BY <2>21 DEF WriteCanceled
  <2>22. CASE ReadToFail(w) BY <2>22 DEF ReadToFail
  <2>23. CASE WriteFailed(w) BY <2>23 DEF WriteFailed
  <2>24. CASE HeartbeatFindsLeaseLost(w) BY <2>24 DEF HeartbeatFindsLeaseLost
  <2>25. CASE HeartbeatFails(w) BY <2>25 DEF HeartbeatFails
  <2>26. CASE Shutdown(w) BY <2>26 DEF Shutdown
  <2>27. CASE ExecutionError(w) BY <2>27 DEF ExecutionError
  <2>28. CASE Crash(w) BY <2>28 DEF Crash
  <2> QED BY <1>1, <2>1, <2>2, <2>3, <2>4, <2>5, <2>6, <2>7, <2>8, <2>9, <2>10,
        <2>11, <2>12, <2>13, <2>14, <2>15, <2>16, <2>17, <2>18, <2>19, <2>20,
        <2>21, <2>22, <2>23, <2>24, <2>25, <2>26, <2>27, <2>28 DEF HandleEntry,
        Execute, HandleException, Disturb
<1>2. ASSUME NEW c \in Callers,
             ReadForCancel(c) \/ CancelCall(c) \/ PropagationFails(c) \/ CallerLost(c)
      PROVE  ReadsAreCurrent(u)'
  <2>1. CASE ReadForCancel(c) BY <2>1 DEF ReadForCancel
  <2>2. CASE RequestCancel(c) BY <2>2 DEF RequestCancel
  <2>3. CASE PropagateCancel(c) BY <2>3 DEF PropagateCancel
  <2>4. CASE ReadToFinishCancel(c) BY <2>4 DEF ReadToFinishCancel
  <2>5. CASE FinishCancel(c) BY <2>5 DEF FinishCancel
  <2>6. CASE PropagationFails(c) BY <2>6 DEF PropagationFails
  <2>7. CASE CallerLost(c) BY <2>7 DEF CallerLost
  <2> QED BY <1>2, <2>1, <2>2, <2>3, <2>4, <2>5, <2>6, <2>7 DEF CancelCall
<1>3. CASE ExpireAbandonedLease BY <1>3 DEF ExpireAbandonedLease
<1>4. CASE ExpireStalledLease BY <1>4 DEF ExpireStalledLease
<1>5. CASE RelayDispatch BY <1>5 DEF RelayDispatch
<1>6. CASE RelayUnmarked BY <1>6 DEF RelayUnmarked
<1>7. CASE ResumeRun BY <1>7 DEF ResumeRun
<1>8. CASE ExpirePendingInput BY <1>8 DEF ExpirePendingInput
<1>9. CASE UNCHANGED vars BY <1>9 DEF vars
<1> QED BY <1>1, <1>2, <1>3, <1>4, <1>5, <1>6, <1>7, <1>8, <1>9 DEF Next

\* A worker's place bounds the state the Run can be in.
LEMMA ProgressStep ==
    ASSUME IndInv, NEW u \in Workers, [Next]_vars
    PROVE  ProgressInv(u)'
<1> USE WorkersAssumption, ItemsAssumption
    DEF IndInv, ReadsAreCurrent, ProgressInv, HolderIsCurrent, LeaseInv,
        Token, AfterStart, Writes, Past, Saving, Ended, TypeOK, RunTypeOK,
        RowTypeOK, WorkerTypeOK, PlaceTypeOK, Goto, Keep, Read, Raise, Leave,
        Forget, MutateRun, Fault, CGoto, FencedTransition, Interrupt,
        LeaseHeld, Executing, Body, Handlers, Active, Terminal, Lifecycle,
        runVars, queueVars, workerVars, callerVars
<1>1. ASSUME NEW w \in Workers,
             Deliver(w) \/ HandleEntry(w) \/ Execute(w) \/ HandleException(w)
                \/ HeartbeatFindsLeaseLost(w) \/ Disturb(w)
      PROVE  ProgressInv(u)'
  <2>1. CASE Deliver(w) BY <2>1 DEF Deliver
  <2>2. CASE ReadBeforeClaim(w) BY <2>2 DEF ReadBeforeClaim
  <2>3. CASE ClaimRunExecution(w) BY <2>3 DEF ClaimRunExecution
  <2>4. CASE ReadWhenBusy(w) BY <2>4 DEF ReadWhenBusy
  <2>5. CASE Release(w) BY <2>5 DEF Release
  <2>6. CASE Acknowledge(w) BY <2>6 DEF Acknowledge
  <2>7. CASE ReadAtStart(w) BY <2>7 DEF ReadAtStart
  <2>8. CASE BeginRun(w) BY <2>8 DEF BeginRun
  <2>9. CASE RequireInput(w) BY <2>9 DEF RequireInput
  <2>10. CASE ReadForProgress(w) BY <2>10 DEF ReadForProgress
  <2>11. CASE ReportProgress(w) BY <2>11 DEF ReportProgress
  <2>12. CASE FinishExecution(w) BY <2>12 DEF FinishExecution
  <2>13. CASE CheckStillRunning(w) BY <2>13 DEF CheckStillRunning
  <2>14. CASE CreateArtifact(w) BY <2>14 DEF CreateArtifact
  <2>15. CASE PublishResult(w)
    <3>1. CASE LeaseHeld(w) /\ seen[w] = version
      <4>1. result' = ArtifactId(NItems, mine[w]) BY <2>15, <3>1 DEF PublishResult
      <4>2. result' # NoArtifact BY <4>1, BoundsAssumption DEF ArtifactId
      <4> QED BY <2>15, <3>1, <4>2 DEF PublishResult
    <3>2. CASE ~(LeaseHeld(w) /\ seen[w] = version)
      <4>1. UNCHANGED result BY <2>15, <3>2 DEF PublishResult
      <4> QED BY <2>15, <3>2, <4>1 DEF PublishResult
    <3> QED BY <3>1, <3>2
  <2>16. CASE CompleteRun(w) BY <2>16 DEF CompleteRun
  <2>17. CASE ReportCandidate(w) BY <2>17 DEF ReportCandidate
  <2>18. CASE BlockRun(w) BY <2>18 DEF BlockRun
  <2>19. CASE ReadAfterInterruption(w) BY <2>19 DEF ReadAfterInterruption
  <2>20. CASE ReadToCancel(w) BY <2>20 DEF ReadToCancel
  <2>21. CASE WriteCanceled(w) BY <2>21 DEF WriteCanceled
  <2>22. CASE ReadToFail(w) BY <2>22 DEF ReadToFail
  <2>23. CASE WriteFailed(w) BY <2>23 DEF WriteFailed
  <2>24. CASE HeartbeatFindsLeaseLost(w) BY <2>24 DEF HeartbeatFindsLeaseLost
  <2>25. CASE HeartbeatFails(w) BY <2>25 DEF HeartbeatFails
  <2>26. CASE Shutdown(w) BY <2>26 DEF Shutdown
  <2>27. CASE ExecutionError(w) BY <2>27 DEF ExecutionError
  <2>28. CASE Crash(w) BY <2>28 DEF Crash
  <2> QED BY <1>1, <2>1, <2>2, <2>3, <2>4, <2>5, <2>6, <2>7, <2>8, <2>9, <2>10,
        <2>11, <2>12, <2>13, <2>14, <2>15, <2>16, <2>17, <2>18, <2>19, <2>20,
        <2>21, <2>22, <2>23, <2>24, <2>25, <2>26, <2>27, <2>28 DEF HandleEntry,
        Execute, HandleException, Disturb
<1>2. ASSUME NEW c \in Callers,
             ReadForCancel(c) \/ CancelCall(c) \/ PropagationFails(c) \/ CallerLost(c)
      PROVE  ProgressInv(u)'
  <2>1. CASE ReadForCancel(c) BY <2>1 DEF ReadForCancel
  <2>2. CASE RequestCancel(c) BY <2>2 DEF RequestCancel
  <2>3. CASE PropagateCancel(c) BY <2>3 DEF PropagateCancel
  <2>4. CASE ReadToFinishCancel(c) BY <2>4 DEF ReadToFinishCancel
  <2>5. CASE FinishCancel(c) BY <2>5 DEF FinishCancel
  <2>6. CASE PropagationFails(c) BY <2>6 DEF PropagationFails
  <2>7. CASE CallerLost(c) BY <2>7 DEF CallerLost
  <2> QED BY <1>2, <2>1, <2>2, <2>3, <2>4, <2>5, <2>6, <2>7 DEF CancelCall
<1>3. CASE ExpireAbandonedLease BY <1>3 DEF ExpireAbandonedLease
<1>4. CASE ExpireStalledLease BY <1>4 DEF ExpireStalledLease
<1>5. CASE RelayDispatch BY <1>5 DEF RelayDispatch
<1>6. CASE RelayUnmarked BY <1>6 DEF RelayUnmarked
<1>7. CASE ResumeRun BY <1>7 DEF ResumeRun
<1>8. CASE ExpirePendingInput BY <1>8 DEF ExpirePendingInput
<1>9. CASE UNCHANGED vars BY <1>9 DEF vars
<1> QED BY <1>1, <1>2, <1>3, <1>4, <1>5, <1>6, <1>7, <1>8, <1>9 DEF Next

\* An index up to n is n or an index below n.
LEMMA LastOrBefore ==
    ASSUME NEW n \in Nat
    PROVE  \A i \in 1..n : i \in 1..(n - 1) \/ i = n
OBVIOUS

\* Every item a worker counts as saved is saved.
LEMMA SavedStep ==
    ASSUME IndInv, NEW u \in Workers, [Next]_vars
    PROVE  SavedInv(u)'
<1> USE WorkersAssumption, ItemsAssumption
    DEF IndInv, SavedInv, ProgressInv, Saving, AfterStart, TypeOK, RunTypeOK,
        RowTypeOK, WorkerTypeOK, PlaceTypeOK, Goto, Keep, Read, Raise, Leave,
        Forget, MutateRun, Fault, CGoto, FencedTransition, Interrupt,
        LeaseHeld, Executing, Body, Handlers, Active, Terminal, Lifecycle,
        runVars, queueVars, workerVars, callerVars
<1>1. ASSUME NEW w \in Workers,
             Deliver(w) \/ HandleEntry(w) \/ Execute(w) \/ HandleException(w)
                \/ HeartbeatFindsLeaseLost(w) \/ Disturb(w)
      PROVE  SavedInv(u)'
  <2>1. CASE Deliver(w) BY <2>1 DEF Deliver
  <2>2. CASE ReadBeforeClaim(w) BY <2>2 DEF ReadBeforeClaim
  <2>3. CASE ClaimRunExecution(w) BY <2>3 DEF ClaimRunExecution
  <2>4. CASE ReadWhenBusy(w) BY <2>4 DEF ReadWhenBusy
  <2>5. CASE Release(w) BY <2>5 DEF Release
  <2>6. CASE Acknowledge(w) BY <2>6 DEF Acknowledge
  <2>7. CASE ReadAtStart(w) BY <2>7 DEF ReadAtStart
  <2>8. CASE BeginRun(w) BY <2>8 DEF BeginRun
  <2>9. CASE RequireInput(w) BY <2>9 DEF RequireInput
  <2>10. CASE ReadForProgress(w) BY <2>10 DEF ReadForProgress
  <2>11. CASE ReportProgress(w) BY <2>11 DEF ReportProgress
  <2>12. CASE FinishExecution(w) BY <2>12 DEF FinishExecution
  <2>13. CASE CheckStillRunning(w) BY <2>13 DEF CheckStillRunning
  <2>14. CASE CreateArtifact(w)
    <3> DEFINE id == ArtifactId(item[w], mine[w])
    <3>1. CASE LeaseHeld(w) /\ id \notin artifacts
      <4>1. /\ artifacts' = artifacts \cup {id} /\ UNCHANGED mine
            /\ item' = [item EXCEPT ![w] = @ + 1] /\ pc[w] = "save"
            /\ pc' = [pc EXCEPT ![w] = IF item[w] + 1 >= NItems THEN "check" ELSE "save"]
        BY <2>14, <3>1 DEF CreateArtifact
      <4>2. CASE u = w
        <5>1. item[w] \in Nat /\ item'[w] = item[w] + 1 BY <4>1
        <5>2. \A i \in 1..item[w] : i \in 1..(item[w] - 1) \/ i = item[w] BY <5>1, LastOrBefore
        <5>3. 1..(item'[w] - 1) = 1..item[w] BY <5>1
        <5>4. \A i \in 1..(item[w] - 1) : ArtifactId(i, mine[w]) \in artifacts BY <4>1
        <5> QED BY <4>1, <4>2, <5>2, <5>3, <5>4
      <4>3. CASE u # w BY <4>1, <4>3
      <4> QED BY <4>2, <4>3
    <3>2. CASE ~(LeaseHeld(w) /\ id \notin artifacts)
      <4>1. /\ UNCHANGED <<artifacts, mine>> /\ pc'[w] \notin Saving
            /\ u # w => pc'[u] = pc[u] /\ item'[u] = item[u]
        BY <2>14, <3>2 DEF CreateArtifact
      <4> QED BY <4>1
    <3> QED BY <3>1, <3>2
  <2>15. CASE PublishResult(w) BY <2>15 DEF PublishResult
  <2>16. CASE CompleteRun(w) BY <2>16 DEF CompleteRun
  <2>17. CASE ReportCandidate(w) BY <2>17 DEF ReportCandidate
  <2>18. CASE BlockRun(w) BY <2>18 DEF BlockRun
  <2>19. CASE ReadAfterInterruption(w) BY <2>19 DEF ReadAfterInterruption
  <2>20. CASE ReadToCancel(w) BY <2>20 DEF ReadToCancel
  <2>21. CASE WriteCanceled(w) BY <2>21 DEF WriteCanceled
  <2>22. CASE ReadToFail(w) BY <2>22 DEF ReadToFail
  <2>23. CASE WriteFailed(w) BY <2>23 DEF WriteFailed
  <2>24. CASE HeartbeatFindsLeaseLost(w) BY <2>24 DEF HeartbeatFindsLeaseLost
  <2>25. CASE HeartbeatFails(w) BY <2>25 DEF HeartbeatFails
  <2>26. CASE Shutdown(w) BY <2>26 DEF Shutdown
  <2>27. CASE ExecutionError(w) BY <2>27 DEF ExecutionError
  <2>28. CASE Crash(w) BY <2>28 DEF Crash
  <2> QED BY <1>1, <2>1, <2>2, <2>3, <2>4, <2>5, <2>6, <2>7, <2>8, <2>9, <2>10,
        <2>11, <2>12, <2>13, <2>14, <2>15, <2>16, <2>17, <2>18, <2>19, <2>20,
        <2>21, <2>22, <2>23, <2>24, <2>25, <2>26, <2>27, <2>28 DEF HandleEntry,
        Execute, HandleException, Disturb
<1>2. ASSUME NEW c \in Callers,
             ReadForCancel(c) \/ CancelCall(c) \/ PropagationFails(c) \/ CallerLost(c)
      PROVE  SavedInv(u)'
  <2>1. CASE ReadForCancel(c) BY <2>1 DEF ReadForCancel
  <2>2. CASE RequestCancel(c) BY <2>2 DEF RequestCancel
  <2>3. CASE PropagateCancel(c) BY <2>3 DEF PropagateCancel
  <2>4. CASE ReadToFinishCancel(c) BY <2>4 DEF ReadToFinishCancel
  <2>5. CASE FinishCancel(c) BY <2>5 DEF FinishCancel
  <2>6. CASE PropagationFails(c) BY <2>6 DEF PropagationFails
  <2>7. CASE CallerLost(c) BY <2>7 DEF CallerLost
  <2> QED BY <1>2, <2>1, <2>2, <2>3, <2>4, <2>5, <2>6, <2>7 DEF CancelCall
<1>3. CASE ExpireAbandonedLease BY <1>3 DEF ExpireAbandonedLease
<1>4. CASE ExpireStalledLease BY <1>4 DEF ExpireStalledLease
<1>5. CASE RelayDispatch BY <1>5 DEF RelayDispatch
<1>6. CASE RelayUnmarked BY <1>6 DEF RelayUnmarked
<1>7. CASE ResumeRun BY <1>7 DEF ResumeRun
<1>8. CASE ExpirePendingInput BY <1>8 DEF ExpirePendingInput
<1>9. CASE UNCHANGED vars BY <1>9 DEF vars
<1> QED BY <1>1, <1>2, <1>3, <1>4, <1>5, <1>6, <1>7, <1>8, <1>9 DEF Next

\* A fenced transition moves the version for its worker, and takes the lease from nobody
\* but that worker.
LEMMA FencedHolder ==
    ASSUME IndInv, NEW w \in Workers, NEW u \in Workers, NEW s, NEW l,
           FencedTransition(w, s, l), UNCHANGED <<attempt, mine>>
    PROVE  HolderIsCurrent(u)'
<1> USE WorkersAssumption
    DEF IndInv, HolderIsCurrent, LeaseInv, Token, TypeOK, RunTypeOK, RowTypeOK, WorkerTypeOK,
        PlaceTypeOK, FencedTransition, Goto, Keep, Raise, Leave
<1>1. CASE LeaseHeld(w) /\ seen[w] = version
  <2>1. version' = version + 1 /\ (owner' = w \/ owner' = NoWorker)
    BY <1>1 DEF MutateRun, LeaseHeld
  <2>2. CASE u = w
    <3>1. CASE l = "return" BY <1>1, <2>1, <2>2, <3>1 DEF Writes
    <3>2. CASE l # "return" BY <1>1, <2>1, <2>2, <3>2
    <3> QED BY <3>1, <3>2
  <2>3. CASE u # w
    <3>1. seen'[u] = seen[u] BY <1>1, <2>3
    <3>2. owner' # u BY <2>1, <2>3
    <3> QED BY <2>1, <3>1, <3>2
  <2> QED BY <2>2, <2>3
<1>2. CASE ~(LeaseHeld(w) /\ seen[w] = version)
  <2>1. CASE u = w BY <1>2, <2>1 DEF Writes
  <2>2. CASE u # w
    <3>1. seen'[u] = seen[u] /\ pc'[u] = pc[u] BY <1>2, <2>2
    <3> QED BY <1>2, <3>1
  <2> QED BY <2>1, <2>2
<1> QED BY <1>1, <1>2

\* The holder of the lease has always read the current version.
LEMMA HolderStep ==
    ASSUME IndInv, NEW u \in Workers, [Next]_vars
    PROVE  HolderIsCurrent(u)'
<1> USE WorkersAssumption, ItemsAssumption
    DEF IndInv, HolderIsCurrent, LeaseInv, Token, AfterStart, Writes, TypeOK,
        RunTypeOK, RowTypeOK, WorkerTypeOK, PlaceTypeOK, Goto, Keep, Read,
        Raise, Leave, Forget, MutateRun, Fault, CGoto, Interrupt, LeaseHeld,
        Executing, Body, Handlers, Active, Terminal, Lifecycle, runVars,
        queueVars, workerVars, callerVars
<1>1. ASSUME NEW w \in Workers,
             Deliver(w) \/ HandleEntry(w) \/ Execute(w) \/ HandleException(w)
                \/ HeartbeatFindsLeaseLost(w) \/ Disturb(w)
      PROVE  HolderIsCurrent(u)'
  <2>1. CASE Deliver(w) BY <2>1 DEF Deliver
  <2>2. CASE ReadBeforeClaim(w) BY <2>2 DEF ReadBeforeClaim
  <2>3. CASE ClaimRunExecution(w) BY <2>3 DEF ClaimRunExecution
  <2>4. CASE ReadWhenBusy(w)
    <3>1. CASE state \in Active BY <2>4, <3>1 DEF ReadWhenBusy
    <3>2. CASE state \notin Active BY <2>4, <3>2 DEF ReadWhenBusy
    <3> QED BY <3>1, <3>2
  <2>5. CASE Release(w) BY <2>5 DEF Release
  <2>6. CASE Acknowledge(w) BY <2>6 DEF Acknowledge
  <2>7. CASE ReadAtStart(w)
    <3>1. CASE state \in Active BY <2>7, <3>1 DEF ReadAtStart
    <3>2. CASE state \notin Active BY <2>7, <3>2 DEF ReadAtStart
    <3> QED BY <3>1, <3>2
  <2>8. CASE BeginRun(w)
    BY <2>8, FencedHolder DEF BeginRun
  <2>9. CASE RequireInput(w)
    BY <2>9, FencedHolder DEF RequireInput
  <2>10. CASE ReadForProgress(w)
    <3>1. CASE state \in Terminal \cup {"cancel_requested"} BY <2>10, <3>1 DEF ReadForProgress
    <3>2. CASE state \notin Terminal \cup {"cancel_requested"} BY <2>10, <3>2
      DEF ReadForProgress
    <3> QED BY <3>1, <3>2
  <2>11. CASE ReportProgress(w)
    BY <2>11, FencedHolder DEF ReportProgress
  <2>12. CASE FinishExecution(w) BY <2>12 DEF FinishExecution
  <2>13. CASE CheckStillRunning(w) BY <2>13 DEF CheckStillRunning
  <2>14. CASE CreateArtifact(w) BY <2>14 DEF CreateArtifact
  <2>15. CASE PublishResult(w)
    BY <2>15, FencedHolder DEF PublishResult
  <2>16. CASE CompleteRun(w)
    BY <2>16, FencedHolder DEF CompleteRun
  <2>17. CASE ReportCandidate(w)
    BY <2>17, FencedHolder DEF ReportCandidate
  <2>18. CASE BlockRun(w)
    BY <2>18, FencedHolder DEF BlockRun
  <2>19. CASE ReadAfterInterruption(w)
    <3>1. CASE state = "cancel_requested" BY <2>19, <3>1 DEF ReadAfterInterruption
    <3>2. CASE state # "cancel_requested" BY <2>19, <3>2 DEF ReadAfterInterruption
    <3> QED BY <3>1, <3>2
  <2>20. CASE ReadToCancel(w)
    <3>1. CASE state \in Terminal BY <2>20, <3>1 DEF ReadToCancel
    <3>2. CASE state \notin Terminal BY <2>20, <3>2 DEF ReadToCancel
    <3> QED BY <3>1, <3>2
  <2>21. CASE WriteCanceled(w) BY <2>21 DEF WriteCanceled
  <2>22. CASE ReadToFail(w)
    <3>1. CASE state \in Terminal BY <2>22, <3>1 DEF ReadToFail
    <3>2. CASE state \notin Terminal BY <2>22, <3>2 DEF ReadToFail
    <3> QED BY <3>1, <3>2
  <2>23. CASE WriteFailed(w) BY <2>23 DEF WriteFailed
  <2>24. CASE HeartbeatFindsLeaseLost(w) BY <2>24 DEF HeartbeatFindsLeaseLost
  <2>25. CASE HeartbeatFails(w) BY <2>25 DEF HeartbeatFails
  <2>26. CASE Shutdown(w) BY <2>26 DEF Shutdown
  <2>27. CASE ExecutionError(w) BY <2>27 DEF ExecutionError
  <2>28. CASE Crash(w) BY <2>28 DEF Crash
  <2> QED BY <1>1, <2>1, <2>2, <2>3, <2>4, <2>5, <2>6, <2>7, <2>8, <2>9, <2>10,
        <2>11, <2>12, <2>13, <2>14, <2>15, <2>16, <2>17, <2>18, <2>19, <2>20,
        <2>21, <2>22, <2>23, <2>24, <2>25, <2>26, <2>27, <2>28 DEF HandleEntry,
        Execute, HandleException, Disturb
<1>2. ASSUME NEW c \in Callers,
             ReadForCancel(c) \/ CancelCall(c) \/ PropagationFails(c) \/ CallerLost(c)
      PROVE  HolderIsCurrent(u)'
  <2>1. CASE ReadForCancel(c) BY <2>1 DEF ReadForCancel
  <2>2. CASE RequestCancel(c) BY <2>2 DEF RequestCancel
  <2>3. CASE PropagateCancel(c) BY <2>3 DEF PropagateCancel
  <2>4. CASE ReadToFinishCancel(c) BY <2>4 DEF ReadToFinishCancel
  <2>5. CASE FinishCancel(c) BY <2>5 DEF FinishCancel
  <2>6. CASE PropagationFails(c) BY <2>6 DEF PropagationFails
  <2>7. CASE CallerLost(c) BY <2>7 DEF CallerLost
  <2> QED BY <1>2, <2>1, <2>2, <2>3, <2>4, <2>5, <2>6, <2>7 DEF CancelCall
<1>3. CASE ExpireAbandonedLease BY <1>3 DEF ExpireAbandonedLease
<1>4. CASE ExpireStalledLease BY <1>4 DEF ExpireStalledLease
<1>5. CASE RelayDispatch BY <1>5 DEF RelayDispatch
<1>6. CASE RelayUnmarked BY <1>6 DEF RelayUnmarked
<1>7. CASE ResumeRun BY <1>7 DEF ResumeRun
<1>8. CASE ExpirePendingInput BY <1>8 DEF ExpirePendingInput
<1>9. CASE UNCHANGED vars BY <1>9 DEF vars
<1> QED BY <1>1, <1>2, <1>3, <1>4, <1>5, <1>6, <1>7, <1>8, <1>9 DEF Next

\* Where a step may take the publication: nobody new gets past the stable item.
NothingPasses ==
    /\ UNCHANGED <<artifacts, result>>
    /\ input' = "missing" => input = "missing"
    /\ \A u \in Workers : Passed(u)' => Passed(u) /\ (pc[u] = "complete" => pc'[u] = "complete")

\* The stable item that PublishInv speaks of is one of the items.
LEMMA StableItemIsAnItem == StableItem \in StableItems /\ StableItem \in 1..NItems
BY ItemsAssumption DEF StableItem

\* Such a step cannot disturb the publication.
LEMMA NothingPassesKeeps ==
    ASSUME PublishInv, NothingPasses
    PROVE  PublishInv'
BY DEF PublishInv, NothingPasses


\* Saving one more item passes the stable one only if it was the next.
LEMMA NextItemPasses ==
    ASSUME NEW w \in Workers, item \in [Workers -> 1..(NItems + 1)], pc[w] = "save",
           item' = [item EXCEPT ![w] = @ + 1], Passed(w)'
    PROVE  Passed(w) \/ item[w] = StableItem
<1>1. item[w] \in Nat /\ item'[w] = item[w] + 1 BY ItemsAssumption
<1>2. StableItem \in Nat BY ItemsAssumption, StableItemIsAnItem
<1> QED BY <1>1, <1>2 DEF Passed, Saving

\* At most one attempt gets past the stable item, and only it publishes.
LEMMA PublishStep ==
    ASSUME IndInv, [Next]_vars
    PROVE  PublishInv'
<1> USE WorkersAssumption, ItemsAssumption, StableItemIsAnItem
    DEF IndInv, NothingPasses, Passed, Saving, TypeOK, RunTypeOK, RowTypeOK,
        WorkerTypeOK, PlaceTypeOK, Goto, Keep, Read, Raise, Leave, Forget,
        MutateRun, Fault, CGoto, FencedTransition, Interrupt, LeaseHeld,
        Executing, Body, Handlers, Active, Terminal, Lifecycle, runVars,
        queueVars, workerVars, callerVars
<1>1. ASSUME NEW w \in Workers,
             Deliver(w) \/ HandleEntry(w) \/ Execute(w) \/ HandleException(w)
                \/ HeartbeatFindsLeaseLost(w) \/ Disturb(w)
      PROVE  PublishInv'
  <2>1. CASE Deliver(w)
    BY <2>1, NothingPassesKeeps DEF Deliver
  <2>2. CASE ReadBeforeClaim(w)
    BY <2>2, NothingPassesKeeps DEF ReadBeforeClaim
  <2>3. CASE ClaimRunExecution(w)
    BY <2>3, NothingPassesKeeps DEF ClaimRunExecution
  <2>4. CASE ReadWhenBusy(w)
    BY <2>4, NothingPassesKeeps DEF ReadWhenBusy
  <2>5. CASE Release(w)
    BY <2>5, NothingPassesKeeps DEF Release
  <2>6. CASE Acknowledge(w)
    BY <2>6, NothingPassesKeeps DEF Acknowledge
  <2>7. CASE ReadAtStart(w)
    BY <2>7, NothingPassesKeeps DEF ReadAtStart, AfterStart
  <2>8. CASE BeginRun(w)
    BY <2>8, NothingPassesKeeps DEF BeginRun, AfterStart
  <2>9. CASE RequireInput(w)
    BY <2>9, NothingPassesKeeps DEF RequireInput
  <2>10. CASE ReadForProgress(w)
    BY <2>10, NothingPassesKeeps DEF ReadForProgress
  <2>11. CASE ReportProgress(w)
    BY <2>11, NothingPassesKeeps DEF ReportProgress
  <2>12. CASE FinishExecution(w)
    BY <2>12, NothingPassesKeeps DEF FinishExecution, ProgressInv
  <2>13. CASE CheckStillRunning(w)
    BY <2>13, NothingPassesKeeps DEF CheckStillRunning
  <2>14. CASE CreateArtifact(w)
    <3> DEFINE id == ArtifactId(item[w], mine[w])
    <3>1. CASE LeaseHeld(w) /\ id \notin artifacts
      <4>1. /\ artifacts' = artifacts \cup {id} /\ UNCHANGED <<result, input>>
            /\ item' = [item EXCEPT ![w] = @ + 1] /\ pc[w] = "save"
            /\ pc' = [pc EXCEPT ![w] = IF item[w] + 1 >= NItems THEN "check" ELSE "save"]
        BY <2>14, <3>1 DEF CreateArtifact
      <4>2. \A u \in Workers : Passed(u)' => Passed(u) \/ (u = w /\ item[w] = StableItem)
        <5>1. Passed(w)' => Passed(w) \/ item[w] = StableItem BY <4>1, NextItemPasses
        <5>2. \A u \in Workers : u # w => pc'[u] = pc[u] /\ item'[u] = item[u] BY <4>1
        <5> QED BY <5>1, <5>2
      <4>3. \A u \in Workers : Passed(u) /\ pc[u] = "complete" => pc'[u] = "complete"
        BY <4>1
      <4>4. CASE item[w] = StableItem
        <5>1. id = <<StableItem, 0>> BY <4>4 DEF ArtifactId
        <5>2. result = NoArtifact /\ \A u \in Workers : ~Passed(u)
          BY <3>1, <5>1 DEF PublishInv
        <5> HIDE DEF Passed
        <5> QED BY <4>1, <4>2, <5>1, <5>2 DEF PublishInv
      <4>5. CASE item[w] # StableItem
        <5> HIDE DEF Passed
        <5> QED BY <4>1, <4>2, <4>3, <4>5 DEF PublishInv
      <4> QED BY <4>4, <4>5
    <3>2. CASE ~(LeaseHeld(w) /\ id \notin artifacts)
      BY <2>14, <3>2, NothingPassesKeeps DEF CreateArtifact
    <3> QED BY <3>1, <3>2
  <2>15. CASE PublishResult(w)
    <3>1. CASE LeaseHeld(w) /\ seen[w] = version
      <4>1. UNCHANGED <<artifacts, input>> /\ pc' = [pc EXCEPT ![w] = "complete"] /\ UNCHANGED item
        BY <2>15, <3>1 DEF PublishResult
      <4>2. Passed(w) /\ input = "given" BY <2>15 DEF PublishResult, ProgressInv, Past
      <4>3. \A u \in Workers : Passed(u)' => Passed(u) /\ u = w BY <4>1, <4>2 DEF PublishInv
      <4> HIDE DEF Passed
      <4> QED BY <4>1, <4>2, <4>3 DEF PublishInv
    <3>2. CASE ~(LeaseHeld(w) /\ seen[w] = version)
      <4>1. UNCHANGED result BY <2>15, <3>2 DEF PublishResult
      <4> QED BY <2>15, <3>2, <4>1, NothingPassesKeeps DEF PublishResult
    <3> QED BY <3>1, <3>2
  <2>16. CASE CompleteRun(w)
    BY <2>16, NothingPassesKeeps DEF CompleteRun
  <2>17. CASE ReportCandidate(w)
    BY <2>17, NothingPassesKeeps DEF ReportCandidate
  <2>18. CASE BlockRun(w)
    BY <2>18, NothingPassesKeeps DEF BlockRun
  <2>19. CASE ReadAfterInterruption(w)
    BY <2>19, NothingPassesKeeps DEF ReadAfterInterruption
  <2>20. CASE ReadToCancel(w)
    BY <2>20, NothingPassesKeeps DEF ReadToCancel
  <2>21. CASE WriteCanceled(w)
    BY <2>21, NothingPassesKeeps DEF WriteCanceled
  <2>22. CASE ReadToFail(w)
    BY <2>22, NothingPassesKeeps DEF ReadToFail
  <2>23. CASE WriteFailed(w)
    BY <2>23, NothingPassesKeeps DEF WriteFailed
  <2>24. CASE HeartbeatFindsLeaseLost(w)
    BY <2>24, NothingPassesKeeps DEF HeartbeatFindsLeaseLost
  <2>25. CASE HeartbeatFails(w)
    BY <2>25, NothingPassesKeeps DEF HeartbeatFails
  <2>26. CASE Shutdown(w)
    BY <2>26, NothingPassesKeeps DEF Shutdown
  <2>27. CASE ExecutionError(w)
    BY <2>27, NothingPassesKeeps DEF ExecutionError
  <2>28. CASE Crash(w)
    BY <2>28, NothingPassesKeeps DEF Crash
  <2> QED BY <1>1, <2>1, <2>2, <2>3, <2>4, <2>5, <2>6, <2>7, <2>8, <2>9, <2>10,
        <2>11, <2>12, <2>13, <2>14, <2>15, <2>16, <2>17, <2>18, <2>19, <2>20,
        <2>21, <2>22, <2>23, <2>24, <2>25, <2>26, <2>27, <2>28 DEF HandleEntry,
        Execute, HandleException, Disturb
<1>2. ASSUME NEW c \in Callers,
             ReadForCancel(c) \/ CancelCall(c) \/ PropagationFails(c) \/ CallerLost(c)
      PROVE  PublishInv'
  <2>1. CASE ReadForCancel(c)
    BY <2>1, NothingPassesKeeps DEF ReadForCancel
  <2>2. CASE RequestCancel(c)
    BY <2>2, NothingPassesKeeps DEF RequestCancel
  <2>3. CASE PropagateCancel(c)
    BY <2>3, NothingPassesKeeps DEF PropagateCancel
  <2>4. CASE ReadToFinishCancel(c)
    BY <2>4, NothingPassesKeeps DEF ReadToFinishCancel
  <2>5. CASE FinishCancel(c)
    BY <2>5, NothingPassesKeeps DEF FinishCancel
  <2>6. CASE PropagationFails(c)
    BY <2>6, NothingPassesKeeps DEF PropagationFails
  <2>7. CASE CallerLost(c)
    BY <2>7, NothingPassesKeeps DEF CallerLost
  <2> QED BY <1>2, <2>1, <2>2, <2>3, <2>4, <2>5, <2>6, <2>7 DEF CancelCall
<1>3. CASE ExpireAbandonedLease
  BY <1>3, NothingPassesKeeps DEF ExpireAbandonedLease
<1>4. CASE ExpireStalledLease
  BY <1>4, NothingPassesKeeps DEF ExpireStalledLease
<1>5. CASE RelayDispatch
  BY <1>5, NothingPassesKeeps DEF RelayDispatch
<1>6. CASE RelayUnmarked
  BY <1>6, NothingPassesKeeps DEF RelayUnmarked
<1>7. CASE ResumeRun
  BY <1>7, NothingPassesKeeps DEF ResumeRun
<1>8. CASE ExpirePendingInput
  BY <1>8, NothingPassesKeeps DEF ExpirePendingInput
<1>9. CASE UNCHANGED vars BY <1>9, NothingPassesKeeps DEF vars
<1> QED BY <1>1, <1>2, <1>3, <1>4, <1>5, <1>6, <1>7, <1>8, <1>9 DEF Next

\* The published set was saved by one attempt.
LEMMA WholeStep ==
    ASSUME IndInv, [Next]_vars
    PROVE  PublishedSetIsWhole'
<1> USE WorkersAssumption, ItemsAssumption
    DEF IndInv, PublishedSetIsWhole, ProgressInv, TypeOK, RunTypeOK,
        RowTypeOK, WorkerTypeOK, PlaceTypeOK, Goto, Keep, Read, Raise, Leave,
        Forget, MutateRun, Fault, CGoto, FencedTransition, Interrupt,
        LeaseHeld, Executing, Body, Handlers, Active, Terminal, Lifecycle,
        runVars, queueVars, workerVars, callerVars
<1>1. ASSUME NEW w \in Workers,
             Deliver(w) \/ HandleEntry(w) \/ Execute(w) \/ HandleException(w)
                \/ HeartbeatFindsLeaseLost(w) \/ Disturb(w)
      PROVE  PublishedSetIsWhole'
  <2>1. CASE Deliver(w) BY <2>1 DEF Deliver
  <2>2. CASE ReadBeforeClaim(w) BY <2>2 DEF ReadBeforeClaim
  <2>3. CASE ClaimRunExecution(w) BY <2>3 DEF ClaimRunExecution
  <2>4. CASE ReadWhenBusy(w) BY <2>4 DEF ReadWhenBusy
  <2>5. CASE Release(w) BY <2>5 DEF Release
  <2>6. CASE Acknowledge(w) BY <2>6 DEF Acknowledge
  <2>7. CASE ReadAtStart(w) BY <2>7 DEF ReadAtStart
  <2>8. CASE BeginRun(w) BY <2>8 DEF BeginRun
  <2>9. CASE RequireInput(w) BY <2>9 DEF RequireInput
  <2>10. CASE ReadForProgress(w) BY <2>10 DEF ReadForProgress
  <2>11. CASE ReportProgress(w) BY <2>11 DEF ReportProgress
  <2>12. CASE FinishExecution(w) BY <2>12 DEF FinishExecution
  <2>13. CASE CheckStillRunning(w) BY <2>13 DEF CheckStillRunning
  <2>14. CASE CreateArtifact(w) BY <2>14 DEF CreateArtifact
  <2>15. CASE PublishResult(w)
    <3>1. CASE LeaseHeld(w) /\ seen[w] = version
      <4>1. result' = ArtifactId(NItems, mine[w]) /\ UNCHANGED <<artifacts, attempt, state>>
        BY <2>15, <3>1 DEF PublishResult
      <4>2. result' # NoArtifact BY <4>1, BoundsAssumption DEF ArtifactId
      <4>3. mine[w] \in 1..attempt BY <2>15 DEF PublishResult, LeaseInv
      <4>4. item[w] = NItems + 1 BY <2>15 DEF PublishResult
      <4>5. \A i \in 1..NItems : ArtifactId(i, mine[w]) \in artifacts
        BY <2>15, <4>4 DEF PublishResult, SavedInv, Saving
      <4> QED BY <4>1, <4>2, <4>3, <4>5
    <3>2. CASE ~(LeaseHeld(w) /\ seen[w] = version)
      <4>1. UNCHANGED <<result, artifacts, attempt, state>> BY <2>15, <3>2 DEF PublishResult
      <4> QED BY <4>1
    <3> QED BY <3>1, <3>2
  <2>16. CASE CompleteRun(w) BY <2>16 DEF CompleteRun
  <2>17. CASE ReportCandidate(w) BY <2>17 DEF ReportCandidate
  <2>18. CASE BlockRun(w) BY <2>18 DEF BlockRun
  <2>19. CASE ReadAfterInterruption(w) BY <2>19 DEF ReadAfterInterruption
  <2>20. CASE ReadToCancel(w) BY <2>20 DEF ReadToCancel
  <2>21. CASE WriteCanceled(w) BY <2>21 DEF WriteCanceled
  <2>22. CASE ReadToFail(w) BY <2>22 DEF ReadToFail
  <2>23. CASE WriteFailed(w) BY <2>23 DEF WriteFailed
  <2>24. CASE HeartbeatFindsLeaseLost(w) BY <2>24 DEF HeartbeatFindsLeaseLost
  <2>25. CASE HeartbeatFails(w) BY <2>25 DEF HeartbeatFails
  <2>26. CASE Shutdown(w) BY <2>26 DEF Shutdown
  <2>27. CASE ExecutionError(w) BY <2>27 DEF ExecutionError
  <2>28. CASE Crash(w) BY <2>28 DEF Crash
  <2> QED BY <1>1, <2>1, <2>2, <2>3, <2>4, <2>5, <2>6, <2>7, <2>8, <2>9, <2>10,
        <2>11, <2>12, <2>13, <2>14, <2>15, <2>16, <2>17, <2>18, <2>19, <2>20,
        <2>21, <2>22, <2>23, <2>24, <2>25, <2>26, <2>27, <2>28 DEF HandleEntry,
        Execute, HandleException, Disturb
<1>2. ASSUME NEW c \in Callers,
             ReadForCancel(c) \/ CancelCall(c) \/ PropagationFails(c) \/ CallerLost(c)
      PROVE  PublishedSetIsWhole'
  <2>1. CASE ReadForCancel(c) BY <2>1 DEF ReadForCancel
  <2>2. CASE RequestCancel(c) BY <2>2 DEF RequestCancel
  <2>3. CASE PropagateCancel(c) BY <2>3 DEF PropagateCancel
  <2>4. CASE ReadToFinishCancel(c) BY <2>4 DEF ReadToFinishCancel
  <2>5. CASE FinishCancel(c) BY <2>5 DEF FinishCancel
  <2>6. CASE PropagationFails(c) BY <2>6 DEF PropagationFails
  <2>7. CASE CallerLost(c) BY <2>7 DEF CallerLost
  <2> QED BY <1>2, <2>1, <2>2, <2>3, <2>4, <2>5, <2>6, <2>7 DEF CancelCall
<1>3. CASE ExpireAbandonedLease BY <1>3 DEF ExpireAbandonedLease
<1>4. CASE ExpireStalledLease BY <1>4 DEF ExpireStalledLease
<1>5. CASE RelayDispatch BY <1>5 DEF RelayDispatch
<1>6. CASE RelayUnmarked BY <1>6 DEF RelayUnmarked
<1>7. CASE ResumeRun BY <1>7 DEF ResumeRun
<1>8. CASE ExpirePendingInput BY <1>8 DEF ExpirePendingInput
<1>9. CASE UNCHANGED vars BY <1>9 DEF vars
<1> QED BY <1>1, <1>2, <1>3, <1>4, <1>5, <1>6, <1>7, <1>8, <1>9 DEF Next

\* A cancel request that has read the current version knows the state.
LEMMA CallerStep ==
    ASSUME IndInv, NEW d \in Callers, [Next]_vars
    PROVE  CallerInv(d)'
<1> USE WorkersAssumption, ItemsAssumption
    DEF IndInv, CallerInv, ReadsAreCurrent, ProgressInv, TypeOK, RunTypeOK,
        RowTypeOK, WorkerTypeOK, PlaceTypeOK, Goto, Keep, Read, Raise, Leave,
        Forget, MutateRun, Fault, CGoto, FencedTransition, Interrupt,
        LeaseHeld, Executing, Body, Handlers, Active, Terminal, Lifecycle,
        runVars, queueVars, workerVars, callerVars
<1>1. ASSUME NEW w \in Workers,
             Deliver(w) \/ HandleEntry(w) \/ Execute(w) \/ HandleException(w)
                \/ HeartbeatFindsLeaseLost(w) \/ Disturb(w)
      PROVE  CallerInv(d)'
  <2>1. CASE Deliver(w) BY <2>1 DEF Deliver
  <2>2. CASE ReadBeforeClaim(w) BY <2>2 DEF ReadBeforeClaim
  <2>3. CASE ClaimRunExecution(w) BY <2>3 DEF ClaimRunExecution
  <2>4. CASE ReadWhenBusy(w) BY <2>4 DEF ReadWhenBusy
  <2>5. CASE Release(w) BY <2>5 DEF Release
  <2>6. CASE Acknowledge(w) BY <2>6 DEF Acknowledge
  <2>7. CASE ReadAtStart(w) BY <2>7 DEF ReadAtStart
  <2>8. CASE BeginRun(w) BY <2>8 DEF BeginRun
  <2>9. CASE RequireInput(w) BY <2>9 DEF RequireInput
  <2>10. CASE ReadForProgress(w) BY <2>10 DEF ReadForProgress
  <2>11. CASE ReportProgress(w) BY <2>11 DEF ReportProgress
  <2>12. CASE FinishExecution(w) BY <2>12 DEF FinishExecution
  <2>13. CASE CheckStillRunning(w) BY <2>13 DEF CheckStillRunning
  <2>14. CASE CreateArtifact(w) BY <2>14 DEF CreateArtifact
  <2>15. CASE PublishResult(w) BY <2>15 DEF PublishResult
  <2>16. CASE CompleteRun(w) BY <2>16 DEF CompleteRun
  <2>17. CASE ReportCandidate(w) BY <2>17 DEF ReportCandidate
  <2>18. CASE BlockRun(w) BY <2>18 DEF BlockRun
  <2>19. CASE ReadAfterInterruption(w) BY <2>19 DEF ReadAfterInterruption
  <2>20. CASE ReadToCancel(w) BY <2>20 DEF ReadToCancel
  <2>21. CASE WriteCanceled(w) BY <2>21 DEF WriteCanceled
  <2>22. CASE ReadToFail(w) BY <2>22 DEF ReadToFail
  <2>23. CASE WriteFailed(w) BY <2>23 DEF WriteFailed
  <2>24. CASE HeartbeatFindsLeaseLost(w) BY <2>24 DEF HeartbeatFindsLeaseLost
  <2>25. CASE HeartbeatFails(w) BY <2>25 DEF HeartbeatFails
  <2>26. CASE Shutdown(w) BY <2>26 DEF Shutdown
  <2>27. CASE ExecutionError(w) BY <2>27 DEF ExecutionError
  <2>28. CASE Crash(w) BY <2>28 DEF Crash
  <2> QED BY <1>1, <2>1, <2>2, <2>3, <2>4, <2>5, <2>6, <2>7, <2>8, <2>9, <2>10,
        <2>11, <2>12, <2>13, <2>14, <2>15, <2>16, <2>17, <2>18, <2>19, <2>20,
        <2>21, <2>22, <2>23, <2>24, <2>25, <2>26, <2>27, <2>28 DEF HandleEntry,
        Execute, HandleException, Disturb
<1>2. ASSUME NEW c \in Callers,
             ReadForCancel(c) \/ CancelCall(c) \/ PropagationFails(c) \/ CallerLost(c)
      PROVE  CallerInv(d)'
  <2>1. CASE ReadForCancel(c) BY <2>1 DEF ReadForCancel
  <2>2. CASE RequestCancel(c)
    <3>1. CASE cseen[c] = version BY <2>2, <3>1 DEF RequestCancel
    <3>2. CASE cseen[c] # version BY <2>2, <3>2 DEF RequestCancel
    <3> QED BY <3>1, <3>2
  <2>3. CASE PropagateCancel(c) BY <2>3 DEF PropagateCancel
  <2>4. CASE ReadToFinishCancel(c) BY <2>4 DEF ReadToFinishCancel
  <2>5. CASE FinishCancel(c) BY <2>5 DEF FinishCancel
  <2>6. CASE PropagationFails(c) BY <2>6 DEF PropagationFails
  <2>7. CASE CallerLost(c) BY <2>7 DEF CallerLost
  <2> QED BY <1>2, <2>1, <2>2, <2>3, <2>4, <2>5, <2>6, <2>7 DEF CancelCall
<1>3. CASE ExpireAbandonedLease BY <1>3 DEF ExpireAbandonedLease
<1>4. CASE ExpireStalledLease BY <1>4 DEF ExpireStalledLease
<1>5. CASE RelayDispatch BY <1>5 DEF RelayDispatch
<1>6. CASE RelayUnmarked BY <1>6 DEF RelayUnmarked
<1>7. CASE ResumeRun BY <1>7 DEF ResumeRun
<1>8. CASE ExpirePendingInput BY <1>8 DEF ExpirePendingInput
<1>9. CASE UNCHANGED vars BY <1>9 DEF vars
<1> QED BY <1>1, <1>2, <1>3, <1>4, <1>5, <1>6, <1>7, <1>8, <1>9 DEF Next

\* No dispatch is ahead of the Run.
LEMMA DispatchStep ==
    ASSUME IndInv, [Next]_vars
    PROVE  DispatchInv'
<1> USE WorkersAssumption, ItemsAssumption
    DEF IndInv, DispatchInv, QueueTypeOK, NoEntry, TypeOK, RunTypeOK,
        RowTypeOK, WorkerTypeOK, PlaceTypeOK, Goto, Keep, Read, Raise, Leave,
        Forget, MutateRun, Fault, CGoto, FencedTransition, Interrupt,
        LeaseHeld, runVars, queueVars, workerVars, callerVars
<1>1. ASSUME NEW w \in Workers,
             Deliver(w) \/ HandleEntry(w) \/ Execute(w) \/ HandleException(w)
                \/ HeartbeatFindsLeaseLost(w) \/ Disturb(w)
      PROVE  DispatchInv'
  <2>1. CASE Deliver(w) BY <2>1 DEF Deliver
  <2>2. CASE ReadBeforeClaim(w) BY <2>2 DEF ReadBeforeClaim
  <2>3. CASE ClaimRunExecution(w) BY <2>3 DEF ClaimRunExecution
  <2>4. CASE ReadWhenBusy(w)
    <3>1. CASE state \in Active BY <2>4, <3>1 DEF ReadWhenBusy
    <3>2. CASE state \notin Active BY <2>4, <3>2 DEF ReadWhenBusy
    <3> QED BY <3>1, <3>2
  <2>5. CASE Release(w) BY <2>5 DEF Release
  <2>6. CASE Acknowledge(w) BY <2>6 DEF Acknowledge
  <2>7. CASE ReadAtStart(w) BY <2>7 DEF ReadAtStart
  <2>8. CASE BeginRun(w) BY <2>8 DEF BeginRun
  <2>9. CASE RequireInput(w) BY <2>9 DEF RequireInput
  <2>10. CASE ReadForProgress(w) BY <2>10 DEF ReadForProgress
  <2>11. CASE ReportProgress(w) BY <2>11 DEF ReportProgress
  <2>12. CASE FinishExecution(w) BY <2>12 DEF FinishExecution
  <2>13. CASE CheckStillRunning(w) BY <2>13 DEF CheckStillRunning
  <2>14. CASE CreateArtifact(w) BY <2>14 DEF CreateArtifact
  <2>15. CASE PublishResult(w) BY <2>15 DEF PublishResult
  <2>16. CASE CompleteRun(w) BY <2>16 DEF CompleteRun
  <2>17. CASE ReportCandidate(w) BY <2>17 DEF ReportCandidate
  <2>18. CASE BlockRun(w) BY <2>18 DEF BlockRun
  <2>19. CASE ReadAfterInterruption(w) BY <2>19 DEF ReadAfterInterruption
  <2>20. CASE ReadToCancel(w) BY <2>20 DEF ReadToCancel
  <2>21. CASE WriteCanceled(w) BY <2>21 DEF WriteCanceled
  <2>22. CASE ReadToFail(w) BY <2>22 DEF ReadToFail
  <2>23. CASE WriteFailed(w) BY <2>23 DEF WriteFailed
  <2>24. CASE HeartbeatFindsLeaseLost(w) BY <2>24 DEF HeartbeatFindsLeaseLost
  <2>25. CASE HeartbeatFails(w) BY <2>25 DEF HeartbeatFails
  <2>26. CASE Shutdown(w) BY <2>26 DEF Shutdown
  <2>27. CASE ExecutionError(w) BY <2>27 DEF ExecutionError
  <2>28. CASE Crash(w) BY <2>28 DEF Crash
  <2> QED BY <1>1, <2>1, <2>2, <2>3, <2>4, <2>5, <2>6, <2>7, <2>8, <2>9, <2>10,
        <2>11, <2>12, <2>13, <2>14, <2>15, <2>16, <2>17, <2>18, <2>19, <2>20,
        <2>21, <2>22, <2>23, <2>24, <2>25, <2>26, <2>27, <2>28 DEF HandleEntry,
        Execute, HandleException, Disturb
<1>2. ASSUME NEW c \in Callers,
             ReadForCancel(c) \/ CancelCall(c) \/ PropagationFails(c) \/ CallerLost(c)
      PROVE  DispatchInv'
  <2>1. CASE ReadForCancel(c) BY <2>1 DEF ReadForCancel
  <2>2. CASE RequestCancel(c) BY <2>2 DEF RequestCancel
  <2>3. CASE PropagateCancel(c) BY <2>3 DEF PropagateCancel
  <2>4. CASE ReadToFinishCancel(c) BY <2>4 DEF ReadToFinishCancel
  <2>5. CASE FinishCancel(c) BY <2>5 DEF FinishCancel
  <2>6. CASE PropagationFails(c) BY <2>6 DEF PropagationFails
  <2>7. CASE CallerLost(c) BY <2>7 DEF CallerLost
  <2> QED BY <1>2, <2>1, <2>2, <2>3, <2>4, <2>5, <2>6, <2>7 DEF CancelCall
<1>3. CASE ExpireAbandonedLease BY <1>3 DEF ExpireAbandonedLease
<1>4. CASE ExpireStalledLease BY <1>4 DEF ExpireStalledLease
<1>5. CASE RelayDispatch BY <1>5 DEF RelayDispatch
<1>6. CASE RelayUnmarked BY <1>6 DEF RelayUnmarked
<1>7. CASE ResumeRun BY <1>7 DEF ResumeRun
<1>8. CASE ExpirePendingInput BY <1>8 DEF ExpirePendingInput
<1>9. CASE UNCHANGED vars BY <1>9 DEF vars
<1> QED BY <1>1, <1>2, <1>3, <1>4, <1>5, <1>6, <1>7, <1>8, <1>9 DEF Next

\* Initially nothing has been claimed, read, saved or dispatched.
LEMMA InitInv == Init => IndInv
<1> SUFFICES ASSUME Init PROVE IndInv
  OBVIOUS
<1> USE ItemsAssumption DEF Init
<1>1. TypeOK
  BY DEF TypeOK, RunTypeOK, RowTypeOK, QueueTypeOK, WorkerTypeOK, PlaceTypeOK, Lifecycle,
         Active, Outside, NoEntry
<1>2. LeaseInv BY DEF LeaseInv, Executing, Body, Handlers
<1>3. \A w \in Workers : ReadsAreCurrent(w) /\ ProgressInv(w)
  BY DEF ReadsAreCurrent, ProgressInv, Past, Saving
<1>4. \A w \in Workers : SavedInv(w) /\ HolderIsCurrent(w)
  BY DEF SavedInv, Saving, HolderIsCurrent, Writes
<1>5. PublishInv BY DEF PublishInv, Passed, Saving
<1>6. PublishedSetIsWhole BY DEF PublishedSetIsWhole
<1>7. \A c \in Callers : CallerInv(c) BY DEF CallerInv
<1>8. DispatchInv BY DEF DispatchInv, NoEntry
<1> QED BY <1>1, <1>2, <1>3, <1>4, <1>5, <1>6, <1>7, <1>8 DEF IndInv

\* One step preserves the whole invariant.
LEMMA NextInv == IndInv /\ [Next]_vars => IndInv'
<1> SUFFICES ASSUME IndInv, [Next]_vars PROVE IndInv'
  OBVIOUS
<1>1. TypeOK' BY TypeStep DEF IndInv
<1>2. LeaseInv' BY LeaseStep DEF IndInv
<1>3. \A w \in Workers : ReadsAreCurrent(w)' BY ReadsStep
<1>4. \A w \in Workers : ProgressInv(w)' BY ProgressStep
<1>5. \A w \in Workers : SavedInv(w)' BY SavedStep
<1>6. \A w \in Workers : HolderIsCurrent(w)' BY HolderStep
<1>7. PublishInv' BY PublishStep
<1>8. PublishedSetIsWhole' BY WholeStep
<1>9. \A c \in Callers : CallerInv(c)' BY CallerStep
<1>10. DispatchInv' BY DispatchStep
<1> QED BY <1>1, <1>2, <1>3, <1>4, <1>5, <1>6, <1>7, <1>8, <1>9, <1>10 DEF IndInv

\* IndInv holds throughout every execution.
THEOREM Invariance == Spec => []IndInv
<1>1. Init => IndInv BY InitInv
<1>2. IndInv /\ [Next]_vars => IndInv' BY NextInv
<1> QED BY <1>1, <1>2, PTL DEF Spec

-----------------------------------------------------------------------------
(* Invariants. *)

\* Every variable keeps its type, whatever the workers, the API and the faults do.
THEOREM TypeCorrect == Spec => []TypeOK
<1>1. IndInv => TypeOK BY DEF IndInv
<1> QED BY <1>1, Invariance, PTL

\* The holder of an execution lease never meets a VersionConflict in _execute, so the
\* clause that swallows one and lets a running Run be acknowledged is never entered.
THEOREM NoConflictUnderLease == Spec => []LeaseHolderNeverConflicts
<1>1. IndInv => LeaseHolderNeverConflicts BY DEF IndInv, ProgressInv, LeaseHolderNeverConflicts
<1> QED BY <1>1, Invariance, PTL

\* A CancelledError that no shutdown and no lost heartbeat explains means that the Run was
\* canceled or has ended: _execute does not re-raise it into the consumer loop.
THEOREM OnlyCancellationInterrupts == Spec => []InterruptedOnlyByCancel
<1>1. IndInv => InterruptedOnlyByCancel
  BY DEF IndInv, ProgressInv, InterruptedOnlyByCancel, Ended
<1> QED BY <1>1, Invariance, PTL

\* The dispatch fence of process_entry never rejects a dispatch the outbox emitted.
THEOREM DispatchIsNeverAhead == Spec => []DispatchNeverDeadLettered
<1>1. IndInv => DispatchNeverDeadLettered BY DEF IndInv, DispatchInv, DispatchNeverDeadLettered
<1> QED BY <1>1, Invariance, PTL

\* A published result and its supporting artifacts come from one attempt, and a completed
\* Run has published, whatever attempts crashed or lost their lease before.
THEOREM PublicationIsWhole == Spec => []PublishedSetIsWhole
<1>1. IndInv => PublishedSetIsWhole BY DEF IndInv
<1> QED BY <1>1, Invariance, PTL

-----------------------------------------------------------------------------
(* No executable Run is forgotten. *)

\* A fenced write of _execute either finds the lease held, and then the version it has
\* read is current, or raises RunExecutionLeaseLost and writes nothing.
LEMMA FencedOutcome ==
    ASSUME IndInv, NEW w \in Workers, NEW s, NEW next, FencedTransition(w, s, next),
           pc[w] \in Writes \ {"cancelwrite"}
    PROVE  \/ /\ LeaseHeld(w) /\ MutateRun(s)
              /\ IF next = "return" THEN Leave(w, "returned")
                                    ELSE Goto(w, next) /\ UNCHANGED <<item, outcome>>
           \/ /\ ~LeaseHeld(w) /\ Leave(w, "raised")
              /\ UNCHANGED <<state, version, owner, lease>>
BY DEF IndInv, HolderIsCurrent, Token, LeaseHeld, FencedTransition

\* Entries and those in the workers' hands are among the ones sent.
LEMMA SentStep ==
    ASSUME IndInv, EntriesAreSent, [Next]_vars
    PROVE  EntriesAreSent'
<1> USE DEF IndInv, EntriesAreSent, QueueTypeOK, NoEntry, TypeOK,
        WorkerTypeOK, Goto, Forget, runVars, queueVars, workerVars, callerVars
<1>1. ASSUME NEW w \in Workers,
             Deliver(w) \/ HandleEntry(w) \/ Execute(w) \/ HandleException(w)
                \/ HeartbeatFindsLeaseLost(w) \/ Disturb(w)
      PROVE  EntriesAreSent'
  <2>1. CASE Deliver(w) BY <2>1 DEF Deliver
  <2>2. CASE ReadBeforeClaim(w) BY <2>2 DEF ReadBeforeClaim
  <2>3. CASE ClaimRunExecution(w) BY <2>3 DEF ClaimRunExecution
  <2>4. CASE ReadWhenBusy(w) BY <2>4 DEF ReadWhenBusy
  <2>5. CASE Release(w) BY <2>5 DEF Release
  <2>6. CASE Acknowledge(w) BY <2>6 DEF Acknowledge
  <2>7. CASE ReadAtStart(w) BY <2>7 DEF ReadAtStart
  <2>8. CASE BeginRun(w) BY <2>8 DEF BeginRun
  <2>9. CASE RequireInput(w) BY <2>9 DEF RequireInput
  <2>10. CASE ReadForProgress(w) BY <2>10 DEF ReadForProgress
  <2>11. CASE ReportProgress(w) BY <2>11 DEF ReportProgress
  <2>12. CASE FinishExecution(w) BY <2>12 DEF FinishExecution
  <2>13. CASE CheckStillRunning(w) BY <2>13 DEF CheckStillRunning
  <2>14. CASE CreateArtifact(w) BY <2>14 DEF CreateArtifact
  <2>15. CASE PublishResult(w) BY <2>15 DEF PublishResult
  <2>16. CASE CompleteRun(w) BY <2>16 DEF CompleteRun
  <2>17. CASE ReportCandidate(w) BY <2>17 DEF ReportCandidate
  <2>18. CASE BlockRun(w) BY <2>18 DEF BlockRun
  <2>19. CASE ReadAfterInterruption(w) BY <2>19 DEF ReadAfterInterruption
  <2>20. CASE ReadToCancel(w) BY <2>20 DEF ReadToCancel
  <2>21. CASE WriteCanceled(w) BY <2>21 DEF WriteCanceled
  <2>22. CASE ReadToFail(w) BY <2>22 DEF ReadToFail
  <2>23. CASE WriteFailed(w) BY <2>23 DEF WriteFailed
  <2>24. CASE HeartbeatFindsLeaseLost(w) BY <2>24 DEF HeartbeatFindsLeaseLost
  <2>25. CASE HeartbeatFails(w) BY <2>25 DEF HeartbeatFails
  <2>26. CASE Shutdown(w) BY <2>26 DEF Shutdown
  <2>27. CASE ExecutionError(w) BY <2>27 DEF ExecutionError
  <2>28. CASE Crash(w) BY <2>28 DEF Crash
  <2> QED BY <1>1, <2>1, <2>2, <2>3, <2>4, <2>5, <2>6, <2>7, <2>8, <2>9, <2>10,
        <2>11, <2>12, <2>13, <2>14, <2>15, <2>16, <2>17, <2>18, <2>19, <2>20,
        <2>21, <2>22, <2>23, <2>24, <2>25, <2>26, <2>27, <2>28 DEF HandleEntry,
        Execute, HandleException, Disturb
<1>2. ASSUME NEW c \in Callers,
             ReadForCancel(c) \/ CancelCall(c) \/ PropagationFails(c) \/ CallerLost(c)
      PROVE  EntriesAreSent'
  <2>1. CASE ReadForCancel(c) BY <2>1 DEF ReadForCancel
  <2>2. CASE RequestCancel(c) BY <2>2 DEF RequestCancel
  <2>3. CASE PropagateCancel(c) BY <2>3 DEF PropagateCancel
  <2>4. CASE ReadToFinishCancel(c) BY <2>4 DEF ReadToFinishCancel
  <2>5. CASE FinishCancel(c) BY <2>5 DEF FinishCancel
  <2>6. CASE PropagationFails(c) BY <2>6 DEF PropagationFails
  <2>7. CASE CallerLost(c) BY <2>7 DEF CallerLost
  <2> QED BY <1>2, <2>1, <2>2, <2>3, <2>4, <2>5, <2>6, <2>7 DEF CancelCall
<1>3. CASE ExpireAbandonedLease BY <1>3 DEF ExpireAbandonedLease
<1>4. CASE ExpireStalledLease BY <1>4 DEF ExpireStalledLease
<1>5. CASE RelayDispatch BY <1>5 DEF RelayDispatch
<1>6. CASE RelayUnmarked BY <1>6 DEF RelayUnmarked
<1>7. CASE ResumeRun BY <1>7 DEF ResumeRun
<1>8. CASE ExpirePendingInput BY <1>8 DEF ExpirePendingInput
<1>9. CASE UNCHANGED vars BY <1>9 DEF vars
<1> QED BY <1>1, <1>2, <1>3, <1>4, <1>5, <1>6, <1>7, <1>8, <1>9 DEF Next

\* A signal takes an execution out of the try block.
LEMMA SignalStep ==
    ASSUME IndInv, SignalsInterrupt, [Next]_vars
    PROVE  SignalsInterrupt'
<1> USE WorkersAssumption, ItemsAssumption
    DEF IndInv, SignalsInterrupt, ProgressInv, TypeOK, RunTypeOK,
        RowTypeOK, WorkerTypeOK, PlaceTypeOK, Goto, Keep, Read, Raise, Leave,
        Forget, MutateRun, Fault, CGoto, FencedTransition, Interrupt,
        LeaseHeld, Executing, Body, Handlers, Active, Terminal, Lifecycle,
        runVars, queueVars, workerVars, callerVars
<1>1. ASSUME NEW w \in Workers,
             Deliver(w) \/ HandleEntry(w) \/ Execute(w) \/ HandleException(w)
                \/ HeartbeatFindsLeaseLost(w) \/ Disturb(w)
      PROVE  SignalsInterrupt'
  <2>1. CASE Deliver(w) BY <2>1 DEF Deliver
  <2>2. CASE ReadBeforeClaim(w) BY <2>2 DEF ReadBeforeClaim
  <2>3. CASE ClaimRunExecution(w) BY <2>3 DEF ClaimRunExecution
  <2>4. CASE ReadWhenBusy(w) BY <2>4 DEF ReadWhenBusy
  <2>5. CASE Release(w) BY <2>5 DEF Release
  <2>6. CASE Acknowledge(w) BY <2>6 DEF Acknowledge
  <2>7. CASE ReadAtStart(w) BY <2>7 DEF ReadAtStart, AfterStart
  <2>8. CASE BeginRun(w) BY <2>8 DEF BeginRun, AfterStart
  <2>9. CASE RequireInput(w) BY <2>9 DEF RequireInput
  <2>10. CASE ReadForProgress(w) BY <2>10 DEF ReadForProgress
  <2>11. CASE ReportProgress(w) BY <2>11 DEF ReportProgress
  <2>12. CASE FinishExecution(w) BY <2>12 DEF FinishExecution
  <2>13. CASE CheckStillRunning(w) BY <2>13 DEF CheckStillRunning
  <2>14. CASE CreateArtifact(w) BY <2>14 DEF CreateArtifact
  <2>15. CASE PublishResult(w) BY <2>15 DEF PublishResult
  <2>16. CASE CompleteRun(w) BY <2>16 DEF CompleteRun
  <2>17. CASE ReportCandidate(w) BY <2>17 DEF ReportCandidate
  <2>18. CASE BlockRun(w) BY <2>18 DEF BlockRun
  <2>19. CASE ReadAfterInterruption(w) BY <2>19 DEF ReadAfterInterruption
  <2>20. CASE ReadToCancel(w) BY <2>20 DEF ReadToCancel
  <2>21. CASE WriteCanceled(w) BY <2>21 DEF WriteCanceled
  <2>22. CASE ReadToFail(w) BY <2>22 DEF ReadToFail
  <2>23. CASE WriteFailed(w) BY <2>23 DEF WriteFailed
  <2>24. CASE HeartbeatFindsLeaseLost(w) BY <2>24 DEF HeartbeatFindsLeaseLost
  <2>25. CASE HeartbeatFails(w) BY <2>25 DEF HeartbeatFails
  <2>26. CASE Shutdown(w) BY <2>26 DEF Shutdown
  <2>27. CASE ExecutionError(w) BY <2>27 DEF ExecutionError
  <2>28. CASE Crash(w) BY <2>28 DEF Crash
  <2> QED BY <1>1, <2>1, <2>2, <2>3, <2>4, <2>5, <2>6, <2>7, <2>8, <2>9, <2>10,
        <2>11, <2>12, <2>13, <2>14, <2>15, <2>16, <2>17, <2>18, <2>19, <2>20,
        <2>21, <2>22, <2>23, <2>24, <2>25, <2>26, <2>27, <2>28 DEF HandleEntry,
        Execute, HandleException, Disturb
<1>2. ASSUME NEW c \in Callers,
             ReadForCancel(c) \/ CancelCall(c) \/ PropagationFails(c) \/ CallerLost(c)
      PROVE  SignalsInterrupt'
  <2>1. CASE ReadForCancel(c) BY <2>1 DEF ReadForCancel
  <2>2. CASE RequestCancel(c) BY <2>2 DEF RequestCancel
  <2>3. CASE PropagateCancel(c) BY <2>3 DEF PropagateCancel
  <2>4. CASE ReadToFinishCancel(c) BY <2>4 DEF ReadToFinishCancel
  <2>5. CASE FinishCancel(c) BY <2>5 DEF FinishCancel
  <2>6. CASE PropagationFails(c) BY <2>6 DEF PropagationFails
  <2>7. CASE CallerLost(c) BY <2>7 DEF CallerLost
  <2> QED BY <1>2, <2>1, <2>2, <2>3, <2>4, <2>5, <2>6, <2>7 DEF CancelCall
<1>3. CASE ExpireAbandonedLease BY <1>3 DEF ExpireAbandonedLease
<1>4. CASE ExpireStalledLease BY <1>4 DEF ExpireStalledLease
<1>5. CASE RelayDispatch BY <1>5 DEF RelayDispatch
<1>6. CASE RelayUnmarked BY <1>6 DEF RelayUnmarked
<1>7. CASE ResumeRun BY <1>7 DEF ResumeRun
<1>8. CASE ExpirePendingInput BY <1>8 DEF ExpirePendingInput
<1>9. CASE UNCHANGED vars BY <1>9 DEF vars
<1> QED BY <1>1, <1>2, <1>3, <1>4, <1>5, <1>6, <1>7, <1>8, <1>9 DEF Next

\* Without a stalled lease, whoever executes holds the lease until the Run has ended.
LEMMA LeasedStep ==
    ASSUME IndInv, ExecutionsAreLeased, [Next]_vars
    PROVE  ExecutionsAreLeased'
<1> USE WorkersAssumption, ItemsAssumption
    DEF IndInv, Ended, Undisturbed, ExecutionsAreLeased, Leased, LeaseInv,
        ReadsAreCurrent, ProgressInv, HolderIsCurrent, CallerInv, TypeOK, RunTypeOK,
        RowTypeOK, WorkerTypeOK, PlaceTypeOK, Goto, Keep, Read, Raise, Leave,
        Forget, MutateRun, Fault, CGoto, FencedTransition, Interrupt,
        LeaseHeld, Executing, Body, Handlers, Active, Terminal, Lifecycle,
        runVars, queueVars, workerVars, callerVars
<1>1. ASSUME NEW w \in Workers,
             Deliver(w) \/ HandleEntry(w) \/ Execute(w) \/ HandleException(w)
                \/ HeartbeatFindsLeaseLost(w) \/ Disturb(w)
      PROVE  ExecutionsAreLeased'
  <2>1. CASE Deliver(w) BY <2>1 DEF Deliver
  <2>2. CASE ReadBeforeClaim(w) BY <2>2 DEF ReadBeforeClaim
  <2>3. CASE ClaimRunExecution(w) BY <2>3 DEF ClaimRunExecution
  <2>4. CASE ReadWhenBusy(w) BY <2>4 DEF ReadWhenBusy
  <2>5. CASE Release(w) BY <2>5 DEF Release
  <2>6. CASE Acknowledge(w) BY <2>6 DEF Acknowledge
  <2>7. CASE ReadAtStart(w) BY <2>7 DEF ReadAtStart, AfterStart
  <2>8. CASE BeginRun(w) BY <2>8 DEF BeginRun
  <2>9. CASE RequireInput(w) BY <2>9 DEF RequireInput
  <2>10. CASE ReadForProgress(w) BY <2>10 DEF ReadForProgress
  <2>11. CASE ReportProgress(w) BY <2>11 DEF ReportProgress
  <2>12. CASE FinishExecution(w) BY <2>12 DEF FinishExecution
  <2>13. CASE CheckStillRunning(w) BY <2>13 DEF CheckStillRunning
  <2>14. CASE CreateArtifact(w) BY <2>14 DEF CreateArtifact
  <2>15. CASE PublishResult(w) BY <2>15 DEF PublishResult
  <2>16. CASE CompleteRun(w) BY <2>16 DEF CompleteRun
  <2>17. CASE ReportCandidate(w) BY <2>17 DEF ReportCandidate
  <2>18. CASE BlockRun(w) BY <2>18 DEF BlockRun
  <2>19. CASE ReadAfterInterruption(w) BY <2>19 DEF ReadAfterInterruption
  <2>20. CASE ReadToCancel(w) BY <2>20 DEF ReadToCancel
  <2>21. CASE WriteCanceled(w) BY <2>21 DEF WriteCanceled
  <2>22. CASE ReadToFail(w) BY <2>22 DEF ReadToFail
  <2>23. CASE WriteFailed(w) BY <2>23 DEF WriteFailed
  <2>24. CASE HeartbeatFindsLeaseLost(w) BY <2>24 DEF HeartbeatFindsLeaseLost
  <2>25. CASE HeartbeatFails(w) BY <2>25 DEF HeartbeatFails
  <2>26. CASE Shutdown(w) BY <2>26 DEF Shutdown
  <2>27. CASE ExecutionError(w) BY <2>27 DEF ExecutionError
  <2>28. CASE Crash(w) BY <2>28 DEF Crash
  <2> QED BY <1>1, <2>1, <2>2, <2>3, <2>4, <2>5, <2>6, <2>7, <2>8, <2>9, <2>10,
        <2>11, <2>12, <2>13, <2>14, <2>15, <2>16, <2>17, <2>18, <2>19, <2>20,
        <2>21, <2>22, <2>23, <2>24, <2>25, <2>26, <2>27, <2>28 DEF HandleEntry,
        Execute, HandleException, Disturb
<1>2. ASSUME NEW c \in Callers,
             ReadForCancel(c) \/ CancelCall(c) \/ PropagationFails(c) \/ CallerLost(c)
      PROVE  ExecutionsAreLeased'
  <2>1. CASE ReadForCancel(c) BY <2>1 DEF ReadForCancel
  <2>2. CASE RequestCancel(c) BY <2>2 DEF RequestCancel
  <2>3. CASE PropagateCancel(c) BY <2>3 DEF PropagateCancel
  <2>4. CASE ReadToFinishCancel(c) BY <2>4 DEF ReadToFinishCancel
  <2>5. CASE FinishCancel(c) BY <2>5 DEF FinishCancel
  <2>6. CASE PropagationFails(c) BY <2>6 DEF PropagationFails
  <2>7. CASE CallerLost(c) BY <2>7 DEF CallerLost
  <2> QED BY <1>2, <2>1, <2>2, <2>3, <2>4, <2>5, <2>6, <2>7 DEF CancelCall
<1>3. CASE ExpireAbandonedLease BY <1>3 DEF ExpireAbandonedLease, Renewing
<1>4. CASE ExpireStalledLease BY <1>4 DEF ExpireStalledLease
<1>5. CASE RelayDispatch BY <1>5 DEF RelayDispatch
<1>6. CASE RelayUnmarked BY <1>6 DEF RelayUnmarked
<1>7. CASE ResumeRun BY <1>7 DEF ResumeRun
<1>8. CASE ExpirePendingInput BY <1>8 DEF ExpirePendingInput
<1>9. CASE UNCHANGED vars BY <1>9 DEF vars
<1> QED BY <1>1, <1>2, <1>3, <1>4, <1>5, <1>6, <1>7, <1>8, <1>9 DEF Next

\* Whoever fails holds the lease until the Run has ended: the first fault either raised
\* the error, or stalled a lease before there was any.
LEMMA FailuresStep ==
    ASSUME IndInv, ExecutionsAreLeased, FailuresAreLeased, FirstExecution, [Next]_vars
    PROVE  FailuresAreLeased'
<1> USE WorkersAssumption, ItemsAssumption
    DEF IndInv, Ended, Undisturbed, HardlyDisturbed, ExecutionsAreLeased,
        FailuresAreLeased, FirstExecution, Leased, LeaseInv, ReadsAreCurrent,
        ProgressInv, HolderIsCurrent, CallerInv, TypeOK, RunTypeOK,
        RowTypeOK, WorkerTypeOK, PlaceTypeOK, Goto, Keep, Read, Raise, Leave,
        Forget, MutateRun, Fault, CGoto, FencedTransition, Interrupt,
        LeaseHeld, Executing, Body, Handlers, Active, Terminal, Lifecycle,
        runVars, queueVars, workerVars, callerVars
<1>1. ASSUME NEW w \in Workers,
             Deliver(w) \/ HandleEntry(w) \/ Execute(w) \/ HandleException(w)
                \/ HeartbeatFindsLeaseLost(w) \/ Disturb(w)
      PROVE  FailuresAreLeased'
  <2>1. CASE Deliver(w) BY <2>1 DEF Deliver
  <2>2. CASE ReadBeforeClaim(w) BY <2>2 DEF ReadBeforeClaim
  <2>3. CASE ClaimRunExecution(w) BY <2>3 DEF ClaimRunExecution
  <2>4. CASE ReadWhenBusy(w) BY <2>4 DEF ReadWhenBusy
  <2>5. CASE Release(w) BY <2>5 DEF Release
  <2>6. CASE Acknowledge(w) BY <2>6 DEF Acknowledge
  <2>7. CASE ReadAtStart(w) BY <2>7 DEF ReadAtStart, AfterStart
  <2>8. CASE BeginRun(w) BY <2>8 DEF BeginRun
  <2>9. CASE RequireInput(w) BY <2>9 DEF RequireInput
  <2>10. CASE ReadForProgress(w) BY <2>10 DEF ReadForProgress
  <2>11. CASE ReportProgress(w) BY <2>11 DEF ReportProgress
  <2>12. CASE FinishExecution(w) BY <2>12 DEF FinishExecution
  <2>13. CASE CheckStillRunning(w) BY <2>13 DEF CheckStillRunning
  <2>14. CASE CreateArtifact(w) BY <2>14 DEF CreateArtifact
  <2>15. CASE PublishResult(w) BY <2>15 DEF PublishResult
  <2>16. CASE CompleteRun(w) BY <2>16 DEF CompleteRun
  <2>17. CASE ReportCandidate(w) BY <2>17 DEF ReportCandidate
  <2>18. CASE BlockRun(w) BY <2>18 DEF BlockRun
  <2>19. CASE ReadAfterInterruption(w) BY <2>19 DEF ReadAfterInterruption
  <2>20. CASE ReadToCancel(w) BY <2>20 DEF ReadToCancel
  <2>21. CASE WriteCanceled(w) BY <2>21 DEF WriteCanceled
  <2>22. CASE ReadToFail(w) BY <2>22 DEF ReadToFail
  <2>23. CASE WriteFailed(w) BY <2>23 DEF WriteFailed
  <2>24. CASE HeartbeatFindsLeaseLost(w) BY <2>24 DEF HeartbeatFindsLeaseLost
  <2>25. CASE HeartbeatFails(w) BY <2>25 DEF HeartbeatFails
  <2>26. CASE Shutdown(w) BY <2>26 DEF Shutdown
  <2>27. CASE ExecutionError(w) BY <2>27 DEF ExecutionError
  <2>28. CASE Crash(w) BY <2>28 DEF Crash
  <2> QED BY <1>1, <2>1, <2>2, <2>3, <2>4, <2>5, <2>6, <2>7, <2>8, <2>9, <2>10,
        <2>11, <2>12, <2>13, <2>14, <2>15, <2>16, <2>17, <2>18, <2>19, <2>20,
        <2>21, <2>22, <2>23, <2>24, <2>25, <2>26, <2>27, <2>28 DEF HandleEntry,
        Execute, HandleException, Disturb
<1>2. ASSUME NEW c \in Callers,
             ReadForCancel(c) \/ CancelCall(c) \/ PropagationFails(c) \/ CallerLost(c)
      PROVE  FailuresAreLeased'
  <2>1. CASE ReadForCancel(c) BY <2>1 DEF ReadForCancel
  <2>2. CASE RequestCancel(c) BY <2>2 DEF RequestCancel
  <2>3. CASE PropagateCancel(c) BY <2>3 DEF PropagateCancel
  <2>4. CASE ReadToFinishCancel(c) BY <2>4 DEF ReadToFinishCancel
  <2>5. CASE FinishCancel(c) BY <2>5 DEF FinishCancel
  <2>6. CASE PropagationFails(c) BY <2>6 DEF PropagationFails
  <2>7. CASE CallerLost(c) BY <2>7 DEF CallerLost
  <2> QED BY <1>2, <2>1, <2>2, <2>3, <2>4, <2>5, <2>6, <2>7 DEF CancelCall
<1>3. CASE ExpireAbandonedLease BY <1>3 DEF ExpireAbandonedLease, Renewing
<1>4. CASE ExpireStalledLease BY <1>4 DEF ExpireStalledLease
<1>5. CASE RelayDispatch BY <1>5 DEF RelayDispatch
<1>6. CASE RelayUnmarked BY <1>6 DEF RelayUnmarked
<1>7. CASE ResumeRun BY <1>7 DEF ResumeRun
<1>8. CASE ExpirePendingInput BY <1>8 DEF ExpirePendingInput
<1>9. CASE UNCHANGED vars BY <1>9 DEF vars
<1> QED BY <1>1, <1>2, <1>3, <1>4, <1>5, <1>6, <1>7, <1>8, <1>9 DEF Next

\* Before the first fault nobody's insert is refused.
LEMMA FirstStep ==
    ASSUME IndInv, ExecutionsAreLeased, FirstExecution, SignalsInterrupt, [Next]_vars
    PROVE  FirstExecution'
<1> USE WorkersAssumption, ItemsAssumption
    DEF IndInv, Ended, Undisturbed, ExecutionsAreLeased,
        FirstExecution, Leased, LeaseInv, ReadsAreCurrent, SavedBy,
        ProgressInv, CallerInv, Saving, Past, TypeOK, RunTypeOK,
        RowTypeOK, WorkerTypeOK, PlaceTypeOK, Goto, Keep, Read, Raise, Leave,
        Forget, MutateRun, Fault, CGoto, Interrupt,
        LeaseHeld, Executing, Body, Handlers, Active, Terminal, Lifecycle,
        runVars, queueVars, workerVars, callerVars
<1>1. ASSUME NEW w \in Workers,
             Deliver(w) \/ HandleEntry(w) \/ Execute(w) \/ HandleException(w)
                \/ HeartbeatFindsLeaseLost(w) \/ Disturb(w)
      PROVE  FirstExecution'
  <2>1. CASE Deliver(w) BY <2>1 DEF Deliver
  <2>2. CASE ReadBeforeClaim(w) BY <2>2 DEF ReadBeforeClaim
  <2>3. CASE ClaimRunExecution(w) BY <2>3 DEF ClaimRunExecution
  <2>4. CASE ReadWhenBusy(w) BY <2>4 DEF ReadWhenBusy
  <2>5. CASE Release(w) BY <2>5 DEF Release
  <2>6. CASE Acknowledge(w) BY <2>6 DEF Acknowledge
  <2>7. CASE ReadAtStart(w) BY <2>7 DEF ReadAtStart, AfterStart
  <2>8. CASE BeginRun(w)
    <3>1. pc[w] \in Writes \ {"cancelwrite"} /\ FencedTransition(w, "running", AfterStart)
      BY <2>8 DEF BeginRun, Writes
    <3>2. UNCHANGED <<artifacts, attempt, mine, signal, faults>> BY <2>8 DEF BeginRun
    <3> QED BY <2>8, <3>1, <3>2, FencedOutcome DEF BeginRun, AfterStart
  <2>9. CASE RequireInput(w)
    <3>1. pc[w] \in Writes \ {"cancelwrite"} /\ FencedTransition(w, "waiting_input", "return")
      BY <2>9 DEF RequireInput, Writes
    <3>2. UNCHANGED <<artifacts, attempt, mine, signal, faults>> BY <2>9 DEF RequireInput
    <3>3. LeaseHeld(w) /\ faults = 0 => artifacts = {}
      BY <2>9 DEF RequireInput
    <3> QED BY <2>9, <3>3, <3>1, <3>2, FencedOutcome DEF RequireInput
  <2>10. CASE ReadForProgress(w) BY <2>10 DEF ReadForProgress
  <2>11. CASE ReportProgress(w)
    <3>1. pc[w] \in Writes \ {"cancelwrite"} /\ FencedTransition(w, state, "exec")
      BY <2>11 DEF ReportProgress, Writes
    <3>2. UNCHANGED <<artifacts, attempt, mine, signal, faults>> BY <2>11 DEF ReportProgress
    <3>3. LeaseHeld(w) /\ faults = 0 => artifacts = {}
      BY <2>11 DEF ReportProgress
    <3> QED BY <2>11, <3>3, <3>1, <3>2, FencedOutcome DEF ReportProgress
  <2>12. CASE FinishExecution(w) BY <2>12 DEF FinishExecution
  <2>13. CASE CheckStillRunning(w) BY <2>13 DEF CheckStillRunning
  <2>14. CASE CreateArtifact(w)
    <3> DEFINE id == ArtifactId(item[w], mine[w])
    <3>1. CASE LeaseHeld(w) /\ id \notin artifacts
      <4> DEFINE next == IF item[w] + 1 >= NItems THEN "check" ELSE "save"
      <4>1. /\ artifacts' = artifacts \cup {id} /\ item' = [item EXCEPT ![w] = @ + 1]
            /\ pc' = [pc EXCEPT ![w] = next] /\ pc[w] = "save"
            /\ UNCHANGED <<state, attempt, owner, lease, mine, signal, faults>>
        BY <2>14, <3>1 DEF CreateArtifact
      <4>2. LeaseHeld(w)' /\ pc'[w] \in Saving /\ item'[w] = item[w] + 1 BY <3>1, <4>1
      <4>3. SavedBy(w) \cup {id} \subseteq SavedBy(w)'
        <5> HIDE DEF FirstExecution, ExecutionsAreLeased, LeaseInv, ProgressInv
        <5>1. item[w] \in 1..(item'[w] - 1) /\ 1..(item[w] - 1) \subseteq 1..(item'[w] - 1)
          BY <4>2
        <5> QED BY <4>1, <5>1 DEF ArtifactId
      <4>4. faults = 0 => \A a \in artifacts : a \in SavedBy(w)
        <5> HIDE DEF SavedBy
        <5> QED BY <3>1
      <4>5. signal[w] # "lost" BY <4>1 DEF SignalsInterrupt
      <4>6. \A u \in Workers : u # w => pc'[u] = pc[u] BY <4>1
      <4> HIDE DEF SavedBy, LeaseHeld
      <4> QED BY <4>1, <4>2, <4>3, <4>4, <4>5, <4>6
    <3>2. CASE LeaseHeld(w) /\ id \in artifacts
      <4>1. CASE faults = 0
        <5>1. id \in SavedBy(w) BY <3>2, <4>1
        <5>2. PICK i \in 1..(item[w] - 1) : id = ArtifactId(i, mine[w]) BY <5>1
        <5> QED BY <5>2 DEF ArtifactId
      <4>2. CASE faults # 0 BY <2>14, <4>2 DEF CreateArtifact
      <4> QED BY <4>1, <4>2
    <3>3. CASE ~LeaseHeld(w) BY <2>14, <3>3 DEF CreateArtifact
    <3> QED BY <3>1, <3>2, <3>3
  <2>15. CASE PublishResult(w)
    <3>1. pc[w] \in Writes \ {"cancelwrite"} /\ FencedTransition(w, state, "complete")
      BY <2>15 DEF PublishResult, Writes
    <3>2. UNCHANGED <<artifacts, attempt, mine, signal, faults>> BY <2>15 DEF PublishResult
    <3> QED BY <2>15, <3>1, <3>2, FencedOutcome DEF PublishResult
  <2>16. CASE CompleteRun(w)
    <3>1. pc[w] \in Writes \ {"cancelwrite"} /\ FencedTransition(w, "completed", "return")
      BY <2>16 DEF CompleteRun, Writes
    <3>2. UNCHANGED <<artifacts, attempt, mine, signal, faults>> BY <2>16 DEF CompleteRun
    <3> QED BY <2>16, <3>1, <3>2, FencedOutcome DEF CompleteRun
  <2>17. CASE ReportCandidate(w)
    <3>1. pc[w] \in Writes \ {"cancelwrite"} /\ FencedTransition(w, state, "block")
      BY <2>17 DEF ReportCandidate, Writes
    <3>2. UNCHANGED <<artifacts, attempt, mine, signal, faults>> BY <2>17 DEF ReportCandidate
    <3> QED BY <2>17, <3>1, <3>2, FencedOutcome DEF ReportCandidate
  <2>18. CASE BlockRun(w)
    <3>1. pc[w] \in Writes \ {"cancelwrite"} /\ FencedTransition(w, "failed", "return")
      BY <2>18 DEF BlockRun, Writes
    <3>2. UNCHANGED <<artifacts, attempt, mine, signal, faults>> BY <2>18 DEF BlockRun
    <3> QED BY <2>18, <3>1, <3>2, FencedOutcome DEF BlockRun
  <2>19. CASE ReadAfterInterruption(w) BY <2>19 DEF ReadAfterInterruption
  <2>20. CASE ReadToCancel(w) BY <2>20 DEF ReadToCancel
  <2>21. CASE WriteCanceled(w) BY <2>21 DEF WriteCanceled
  <2>22. CASE ReadToFail(w) BY <2>22 DEF ReadToFail
  <2>23. CASE WriteFailed(w) BY <2>23 DEF WriteFailed
  <2>24. CASE HeartbeatFindsLeaseLost(w) BY <2>24 DEF HeartbeatFindsLeaseLost
  <2>25. CASE HeartbeatFails(w) BY <2>25 DEF HeartbeatFails
  <2>26. CASE Shutdown(w) BY <2>26 DEF Shutdown
  <2>27. CASE ExecutionError(w) BY <2>27 DEF ExecutionError
  <2>28. CASE Crash(w) BY <2>28 DEF Crash
  <2> QED BY <1>1, <2>1, <2>2, <2>3, <2>4, <2>5, <2>6, <2>7, <2>8, <2>9, <2>10,
        <2>11, <2>12, <2>13, <2>14, <2>15, <2>16, <2>17, <2>18, <2>19, <2>20,
        <2>21, <2>22, <2>23, <2>24, <2>25, <2>26, <2>27, <2>28 DEF HandleEntry,
        Execute, HandleException, Disturb
<1>2. ASSUME NEW c \in Callers,
             ReadForCancel(c) \/ CancelCall(c) \/ PropagationFails(c) \/ CallerLost(c)
      PROVE  FirstExecution'
  <2>1. CASE ReadForCancel(c) BY <2>1 DEF ReadForCancel
  <2>2. CASE RequestCancel(c) BY <2>2 DEF RequestCancel
  <2>3. CASE PropagateCancel(c) BY <2>3 DEF PropagateCancel
  <2>4. CASE ReadToFinishCancel(c) BY <2>4 DEF ReadToFinishCancel
  <2>5. CASE FinishCancel(c) BY <2>5 DEF FinishCancel
  <2>6. CASE PropagationFails(c) BY <2>6 DEF PropagationFails
  <2>7. CASE CallerLost(c) BY <2>7 DEF CallerLost
  <2> QED BY <1>2, <2>1, <2>2, <2>3, <2>4, <2>5, <2>6, <2>7 DEF CancelCall
<1>3. CASE ExpireAbandonedLease BY <1>3 DEF ExpireAbandonedLease, Renewing
<1>4. CASE ExpireStalledLease BY <1>4 DEF ExpireStalledLease
<1>5. CASE RelayDispatch BY <1>5 DEF RelayDispatch
<1>6. CASE RelayUnmarked BY <1>6 DEF RelayUnmarked
<1>7. CASE ResumeRun BY <1>7 DEF ResumeRun
<1>8. CASE ExpirePendingInput BY <1>8 DEF ExpirePendingInput
<1>9. CASE UNCHANGED vars BY <1>9 DEF vars
<1> QED BY <1>1, <1>2, <1>3, <1>4, <1>5, <1>6, <1>7, <1>8, <1>9 DEF Next

\* A dispatch is kept by a step that takes none away, by which no execution ends that
\* leaves the Run executable.
LEMMA StillKept ==
    ASSUME DispatchIsKept, UNCHANGED <<outbox, entries>>, faults \in Nat, faults' \in Nat, faults <= faults',
           HardlyDisturbed' /\ state' \in Active =>
             /\ state \in Active
             /\ \A u \in Workers : Finishing(u)' => Finishing(u) /\ entry'[u] = entry[u]
    PROVE  DispatchIsKept'
<1> SUFFICES ASSUME HardlyDisturbed', state' \in Active, outbox = {}
             PROVE  \E e \in entries : \A u \in Workers : Finishing(u)' => entry'[u] # e
  BY DEF DispatchIsKept
<1>1. HardlyDisturbed /\ state \in Active BY DEF HardlyDisturbed
<1>2. PICK e \in entries : \A u \in Workers : Finishing(u) => entry[u] # e
  BY <1>1 DEF DispatchIsKept
<1> QED BY <1>2

\* Whoever acknowledges a dispatch leaves the Run ended, waiting, or with another dispatch.
LEMMA KeptStep ==
    ASSUME IndInv, FailuresAreLeased, EntriesAreSent, DispatchIsKept, [Next]_vars
    PROVE  DispatchIsKept'
<1> USE WorkersAssumption, ItemsAssumption
    DEF IndInv, HardlyDisturbed, Finishing, ReadsAreCurrent, ProgressInv,
        CallerInv, TypeOK, RunTypeOK,
        RowTypeOK, WorkerTypeOK, PlaceTypeOK, Goto, Keep, Read, Raise, Leave,
        Forget, MutateRun, Fault, CGoto, Interrupt,
        LeaseHeld, Executing, Body, Handlers, Active, Terminal, Lifecycle,
        runVars, queueVars, workerVars, callerVars
<1>1. ASSUME NEW w \in Workers,
             Deliver(w) \/ HandleEntry(w) \/ Execute(w) \/ HandleException(w)
                \/ HeartbeatFindsLeaseLost(w) \/ Disturb(w)
      PROVE  DispatchIsKept'
  <2>1. CASE Deliver(w) BY <2>1, StillKept DEF Deliver
  <2>2. CASE ReadBeforeClaim(w) BY <2>2, StillKept DEF ReadBeforeClaim, DispatchInv
  <2>3. CASE ClaimRunExecution(w) BY <2>3, StillKept DEF ClaimRunExecution
  <2>4. CASE ReadWhenBusy(w) BY <2>4, StillKept DEF ReadWhenBusy
  <2>5. CASE Release(w) BY <2>5, StillKept DEF Release
  <2>6. CASE Acknowledge(w)
    <3>1. entries' = entries \ {entry[w]} /\ UNCHANGED <<state, outbox, faults>> BY <2>6 DEF Acknowledge
    <3>2. \A u \in Workers : Finishing(u)' => Finishing(u) /\ entry'[u] = entry[u]
      BY <2>6 DEF Acknowledge
    <3>3. Finishing(w) BY <2>6 DEF Acknowledge
    <3> HIDE DEF Finishing
    <3> QED BY <3>1, <3>2, <3>3 DEF DispatchIsKept
  <2>7. CASE ReadAtStart(w) BY <2>7, StillKept DEF ReadAtStart, AfterStart
  <2>8. CASE BeginRun(w)
    <3>1. pc[w] \in Writes \ {"cancelwrite"} /\ FencedTransition(w, "running", AfterStart)
      BY <2>8 DEF BeginRun, Writes
    <3>2. UNCHANGED <<outbox, entries, entry, signal, faults>> BY <2>8 DEF BeginRun
    <3> QED BY <2>8, <3>1, <3>2, FencedOutcome, StillKept DEF BeginRun, AfterStart
  <2>9. CASE RequireInput(w)
    <3>1. pc[w] \in Writes \ {"cancelwrite"} /\ FencedTransition(w, "waiting_input", "return")
      BY <2>9 DEF RequireInput, Writes
    <3>2. UNCHANGED <<outbox, entries, entry, signal, faults>> BY <2>9 DEF RequireInput
    <3> QED BY <2>9, <3>1, <3>2, FencedOutcome, StillKept DEF RequireInput
  <2>10. CASE ReadForProgress(w) BY <2>10, StillKept DEF ReadForProgress
  <2>11. CASE ReportProgress(w)
    <3>1. pc[w] \in Writes \ {"cancelwrite"} /\ FencedTransition(w, state, "exec")
      BY <2>11 DEF ReportProgress, Writes
    <3>2. UNCHANGED <<outbox, entries, entry, signal, faults>> BY <2>11 DEF ReportProgress
    <3> QED BY <2>11, <3>1, <3>2, FencedOutcome, StillKept DEF ReportProgress
  <2>12. CASE FinishExecution(w) BY <2>12, StillKept DEF FinishExecution
  <2>13. CASE CheckStillRunning(w) BY <2>13, StillKept DEF CheckStillRunning
  <2>14. CASE CreateArtifact(w) BY <2>14, StillKept DEF CreateArtifact
  <2>15. CASE PublishResult(w)
    <3>1. pc[w] \in Writes \ {"cancelwrite"} /\ FencedTransition(w, state, "complete")
      BY <2>15 DEF PublishResult, Writes
    <3>2. UNCHANGED <<outbox, entries, entry, signal, faults>> BY <2>15 DEF PublishResult
    <3> QED BY <2>15, <3>1, <3>2, FencedOutcome, StillKept DEF PublishResult
  <2>16. CASE CompleteRun(w)
    <3>1. pc[w] \in Writes \ {"cancelwrite"} /\ FencedTransition(w, "completed", "return")
      BY <2>16 DEF CompleteRun, Writes
    <3>2. UNCHANGED <<outbox, entries, entry, signal, faults>> BY <2>16 DEF CompleteRun
    <3> QED BY <2>16, <3>1, <3>2, FencedOutcome, StillKept DEF CompleteRun
  <2>17. CASE ReportCandidate(w)
    <3>1. pc[w] \in Writes \ {"cancelwrite"} /\ FencedTransition(w, state, "block")
      BY <2>17 DEF ReportCandidate, Writes
    <3>2. UNCHANGED <<outbox, entries, entry, signal, faults>> BY <2>17 DEF ReportCandidate
    <3> QED BY <2>17, <3>1, <3>2, FencedOutcome, StillKept DEF ReportCandidate
  <2>18. CASE BlockRun(w)
    <3>1. pc[w] \in Writes \ {"cancelwrite"} /\ FencedTransition(w, "failed", "return")
      BY <2>18 DEF BlockRun, Writes
    <3>2. UNCHANGED <<outbox, entries, entry, signal, faults>> BY <2>18 DEF BlockRun
    <3> QED BY <2>18, <3>1, <3>2, FencedOutcome, StillKept DEF BlockRun
  <2>19. CASE ReadAfterInterruption(w) BY <2>19, StillKept DEF ReadAfterInterruption
  <2>20. CASE ReadToCancel(w) BY <2>20, StillKept DEF ReadToCancel
  <2>21. CASE WriteCanceled(w) BY <2>21, StillKept DEF WriteCanceled
  <2>22. CASE ReadToFail(w) BY <2>22, StillKept DEF ReadToFail
  <2>23. CASE WriteFailed(w)
    <3>1. LeaseHeld(w) => seen[w] = version
      BY <2>23 DEF WriteFailed, HolderIsCurrent, Token, Writes
    <3>2. HardlyDisturbed /\ signal[w] # "lost" => LeaseHeld(w) \/ state \in Ended
      BY <2>23 DEF WriteFailed, FailuresAreLeased, Leased
    <3> QED BY <2>23, <3>1, <3>2, StillKept DEF WriteFailed, Ended
  <2>24. CASE HeartbeatFindsLeaseLost(w) BY <2>24, StillKept DEF HeartbeatFindsLeaseLost
  <2>25. CASE HeartbeatFails(w) BY <2>25, StillKept DEF HeartbeatFails
  <2>26. CASE Shutdown(w) BY <2>26, StillKept DEF Shutdown
  <2>27. CASE ExecutionError(w) BY <2>27, StillKept DEF ExecutionError
  <2>28. CASE Crash(w) BY <2>28, StillKept DEF Crash
  <2> QED BY <1>1, <2>1, <2>2, <2>3, <2>4, <2>5, <2>6, <2>7, <2>8, <2>9, <2>10,
        <2>11, <2>12, <2>13, <2>14, <2>15, <2>16, <2>17, <2>18, <2>19, <2>20,
        <2>21, <2>22, <2>23, <2>24, <2>25, <2>26, <2>27, <2>28 DEF HandleEntry,
        Execute, HandleException, Disturb
<1>2. ASSUME NEW c \in Callers,
             ReadForCancel(c) \/ CancelCall(c) \/ PropagationFails(c) \/ CallerLost(c)
      PROVE  DispatchIsKept'
  <2>1. CASE ReadForCancel(c) BY <2>1, StillKept DEF ReadForCancel
  <2>2. CASE RequestCancel(c) BY <2>2, StillKept DEF RequestCancel
  <2>3. CASE PropagateCancel(c) BY <2>3, StillKept DEF PropagateCancel
  <2>4. CASE ReadToFinishCancel(c) BY <2>4, StillKept DEF ReadToFinishCancel
  <2>5. CASE FinishCancel(c) BY <2>5, StillKept DEF FinishCancel
  <2>6. CASE PropagationFails(c) BY <2>6, StillKept DEF PropagationFails
  <2>7. CASE CallerLost(c) BY <2>7, StillKept DEF CallerLost
  <2> QED BY <1>2, <2>1, <2>2, <2>3, <2>4, <2>5, <2>6, <2>7 DEF CancelCall
<1>3. CASE ExpireAbandonedLease BY <1>3, StillKept DEF ExpireAbandonedLease
<1>4. CASE ExpireStalledLease BY <1>4, StillKept DEF ExpireStalledLease
<1>5. CASE RelayDispatch
  <2>1. PICK cv \in outbox : entries' = entries \cup {[id |-> sent + 1, cv |-> cv]}
    BY <1>5 DEF RelayDispatch
  <2> DEFINE e == [id |-> sent + 1, cv |-> cv]
  <2>2. \A u \in Workers : entry[u] # e
    <3>1. e.id = sent + 1 OBVIOUS
    <3>2. \A u \in Workers : entry[u].id \in Nat /\ entry[u].id <= sent BY DEF EntriesAreSent
    <3>3. sent \in Nat BY DEF QueueTypeOK
    <3> HIDE DEF e
    <3> QED BY <3>1, <3>2, <3>3
  <2>3. UNCHANGED entry /\ e \in entries' BY <1>5, <2>1 DEF RelayDispatch
  <2> HIDE DEF e, Finishing
  <2> QED BY <2>2, <2>3 DEF DispatchIsKept
<1>6. CASE RelayUnmarked BY <1>6 DEF RelayUnmarked, DispatchIsKept
<1>7. CASE ResumeRun BY <1>7 DEF ResumeRun, DispatchIsKept
<1>8. CASE ExpirePendingInput BY <1>8, StillKept DEF ExpirePendingInput
<1>9. CASE UNCHANGED vars BY <1>9, StillKept DEF vars
<1> QED BY <1>1, <1>2, <1>3, <1>4, <1>5, <1>6, <1>7, <1>8, <1>9 DEF Next

\* One step keeps the dispatch of an executable Run, and what that rests on.
LEMMA NextKept == IndInv /\ KeptInv /\ [Next]_vars => KeptInv'
<1> SUFFICES ASSUME IndInv, KeptInv, [Next]_vars PROVE KeptInv'
  OBVIOUS
<1> USE DEF KeptInv
<1>1. ExecutionsAreLeased' BY LeasedStep
<1>2. FailuresAreLeased' BY FailuresStep
<1>3. FirstExecution' BY FirstStep
<1>4. SignalsInterrupt' BY SignalStep
<1>5. EntriesAreSent' BY SentStep
<1>6. DispatchIsKept' BY KeptStep
<1> QED BY <1>1, <1>2, <1>3, <1>4, <1>5, <1>6

\* KeptInv holds throughout every execution.
THEOREM KeptInvariance == Spec => []KeptInv
<1>1. Init => KeptInv
  BY DEF Init, KeptInv, ExecutionsAreLeased, FailuresAreLeased, FirstExecution,
         SignalsInterrupt, EntriesAreSent, DispatchIsKept, NoEntry, Executing, Body, Handlers
<1>2. IndInv /\ KeptInv /\ [Next]_vars => KeptInv' BY NextKept
<1> QED BY <1>1, <1>2, Invariance, PTL DEF Spec

\* An executable Run keeps a dispatch in the outbox or the stream, however many workers
\* crash, are stopped, lose their heartbeat or fail, as long as no lease stalls; and where a
\* lease may stall, as long as that would be the only fault.  (A stall and one error lose it.)
THEOREM RunIsNotForgotten == Spec => [](HardlyDisturbed => RunHasDispatch)
<1>1. KeptInv => (HardlyDisturbed => RunHasDispatch)
  BY DEF KeptInv, DispatchIsKept, RunHasDispatch
<1> QED BY <1>1, KeptInvariance, PTL

-----------------------------------------------------------------------------
(* What no step does. *)

\* The latest writer is never an earlier attempt than the writer before it.
LEMMA FencedStep ==
    ASSUME IndInv, [Next]_vars
    PROVE  writer' >= writer
<1> USE WorkersAssumption, ItemsAssumption
    DEF IndInv, LeaseInv, TypeOK, RunTypeOK, RowTypeOK, WorkerTypeOK,
        PlaceTypeOK, Goto, Keep, Read, Raise, Leave, Forget, MutateRun, Fault,
        CGoto, FencedTransition, Interrupt, LeaseHeld, runVars, queueVars,
        workerVars, callerVars
<1>1. ASSUME NEW w \in Workers,
             Deliver(w) \/ HandleEntry(w) \/ Execute(w) \/ HandleException(w)
                \/ HeartbeatFindsLeaseLost(w) \/ Disturb(w)
      PROVE  writer' >= writer
  <2>1. CASE Deliver(w) BY <2>1 DEF Deliver
  <2>2. CASE ReadBeforeClaim(w) BY <2>2 DEF ReadBeforeClaim
  <2>3. CASE ClaimRunExecution(w) BY <2>3 DEF ClaimRunExecution
  <2>4. CASE ReadWhenBusy(w) BY <2>4 DEF ReadWhenBusy
  <2>5. CASE Release(w) BY <2>5 DEF Release
  <2>6. CASE Acknowledge(w) BY <2>6 DEF Acknowledge
  <2>7. CASE ReadAtStart(w) BY <2>7 DEF ReadAtStart
  <2>8. CASE BeginRun(w) BY <2>8 DEF BeginRun
  <2>9. CASE RequireInput(w) BY <2>9 DEF RequireInput
  <2>10. CASE ReadForProgress(w) BY <2>10 DEF ReadForProgress
  <2>11. CASE ReportProgress(w) BY <2>11 DEF ReportProgress
  <2>12. CASE FinishExecution(w) BY <2>12 DEF FinishExecution
  <2>13. CASE CheckStillRunning(w) BY <2>13 DEF CheckStillRunning
  <2>14. CASE CreateArtifact(w) BY <2>14 DEF CreateArtifact
  <2>15. CASE PublishResult(w) BY <2>15 DEF PublishResult
  <2>16. CASE CompleteRun(w) BY <2>16 DEF CompleteRun
  <2>17. CASE ReportCandidate(w) BY <2>17 DEF ReportCandidate
  <2>18. CASE BlockRun(w) BY <2>18 DEF BlockRun
  <2>19. CASE ReadAfterInterruption(w) BY <2>19 DEF ReadAfterInterruption
  <2>20. CASE ReadToCancel(w) BY <2>20 DEF ReadToCancel
  <2>21. CASE WriteCanceled(w) BY <2>21 DEF WriteCanceled
  <2>22. CASE ReadToFail(w) BY <2>22 DEF ReadToFail
  <2>23. CASE WriteFailed(w) BY <2>23 DEF WriteFailed
  <2>24. CASE HeartbeatFindsLeaseLost(w) BY <2>24 DEF HeartbeatFindsLeaseLost
  <2>25. CASE HeartbeatFails(w) BY <2>25 DEF HeartbeatFails
  <2>26. CASE Shutdown(w) BY <2>26 DEF Shutdown
  <2>27. CASE ExecutionError(w) BY <2>27 DEF ExecutionError
  <2>28. CASE Crash(w) BY <2>28 DEF Crash
  <2> QED BY <1>1, <2>1, <2>2, <2>3, <2>4, <2>5, <2>6, <2>7, <2>8, <2>9, <2>10,
        <2>11, <2>12, <2>13, <2>14, <2>15, <2>16, <2>17, <2>18, <2>19, <2>20,
        <2>21, <2>22, <2>23, <2>24, <2>25, <2>26, <2>27, <2>28 DEF HandleEntry,
        Execute, HandleException, Disturb
<1>2. ASSUME NEW c \in Callers,
             ReadForCancel(c) \/ CancelCall(c) \/ PropagationFails(c) \/ CallerLost(c)
      PROVE  writer' >= writer
  <2>1. CASE ReadForCancel(c) BY <2>1 DEF ReadForCancel
  <2>2. CASE RequestCancel(c) BY <2>2 DEF RequestCancel
  <2>3. CASE PropagateCancel(c) BY <2>3 DEF PropagateCancel
  <2>4. CASE ReadToFinishCancel(c) BY <2>4 DEF ReadToFinishCancel
  <2>5. CASE FinishCancel(c) BY <2>5 DEF FinishCancel
  <2>6. CASE PropagationFails(c) BY <2>6 DEF PropagationFails
  <2>7. CASE CallerLost(c) BY <2>7 DEF CallerLost
  <2> QED BY <1>2, <2>1, <2>2, <2>3, <2>4, <2>5, <2>6, <2>7 DEF CancelCall
<1>3. CASE ExpireAbandonedLease BY <1>3 DEF ExpireAbandonedLease
<1>4. CASE ExpireStalledLease BY <1>4 DEF ExpireStalledLease
<1>5. CASE RelayDispatch BY <1>5 DEF RelayDispatch
<1>6. CASE RelayUnmarked BY <1>6 DEF RelayUnmarked
<1>7. CASE ResumeRun BY <1>7 DEF ResumeRun
<1>8. CASE ExpirePendingInput BY <1>8 DEF ExpirePendingInput
<1>9. CASE UNCHANGED vars BY <1>9 DEF vars
<1> QED BY <1>1, <1>2, <1>3, <1>4, <1>5, <1>6, <1>7, <1>8, <1>9 DEF Next

\* Once an attempt has written, no earlier attempt writes again: the lease assertion inside
\* each transaction fences late attempts.
THEOREM LateAttemptsRejected == Spec => LateAttemptsAreFenced
<1>1. IndInv /\ [Next]_vars => [writer' >= writer]_vars BY FencedStep
<1> QED BY <1>1, Invariance, PTL DEF Spec, LateAttemptsAreFenced

\* A canceled or ended Run is written by the cancellation only.
LEMMA CanceledStep ==
    ASSUME IndInv, state \in Ended, [Next]_vars
    PROVE  OnlyCanceled
<1> USE WorkersAssumption, ItemsAssumption
    DEF IndInv, Ended, OnlyCanceled, LeaseInv, ReadsAreCurrent, CallerInv,
        TypeOK, RunTypeOK, RowTypeOK, WorkerTypeOK, PlaceTypeOK, Goto, Keep,
        Read, Raise, Leave, Forget, MutateRun, Fault, CGoto, FencedTransition,
        Interrupt, LeaseHeld, Executing, Body, Handlers, Active, Terminal,
        Lifecycle, runVars, queueVars, workerVars, callerVars
<1>1. ASSUME NEW w \in Workers,
             Deliver(w) \/ HandleEntry(w) \/ Execute(w) \/ HandleException(w)
                \/ HeartbeatFindsLeaseLost(w) \/ Disturb(w)
      PROVE  OnlyCanceled
  <2>1. CASE Deliver(w) BY <2>1 DEF Deliver
  <2>2. CASE ReadBeforeClaim(w) BY <2>2 DEF ReadBeforeClaim
  <2>3. CASE ClaimRunExecution(w) BY <2>3 DEF ClaimRunExecution
  <2>4. CASE ReadWhenBusy(w) BY <2>4 DEF ReadWhenBusy
  <2>5. CASE Release(w) BY <2>5 DEF Release
  <2>6. CASE Acknowledge(w) BY <2>6 DEF Acknowledge
  <2>7. CASE ReadAtStart(w) BY <2>7 DEF ReadAtStart
  <2>8. CASE BeginRun(w) BY <2>8 DEF BeginRun
  <2>9. CASE RequireInput(w) BY <2>9 DEF RequireInput
  <2>10. CASE ReadForProgress(w) BY <2>10 DEF ReadForProgress
  <2>11. CASE ReportProgress(w) BY <2>11 DEF ReportProgress
  <2>12. CASE FinishExecution(w) BY <2>12 DEF FinishExecution
  <2>13. CASE CheckStillRunning(w) BY <2>13 DEF CheckStillRunning
  <2>14. CASE CreateArtifact(w) BY <2>14 DEF CreateArtifact
  <2>15. CASE PublishResult(w) BY <2>15 DEF PublishResult
  <2>16. CASE CompleteRun(w) BY <2>16 DEF CompleteRun
  <2>17. CASE ReportCandidate(w) BY <2>17 DEF ReportCandidate
  <2>18. CASE BlockRun(w) BY <2>18 DEF BlockRun
  <2>19. CASE ReadAfterInterruption(w) BY <2>19 DEF ReadAfterInterruption
  <2>20. CASE ReadToCancel(w) BY <2>20 DEF ReadToCancel
  <2>21. CASE WriteCanceled(w) BY <2>21 DEF WriteCanceled
  <2>22. CASE ReadToFail(w) BY <2>22 DEF ReadToFail
  <2>23. CASE WriteFailed(w) BY <2>23 DEF WriteFailed
  <2>24. CASE HeartbeatFindsLeaseLost(w) BY <2>24 DEF HeartbeatFindsLeaseLost
  <2>25. CASE HeartbeatFails(w) BY <2>25 DEF HeartbeatFails
  <2>26. CASE Shutdown(w) BY <2>26 DEF Shutdown
  <2>27. CASE ExecutionError(w) BY <2>27 DEF ExecutionError
  <2>28. CASE Crash(w) BY <2>28 DEF Crash
  <2> QED BY <1>1, <2>1, <2>2, <2>3, <2>4, <2>5, <2>6, <2>7, <2>8, <2>9, <2>10,
        <2>11, <2>12, <2>13, <2>14, <2>15, <2>16, <2>17, <2>18, <2>19, <2>20,
        <2>21, <2>22, <2>23, <2>24, <2>25, <2>26, <2>27, <2>28 DEF HandleEntry,
        Execute, HandleException, Disturb
<1>2. ASSUME NEW c \in Callers,
             ReadForCancel(c) \/ CancelCall(c) \/ PropagationFails(c) \/ CallerLost(c)
      PROVE  OnlyCanceled
  <2>1. CASE ReadForCancel(c) BY <2>1 DEF ReadForCancel
  <2>2. CASE RequestCancel(c) BY <2>2 DEF RequestCancel
  <2>3. CASE PropagateCancel(c) BY <2>3 DEF PropagateCancel
  <2>4. CASE ReadToFinishCancel(c) BY <2>4 DEF ReadToFinishCancel
  <2>5. CASE FinishCancel(c) BY <2>5 DEF FinishCancel
  <2>6. CASE PropagationFails(c) BY <2>6 DEF PropagationFails
  <2>7. CASE CallerLost(c) BY <2>7 DEF CallerLost
  <2> QED BY <1>2, <2>1, <2>2, <2>3, <2>4, <2>5, <2>6, <2>7 DEF CancelCall
<1>3. CASE ExpireAbandonedLease BY <1>3 DEF ExpireAbandonedLease
<1>4. CASE ExpireStalledLease BY <1>4 DEF ExpireStalledLease
<1>5. CASE RelayDispatch BY <1>5 DEF RelayDispatch
<1>6. CASE RelayUnmarked BY <1>6 DEF RelayUnmarked
<1>7. CASE ResumeRun BY <1>7 DEF ResumeRun
<1>8. CASE ExpirePendingInput BY <1>8 DEF ExpirePendingInput
<1>9. CASE UNCHANGED vars BY <1>9 DEF vars
<1> QED BY <1>1, <1>2, <1>3, <1>4, <1>5, <1>6, <1>7, <1>8, <1>9 DEF Next

\* From the moment a cancellation is requested, nothing but the cancellation itself is
\* written on the Run's behalf.
THEOREM NothingAfterCancel == Spec => CanceledRunWritesNothing
<1>1. IndInv /\ [Next]_vars => [(state \in Ended) => OnlyCanceled]_vars BY CanceledStep
<1> QED BY <1>1, Invariance, PTL DEF Spec, CanceledRunWritesNothing

-----------------------------------------------------------------------------
(* Refinement. *)

\* A step of the workers, the API or the clock is a step of the lifecycle, or none of
\* its business.
LEMMA LifecycleStep ==
    ASSUME IndInv, [Next]_vars
    PROVE  [Lifecycles!LifecycleNext]_(Lifecycles!lifecycleVars)
<1> USE WorkersAssumption, ItemsAssumption
    DEF Lifecycles!LifecycleNext, Lifecycles!lifecycleVars, Lifecycles!Start,
        Lifecycles!RequireInput, Lifecycles!SupplyInput, Lifecycles!Publish,
        Lifecycles!Complete, Lifecycles!Fail, Lifecycles!RequestCancel,
        Lifecycles!Cancel, Lifecycles!Active, IndInv, ReadsAreCurrent,
        ProgressInv, CallerInv, TypeOK, RunTypeOK, RowTypeOK, WorkerTypeOK,
        PlaceTypeOK, MutateRun, FencedTransition, LeaseHeld, Active, Terminal,
        runVars, queueVars, workerVars, callerVars
<1>1. ASSUME NEW w \in Workers,
             Deliver(w) \/ HandleEntry(w) \/ Execute(w) \/ HandleException(w)
                \/ HeartbeatFindsLeaseLost(w) \/ Disturb(w)
      PROVE  [Lifecycles!LifecycleNext]_(Lifecycles!lifecycleVars)
  <2>1. CASE Deliver(w) BY <2>1 DEF Deliver
  <2>2. CASE ReadBeforeClaim(w) BY <2>2 DEF ReadBeforeClaim
  <2>3. CASE ClaimRunExecution(w) BY <2>3 DEF ClaimRunExecution
  <2>4. CASE ReadWhenBusy(w) BY <2>4 DEF ReadWhenBusy
  <2>5. CASE Release(w) BY <2>5 DEF Release
  <2>6. CASE Acknowledge(w) BY <2>6 DEF Acknowledge
  <2>7. CASE ReadAtStart(w) BY <2>7 DEF ReadAtStart
  <2>8. CASE BeginRun(w) BY <2>8 DEF BeginRun
  <2>9. CASE RequireInput(w)
    <3>1. input = "missing" => result = NoArtifact BY DEF PublishInv
    <3> QED BY <2>9, <3>1 DEF RequireInput
  <2>10. CASE ReadForProgress(w) BY <2>10 DEF ReadForProgress
  <2>11. CASE ReportProgress(w) BY <2>11 DEF ReportProgress
  <2>12. CASE FinishExecution(w) BY <2>12 DEF FinishExecution
  <2>13. CASE CheckStillRunning(w) BY <2>13 DEF CheckStillRunning
  <2>14. CASE CreateArtifact(w) BY <2>14 DEF CreateArtifact
  <2>15. CASE PublishResult(w)
    <3>1. CASE LeaseHeld(w) /\ seen[w] = version
      <4>1. result' = ArtifactId(NItems, mine[w]) /\ UNCHANGED state BY <2>15, <3>1
        DEF PublishResult
      <4>2. result' \in (1..NItems) \X Nat BY <4>1 DEF ArtifactId
      <4>3. Passed(w) BY <2>15, StableItemIsAnItem DEF PublishResult, Passed, Saving
      <4>4. result = NoArtifact BY <2>15, <4>3 DEF PublishResult, PublishInv
      <4>5. state = "running" BY <2>15, <3>1 DEF PublishResult
      <4> QED BY <4>1, <4>2, <4>4, <4>5
    <3>2. CASE ~(LeaseHeld(w) /\ seen[w] = version)
      BY <2>15, <3>2 DEF PublishResult
    <3> QED BY <3>1, <3>2
  <2>16. CASE CompleteRun(w) BY <2>16 DEF CompleteRun
  <2>17. CASE ReportCandidate(w) BY <2>17 DEF ReportCandidate
  <2>18. CASE BlockRun(w) BY <2>18 DEF BlockRun
  <2>19. CASE ReadAfterInterruption(w) BY <2>19 DEF ReadAfterInterruption
  <2>20. CASE ReadToCancel(w) BY <2>20 DEF ReadToCancel
  <2>21. CASE WriteCanceled(w) BY <2>21 DEF WriteCanceled
  <2>22. CASE ReadToFail(w) BY <2>22 DEF ReadToFail
  <2>23. CASE WriteFailed(w) BY <2>23 DEF WriteFailed
  <2>24. CASE HeartbeatFindsLeaseLost(w) BY <2>24 DEF HeartbeatFindsLeaseLost
  <2>25. CASE HeartbeatFails(w) BY <2>25 DEF HeartbeatFails
  <2>26. CASE Shutdown(w) BY <2>26 DEF Shutdown
  <2>27. CASE ExecutionError(w) BY <2>27 DEF ExecutionError
  <2>28. CASE Crash(w) BY <2>28 DEF Crash
  <2> QED BY <1>1, <2>1, <2>2, <2>3, <2>4, <2>5, <2>6, <2>7, <2>8, <2>9, <2>10,
        <2>11, <2>12, <2>13, <2>14, <2>15, <2>16, <2>17, <2>18, <2>19, <2>20,
        <2>21, <2>22, <2>23, <2>24, <2>25, <2>26, <2>27, <2>28 DEF HandleEntry,
        Execute, HandleException, Disturb
<1>2. ASSUME NEW c \in Callers,
             ReadForCancel(c) \/ CancelCall(c) \/ PropagationFails(c) \/ CallerLost(c)
      PROVE  [Lifecycles!LifecycleNext]_(Lifecycles!lifecycleVars)
  <2>1. CASE ReadForCancel(c) BY <2>1 DEF ReadForCancel
  <2>2. CASE RequestCancel(c) BY <2>2 DEF RequestCancel
  <2>3. CASE PropagateCancel(c) BY <2>3 DEF PropagateCancel
  <2>4. CASE ReadToFinishCancel(c) BY <2>4 DEF ReadToFinishCancel
  <2>5. CASE FinishCancel(c) BY <2>5 DEF FinishCancel
  <2>6. CASE PropagationFails(c) BY <2>6 DEF PropagationFails
  <2>7. CASE CallerLost(c) BY <2>7 DEF CallerLost
  <2> QED BY <1>2, <2>1, <2>2, <2>3, <2>4, <2>5, <2>6, <2>7 DEF CancelCall
<1>3. CASE ExpireAbandonedLease BY <1>3 DEF ExpireAbandonedLease
<1>4. CASE ExpireStalledLease BY <1>4 DEF ExpireStalledLease
<1>5. CASE RelayDispatch BY <1>5 DEF RelayDispatch
<1>6. CASE RelayUnmarked BY <1>6 DEF RelayUnmarked
<1>7. CASE ResumeRun BY <1>7 DEF ResumeRun
<1>8. CASE ExpirePendingInput BY <1>8 DEF ExpirePendingInput
<1>9. CASE UNCHANGED vars BY <1>9 DEF vars
<1> QED BY <1>1, <1>2, <1>3, <1>4, <1>5, <1>6, <1>7, <1>8, <1>9 DEF Next

\* Execution by leased workers, with all its faults, implements the lifecycle.
THEOREM LifecycleRefinement == Spec => ImplementsLifecycle
<1>1. Init => Lifecycles!LifecycleInit BY DEF Init, Lifecycles!LifecycleInit
<1>2. IndInv /\ [Next]_vars => [Lifecycles!LifecycleNext]_(Lifecycles!lifecycleVars)
  BY LifecycleStep
<1> QED BY <1>1, <1>2, Invariance, PTL DEF Spec, ImplementsLifecycle, Lifecycles!LifecycleSpec
=============================================================================
