-------------------------- MODULE AgentTaskProofs --------------------------
(***************************************************************************)
(* Proofs about AgentTask, for any set of processes and cancelers, any      *)
(* number of questions, waiting launches and faults.                        *)
(*                                                                          *)
(* TypeOK is not inductive by itself: that a question stays within its bound *)
(* needs to know that a job which asks under the lease has seen the last    *)
(* one (AnswerInv).  IndInv adds what a compare-and-swap knows of the row   *)
(* (ReadsAreCurrent), that only an open task has a lease (LeaseInv), and    *)
(* what a job's place says of its locals (JobInv).  Each conjunct has a     *)
(* lemma that one step preserves it.                                        *)
(***************************************************************************)
EXTENDS AgentTask, TLAPS

\* Every step keeps the types.
LEMMA TypesKept == IndInv /\ [Next]_vars => TypeOK'
<1> SUFFICES ASSUME IndInv, [Next]_vars PROVE TypeOK'
  OBVIOUS
<1> USE ProcessesAssumption, TaskBoundsAssumption
    DEF IndInv, TypeOK, JobInv, AnswerInv, Executes, rowVars, jobVars, callerVars, cancelVars,
        States, Settled, Open, Terminal
<1>1. ASSUME NEW p \in Processes,
             JobStep(p) \/ FinishExecution(p) \/ HeartbeatFails(p) \/ ClaimRaises(p)
               \/ Send(p) \/ GetTask(p) \/ WaiterStep(p) \/ WaitExpires(p) \/ Answer(p)
               \/ Cancel(p) \/ CancelStep(p) \/ Shutdown(p) \/ Crash(p)
      PROVE  TypeOK'
  <2>1. CASE Relaunch(p) BY <2>1 DEF Relaunch
  <2>2. CASE ClaimExecution(p) BY <2>2 DEF ClaimExecution, JobEnds, JobGoto
  <2>3. CASE BeginRead(p) BY <2>3 DEF BeginRead, JobEnds, JobGoto
  <2>4. CASE BeginWrite(p) BY <2>4 DEF BeginWrite, JobEnds, JobGoto, Replace, LeaseHeld
  <2>5. CASE ExecutionTimesOut(p) BY <2>5 DEF ExecutionTimesOut, JobDecides
  <2>6. CASE HeartbeatFindsLeaseLost(p) BY <2>6 DEF HeartbeatFindsLeaseLost, JobEnds, JobGoto
  <2>7. CASE ApplyRead(p) BY <2>7 DEF ApplyRead, JobEnds, JobGoto
  <2>8. CASE ApplyWrite(p) BY <2>8 DEF ApplyWrite, JobEnds, JobGoto, Replace, LeaseHeld
  <2>9. CASE Release(p) BY <2>9 DEF Release, JobGoto
  <2>10. CASE FinishExecution(p) BY <2>10 DEF FinishExecution, JobDecides
  <2>11. CASE HeartbeatFails(p) BY <2>11 DEF HeartbeatFails, JobEnds, JobGoto, Fault
  <2>12. CASE ClaimRaises(p) BY <2>12 DEF ClaimRaises, Fault
  <2>13. CASE Send(p) BY <2>13 DEF Send, Launch, Saturate, CreateOrGet, WaiterGoto
  <2>14. CASE GetTask(p) BY <2>14 DEF GetTask, Launch, Saturate
  <2>15. CASE WaitRead(p) BY <2>15 DEF WaitRead, Launch, Saturate, WaiterGoto
  <2>16. CASE ExpireRead(p) BY <2>16 DEF ExpireRead, WaiterGoto
  <2>17. CASE ExpireWrite(p) BY <2>17 DEF ExpireWrite, WaiterGoto, Replace
  <2>18. CASE AnswerRead(p) BY <2>18 DEF AnswerRead, WaiterGoto
  <2>19. CASE AnswerWrite(p) BY <2>19 DEF AnswerWrite, WaiterGoto, Replace, Launch, Saturate
  <2>20. CASE WaitExpires(p) BY <2>20 DEF WaitExpires, WaiterGoto
  <2>21. CASE Answer(p) BY <2>21 DEF Answer, WaiterGoto
  <2>22. CASE Cancel(p) BY <2>22 DEF Cancel, CancelGoto, Launch, Saturate
  <2>23. CASE CancelRead(p) BY <2>23 DEF CancelRead, CancelGoto
  <2>24. CASE CancelWrite(p) BY <2>24 DEF CancelWrite, CancelGoto, Replace
  <2>25. CASE CancelLocal(p) BY <2>25 DEF CancelLocal, CancelGoto, StopJob, JobEnds, JobGoto
  <2>26. CASE Shutdown(p)
    BY <2>26 DEF Shutdown, StopJob, JobEnds, JobGoto, CallersGone, WaiterGoto, CancelGoto, Fault
  <2>27. CASE Crash(p) BY <2>27 DEF Crash, JobGoto, CallersGone, WaiterGoto, CancelGoto, Fault
  <2> QED BY <1>1, <2>1, <2>2, <2>3, <2>4, <2>5, <2>6, <2>7, <2>8, <2>9, <2>10, <2>11, <2>12,
        <2>13, <2>14, <2>15, <2>16, <2>17, <2>18, <2>19, <2>20, <2>21, <2>22, <2>23, <2>24,
        <2>25, <2>26, <2>27 DEF JobStep, WaiterStep, CancelStep
<1>2. CASE DeadlinePasses BY <1>2 DEF DeadlinePasses
<1>3. CASE LeaseExpires BY <1>3 DEF LeaseExpires
<1>4. CASE LeaseStalls BY <1>4 DEF LeaseStalls, Fault
<1>5. CASE UNCHANGED vars BY <1>5 DEF vars
<1> QED BY <1>1, <1>2, <1>3, <1>4, <1>5 DEF Next

\* Every write draws a new version, which nobody has read, and every read is of the row as
\* it is.
LEMMA ReadsKept == IndInv /\ [Next]_vars => ReadsAreCurrent'
<1> SUFFICES ASSUME IndInv, [Next]_vars PROVE ReadsAreCurrent'
  OBVIOUS
<1> USE ProcessesAssumption, TaskBoundsAssumption
    DEF IndInv, TypeOK, JobInv, ReadsAreCurrent, Allowed, Cancelable,
        rowVars, jobVars, callerVars, cancelVars, States, Settled, Open, Terminal
<1>1. ASSUME NEW p \in Processes,
             JobStep(p) \/ FinishExecution(p) \/ HeartbeatFails(p) \/ ClaimRaises(p)
               \/ Send(p) \/ GetTask(p) \/ WaiterStep(p) \/ WaitExpires(p) \/ Answer(p)
               \/ Cancel(p) \/ CancelStep(p) \/ Shutdown(p) \/ Crash(p)
      PROVE  ReadsAreCurrent'
  <2>1. CASE Relaunch(p) BY <2>1 DEF Relaunch
  <2>2. CASE ClaimExecution(p) BY <2>2 DEF ClaimExecution, JobEnds, JobGoto
  <2>3. CASE BeginRead(p) BY <2>3 DEF BeginRead, JobEnds, JobGoto
  <2>4. CASE BeginWrite(p) BY <2>4 DEF BeginWrite, JobEnds, JobGoto, Replace, LeaseHeld
  <2>5. CASE ExecutionTimesOut(p) BY <2>5 DEF ExecutionTimesOut, JobDecides
  <2>6. CASE HeartbeatFindsLeaseLost(p) BY <2>6 DEF HeartbeatFindsLeaseLost, JobEnds, JobGoto
  <2>7. CASE ApplyRead(p) BY <2>7 DEF ApplyRead, JobEnds, JobGoto
  <2>8. CASE ApplyWrite(p) BY <2>8 DEF ApplyWrite, JobEnds, JobGoto, Replace, LeaseHeld
  <2>9. CASE Release(p) BY <2>9 DEF Release, JobGoto
  <2>10. CASE FinishExecution(p) BY <2>10 DEF FinishExecution, JobDecides
  <2>11. CASE HeartbeatFails(p) BY <2>11 DEF HeartbeatFails, JobEnds, JobGoto, Fault
  <2>12. CASE ClaimRaises(p) BY <2>12 DEF ClaimRaises, Fault
  <2>13. CASE Send(p) BY <2>13 DEF Send, Launch, Saturate, CreateOrGet, WaiterGoto
  <2>14. CASE GetTask(p) BY <2>14 DEF GetTask, Launch, Saturate
  <2>15. CASE WaitRead(p) BY <2>15 DEF WaitRead, Launch, Saturate, WaiterGoto
  <2>16. CASE ExpireRead(p) BY <2>16 DEF ExpireRead, WaiterGoto
  <2>17. CASE ExpireWrite(p) BY <2>17 DEF ExpireWrite, WaiterGoto, Replace
  <2>18. CASE AnswerRead(p) BY <2>18 DEF AnswerRead, WaiterGoto
  <2>19. CASE AnswerWrite(p) BY <2>19 DEF AnswerWrite, WaiterGoto, Replace, Launch, Saturate
  <2>20. CASE WaitExpires(p) BY <2>20 DEF WaitExpires, WaiterGoto
  <2>21. CASE Answer(p) BY <2>21 DEF Answer, WaiterGoto
  <2>22. CASE Cancel(p) BY <2>22 DEF Cancel, CancelGoto, Launch, Saturate
  <2>23. CASE CancelRead(p) BY <2>23 DEF CancelRead, CancelGoto
  <2>24. CASE CancelWrite(p) BY <2>24 DEF CancelWrite, CancelGoto, Replace
  <2>25. CASE CancelLocal(p) BY <2>25 DEF CancelLocal, CancelGoto, StopJob, JobEnds, JobGoto
  <2>26. CASE Shutdown(p)
    BY <2>26 DEF Shutdown, StopJob, JobEnds, JobGoto, CallersGone, WaiterGoto, CancelGoto, Fault
  <2>27. CASE Crash(p) BY <2>27 DEF Crash, JobGoto, CallersGone, WaiterGoto, CancelGoto, Fault
  <2> QED BY <1>1, <2>1, <2>2, <2>3, <2>4, <2>5, <2>6, <2>7, <2>8, <2>9, <2>10, <2>11, <2>12,
        <2>13, <2>14, <2>15, <2>16, <2>17, <2>18, <2>19, <2>20, <2>21, <2>22, <2>23, <2>24,
        <2>25, <2>26, <2>27 DEF JobStep, WaiterStep, CancelStep
<1>2. CASE DeadlinePasses BY <1>2 DEF DeadlinePasses
<1>3. CASE LeaseExpires BY <1>3 DEF LeaseExpires
<1>4. CASE LeaseStalls BY <1>4 DEF LeaseStalls, Fault
<1>5. CASE UNCHANGED vars BY <1>5 DEF vars
<1> QED BY <1>1, <1>2, <1>3, <1>4, <1>5 DEF Next

\* A lease is only given to an open task, under a new attempt; replace clears it at the end.
LEMMA LeaseKept == IndInv /\ [Next]_vars => LeaseInv'
<1> SUFFICES ASSUME IndInv, [Next]_vars PROVE LeaseInv'
  OBVIOUS
<1> USE ProcessesAssumption, TaskBoundsAssumption
    DEF IndInv, TypeOK, JobInv, LeaseInv, rowVars, jobVars, callerVars, cancelVars,
        States, Settled, Open, Terminal
<1>1. ASSUME NEW p \in Processes,
             JobStep(p) \/ FinishExecution(p) \/ HeartbeatFails(p) \/ ClaimRaises(p)
               \/ Send(p) \/ GetTask(p) \/ WaiterStep(p) \/ WaitExpires(p) \/ Answer(p)
               \/ Cancel(p) \/ CancelStep(p) \/ Shutdown(p) \/ Crash(p)
      PROVE  LeaseInv'
  <2>1. CASE Relaunch(p) BY <2>1 DEF Relaunch
  <2>2. CASE ClaimExecution(p) BY <2>2 DEF ClaimExecution, JobEnds, JobGoto
  <2>3. CASE BeginRead(p) BY <2>3 DEF BeginRead, JobEnds, JobGoto
  <2>4. CASE BeginWrite(p) BY <2>4 DEF BeginWrite, JobEnds, JobGoto, Replace, LeaseHeld
  <2>5. CASE ExecutionTimesOut(p) BY <2>5 DEF ExecutionTimesOut, JobDecides
  <2>6. CASE HeartbeatFindsLeaseLost(p) BY <2>6 DEF HeartbeatFindsLeaseLost, JobEnds, JobGoto
  <2>7. CASE ApplyRead(p) BY <2>7 DEF ApplyRead, JobEnds, JobGoto
  <2>8. CASE ApplyWrite(p) BY <2>8 DEF ApplyWrite, JobEnds, JobGoto, Replace, LeaseHeld
  <2>9. CASE Release(p) BY <2>9 DEF Release, JobGoto
  <2>10. CASE FinishExecution(p) BY <2>10 DEF FinishExecution, JobDecides
  <2>11. CASE HeartbeatFails(p) BY <2>11 DEF HeartbeatFails, JobEnds, JobGoto, Fault
  <2>12. CASE ClaimRaises(p) BY <2>12 DEF ClaimRaises, Fault
  <2>13. CASE Send(p) BY <2>13 DEF Send, Launch, Saturate, CreateOrGet, WaiterGoto
  <2>14. CASE GetTask(p) BY <2>14 DEF GetTask, Launch, Saturate
  <2>15. CASE WaitRead(p) BY <2>15 DEF WaitRead, Launch, Saturate, WaiterGoto
  <2>16. CASE ExpireRead(p) BY <2>16 DEF ExpireRead, WaiterGoto
  <2>17. CASE ExpireWrite(p) BY <2>17 DEF ExpireWrite, WaiterGoto, Replace
  <2>18. CASE AnswerRead(p) BY <2>18 DEF AnswerRead, WaiterGoto
  <2>19. CASE AnswerWrite(p) BY <2>19 DEF AnswerWrite, WaiterGoto, Replace, Launch, Saturate
  <2>20. CASE WaitExpires(p) BY <2>20 DEF WaitExpires, WaiterGoto
  <2>21. CASE Answer(p) BY <2>21 DEF Answer, WaiterGoto
  <2>22. CASE Cancel(p) BY <2>22 DEF Cancel, CancelGoto, Launch, Saturate
  <2>23. CASE CancelRead(p) BY <2>23 DEF CancelRead, CancelGoto
  <2>24. CASE CancelWrite(p) BY <2>24 DEF CancelWrite, CancelGoto, Replace
  <2>25. CASE CancelLocal(p) BY <2>25 DEF CancelLocal, CancelGoto, StopJob, JobEnds, JobGoto
  <2>26. CASE Shutdown(p)
    BY <2>26 DEF Shutdown, StopJob, JobEnds, JobGoto, CallersGone, WaiterGoto, CancelGoto, Fault
  <2>27. CASE Crash(p) BY <2>27 DEF Crash, JobGoto, CallersGone, WaiterGoto, CancelGoto, Fault
  <2> QED BY <1>1, <2>1, <2>2, <2>3, <2>4, <2>5, <2>6, <2>7, <2>8, <2>9, <2>10, <2>11, <2>12,
        <2>13, <2>14, <2>15, <2>16, <2>17, <2>18, <2>19, <2>20, <2>21, <2>22, <2>23, <2>24,
        <2>25, <2>26, <2>27 DEF JobStep, WaiterStep, CancelStep
<1>2. CASE DeadlinePasses BY <1>2 DEF DeadlinePasses
<1>3. CASE LeaseExpires BY <1>3 DEF LeaseExpires
<1>4. CASE LeaseStalls BY <1>4 DEF LeaseStalls, Fault
<1>5. CASE UNCHANGED vars BY <1>5 DEF vars
<1> QED BY <1>1, <1>2, <1>3, <1>4, <1>5 DEF Next

\* A job's locals fit its place.
LEMMA JobsKept == IndInv /\ [Next]_vars => JobInv'
<1> SUFFICES ASSUME IndInv, [Next]_vars PROVE JobInv'
  OBVIOUS
<1> USE ProcessesAssumption, TaskBoundsAssumption
    DEF IndInv, TypeOK, JobInv, rowVars, jobVars, callerVars, cancelVars,
        States, Settled, Open, Terminal
<1>1. ASSUME NEW p \in Processes,
             JobStep(p) \/ FinishExecution(p) \/ HeartbeatFails(p) \/ ClaimRaises(p)
               \/ Send(p) \/ GetTask(p) \/ WaiterStep(p) \/ WaitExpires(p) \/ Answer(p)
               \/ Cancel(p) \/ CancelStep(p) \/ Shutdown(p) \/ Crash(p)
      PROVE  JobInv'
  <2>1. CASE Relaunch(p) BY <2>1 DEF Relaunch
  <2>2. CASE ClaimExecution(p) BY <2>2 DEF ClaimExecution, JobEnds, JobGoto
  <2>3. CASE BeginRead(p) BY <2>3 DEF BeginRead, JobEnds, JobGoto
  <2>4. CASE BeginWrite(p) BY <2>4 DEF BeginWrite, JobEnds, JobGoto, Replace, LeaseHeld
  <2>5. CASE ExecutionTimesOut(p) BY <2>5 DEF ExecutionTimesOut, JobDecides
  <2>6. CASE HeartbeatFindsLeaseLost(p) BY <2>6 DEF HeartbeatFindsLeaseLost, JobEnds, JobGoto
  <2>7. CASE ApplyRead(p) BY <2>7 DEF ApplyRead, JobEnds, JobGoto
  <2>8. CASE ApplyWrite(p) BY <2>8 DEF ApplyWrite, JobEnds, JobGoto, Replace, LeaseHeld
  <2>9. CASE Release(p) BY <2>9 DEF Release, JobGoto
  <2>10. CASE FinishExecution(p) BY <2>10 DEF FinishExecution, JobDecides
  <2>11. CASE HeartbeatFails(p) BY <2>11 DEF HeartbeatFails, JobEnds, JobGoto, Fault
  <2>12. CASE ClaimRaises(p) BY <2>12 DEF ClaimRaises, Fault
  <2>13. CASE Send(p) BY <2>13 DEF Send, Launch, Saturate, CreateOrGet, WaiterGoto
  <2>14. CASE GetTask(p) BY <2>14 DEF GetTask, Launch, Saturate
  <2>15. CASE WaitRead(p) BY <2>15 DEF WaitRead, Launch, Saturate, WaiterGoto
  <2>16. CASE ExpireRead(p) BY <2>16 DEF ExpireRead, WaiterGoto
  <2>17. CASE ExpireWrite(p) BY <2>17 DEF ExpireWrite, WaiterGoto, Replace
  <2>18. CASE AnswerRead(p) BY <2>18 DEF AnswerRead, WaiterGoto
  <2>19. CASE AnswerWrite(p) BY <2>19 DEF AnswerWrite, WaiterGoto, Replace, Launch, Saturate
  <2>20. CASE WaitExpires(p) BY <2>20 DEF WaitExpires, WaiterGoto
  <2>21. CASE Answer(p) BY <2>21 DEF Answer, WaiterGoto
  <2>22. CASE Cancel(p) BY <2>22 DEF Cancel, CancelGoto, Launch, Saturate
  <2>23. CASE CancelRead(p) BY <2>23 DEF CancelRead, CancelGoto
  <2>24. CASE CancelWrite(p) BY <2>24 DEF CancelWrite, CancelGoto, Replace
  <2>25. CASE CancelLocal(p) BY <2>25 DEF CancelLocal, CancelGoto, StopJob, JobEnds, JobGoto
  <2>26. CASE Shutdown(p)
    BY <2>26 DEF Shutdown, StopJob, JobEnds, JobGoto, CallersGone, WaiterGoto, CancelGoto, Fault
  <2>27. CASE Crash(p) BY <2>27 DEF Crash, JobGoto, CallersGone, WaiterGoto, CancelGoto, Fault
  <2> QED BY <1>1, <2>1, <2>2, <2>3, <2>4, <2>5, <2>6, <2>7, <2>8, <2>9, <2>10, <2>11, <2>12,
        <2>13, <2>14, <2>15, <2>16, <2>17, <2>18, <2>19, <2>20, <2>21, <2>22, <2>23, <2>24,
        <2>25, <2>26, <2>27 DEF JobStep, WaiterStep, CancelStep
<1>2. CASE DeadlinePasses BY <1>2 DEF DeadlinePasses
<1>3. CASE LeaseExpires BY <1>3 DEF LeaseExpires
<1>4. CASE LeaseStalls BY <1>4 DEF LeaseStalls, Fault
<1>5. CASE UNCHANGED vars BY <1>5 DEF vars
<1> QED BY <1>1, <1>2, <1>3, <1>4, <1>5 DEF Next

\* Answer and question do not move under a job that executes: who moves them holds the lease
\* itself, or finds the task without one.
LEMMA AnswersKept == IndInv /\ [Next]_vars => AnswerInv'
<1> SUFFICES ASSUME IndInv, [Next]_vars PROVE AnswerInv'
  OBVIOUS
<1> USE ProcessesAssumption, TaskBoundsAssumption
    DEF IndInv, TypeOK, JobInv, AnswerInv, Executes, LeaseInv,
        ReadsAreCurrent, Allowed, rowVars, jobVars, callerVars, cancelVars,
        States, Settled, Open, Terminal
<1>1. ASSUME NEW p \in Processes,
             JobStep(p) \/ FinishExecution(p) \/ HeartbeatFails(p) \/ ClaimRaises(p)
               \/ Send(p) \/ GetTask(p) \/ WaiterStep(p) \/ WaitExpires(p) \/ Answer(p)
               \/ Cancel(p) \/ CancelStep(p) \/ Shutdown(p) \/ Crash(p)
      PROVE  AnswerInv'
  <2>1. CASE Relaunch(p) BY <2>1 DEF Relaunch
  <2>2. CASE ClaimExecution(p) BY <2>2 DEF ClaimExecution, JobEnds, JobGoto
  <2>3. CASE BeginRead(p) BY <2>3 DEF BeginRead, JobEnds, JobGoto
  <2>4. CASE BeginWrite(p) BY <2>4 DEF BeginWrite, JobEnds, JobGoto, Replace, LeaseHeld
  <2>5. CASE ExecutionTimesOut(p) BY <2>5 DEF ExecutionTimesOut, JobDecides
  <2>6. CASE HeartbeatFindsLeaseLost(p) BY <2>6 DEF HeartbeatFindsLeaseLost, JobEnds, JobGoto
  <2>7. CASE ApplyRead(p) BY <2>7 DEF ApplyRead, JobEnds, JobGoto
  <2>8. CASE ApplyWrite(p) BY <2>8 DEF ApplyWrite, JobEnds, JobGoto, Replace, LeaseHeld
  <2>9. CASE Release(p) BY <2>9 DEF Release, JobGoto
  <2>10. CASE FinishExecution(p) BY <2>10 DEF FinishExecution, JobDecides
  <2>11. CASE HeartbeatFails(p) BY <2>11 DEF HeartbeatFails, JobEnds, JobGoto, Fault
  <2>12. CASE ClaimRaises(p) BY <2>12 DEF ClaimRaises, Fault
  <2>13. CASE Send(p) BY <2>13 DEF Send, Launch, Saturate, CreateOrGet, WaiterGoto
  <2>14. CASE GetTask(p) BY <2>14 DEF GetTask, Launch, Saturate
  <2>15. CASE WaitRead(p) BY <2>15 DEF WaitRead, Launch, Saturate, WaiterGoto
  <2>16. CASE ExpireRead(p) BY <2>16 DEF ExpireRead, WaiterGoto
  <2>17. CASE ExpireWrite(p) BY <2>17 DEF ExpireWrite, WaiterGoto, Replace
  <2>18. CASE AnswerRead(p) BY <2>18 DEF AnswerRead, WaiterGoto
  <2>19. CASE AnswerWrite(p) BY <2>19 DEF AnswerWrite, WaiterGoto, Replace, Launch, Saturate
  <2>20. CASE WaitExpires(p) BY <2>20 DEF WaitExpires, WaiterGoto
  <2>21. CASE Answer(p) BY <2>21 DEF Answer, WaiterGoto
  <2>22. CASE Cancel(p) BY <2>22 DEF Cancel, CancelGoto, Launch, Saturate
  <2>23. CASE CancelRead(p) BY <2>23 DEF CancelRead, CancelGoto
  <2>24. CASE CancelWrite(p) BY <2>24 DEF CancelWrite, CancelGoto, Replace
  <2>25. CASE CancelLocal(p) BY <2>25 DEF CancelLocal, CancelGoto, StopJob, JobEnds, JobGoto
  <2>26. CASE Shutdown(p)
    BY <2>26 DEF Shutdown, StopJob, JobEnds, JobGoto, CallersGone, WaiterGoto, CancelGoto, Fault
  <2>27. CASE Crash(p) BY <2>27 DEF Crash, JobGoto, CallersGone, WaiterGoto, CancelGoto, Fault
  <2> QED BY <1>1, <2>1, <2>2, <2>3, <2>4, <2>5, <2>6, <2>7, <2>8, <2>9, <2>10, <2>11, <2>12,
        <2>13, <2>14, <2>15, <2>16, <2>17, <2>18, <2>19, <2>20, <2>21, <2>22, <2>23, <2>24,
        <2>25, <2>26, <2>27 DEF JobStep, WaiterStep, CancelStep
<1>2. CASE DeadlinePasses BY <1>2 DEF DeadlinePasses
<1>3. CASE LeaseExpires BY <1>3 DEF LeaseExpires
<1>4. CASE LeaseStalls BY <1>4 DEF LeaseStalls, Fault
<1>5. CASE UNCHANGED vars BY <1>5 DEF vars
<1> QED BY <1>1, <1>2, <1>3, <1>4, <1>5 DEF Next

-----------------------------------------------------------------------------
(* Theorems. *)

\* The inductive invariant holds in every behaviour of the task service.
THEOREM Invariance == Spec => []IndInv
<1>1. Init => IndInv
  <2> SUFFICES ASSUME Init PROVE IndInv
    OBVIOUS
  <2>1. TypeOK
    <3> USE ProcessesAssumption, TaskBoundsAssumption DEF Init
    <3>1. late \in BOOLEAN OBVIOUS
    <3>2. state \in States BY DEF States
    <3>3. 0 \in 0 .. MaxQuestions /\ 0 \in 0 .. MaxQueued OBVIOUS
    <3> QED BY <3>1, <3>2, <3>3 DEF TypeOK
  <2>2. ReadsAreCurrent BY DEF Init, ReadsAreCurrent
  <2>3. LeaseInv BY DEF Init, LeaseInv, Open
  <2>4. JobInv BY DEF Init, JobInv
  <2>5. AnswerInv BY DEF Init, AnswerInv, Executes
  <2> QED BY <2>1, <2>2, <2>3, <2>4, <2>5 DEF IndInv
<1>2. IndInv /\ [Next]_vars => IndInv'
  BY TypesKept, ReadsKept, LeaseKept, JobsKept, AnswersKept DEF IndInv
<1> QED BY <1>1, <1>2, PTL DEF Spec

\* Columns and locals keep their types; in particular no race makes the executors ask more
\* questions than they may (_apply_execution_result).
THEOREM TypeCorrect == Spec => []TypeOK
<1>1. IndInv => TypeOK BY DEF IndInv
<1> QED BY <1>1, Invariance, PTL

\* A task that has ended does not change any more ("Late results cannot overwrite
\* cancellation"), whatever jobs, waiters, answers and cancelers had read before.
THEOREM EndIsFinal == Spec => EndedTaskIsFinal
<1> DEFINE Final == (state \in Terminal) => UNCHANGED <<state, version, attempt, owner>>
<1>1. IndInv /\ [Next]_vars => [Final]_vars
  <2> SUFFICES ASSUME IndInv, [Next]_vars, state \in Terminal
               PROVE  UNCHANGED <<state, version, attempt, owner>>
    BY DEF vars
  <2> USE ProcessesAssumption
      DEF IndInv, TypeOK, ReadsAreCurrent, LeaseInv, rowVars, Open, Settled, Terminal, Cancelable,
          Allowed
  <2>1. CASE \E p \in Processes : Relaunch(p) BY <2>1 DEF Relaunch
  <2>2. CASE \E p \in Processes : ClaimExecution(p) BY <2>2 DEF ClaimExecution, JobEnds, JobGoto
  <2>3. CASE \E p \in Processes : BeginRead(p) BY <2>3 DEF BeginRead, JobEnds, JobGoto
  <2>4. CASE \E p \in Processes : BeginWrite(p)
    BY <2>4 DEF BeginWrite, JobEnds, JobGoto, Replace, LeaseHeld
  <2>5. CASE \E p \in Processes : ExecutionTimesOut(p) BY <2>5 DEF ExecutionTimesOut, JobDecides
  <2>6. CASE \E p \in Processes : HeartbeatFindsLeaseLost(p)
    BY <2>6 DEF HeartbeatFindsLeaseLost, JobEnds, JobGoto
  <2>7. CASE \E p \in Processes : ApplyRead(p) BY <2>7 DEF ApplyRead, JobEnds, JobGoto
  <2>8. CASE \E p \in Processes : ApplyWrite(p)
    BY <2>8 DEF ApplyWrite, JobEnds, JobGoto, Replace, LeaseHeld
  <2>9. CASE \E p \in Processes : Release(p) BY <2>9 DEF Release, JobGoto
  <2>10. CASE \E p \in Processes : FinishExecution(p) BY <2>10 DEF FinishExecution, JobDecides
  <2>11. CASE \E p \in Processes : HeartbeatFails(p)
    BY <2>11 DEF HeartbeatFails, JobEnds, JobGoto, Fault
  <2>12. CASE \E p \in Processes : ClaimRaises(p) BY <2>12 DEF ClaimRaises, Fault
  <2>13. CASE \E p \in Processes : Send(p)
    BY <2>13 DEF Send, Launch, Saturate, CreateOrGet, WaiterGoto
  <2>14. CASE \E p \in Processes : GetTask(p) BY <2>14 DEF GetTask, Launch, Saturate
  <2>15. CASE \E p \in Processes : WaitRead(p) BY <2>15 DEF WaitRead, Launch, Saturate, WaiterGoto
  <2>16. CASE \E p \in Processes : ExpireRead(p) BY <2>16 DEF ExpireRead, WaiterGoto
  <2>17. CASE \E p \in Processes : ExpireWrite(p) BY <2>17 DEF ExpireWrite, WaiterGoto, Replace
  <2>18. CASE \E p \in Processes : AnswerRead(p) BY <2>18 DEF AnswerRead, WaiterGoto
  <2>19. CASE \E p \in Processes : AnswerWrite(p)
    BY <2>19 DEF AnswerWrite, WaiterGoto, Replace, Launch, Saturate
  <2>20. CASE \E p \in Processes : WaitExpires(p) BY <2>20 DEF WaitExpires, WaiterGoto
  <2>21. CASE \E p \in Processes : Answer(p) BY <2>21 DEF Answer, WaiterGoto
  <2>22. CASE \E p \in Processes : Cancel(p) BY <2>22 DEF Cancel, CancelGoto, Launch, Saturate
  <2>23. CASE \E p \in Processes : CancelRead(p) BY <2>23 DEF CancelRead, CancelGoto
  <2>24. CASE \E p \in Processes : CancelWrite(p) BY <2>24 DEF CancelWrite, CancelGoto, Replace
  <2>25. CASE \E p \in Processes : CancelLocal(p)
    BY <2>25 DEF CancelLocal, CancelGoto, StopJob, JobEnds, JobGoto
  <2>26. CASE \E p \in Processes : Shutdown(p)
    BY <2>26 DEF Shutdown, StopJob, JobEnds, JobGoto, CallersGone, WaiterGoto, CancelGoto, Fault
  <2>27. CASE \E p \in Processes : Crash(p)
    BY <2>27 DEF Crash, JobGoto, CallersGone, WaiterGoto, CancelGoto, Fault
  <2>28. CASE DeadlinePasses BY <2>28 DEF DeadlinePasses
  <2>29. CASE LeaseExpires BY <2>29 DEF LeaseExpires
  <2>30. CASE LeaseStalls BY <2>30 DEF LeaseStalls, Fault
  <2>31. CASE UNCHANGED vars BY <2>31 DEF vars
  <2> QED BY <2>1, <2>2, <2>3, <2>4, <2>5, <2>6, <2>7, <2>8, <2>9, <2>10, <2>11, <2>12, <2>13,
        <2>14, <2>15, <2>16, <2>17, <2>18, <2>19, <2>20, <2>21, <2>22, <2>23, <2>24, <2>25,
        <2>26, <2>27, <2>28, <2>29, <2>30, <2>31 DEF Next, JobStep, WaiterStep, CancelStep
<1> QED BY <1>1, Invariance, PTL DEF Spec, EndedTaskIsFinal

\* Of the writes that end or suspend a working task, all but failures and cancellations are
\* made by the holder of the live lease, with a result computed from the answer the task
\* holds (replace, _apply_execution_result).
THEOREM ResultsAreCurrent == Spec => ResultIsCurrent
<1>1. IndInv /\ [Next]_vars => [ComputedUnderLease]_vars
  <2> SUFFICES ASSUME IndInv, [Next]_vars, state = "working",
                      state' \in Settled \ {"failed", "canceled"}
               PROVE  \E p \in Processes : LeaseHeld(p) /\ used[p] = answer
    BY DEF ComputedUnderLease
  <2> USE DEF IndInv, TypeOK, rowVars, Open, Settled, Terminal
  <2>1. PICK p \in Processes : ApplyWrite(p)
    <3>1. CASE \E p \in Processes : Relaunch(p) BY <3>1 DEF Relaunch
    <3>2. CASE \E p \in Processes : ClaimExecution(p) BY <3>2 DEF ClaimExecution, JobEnds, JobGoto
    <3>3. CASE \E p \in Processes : BeginRead(p) BY <3>3 DEF BeginRead, JobEnds, JobGoto
    <3>4. CASE \E p \in Processes : BeginWrite(p)
      BY <3>4 DEF BeginWrite, JobEnds, JobGoto, Replace, LeaseHeld
    <3>5. CASE \E p \in Processes : ExecutionTimesOut(p) BY <3>5 DEF ExecutionTimesOut, JobDecides
    <3>6. CASE \E p \in Processes : HeartbeatFindsLeaseLost(p)
      BY <3>6 DEF HeartbeatFindsLeaseLost, JobEnds, JobGoto
    <3>7. CASE \E p \in Processes : ApplyRead(p) BY <3>7 DEF ApplyRead, JobEnds, JobGoto
    <3>8. CASE \E p \in Processes : Release(p) BY <3>8 DEF Release, JobGoto
    <3>9. CASE \E p \in Processes : FinishExecution(p) BY <3>9 DEF FinishExecution, JobDecides
    <3>10. CASE \E p \in Processes : HeartbeatFails(p)
      BY <3>10 DEF HeartbeatFails, JobEnds, JobGoto, Fault
    <3>11. CASE \E p \in Processes : ClaimRaises(p) BY <3>11 DEF ClaimRaises, Fault
    <3>12. CASE \E p \in Processes : Send(p)
      BY <3>12 DEF Send, Launch, Saturate, CreateOrGet, WaiterGoto
    <3>13. CASE \E p \in Processes : GetTask(p) BY <3>13 DEF GetTask, Launch, Saturate
    <3>14. CASE \E p \in Processes : WaitRead(p)
      BY <3>14 DEF WaitRead, Launch, Saturate, WaiterGoto
    <3>15. CASE \E p \in Processes : ExpireRead(p) BY <3>15 DEF ExpireRead, WaiterGoto
    <3>16. CASE \E p \in Processes : ExpireWrite(p) BY <3>16 DEF ExpireWrite, WaiterGoto, Replace
    <3>17. CASE \E p \in Processes : AnswerRead(p) BY <3>17 DEF AnswerRead, WaiterGoto
    <3>18. CASE \E p \in Processes : AnswerWrite(p)
      BY <3>18 DEF AnswerWrite, WaiterGoto, Replace, Launch, Saturate
    <3>19. CASE \E p \in Processes : WaitExpires(p) BY <3>19 DEF WaitExpires, WaiterGoto
    <3>20. CASE \E p \in Processes : Answer(p) BY <3>20 DEF Answer, WaiterGoto
    <3>21. CASE \E p \in Processes : Cancel(p) BY <3>21 DEF Cancel, CancelGoto, Launch, Saturate
    <3>22. CASE \E p \in Processes : CancelRead(p) BY <3>22 DEF CancelRead, CancelGoto
    <3>23. CASE \E p \in Processes : CancelWrite(p) BY <3>23 DEF CancelWrite, CancelGoto, Replace
    <3>24. CASE \E p \in Processes : CancelLocal(p)
      BY <3>24 DEF CancelLocal, CancelGoto, StopJob, JobEnds, JobGoto
    <3>25. CASE \E p \in Processes : Shutdown(p)
      BY <3>25 DEF Shutdown, StopJob, JobEnds, JobGoto, CallersGone, WaiterGoto, CancelGoto, Fault
    <3>26. CASE \E p \in Processes : Crash(p)
      BY <3>26 DEF Crash, JobGoto, CallersGone, WaiterGoto, CancelGoto, Fault
    <3>27. CASE DeadlinePasses BY <3>27 DEF DeadlinePasses
    <3>28. CASE LeaseExpires BY <3>28 DEF LeaseExpires
    <3>29. CASE LeaseStalls BY <3>29 DEF LeaseStalls, Fault
    <3>30. CASE UNCHANGED vars BY <3>30 DEF vars
    <3> QED BY <3>1, <3>2, <3>3, <3>4, <3>5, <3>6, <3>7, <3>8, <3>9, <3>10, <3>11, <3>12, <3>13,
          <3>14, <3>15, <3>16, <3>17, <3>18, <3>19, <3>20, <3>21, <3>22, <3>23, <3>24, <3>25,
          <3>26, <3>27, <3>28, <3>29, <3>30 DEF Next, JobStep, WaiterStep, CancelStep
  <2>2. jseen[p] = version /\ (mine[p] = 0 \/ LeaseHeld(p)) /\ state' = goal[p]
    BY <2>1 DEF ApplyWrite, Replace
  <2>3. mine[p] # 0 /\ jpc[p] = "applywrite" BY <2>1, <2>2 DEF JobInv, ApplyWrite
  <2>4. Executes(p) BY <2>2, <2>3 DEF Executes, LeaseHeld
  <2> QED BY <2>2, <2>3, <2>4 DEF AnswerInv
<1> QED BY <1>1, Invariance, PTL DEF Spec, ResultIsCurrent
=============================================================================
