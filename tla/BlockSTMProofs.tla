--------------------------- MODULE BlockSTMProofs ---------------------------
(***************************************************************************)
(* Proofs about the collaborative scheduler (module Scheduler), for every  *)
(* block size and every finite set of workers, and about the block         *)
(* executor (module BlockSTM), which implements it, so that the theorems   *)
(* about the scheduler hold of it.  Its entries are in order, and a read   *)
(* that has changed is never missed by validation.  So it is serializable: *)
(* ExecuteBlock leaves in the storage what running the transactions one    *)
(* after the other leaves there, or, when it is cancelled, what was there  *)
(* before: for every block, every program, every set of estimates and      *)
(* every finite set of workers.                                            *)
(***************************************************************************)
EXTENDS BlockSTMInv, FiniteSetTheorems, WellFoundedInduction, SequenceTheorems, TLAPS

(* Transaction indices are the naturals below the block size.              *)
LEMMA TxnIndices == Txns \subseteq Nat /\ \A i \in Nat : i \in Txns <=> i < BlockSize
BY BlockSizeAssumption DEF Txns

(***************************************************************************)
(* Type correctness                                                        *)
(***************************************************************************)
(* Every step of a worker keeps the types of the scheduler's variables.    *)
LEMMA TypeStep ==
  ASSUME SchedTypeOK, TaskInv, [SchedNext]_schedVars
  PROVE  SchedTypeOK'
<1> USE DEF SchedTypeOK, Statuses, PCs,
        counters, statusVars, waitVars, taskVars, sharedVars, Goto, Observe, SetTask
<1>1. CASE UNCHANGED schedVars
  BY <1>1 DEF schedVars
<1>2. CASE Cancel
  BY <1>2 DEF Cancel
<1>3. ASSUME NEW w \in Workers, SchedulerStep(w) PROVE SchedTypeOK'
  <2>1. CASE RunLoop(w) BY <2>1 DEF RunLoop
  <2>2. CASE LoadValidationIdx(w) BY <2>2 DEF LoadValidationIdx
  <2>3. CASE LoadExecutionIdx(w) BY <2>3 DEF LoadExecutionIdx
  <2>4. CASE ValidateCheck(w) BY <2>4 DEF ValidateCheck
  <2>5. CASE ValidateIncr(w) BY <2>5 DEF ValidateIncr
  <2>6. CASE ValidateFetch(w) BY <2>6 DEF ValidateFetch
  <2>7. CASE ValidateStatus(w)
    <3>1. CASE obs[w] < BlockSize /\ status[obs[w]] = "Executed"
      <4>1. obs[w] \in Txns /\ incarnation[obs[w]] \in Nat
        BY <3>1, TxnIndices
      <4> QED BY <2>7, <3>1, <4>1 DEF ValidateStatus
    <3>2. CASE ~ (obs[w] < BlockSize /\ status[obs[w]] = "Executed")
      BY <2>7, <3>2 DEF ValidateStatus
    <3> QED BY <3>1, <3>2
  <2>8. CASE ExecuteCheck(w) BY <2>8 DEF ExecuteCheck
  <2>9. CASE ExecuteIncr(w) BY <2>9 DEF ExecuteIncr
  <2>10. CASE ExecuteAdd(w) BY <2>10 DEF ExecuteAdd
  <2>11. CASE TryIncarnate(w)
    <3>1. CASE obs[w] < BlockSize /\ status[obs[w]] = "Ready"
      <4>1. obs[w] \in Txns /\ incarnation[obs[w]] \in Nat
        BY <3>1, TxnIndices
      <4> QED BY <2>11, <3>1, <4>1 DEF TryIncarnate
    <3>2. CASE ~ (obs[w] < BlockSize /\ status[obs[w]] = "Ready")
      BY <2>11, <3>2 DEF TryIncarnate
    <3> QED BY <3>1, <3>2
  <2>12. CASE DecrActive(w) BY <2>12 DEF DecrActive
  <2>13. CASE CheckDoneCount(w) BY <2>13 DEF CheckDoneCount
  <2>14. CASE CheckDoneLoads(w) BY <2>14 DEF CheckDoneLoads
  <2>15. CASE CheckDoneStore(w) BY <2>15 DEF CheckDoneStore
  <2>16. CASE LockDependency(w) BY <2>16 DEF LockDependency
  <2>17. CASE Suspend(w) BY <2>17 DEF Suspend, TaskInv, WorkerTask
  <2>18. CASE WakeUp(w) BY <2>18 DEF WakeUp
  <2>19. CASE SetExecuted(w) BY <2>19 DEF SetExecuted
  <2>20. CASE SwapDependents(w) BY <2>20 DEF SwapDependents, TaskInv, WorkerTask
  <2>21. ASSUME NEW d \in deps[w], Resume(w, d) PROVE SchedTypeOK' BY <2>21 DEF Resume
  <2>22. CASE AfterResume(w) BY <2>22 DEF AfterResume
  <2>23. CASE StoreMin(w) BY <2>23 DEF StoreMin, DecreaseTarget
  <2>24. CASE CountDecrease(w) BY <2>24 DEF CountDecrease
  <2>25. CASE TryValidationAbort(w) BY <2>25 DEF TryValidationAbort
  <2>26. CASE SetReadyStatus(w) BY <2>26 DEF SetReadyStatus, TaskInv, WorkerTask
  <2>27. CASE RetryAborted(w) BY <2>27 DEF RetryAborted
  <2> QED
    BY <1>3, <2>1, <2>2, <2>3, <2>4, <2>5, <2>6, <2>7, <2>8, <2>9, <2>10, <2>11,
       <2>12, <2>13, <2>14, <2>15, <2>16, <2>17, <2>18, <2>19, <2>20, <2>21, <2>22,
       <2>23, <2>24, <2>25, <2>26, <2>27 DEF SchedulerStep
<1>4. ASSUME NEW w \in Workers, MemoryStep(w) PROVE SchedTypeOK'
  <2>1. ASSUME NEW b \in Txns, MeetEstimate(w, b) PROVE SchedTypeOK'
    BY <2>1, TxnIndices DEF MeetEstimate
  <2>2. ASSUME NEW n \in BOOLEAN, Recorded(w, n) PROVE SchedTypeOK' BY <2>2 DEF Recorded
  <2>3. ASSUME NEW v \in BOOLEAN, Validated(w, v) PROVE SchedTypeOK' BY <2>3 DEF Validated
  <2>4. CASE Converted(w) BY <2>4 DEF Converted
  <2> QED BY <1>4, <2>1, <2>2, <2>3, <2>4 DEF MemoryStep
<1> QED BY <1>1, <1>2, <1>3, <1>4 DEF SchedNext
(***************************************************************************)
(* The task a worker holds at each step                                    *)
(***************************************************************************)
(* Every step leaves each worker with the task its next step needs.        *)
LEMMA TaskStep ==
  ASSUME SchedTypeOK, TaskInv, OwnerInv, [SchedNext]_schedVars
  PROVE  TaskInv'
<1> USE DEF SchedTypeOK, TaskInv, WorkerTask, counters, statusVars, waitVars, taskVars, sharedVars,
        Goto, Observe, SetTask
<1>1. CASE UNCHANGED schedVars
  BY <1>1 DEF schedVars
<1>2. CASE Cancel
  BY <1>2 DEF Cancel
<1>3. ASSUME NEW w \in Workers, SchedulerStep(w) PROVE TaskInv'
  <2>1. CASE RunLoop(w)
    BY <2>1 DEF RunLoop
  <2>2. CASE LoadValidationIdx(w)
    BY <2>2 DEF LoadValidationIdx
  <2>3. CASE LoadExecutionIdx(w)
    BY <2>3 DEF LoadExecutionIdx
  <2>4. CASE ValidateCheck(w)
    BY <2>4 DEF ValidateCheck
  <2>5. CASE ValidateIncr(w)
    BY <2>5 DEF ValidateIncr
  <2>6. CASE ValidateFetch(w)
    BY <2>6 DEF ValidateFetch
  <2>7. CASE ValidateStatus(w)
    <3>1. CASE obs[w] < BlockSize /\ status[obs[w]] = "Executed"
      <4>1. obs[w] \in Txns /\ obs[w] < execution_idx
        BY <3>1, TxnIndices DEF OwnerInv, ClaimedStatus
      <4> QED BY <2>7, <3>1, <4>1 DEF ValidateStatus
    <3>2. CASE ~ (obs[w] < BlockSize /\ status[obs[w]] = "Executed")
      BY <2>7, <3>2 DEF ValidateStatus
    <3> QED BY <3>1, <3>2
  <2>8. CASE ExecuteCheck(w)
    BY <2>8 DEF ExecuteCheck
  <2>9. CASE ExecuteIncr(w)
    BY <2>9 DEF ExecuteIncr
  <2>10. CASE ExecuteAdd(w)
    BY <2>10 DEF ExecuteAdd
  <2>11. CASE TryIncarnate(w)
    <3>1. CASE obs[w] < BlockSize /\ status[obs[w]] = "Ready"
      <4>1. obs[w] \in Txns BY <3>1, TxnIndices
      <4> QED BY <2>11, <3>1, <4>1 DEF TryIncarnate
    <3>2. CASE ~ (obs[w] < BlockSize /\ status[obs[w]] = "Ready")
      BY <2>11, <3>2 DEF TryIncarnate
    <3> QED BY <3>1, <3>2
  <2>12. CASE DecrActive(w)
    BY <2>12 DEF DecrActive
  <2>13. CASE CheckDoneCount(w)
    BY <2>13 DEF CheckDoneCount
  <2>14. CASE CheckDoneLoads(w)
    BY <2>14 DEF CheckDoneLoads
  <2>15. CASE CheckDoneStore(w)
    BY <2>15 DEF CheckDoneStore
  <2>16. CASE LockDependency(w)
    BY <2>16 DEF LockDependency
  <2>17. CASE Suspend(w)
    BY <2>17 DEF Suspend
  <2>18. CASE WakeUp(w)
    BY <2>18 DEF WakeUp
  <2>19. CASE SetExecuted(w)
    BY <2>19 DEF SetExecuted
  <2>20. CASE SwapDependents(w)
    BY <2>20 DEF SwapDependents
  <2>21. ASSUME NEW d \in deps[w], Resume(w, d) PROVE TaskInv'
    BY <2>21 DEF Resume
  <2>22. CASE AfterResume(w)
    BY <2>22 DEF AfterResume
  <2>23. CASE StoreMin(w)
    BY <2>23 DEF StoreMin, DecreaseTarget
  <2>24. CASE CountDecrease(w)
    BY <2>24 DEF CountDecrease
  <2>25. CASE TryValidationAbort(w)
    BY <2>25 DEF TryValidationAbort
  <2>26. CASE SetReadyStatus(w)
    BY <2>26 DEF SetReadyStatus
  <2>27. CASE RetryAborted(w)
    BY <2>27 DEF RetryAborted
  <2> QED
    BY <1>3, <2>1, <2>2, <2>3, <2>4, <2>5, <2>6, <2>7, <2>8, <2>9, <2>10,
       <2>11, <2>12, <2>13, <2>14, <2>15, <2>16, <2>17, <2>18, <2>19, <2>20,
       <2>21, <2>22, <2>23, <2>24, <2>25, <2>26, <2>27 DEF SchedulerStep
<1>4. ASSUME NEW w \in Workers, MemoryStep(w) PROVE TaskInv'
  <2>1. ASSUME NEW b \in Txns, MeetEstimate(w, b) PROVE TaskInv'
    BY <2>1 DEF MeetEstimate
  <2>2. ASSUME NEW n \in BOOLEAN, Recorded(w, n) PROVE TaskInv'
    BY <2>2 DEF Recorded
  <2>3. ASSUME NEW v \in BOOLEAN, Validated(w, v) PROVE TaskInv'
    BY <2>3 DEF Validated
  <2>4. CASE Converted(w)
    BY <2>4 DEF Converted
  <2> QED
    BY <1>4, <2>1, <2>2, <2>3, <2>4 DEF MemoryStep
<1> QED BY <1>1, <1>2, <1>3, <1>4 DEF SchedNext
(***************************************************************************)
(* Task accounting                                                         *)
(***************************************************************************)

\* A step leaves the reservations alone, or one worker gains or loses one.
HoldersMove ==
  \/ Holders' = Holders /\ num_active_tasks' = num_active_tasks
  \/ \E w \in Workers : /\ w \notin Holders /\ Holders' = Holders \cup {w}
                        /\ num_active_tasks' = num_active_tasks + 1
  \/ \E w \in Workers : /\ w \in Holders /\ Holders' = Holders \ {w}
                        /\ num_active_tasks' = num_active_tasks - 1

(* A step by w moves num_active_tasks exactly when it makes w a holder of  *)
(* a reservation or ends w's.                                              *)
LEMMA HoldersStep ==
  ASSUME SchedTypeOK, TaskInv, [SchedNext]_schedVars
  PROVE  HoldersMove
<1> USE DEF HoldersMove, SchedTypeOK, TaskInv, WorkerTask, Holders, Holds, ReservedPCs,
        counters, statusVars, waitVars, taskVars, sharedVars,
        Goto, Observe, SetTask
<1>1. CASE UNCHANGED schedVars
  BY <1>1 DEF schedVars
<1>2. CASE Cancel
  BY <1>2 DEF Cancel
<1>3. ASSUME NEW w \in Workers, SchedulerStep(w) PROVE HoldersMove
  <2>1. CASE RunLoop(w)
    BY <2>1 DEF RunLoop
  <2>2. CASE LoadValidationIdx(w)
    BY <2>2 DEF LoadValidationIdx
  <2>3. CASE LoadExecutionIdx(w)
    BY <2>3 DEF LoadExecutionIdx
  <2>4. CASE ValidateCheck(w)
    BY <2>4 DEF ValidateCheck
  <2>5. CASE ValidateIncr(w)
    <3>1. w \notin Holders /\ Holders' = Holders \cup {w} BY <2>5 DEF ValidateIncr
    <3> QED BY <2>5, <3>1 DEF ValidateIncr
  <2>6. CASE ValidateFetch(w)
    BY <2>6 DEF ValidateFetch
  <2>7. CASE ValidateStatus(w)
    BY <2>7 DEF ValidateStatus
  <2>8. CASE ExecuteCheck(w)
    BY <2>8 DEF ExecuteCheck
  <2>9. CASE ExecuteIncr(w)
    <3>1. w \notin Holders /\ Holders' = Holders \cup {w} BY <2>9 DEF ExecuteIncr
    <3> QED BY <2>9, <3>1 DEF ExecuteIncr
  <2>10. CASE ExecuteAdd(w)
    BY <2>10 DEF ExecuteAdd
  <2>11. CASE TryIncarnate(w)
    BY <2>11 DEF TryIncarnate
  <2>12. CASE DecrActive(w)
    <3>1. w \in Holders /\ Holders' = Holders \ {w} BY <2>12 DEF DecrActive
    <3> QED BY <2>12, <3>1 DEF DecrActive
  <2>13. CASE CheckDoneCount(w)
    BY <2>13 DEF CheckDoneCount
  <2>14. CASE CheckDoneLoads(w)
    BY <2>14 DEF CheckDoneLoads
  <2>15. CASE CheckDoneStore(w)
    BY <2>15 DEF CheckDoneStore
  <2>16. CASE LockDependency(w)
    BY <2>16 DEF LockDependency
  <2>17. CASE Suspend(w)
    BY <2>17 DEF Suspend
  <2>18. CASE WakeUp(w)
    BY <2>18 DEF WakeUp
  <2>19. CASE SetExecuted(w)
    BY <2>19 DEF SetExecuted
  <2>20. CASE SwapDependents(w)
    BY <2>20 DEF SwapDependents
  <2>21. ASSUME NEW d \in deps[w], Resume(w, d) PROVE HoldersMove
    BY <2>21 DEF Resume
  <2>22. CASE AfterResume(w)
    BY <2>22 DEF AfterResume
  <2>23. CASE StoreMin(w)
    BY <2>23 DEF StoreMin
  <2>24. CASE CountDecrease(w)
    BY <2>24 DEF CountDecrease
  <2>25. CASE TryValidationAbort(w)
    BY <2>25 DEF TryValidationAbort
  <2>26. CASE SetReadyStatus(w)
    BY <2>26 DEF SetReadyStatus
  <2>27. CASE RetryAborted(w)
    BY <2>27 DEF RetryAborted
  <2> QED
    BY <1>3, <2>1, <2>2, <2>3, <2>4, <2>5, <2>6, <2>7, <2>8, <2>9, <2>10,
       <2>11, <2>12, <2>13, <2>14, <2>15, <2>16, <2>17, <2>18, <2>19, <2>20,
       <2>21, <2>22, <2>23, <2>24, <2>25, <2>26, <2>27 DEF SchedulerStep
<1>4. ASSUME NEW w \in Workers, MemoryStep(w) PROVE HoldersMove
  <2>1. ASSUME NEW b \in Txns, MeetEstimate(w, b) PROVE HoldersMove
    BY <2>1 DEF MeetEstimate
  <2>2. ASSUME NEW n \in BOOLEAN, Recorded(w, n) PROVE HoldersMove
    BY <2>2 DEF Recorded
  <2>3. ASSUME NEW v \in BOOLEAN, Validated(w, v) PROVE HoldersMove
    BY <2>3 DEF Validated
  <2>4. CASE Converted(w)
    BY <2>4 DEF Converted
  <2> QED
    BY <1>4, <2>1, <2>2, <2>3, <2>4 DEF MemoryStep
<1> QED BY <1>1, <1>2, <1>3, <1>4 DEF SchedNext

(* So the count and the number of holders stay n apart.                    *)
LEMMA AccountingStep ==
  ASSUME SchedTypeOK, TaskInv, [SchedNext]_schedVars,
         NEW n \in Nat, num_active_tasks = Cardinality(Holders) + n
  PROVE  num_active_tasks' = Cardinality(Holders') + n
<1>1. HoldersMove BY HoldersStep
<1>2. IsFiniteSet(Holders) BY WorkersAssumption, FS_Subset DEF Holders
<1>3. Cardinality(Holders) \in Nat BY <1>2, FS_CardinalityType
<1>4. CASE Holders' = Holders /\ num_active_tasks' = num_active_tasks
  BY <1>4
<1>5. ASSUME NEW w \in Workers, w \notin Holders, Holders' = Holders \cup {w},
             num_active_tasks' = num_active_tasks + 1
      PROVE  num_active_tasks' = Cardinality(Holders') + n
  <2>1. Cardinality(Holders') = Cardinality(Holders) + 1
    BY <1>2, <1>5, FS_AddElement
  <2> QED BY <1>3, <1>5, <2>1
<1>6. ASSUME NEW w \in Workers, w \in Holders, Holders' = Holders \ {w},
             num_active_tasks' = num_active_tasks - 1
      PROVE  num_active_tasks' = Cardinality(Holders') + n
  <2>1. Cardinality(Holders') = Cardinality(Holders) - 1
    BY <1>2, <1>6, FS_RemoveElement
  <2> QED BY <1>3, <1>6, <2>1
<1> QED BY <1>1, <1>4, <1>5, <1>6 DEF HoldersMove

(***************************************************************************)
(* Ownership                                                               *)
(***************************************************************************)
(* No step makes a second worker the owner of a transaction.               *)
LEMMA UniqueStep ==
  ASSUME SchedTypeOK, TaskInv, OwnerInv, WaitInv, [SchedNext]_schedVars
  PROVE  UniqueOwner'
<1> USE DEF SchedTypeOK, TaskInv, WorkerTask, OwnerInv, UniqueOwner, ClaimedStatus,
        OwnedStatus, Owner, counters, statusVars, waitVars, taskVars, sharedVars,
        Goto, Observe, SetTask
<1>1. CASE UNCHANGED schedVars
  BY <1>1 DEF schedVars
<1>2. CASE Cancel
  BY <1>2 DEF Cancel
<1>3. ASSUME NEW w \in Workers, SchedulerStep(w) PROVE UniqueOwner'
  <2>1. CASE RunLoop(w)
    BY <2>1, TxnIndices DEF RunLoop
  <2>2. CASE LoadValidationIdx(w)
    BY <2>2, TxnIndices DEF LoadValidationIdx
  <2>3. CASE LoadExecutionIdx(w)
    BY <2>3, TxnIndices DEF LoadExecutionIdx
  <2>4. CASE ValidateCheck(w)
    BY <2>4, TxnIndices DEF ValidateCheck
  <2>5. CASE ValidateIncr(w)
    BY <2>5, TxnIndices DEF ValidateIncr
  <2>6. CASE ValidateFetch(w)
    BY <2>6, TxnIndices DEF ValidateFetch
  <2>7. CASE ValidateStatus(w)
    BY <2>7, TxnIndices DEF ValidateStatus
  <2>8. CASE ExecuteCheck(w)
    BY <2>8, TxnIndices DEF ExecuteCheck
  <2>9. CASE ExecuteIncr(w)
    BY <2>9, TxnIndices DEF ExecuteIncr
  <2>10. CASE ExecuteAdd(w)
    BY <2>10, TxnIndices DEF ExecuteAdd
  <2>11. CASE TryIncarnate(w)
    BY <2>11, TxnIndices DEF TryIncarnate
  <2>12. CASE DecrActive(w)
    BY <2>12, TxnIndices DEF DecrActive
  <2>13. CASE CheckDoneCount(w)
    BY <2>13, TxnIndices DEF CheckDoneCount
  <2>14. CASE CheckDoneLoads(w)
    BY <2>14, TxnIndices DEF CheckDoneLoads
  <2>15. CASE CheckDoneStore(w)
    BY <2>15, TxnIndices DEF CheckDoneStore
  <2>16. CASE LockDependency(w)
    BY <2>16, TxnIndices DEF LockDependency
  <2>17. CASE Suspend(w)
    BY <2>17, TxnIndices DEF Suspend
  <2>18. CASE WakeUp(w)
    BY <2>18, TxnIndices DEF WakeUp
  <2>19. CASE SetExecuted(w)
    BY <2>19, TxnIndices DEF SetExecuted
  <2>20. CASE SwapDependents(w)
    BY <2>20, TxnIndices DEF SwapDependents
  <2>21. ASSUME NEW d \in deps[w], Resume(w, d) PROVE UniqueOwner'
    BY <2>21, TxnIndices DEF Resume, WaitInv, Sleeps
  <2>22. CASE AfterResume(w)
    BY <2>22, TxnIndices DEF AfterResume
  <2>23. CASE StoreMin(w)
    BY <2>23, TxnIndices DEF StoreMin, DecreaseTarget
  <2>24. CASE CountDecrease(w)
    BY <2>24, TxnIndices DEF CountDecrease
  <2>25. CASE TryValidationAbort(w)
    BY <2>25, TxnIndices DEF TryValidationAbort
  <2>26. CASE SetReadyStatus(w)
    BY <2>26, TxnIndices DEF SetReadyStatus
  <2>27. CASE RetryAborted(w)
    BY <2>27, TxnIndices DEF RetryAborted
  <2> QED
    BY <1>3, <2>1, <2>2, <2>3, <2>4, <2>5, <2>6, <2>7, <2>8, <2>9, <2>10,
       <2>11, <2>12, <2>13, <2>14, <2>15, <2>16, <2>17, <2>18, <2>19, <2>20,
       <2>21, <2>22, <2>23, <2>24, <2>25, <2>26, <2>27 DEF SchedulerStep
<1>4. ASSUME NEW w \in Workers, MemoryStep(w) PROVE UniqueOwner'
  <2>1. ASSUME NEW b \in Txns, MeetEstimate(w, b) PROVE UniqueOwner'
    BY <2>1, TxnIndices DEF MeetEstimate
  <2>2. ASSUME NEW n \in BOOLEAN, Recorded(w, n) PROVE UniqueOwner'
    BY <2>2, TxnIndices DEF Recorded
  <2>3. ASSUME NEW v \in BOOLEAN, Validated(w, v) PROVE UniqueOwner'
    BY <2>3, TxnIndices DEF Validated
  <2>4. CASE Converted(w)
    BY <2>4, TxnIndices DEF Converted
  <2> QED
    BY <1>4, <2>1, <2>2, <2>3, <2>4 DEF MemoryStep
<1> QED BY <1>1, <1>2, <1>3, <1>4 DEF SchedNext

(* The status a worker relies on is not changed by another worker's step.  *)
LEMMA OwnedStep ==
  ASSUME SchedTypeOK, TaskInv, OwnerInv, WaitInv, [SchedNext]_schedVars
  PROVE  (\A v \in Workers : OwnedStatus(v)')
<1> USE DEF SchedTypeOK, TaskInv, WorkerTask, OwnerInv, UniqueOwner, ClaimedStatus,
        OwnedStatus, Owner, counters, statusVars, waitVars, taskVars, sharedVars,
        Goto, Observe, SetTask
<1>1. CASE UNCHANGED schedVars
  BY <1>1 DEF schedVars
<1>2. CASE Cancel
  BY <1>2 DEF Cancel
<1>3. ASSUME NEW w \in Workers, SchedulerStep(w) PROVE (\A v \in Workers : OwnedStatus(v)')
  <2>1. CASE RunLoop(w)
    BY <2>1, TxnIndices DEF RunLoop
  <2>2. CASE LoadValidationIdx(w)
    BY <2>2, TxnIndices DEF LoadValidationIdx
  <2>3. CASE LoadExecutionIdx(w)
    BY <2>3, TxnIndices DEF LoadExecutionIdx
  <2>4. CASE ValidateCheck(w)
    BY <2>4, TxnIndices DEF ValidateCheck
  <2>5. CASE ValidateIncr(w)
    BY <2>5, TxnIndices DEF ValidateIncr
  <2>6. CASE ValidateFetch(w)
    BY <2>6, TxnIndices DEF ValidateFetch
  <2>7. CASE ValidateStatus(w)
    BY <2>7, TxnIndices DEF ValidateStatus
  <2>8. CASE ExecuteCheck(w)
    BY <2>8, TxnIndices DEF ExecuteCheck
  <2>9. CASE ExecuteIncr(w)
    BY <2>9, TxnIndices DEF ExecuteIncr
  <2>10. CASE ExecuteAdd(w)
    BY <2>10, TxnIndices DEF ExecuteAdd
  <2>11. CASE TryIncarnate(w)
    BY <2>11, TxnIndices DEF TryIncarnate
  <2>12. CASE DecrActive(w)
    BY <2>12, TxnIndices DEF DecrActive
  <2>13. CASE CheckDoneCount(w)
    BY <2>13, TxnIndices DEF CheckDoneCount
  <2>14. CASE CheckDoneLoads(w)
    BY <2>14, TxnIndices DEF CheckDoneLoads
  <2>15. CASE CheckDoneStore(w)
    BY <2>15, TxnIndices DEF CheckDoneStore
  <2>16. CASE LockDependency(w)
    BY <2>16, TxnIndices DEF LockDependency
  <2>17. CASE Suspend(w)
    BY <2>17, TxnIndices DEF Suspend
  <2>18. CASE WakeUp(w)
    BY <2>18, TxnIndices DEF WakeUp
  <2>19. CASE SetExecuted(w)
    BY <2>19, TxnIndices DEF SetExecuted
  <2>20. CASE SwapDependents(w)
    BY <2>20, TxnIndices DEF SwapDependents
  <2>21. ASSUME NEW d \in deps[w], Resume(w, d) PROVE (\A v \in Workers : OwnedStatus(v)')
    BY <2>21, TxnIndices DEF Resume, WaitInv, Sleeps
  <2>22. CASE AfterResume(w)
    BY <2>22, TxnIndices DEF AfterResume
  <2>23. CASE StoreMin(w)
    BY <2>23, TxnIndices DEF StoreMin, DecreaseTarget
  <2>24. CASE CountDecrease(w)
    BY <2>24, TxnIndices DEF CountDecrease
  <2>25. CASE TryValidationAbort(w)
    BY <2>25, TxnIndices DEF TryValidationAbort
  <2>26. CASE SetReadyStatus(w)
    BY <2>26, TxnIndices DEF SetReadyStatus
  <2>27. CASE RetryAborted(w)
    BY <2>27, TxnIndices DEF RetryAborted
  <2> QED
    BY <1>3, <2>1, <2>2, <2>3, <2>4, <2>5, <2>6, <2>7, <2>8, <2>9, <2>10,
       <2>11, <2>12, <2>13, <2>14, <2>15, <2>16, <2>17, <2>18, <2>19, <2>20,
       <2>21, <2>22, <2>23, <2>24, <2>25, <2>26, <2>27 DEF SchedulerStep
<1>4. ASSUME NEW w \in Workers, MemoryStep(w) PROVE (\A v \in Workers : OwnedStatus(v)')
  <2>1. ASSUME NEW b \in Txns, MeetEstimate(w, b) PROVE (\A v \in Workers : OwnedStatus(v)')
    BY <2>1, TxnIndices DEF MeetEstimate
  <2>2. ASSUME NEW n \in BOOLEAN, Recorded(w, n) PROVE (\A v \in Workers : OwnedStatus(v)')
    BY <2>2, TxnIndices DEF Recorded
  <2>3. ASSUME NEW ok \in BOOLEAN, Validated(w, ok) PROVE (\A v \in Workers : OwnedStatus(v)')
    BY <2>3, TxnIndices DEF Validated
  <2>4. CASE Converted(w)
    BY <2>4, TxnIndices DEF Converted
  <2> QED
    BY <1>4, <2>1, <2>2, <2>3, <2>4 DEF MemoryStep
<1> QED BY <1>1, <1>2, <1>3, <1>4 DEF SchedNext

(* A transaction that execution_idx has passed keeps an owner until it is  *)
(* EXECUTED, and one above it stays READY.                                 *)
LEMMA ClaimedStep ==
  ASSUME SchedTypeOK, TaskInv, OwnerInv, WaitInv, DoneIsQuiescent, [SchedNext]_schedVars,
         NEW t \in Txns
  PROVE  /\ t >= execution_idx' => status'[t] = "Ready"
         /\ status'[t] \notin {"Ready", "Executed"} => HasOwner(t)'
         /\ (t < execution_idx /\ status[t] = "Ready" => HasOwner(t)) =>
              (t < execution_idx' /\ status'[t] = "Ready" => HasOwner(t)')
<1> USE DEF SchedTypeOK, TaskInv, WorkerTask, OwnerInv, UniqueOwner, ClaimedStatus,
        OwnedStatus, Owner, HasOwner, counters, statusVars, waitVars, taskVars, sharedVars,
        Goto, Observe, SetTask
<1> DEFINE G == /\ t >= execution_idx' => status'[t] = "Ready"
                /\ status'[t] \notin {"Ready", "Executed"} => HasOwner(t)'
                /\ (t < execution_idx /\ status[t] = "Ready" => HasOwner(t)) =>
                     (t < execution_idx' /\ status'[t] = "Ready" => HasOwner(t)')
<1>1. CASE UNCHANGED schedVars
  BY <1>1 DEF schedVars
<1>2. CASE Cancel
  BY <1>2 DEF Cancel
<1>3. ASSUME NEW w \in Workers, SchedulerStep(w) PROVE G
  <2>1. CASE RunLoop(w)
    BY <2>1, TxnIndices DEF RunLoop, DoneIsQuiescent, Quiescent
  <2>2. CASE LoadValidationIdx(w)
    BY <2>2, TxnIndices DEF LoadValidationIdx
  <2>3. CASE LoadExecutionIdx(w)
    BY <2>3, TxnIndices DEF LoadExecutionIdx
  <2>4. CASE ValidateCheck(w)
    BY <2>4, TxnIndices DEF ValidateCheck
  <2>5. CASE ValidateIncr(w)
    BY <2>5, TxnIndices DEF ValidateIncr
  <2>6. CASE ValidateFetch(w)
    BY <2>6, TxnIndices DEF ValidateFetch
  <2>7. CASE ValidateStatus(w)
    <3>1. CASE obs[w] < BlockSize /\ status[obs[w]] = "Executed"
      BY <2>7, <3>1, TxnIndices, SMTT(30) DEF ValidateStatus
    <3>2. CASE ~ (obs[w] < BlockSize /\ status[obs[w]] = "Executed")
      BY <2>7, <3>2, TxnIndices DEF ValidateStatus
    <3> QED BY <3>1, <3>2
  <2>8. CASE ExecuteCheck(w)
    BY <2>8, TxnIndices DEF ExecuteCheck
  <2>9. CASE ExecuteIncr(w)
    BY <2>9, TxnIndices DEF ExecuteIncr
  <2>10. CASE ExecuteAdd(w)
    BY <2>10, TxnIndices, SMTT(30) DEF ExecuteAdd
  <2>11. CASE TryIncarnate(w)
    <3>1. CASE obs[w] < BlockSize /\ status[obs[w]] = "Ready"
      <4>1. obs[w] \in Txns BY <3>1, TxnIndices
      <4>2. ASSUME t # obs[w], NEW v \in Workers, Owner(v, t)
            PROVE  Owner(v, t)'
        BY <2>11, <3>1, <4>1, <4>2 DEF TryIncarnate
      <4>3. ASSUME t = obs[w] PROVE Owner(w, t)'
        BY <2>11, <3>1, <4>1, <4>3 DEF TryIncarnate
      <4> QED BY <2>11, <3>1, <4>1, <4>2, <4>3 DEF TryIncarnate
    <3>2. CASE ~ (obs[w] < BlockSize /\ status[obs[w]] = "Ready")
      <4>0. pc[w] = "incarnate" BY <2>11 DEF TryIncarnate
      <4>1. ~ (obs[w] < BlockSize) BY <3>2, <4>0
      <4>2. t # obs[w]
        BY <4>1, TxnIndices
      <4>3. ASSUME NEW v \in Workers, Owner(v, t)
            PROVE  Owner(v, t)'
        BY <2>11, <3>2, <4>2, <4>3 DEF TryIncarnate
      <4> QED BY <2>11, <3>2, <4>3, SMTT(30) DEF TryIncarnate
    <3> QED BY <3>1, <3>2
  <2>12. CASE DecrActive(w)
    BY <2>12, TxnIndices DEF DecrActive
  <2>13. CASE CheckDoneCount(w)
    BY <2>13, TxnIndices DEF CheckDoneCount
  <2>14. CASE CheckDoneLoads(w)
    BY <2>14, TxnIndices DEF CheckDoneLoads
  <2>15. CASE CheckDoneStore(w)
    BY <2>15, TxnIndices DEF CheckDoneStore
  <2>16. CASE LockDependency(w)
    BY <2>16, TxnIndices DEF LockDependency
  <2>17. CASE Suspend(w)
    BY <2>17, TxnIndices DEF Suspend
  <2>18. CASE WakeUp(w)
    BY <2>18, TxnIndices, SMTT(30) DEF WakeUp
  <2>19. CASE SetExecuted(w)
    BY <2>19, TxnIndices, SMTT(30) DEF SetExecuted
  <2>20. CASE SwapDependents(w)
    BY <2>20, TxnIndices, SMTT(30) DEF SwapDependents
  <2>21. ASSUME NEW d \in deps[w], Resume(w, d) PROVE G
    BY <2>21, TxnIndices DEF Resume, WaitInv, Sleeps
  <2>22. CASE AfterResume(w)
    BY <2>22, TxnIndices DEF AfterResume
  <2>23. CASE StoreMin(w)
    BY <2>23, TxnIndices DEF StoreMin, DecreaseTarget
  <2>24. CASE CountDecrease(w)
    BY <2>24, TxnIndices DEF CountDecrease
  <2>25. CASE TryValidationAbort(w)
    BY <2>25, TxnIndices DEF TryValidationAbort
  <2>26. CASE SetReadyStatus(w)
    BY <2>26, TxnIndices, SMTT(30) DEF SetReadyStatus
  <2>27. CASE RetryAborted(w)
    BY <2>27, TxnIndices, SMTT(30) DEF RetryAborted
  <2> QED
    BY <1>3, <2>1, <2>2, <2>3, <2>4, <2>5, <2>6, <2>7, <2>8, <2>9, <2>10,
       <2>11, <2>12, <2>13, <2>14, <2>15, <2>16, <2>17, <2>18, <2>19, <2>20,
       <2>21, <2>22, <2>23, <2>24, <2>25, <2>26, <2>27 DEF SchedulerStep
<1>4. ASSUME NEW w \in Workers, MemoryStep(w) PROVE G
  <2>1. ASSUME NEW b \in Txns, MeetEstimate(w, b) PROVE G
    BY <2>1, TxnIndices DEF MeetEstimate
  <2>2. ASSUME NEW n \in BOOLEAN, Recorded(w, n) PROVE G
    BY <2>2, TxnIndices DEF Recorded
  <2>3. ASSUME NEW v \in BOOLEAN, Validated(w, v) PROVE G
    BY <2>3, TxnIndices DEF Validated
  <2>4. CASE Converted(w)
    BY <2>4, TxnIndices DEF Converted
  <2> QED
    BY <1>4, <2>1, <2>2, <2>3, <2>4 DEF MemoryStep
<1> QED BY <1>1, <1>2, <1>3, <1>4 DEF SchedNext

(***************************************************************************)
(* Waiting                                                                 *)
(***************************************************************************)
(* Registered and swapped-out transactions stay asleep, each in one place. *)
LEMMA WaitStep ==
  ASSUME SchedTypeOK, TaskInv, OwnerInv, WaitInv, [SchedNext]_schedVars
  PROVE  WaitInv'
<1> USE DEF SchedTypeOK, TaskInv, WorkerTask, WaitInv, Sleeps, counters, statusVars, waitVars, taskVars, sharedVars,
        Goto, Observe, SetTask
<1>1. CASE UNCHANGED schedVars
  BY <1>1 DEF schedVars
<1>2. CASE Cancel
  BY <1>2 DEF Cancel
<1>3. ASSUME NEW w \in Workers, SchedulerStep(w) PROVE WaitInv'
  <2>1. CASE RunLoop(w)
    BY <2>1 DEF RunLoop
  <2>2. CASE LoadValidationIdx(w)
    BY <2>2 DEF LoadValidationIdx
  <2>3. CASE LoadExecutionIdx(w)
    BY <2>3 DEF LoadExecutionIdx
  <2>4. CASE ValidateCheck(w)
    BY <2>4 DEF ValidateCheck
  <2>5. CASE ValidateIncr(w)
    BY <2>5 DEF ValidateIncr
  <2>6. CASE ValidateFetch(w)
    BY <2>6 DEF ValidateFetch
  <2>7. CASE ValidateStatus(w)
    BY <2>7 DEF ValidateStatus
  <2>8. CASE ExecuteCheck(w)
    BY <2>8 DEF ExecuteCheck
  <2>9. CASE ExecuteIncr(w)
    BY <2>9 DEF ExecuteIncr
  <2>10. CASE ExecuteAdd(w)
    BY <2>10 DEF ExecuteAdd
  <2>11. CASE TryIncarnate(w)
    BY <2>11 DEF TryIncarnate
  <2>12. CASE DecrActive(w)
    BY <2>12 DEF DecrActive
  <2>13. CASE CheckDoneCount(w)
    BY <2>13 DEF CheckDoneCount
  <2>14. CASE CheckDoneLoads(w)
    BY <2>14 DEF CheckDoneLoads
  <2>15. CASE CheckDoneStore(w)
    BY <2>15 DEF CheckDoneStore
  <2>16. CASE LockDependency(w)
    BY <2>16 DEF LockDependency
  <2>17. CASE Suspend(w)
    BY <2>17 DEF Suspend, OwnerInv, UniqueOwner, Owner, OwnedStatus
  <2>18. CASE WakeUp(w)
    BY <2>18 DEF WakeUp
  <2>19. CASE SetExecuted(w)
    BY <2>19 DEF SetExecuted
  <2>20. CASE SwapDependents(w)
    BY <2>20 DEF SwapDependents
  <2>21. ASSUME NEW d \in deps[w], Resume(w, d) PROVE WaitInv'
    BY <2>21 DEF Resume
  <2>22. CASE AfterResume(w)
    BY <2>22 DEF AfterResume
  <2>23. CASE StoreMin(w)
    BY <2>23 DEF StoreMin
  <2>24. CASE CountDecrease(w)
    BY <2>24 DEF CountDecrease
  <2>25. CASE TryValidationAbort(w)
    BY <2>25 DEF TryValidationAbort
  <2>26. CASE SetReadyStatus(w)
    BY <2>26 DEF SetReadyStatus
  <2>27. CASE RetryAborted(w)
    BY <2>27 DEF RetryAborted
  <2> QED
    BY <1>3, <2>1, <2>2, <2>3, <2>4, <2>5, <2>6, <2>7, <2>8, <2>9, <2>10,
       <2>11, <2>12, <2>13, <2>14, <2>15, <2>16, <2>17, <2>18, <2>19, <2>20,
       <2>21, <2>22, <2>23, <2>24, <2>25, <2>26, <2>27 DEF SchedulerStep
<1>4. ASSUME NEW w \in Workers, MemoryStep(w) PROVE WaitInv'
  <2>1. ASSUME NEW b \in Txns, MeetEstimate(w, b) PROVE WaitInv'
    BY <2>1 DEF MeetEstimate
  <2>2. ASSUME NEW n \in BOOLEAN, Recorded(w, n) PROVE WaitInv'
    BY <2>2 DEF Recorded
  <2>3. ASSUME NEW v \in BOOLEAN, Validated(w, v) PROVE WaitInv'
    BY <2>3 DEF Validated
  <2>4. CASE Converted(w)
    BY <2>4 DEF Converted
  <2> QED
    BY <1>4, <2>1, <2>2, <2>3, <2>4 DEF MemoryStep
<1> QED BY <1>1, <1>2, <1>3, <1>4 DEF SchedNext

(* The lock of TxDependency keeps every sleeper in sight of a swap or a    *)
(* resume.                                                                 *)
LEMMA WakeStep ==
  ASSUME SchedTypeOK, TaskInv, OwnerInv, WaitInv, WakeInv, [SchedNext]_schedVars
  PROVE  WakeInv'
<1> USE DEF SchedTypeOK, TaskInv, WorkerTask, WakeInv, WillWake, SwapToCome, counters, statusVars, waitVars, taskVars, sharedVars,
        Goto, Observe, SetTask
<1>0. \A v \in Workers : pc[v] \in {"suspend", "wait"} => blk[v] \in Txns /\ txn[v] \in Txns
  BY TxnIndices, BlockSizeAssumption
<1>1. CASE UNCHANGED schedVars
  BY <1>1 DEF schedVars
<1>2. CASE Cancel
  BY <1>2 DEF Cancel
<1>3. ASSUME NEW w \in Workers, SchedulerStep(w) PROVE WakeInv'
  <2>1. CASE RunLoop(w)
    BY <2>1 DEF RunLoop
  <2>2. CASE LoadValidationIdx(w)
    BY <2>2 DEF LoadValidationIdx
  <2>3. CASE LoadExecutionIdx(w)
    BY <2>3 DEF LoadExecutionIdx
  <2>4. CASE ValidateCheck(w)
    BY <2>4 DEF ValidateCheck
  <2>5. CASE ValidateIncr(w)
    BY <2>5 DEF ValidateIncr
  <2>6. CASE ValidateFetch(w)
    BY <2>6 DEF ValidateFetch
  <2>7. CASE ValidateStatus(w)
    <3>1. ASSUME NEW v \in Workers, v # w PROVE WillWake(v)'
      BY <1>0, <2>7, <3>1 DEF ValidateStatus
    <3>2. WillWake(w)'
      BY <1>0, <2>7 DEF ValidateStatus
    <3> QED BY <3>1, <3>2
  <2>8. CASE ExecuteCheck(w)
    BY <2>8 DEF ExecuteCheck
  <2>9. CASE ExecuteIncr(w)
    BY <2>9 DEF ExecuteIncr
  <2>10. CASE ExecuteAdd(w)
    BY <2>10 DEF ExecuteAdd
  <2>11. CASE TryIncarnate(w)
    <3>1. CASE obs[w] < BlockSize /\ status[obs[w]] = "Ready"
      BY <1>0, <2>11, <3>1, TxnIndices DEF TryIncarnate
    <3>2. CASE ~ (obs[w] < BlockSize /\ status[obs[w]] = "Ready")
      BY <1>0, <2>11, <3>2 DEF TryIncarnate
    <3> QED BY <3>1, <3>2
  <2>12. CASE DecrActive(w)
    BY <2>12 DEF DecrActive
  <2>13. CASE CheckDoneCount(w)
    BY <2>13 DEF CheckDoneCount
  <2>14. CASE CheckDoneLoads(w)
    BY <2>14 DEF CheckDoneLoads
  <2>15. CASE CheckDoneStore(w)
    BY <2>15 DEF CheckDoneStore
  <2>16. CASE LockDependency(w)
    <3>1. ASSUME NEW v \in Workers, v # w PROVE WillWake(v)'
      BY <1>0, <2>16, <3>1 DEF LockDependency
    <3>2. WillWake(w)'
      BY <1>0, <2>16 DEF LockDependency
    <3> QED BY <3>1, <3>2
  <2>17. CASE Suspend(w)
    <3>1. ASSUME NEW v \in Workers, v # w PROVE WillWake(v)'
      BY <1>0, <2>17, <3>1 DEF Suspend, OwnerInv, UniqueOwner, Owner, OwnedStatus
    <3>2. WillWake(w)'
      BY <1>0, <2>17 DEF Suspend, OwnerInv, UniqueOwner, Owner, OwnedStatus
    <3> QED BY <3>1, <3>2
  <2>18. CASE WakeUp(w)
    BY <2>18 DEF WakeUp
  <2>19. CASE SetExecuted(w)
    BY <2>19 DEF SetExecuted
  <2>20. CASE SwapDependents(w)
    <3>1. ASSUME NEW v \in Workers, v # w PROVE WillWake(v)'
      BY <1>0, <2>20, <3>1 DEF SwapDependents, Locked
    <3>2. WillWake(w)'
      BY <1>0, <2>20 DEF SwapDependents, Locked
    <3> QED BY <3>1, <3>2
  <2>21. ASSUME NEW d \in deps[w], Resume(w, d) PROVE WakeInv'
    <3>1. ASSUME NEW v \in Workers, v # w PROVE WillWake(v)'
      BY <1>0, <2>21, <3>1 DEF Resume, WaitInv, Sleeps, OwnerInv, UniqueOwner, Owner
    <3>2. WillWake(w)'
      BY <1>0, <2>21 DEF Resume, WaitInv, Sleeps, OwnerInv, UniqueOwner, Owner
    <3> QED BY <3>1, <3>2
  <2>22. CASE AfterResume(w)
    BY <2>22 DEF AfterResume
  <2>23. CASE StoreMin(w)
    BY <2>23 DEF StoreMin
  <2>24. CASE CountDecrease(w)
    BY <2>24 DEF CountDecrease
  <2>25. CASE TryValidationAbort(w)
    <3>1. CASE incarnation[txn[w]] = inc[w] /\ status[txn[w]] = "Executed"
      BY <1>0, <2>25, <3>1, TxnIndices DEF TryValidationAbort
    <3>2. CASE ~ (incarnation[txn[w]] = inc[w] /\ status[txn[w]] = "Executed")
      BY <1>0, <2>25, <3>2 DEF TryValidationAbort
    <3> QED BY <3>1, <3>2
  <2>26. CASE SetReadyStatus(w)
    BY <2>26 DEF SetReadyStatus
  <2>27. CASE RetryAborted(w)
    BY <2>27 DEF RetryAborted
  <2> QED
    BY <1>3, <2>1, <2>2, <2>3, <2>4, <2>5, <2>6, <2>7, <2>8, <2>9, <2>10,
       <2>11, <2>12, <2>13, <2>14, <2>15, <2>16, <2>17, <2>18, <2>19, <2>20,
       <2>21, <2>22, <2>23, <2>24, <2>25, <2>26, <2>27 DEF SchedulerStep
<1>4. ASSUME NEW w \in Workers, MemoryStep(w) PROVE WakeInv'
  <2>1. ASSUME NEW b \in Txns, MeetEstimate(w, b) PROVE WakeInv'
    <3>1. ASSUME NEW v \in Workers, v # w PROVE WillWake(v)'
      BY <1>0, <2>1, <3>1 DEF MeetEstimate
    <3>2. WillWake(w)'
      BY <1>0, <2>1 DEF MeetEstimate
    <3> QED BY <3>1, <3>2
  <2>2. ASSUME NEW n \in BOOLEAN, Recorded(w, n) PROVE WakeInv'
    BY <2>2 DEF Recorded
  <2>3. ASSUME NEW v \in BOOLEAN, Validated(w, v) PROVE WakeInv'
    BY <2>3 DEF Validated
  <2>4. CASE Converted(w)
    BY <2>4 DEF Converted
  <2> QED
    BY <1>4, <2>1, <2>2, <2>3, <2>4 DEF MemoryStep
<1> QED BY <1>1, <1>2, <1>3, <1>4 DEF SchedNext

(***************************************************************************)
(* Completion                                                              *)
(***************************************************************************)
(* Once nothing is left to do, no step creates anything to do.             *)
LEMMA QuiescentStep ==
  ASSUME SchedTypeOK, TaskInv, Quiescent, [SchedNext]_schedVars
  PROVE  Quiescent'
<1> USE DEF SchedTypeOK, TaskInv, WorkerTask, counters, statusVars, waitVars, taskVars, sharedVars,
        Goto, Observe, SetTask, Quiescent
<1>1. CASE UNCHANGED schedVars
  BY <1>1 DEF schedVars
<1>2. CASE Cancel
  BY <1>2 DEF Cancel
<1>3. ASSUME NEW w \in Workers, SchedulerStep(w) PROVE Quiescent'
  <2>1. CASE RunLoop(w)
    BY <2>1 DEF RunLoop
  <2>2. CASE LoadValidationIdx(w)
    BY <2>2 DEF LoadValidationIdx
  <2>3. CASE LoadExecutionIdx(w)
    BY <2>3 DEF LoadExecutionIdx
  <2>4. CASE ValidateCheck(w)
    BY <2>4 DEF ValidateCheck
  <2>5. CASE ValidateIncr(w)
    BY <2>5 DEF ValidateIncr
  <2>6. CASE ValidateFetch(w)
    BY <2>6, BlockSizeAssumption DEF ValidateFetch
  <2>7. CASE ValidateStatus(w)
    BY <2>7, BlockSizeAssumption DEF ValidateStatus
  <2>8. CASE ExecuteCheck(w)
    BY <2>8 DEF ExecuteCheck
  <2>9. CASE ExecuteIncr(w)
    BY <2>9 DEF ExecuteIncr
  <2>10. CASE ExecuteAdd(w)
    BY <2>10, BlockSizeAssumption DEF ExecuteAdd
  <2>11. CASE TryIncarnate(w)
    BY <2>11, BlockSizeAssumption DEF TryIncarnate
  <2>12. CASE DecrActive(w)
    BY <2>12 DEF DecrActive
  <2>13. CASE CheckDoneCount(w)
    BY <2>13 DEF CheckDoneCount
  <2>14. CASE CheckDoneLoads(w)
    BY <2>14 DEF CheckDoneLoads
  <2>15. CASE CheckDoneStore(w)
    BY <2>15 DEF CheckDoneStore
  <2>16. CASE LockDependency(w)
    BY <2>16 DEF LockDependency
  <2>17. CASE Suspend(w)
    BY <2>17 DEF Suspend
  <2>18. CASE WakeUp(w)
    BY <2>18 DEF WakeUp
  <2>19. CASE SetExecuted(w)
    BY <2>19 DEF SetExecuted
  <2>20. CASE SwapDependents(w)
    BY <2>20 DEF SwapDependents
  <2>21. ASSUME NEW d \in deps[w], Resume(w, d) PROVE Quiescent'
    BY <2>21 DEF Resume
  <2>22. CASE AfterResume(w)
    BY <2>22 DEF AfterResume
  <2>23. CASE StoreMin(w)
    BY <2>23 DEF StoreMin
  <2>24. CASE CountDecrease(w)
    BY <2>24 DEF CountDecrease
  <2>25. CASE TryValidationAbort(w)
    BY <2>25 DEF TryValidationAbort
  <2>26. CASE SetReadyStatus(w)
    BY <2>26 DEF SetReadyStatus
  <2>27. CASE RetryAborted(w)
    BY <2>27 DEF RetryAborted
  <2> QED
    BY <1>3, <2>1, <2>2, <2>3, <2>4, <2>5, <2>6, <2>7, <2>8, <2>9, <2>10,
       <2>11, <2>12, <2>13, <2>14, <2>15, <2>16, <2>17, <2>18, <2>19, <2>20,
       <2>21, <2>22, <2>23, <2>24, <2>25, <2>26, <2>27 DEF SchedulerStep
<1>4. ASSUME NEW w \in Workers, MemoryStep(w) PROVE Quiescent'
  <2>1. ASSUME NEW b \in Txns, MeetEstimate(w, b) PROVE Quiescent'
    BY <2>1 DEF MeetEstimate
  <2>2. ASSUME NEW n \in BOOLEAN, Recorded(w, n) PROVE Quiescent'
    BY <2>2 DEF Recorded
  <2>3. ASSUME NEW v \in BOOLEAN, Validated(w, v) PROVE Quiescent'
    BY <2>3 DEF Validated
  <2>4. CASE Converted(w)
    BY <2>4 DEF Converted
  <2> QED
    BY <1>4, <2>1, <2>2, <2>3, <2>4 DEF MemoryStep
<1> QED BY <1>1, <1>2, <1>3, <1>4 DEF SchedNext

(* The third load of CheckDone: no active task, so the block is complete   *)
(* unless validation_idx was lowered since the first load.                 *)
LEMMA NoActiveTask ==
  ASSUME SchedTypeOK, TaskInv, IdleIsDone, DoneInv,
         NEW w \in Workers, pc[w] = "cdActive", num_active_tasks = 0
  PROVE  obs[w] < decrease_cnt \/ Quiescent
<1>1. Holders = {}
  BY DEF IdleIsDone
<1>2. \A v \in Workers : kind[v] = "none" /\ pc[v] \notin ReservedPCs
  BY <1>1 DEF Holders, Holds
<1>3. \A v \in Workers : pc[v] # "count"
  BY <1>2 DEF TaskInv, WorkerTask
<1>4. execution_idx >= BlockSize
  BY DEF DoneInv
<1>5. \A t \in Txns : status[t] = "Executed"
  <2>1. \A t \in Txns : t < execution_idx
    BY <1>4, TxnIndices, BlockSizeAssumption DEF SchedTypeOK
  <2> QED BY <2>1 DEF IdleIsDone
<1> QED BY <1>2, <1>3, <1>4, <1>5 DEF DoneInv, Quiescent, ReservedPCs

(* What CheckDone's loads have established survives the steps of the       *)
(* others.                                                                 *)
LEMMA DoneStep ==
  ASSUME SchedTypeOK, TaskInv, OwnerInv, IdleIsDone, DoneInv, [SchedNext]_schedVars
  PROVE  DoneInv'
<1> USE DEF SchedTypeOK, TaskInv, WorkerTask, DoneInv, DoneIsQuiescent, counters, statusVars, waitVars, taskVars, sharedVars,
        Goto, Observe, SetTask
<1>0. Quiescent => Quiescent'
  BY QuiescentStep
<1>1. CASE UNCHANGED schedVars
  BY <1>0, <1>1 DEF schedVars
<1>2. CASE Cancel
  BY <1>0, <1>2 DEF Cancel
<1>3. ASSUME NEW w \in Workers, SchedulerStep(w) PROVE DoneInv'
  <2>1. CASE RunLoop(w)
    BY <1>0, <2>1 DEF RunLoop
  <2>2. CASE LoadValidationIdx(w)
    BY <1>0, <2>2 DEF LoadValidationIdx
  <2>3. CASE LoadExecutionIdx(w)
    BY <1>0, <2>3 DEF LoadExecutionIdx
  <2>4. CASE ValidateCheck(w)
    BY <1>0, <2>4 DEF ValidateCheck
  <2>5. CASE ValidateIncr(w)
    BY <1>0, <2>5 DEF ValidateIncr
  <2>6. CASE ValidateFetch(w)
    BY <1>0, <2>6, BlockSizeAssumption DEF ValidateFetch
  <2>7. CASE ValidateStatus(w)
    BY <1>0, <2>7 DEF ValidateStatus
  <2>8. CASE ExecuteCheck(w)
    BY <1>0, <2>8 DEF ExecuteCheck
  <2>9. CASE ExecuteIncr(w)
    BY <1>0, <2>9 DEF ExecuteIncr
  <2>10. CASE ExecuteAdd(w)
    BY <1>0, <2>10, BlockSizeAssumption DEF ExecuteAdd
  <2>11. CASE TryIncarnate(w)
    BY <1>0, <2>11 DEF TryIncarnate
  <2>12. CASE DecrActive(w)
    BY <1>0, <2>12 DEF DecrActive
  <2>13. CASE CheckDoneCount(w)
    BY <1>0, <2>13 DEF CheckDoneCount
  <2>14. CASE CheckDoneLoads(w)
    <3>1. CASE pc[w] = "cdActive" /\ num_active_tasks = 0
      <4>1. obs[w] < decrease_cnt \/ Quiescent BY <3>1, NoActiveTask
      <4> QED BY <1>0, <2>14, <3>1, <4>1 DEF CheckDoneLoads
    <3>2. CASE ~ (pc[w] = "cdActive" /\ num_active_tasks = 0)
      BY <1>0, <2>14, <3>2 DEF CheckDoneLoads
    <3> QED BY <3>1, <3>2
  <2>15. CASE CheckDoneStore(w)
    BY <1>0, <2>15 DEF CheckDoneStore
  <2>16. CASE LockDependency(w)
    BY <1>0, <2>16 DEF LockDependency
  <2>17. CASE Suspend(w)
    BY <1>0, <2>17 DEF Suspend
  <2>18. CASE WakeUp(w)
    BY <1>0, <2>18 DEF WakeUp
  <2>19. CASE SetExecuted(w)
    BY <1>0, <2>19 DEF SetExecuted
  <2>20. CASE SwapDependents(w)
    BY <1>0, <2>20 DEF SwapDependents
  <2>21. ASSUME NEW d \in deps[w], Resume(w, d) PROVE DoneInv'
    BY <1>0, <2>21 DEF Resume
  <2>22. CASE AfterResume(w)
    BY <1>0, <2>22 DEF AfterResume
  <2>23. CASE StoreMin(w)
    BY <1>0, <2>23 DEF StoreMin
  <2>24. CASE CountDecrease(w)
    BY <1>0, <2>24 DEF CountDecrease
  <2>25. CASE TryValidationAbort(w)
    BY <1>0, <2>25 DEF TryValidationAbort
  <2>26. CASE SetReadyStatus(w)
    BY <1>0, <2>26 DEF SetReadyStatus
  <2>27. CASE RetryAborted(w)
    BY <1>0, <2>27 DEF RetryAborted
  <2> QED
    BY <1>3, <2>1, <2>2, <2>3, <2>4, <2>5, <2>6, <2>7, <2>8, <2>9, <2>10,
       <2>11, <2>12, <2>13, <2>14, <2>15, <2>16, <2>17, <2>18, <2>19, <2>20,
       <2>21, <2>22, <2>23, <2>24, <2>25, <2>26, <2>27 DEF SchedulerStep
<1>4. ASSUME NEW w \in Workers, MemoryStep(w) PROVE DoneInv'
  <2>1. ASSUME NEW b \in Txns, MeetEstimate(w, b) PROVE DoneInv'
    BY <1>0, <2>1 DEF MeetEstimate
  <2>2. ASSUME NEW n \in BOOLEAN, Recorded(w, n) PROVE DoneInv'
    BY <1>0, <2>2 DEF Recorded
  <2>3. ASSUME NEW v \in BOOLEAN, Validated(w, v) PROVE DoneInv'
    BY <1>0, <2>3 DEF Validated
  <2>4. CASE Converted(w)
    BY <1>0, <2>4 DEF Converted
  <2> QED
    BY <1>4, <2>1, <2>2, <2>3, <2>4 DEF MemoryStep
<1> QED BY <1>1, <1>2, <1>3, <1>4 DEF SchedNext


(***************************************************************************)
(* The invariant is inductive, and what follows from it                    *)
(***************************************************************************)
(* The state NewScheduler creates satisfies the invariant.                 *)
LEMMA InitIndInv == SchedInit => IndInv
<1> SUFFICES ASSUME SchedInit PROVE IndInv
  OBVIOUS
<1>1. SchedTypeOK
  <2>1. /\ status \in [Txns -> Statuses] /\ incarnation \in [Txns -> Nat]
        /\ cond \in [Txns -> Workers \cup {NoWorker}]
        /\ dependents \in [Txns -> SUBSET Txns]
    BY DEF SchedInit, Statuses
  <2>2. /\ pc \in [Workers -> PCs] /\ kind \in [Workers -> {"none", "execution", "validation"}]
        /\ txn \in [Workers -> Nat] /\ inc \in [Workers -> Nat]
        /\ obs \in [Workers -> Nat] /\ blk \in [Workers -> Nat]
    BY DEF SchedInit, PCs
  <2>3. /\ wroteNew \in [Workers -> BOOLEAN] /\ notified \in [Workers -> BOOLEAN]
        /\ deps \in [Workers -> SUBSET Txns]
    BY DEF SchedInit
  <2>4. /\ execution_idx \in Nat /\ validation_idx \in Nat /\ decrease_cnt \in Nat
        /\ num_active_tasks \in Int
    BY DEF SchedInit
  <2>5. done_marker \in BOOLEAN /\ cancelled \in BOOLEAN
    BY DEF SchedInit
  <2> QED BY <2>1, <2>2, <2>3, <2>4, <2>5 DEF SchedTypeOK
<1>2. TaskInv /\ WaitInv /\ WakeInv /\ DoneInv
  BY DEF SchedInit, TaskInv, WorkerTask, WaitInv, WakeInv, WillWake, DoneInv, DoneIsQuiescent
<1>3. OwnerInv
  BY TxnIndices DEF SchedInit, OwnerInv, UniqueOwner, ClaimedStatus, OwnedStatus, Owner
<1>4. DispatchedBut({})
  BY TxnIndices DEF SchedInit, DispatchedBut
<1>5. TaskAccounting
  <2>1. Holders = {}
    BY DEF SchedInit, Holders, Holds, ReservedPCs
  <2> QED BY <2>1, FS_EmptySet DEF SchedInit, TaskAccounting
<1> QED BY <1>1, <1>2, <1>3, <1>4, <1>5 DEF IndInv, CoreInv

(* A step of the scheduler preserves what the kernels share.               *)
LEMMA CoreInvStep ==
  ASSUME CoreInv, IdleIsDone, [SchedNext]_schedVars
  PROVE  CoreInv'
<1> USE DEF CoreInv
<1>1. DoneIsQuiescent BY DEF DoneInv
<1>2. SchedTypeOK' BY TypeStep
<1>3. TaskInv' BY TaskStep
<1>4. OwnerInv'
  <2>1. ClaimedStatus' BY <1>1, ClaimedStep DEF ClaimedStatus, HasOwner
  <2> QED BY <2>1, UniqueStep, OwnedStep DEF OwnerInv
<1>5. WaitInv' BY WaitStep
<1>6. WakeInv' BY WakeStep
<1>7. DoneInv' BY DoneStep
<1> QED BY <1>2, <1>3, <1>4, <1>5, <1>6, <1>7

(* Nobody has a task and nothing is left when the count is zero.           *)
LEMMA NoReservation == IndInv => IdleIsDone
<1> SUFFICES ASSUME IndInv, num_active_tasks = 0
             PROVE  Holders = {} /\ \A t \in Txns : t < execution_idx => status[t] = "Executed"
  BY DEF IdleIsDone
<1>1. Holders = {}
  <2>1. IsFiniteSet(Holders) BY WorkersAssumption, FS_Subset DEF Holders
  <2> QED BY <2>1, FS_EmptySet DEF IndInv, TaskAccounting
<1>2. \A t \in Txns, v \in Workers : ~ Owner(v, t)
  BY <1>1 DEF Holders, Holds, Owner, ReservedPCs
<1> QED BY <1>1, <1>2 DEF IndInv, CoreInv, OwnerInv, ClaimedStatus, DispatchedBut, HasOwner

(* Every step of the scheduler preserves the invariant.                    *)
LEMMA IndInvStep ==
  ASSUME IndInv, [SchedNext]_schedVars
  PROVE  IndInv'
<1> USE DEF IndInv, CoreInv
<1>1. CoreInv'
  BY CoreInvStep, NoReservation
<1>2. TaskAccounting'
  <2>1. IsFiniteSet(Holders) /\ IsFiniteSet(Holders') BY WorkersAssumption, FS_Subset DEF Holders
  <2>2. Cardinality(Holders) \in Nat /\ Cardinality(Holders') \in Nat BY <2>1, FS_CardinalityType
  <2>3. num_active_tasks = Cardinality(Holders) + 0
    BY <2>2 DEF TaskAccounting
  <2>4. num_active_tasks' = Cardinality(Holders') + 0
    BY <2>3, AccountingStep
  <2> QED BY <2>2, <2>4 DEF TaskAccounting
<1>3. DispatchedBut({})'
  <2>1. DoneIsQuiescent BY DEF DoneInv
  <2> QED BY <2>1, ClaimedStep DEF DispatchedBut
<1> QED BY <1>1, <1>2, <1>3

(* IndInv is an invariant of the scheduler.                                *)
THEOREM Inductive == SchedSpec => []IndInv
<1>1. IndInv /\ [SchedNext]_schedVars => IndInv'
  BY IndInvStep
<1> QED BY <1>1, InitIndInv, PTL DEF SchedSpec

(* Every variable of the scheduler keeps its type.                         *)
THEOREM TypeCorrect == SchedSpec => []SchedTypeOK
BY Inductive, PTL DEF IndInv, CoreInv

(* num_active_tasks is the number of workers that hold a task: the         *)
(* counter that scheduler.go moves in seven places never drifts.           *)
THEOREM AccountingCorrect == SchedSpec => []TaskAccounting
BY Inductive, PTL DEF IndInv, CoreInv

(* Every claimed transaction that is not EXECUTED has exactly one owner.   *)
THEOREM OwnershipCorrect == SchedSpec => []OneOwner
<1>1. IndInv => OneOwner
  BY TxnIndices DEF IndInv, CoreInv, SchedTypeOK, TaskInv, WorkerTask, OwnerInv, UniqueOwner,
     ClaimedStatus, OwnedStatus, Owner, OneOwner, DispatchedBut, HasOwner
<1> QED BY <1>1, Inductive, PTL

(* Resume always finds a suspended transaction with its Condvar set.       *)
THEOREM ResumeCorrect == SchedSpec => []ResumeFindsWaiter
<1>1. IndInv => ResumeFindsWaiter
  BY DEF IndInv, CoreInv, SchedTypeOK, OwnerInv, OwnedStatus, WaitInv, Sleeps, ResumeFindsWaiter
<1> QED BY <1>1, Inductive, PTL

(* No worker sleeps without somebody left to wake it.                      *)
THEOREM WakeupCorrect == SchedSpec => []NoLostWakeup
<1>1. IndInv => NoLostWakeup
  BY DEF IndInv, CoreInv, SchedTypeOK, TaskInv, WorkerTask, WakeInv, WillWake, NoLostWakeup
<1> QED BY <1>1, Inductive, PTL

(* CheckDone sets done_marker only when the block is complete.             *)
THEOREM CompletionCorrect == SchedSpec => []DoneIsQuiescent
BY Inductive, PTL DEF IndInv, CoreInv, DoneInv

(***************************************************************************)
(* The state diagram of StatusEntry                                        *)
(***************************************************************************)
(* Under the invariant each step moves a status along an edge of the       *)
(* diagram only.                                                           *)
LEMMA StatusEdgeStep ==
  ASSUME SchedTypeOK, TaskInv, OwnerInv, WaitInv, [SchedNext]_schedVars
  PROVE  StatusStep
<1> USE DEF StatusStep, StatusEdges, SchedTypeOK, TaskInv, WorkerTask, OwnerInv, OwnedStatus, counters, statusVars, waitVars, taskVars, sharedVars,
        Goto, Observe, SetTask
<1>1. CASE UNCHANGED schedVars
  BY <1>1 DEF schedVars
<1>2. CASE Cancel
  BY <1>2 DEF Cancel
<1>3. ASSUME NEW w \in Workers, SchedulerStep(w) PROVE StatusStep
  <2>1. CASE RunLoop(w)
    BY <2>1 DEF RunLoop
  <2>2. CASE LoadValidationIdx(w)
    BY <2>2 DEF LoadValidationIdx
  <2>3. CASE LoadExecutionIdx(w)
    BY <2>3 DEF LoadExecutionIdx
  <2>4. CASE ValidateCheck(w)
    BY <2>4 DEF ValidateCheck
  <2>5. CASE ValidateIncr(w)
    BY <2>5 DEF ValidateIncr
  <2>6. CASE ValidateFetch(w)
    BY <2>6 DEF ValidateFetch
  <2>7. CASE ValidateStatus(w)
    BY <2>7 DEF ValidateStatus
  <2>8. CASE ExecuteCheck(w)
    BY <2>8 DEF ExecuteCheck
  <2>9. CASE ExecuteIncr(w)
    BY <2>9 DEF ExecuteIncr
  <2>10. CASE ExecuteAdd(w)
    BY <2>10 DEF ExecuteAdd
  <2>11. CASE TryIncarnate(w)
    BY <2>11 DEF TryIncarnate
  <2>12. CASE DecrActive(w)
    BY <2>12 DEF DecrActive
  <2>13. CASE CheckDoneCount(w)
    BY <2>13 DEF CheckDoneCount
  <2>14. CASE CheckDoneLoads(w)
    BY <2>14 DEF CheckDoneLoads
  <2>15. CASE CheckDoneStore(w)
    BY <2>15 DEF CheckDoneStore
  <2>16. CASE LockDependency(w)
    BY <2>16 DEF LockDependency
  <2>17. CASE Suspend(w)
    BY <2>17 DEF Suspend
  <2>18. CASE WakeUp(w)
    BY <2>18 DEF WakeUp
  <2>19. CASE SetExecuted(w)
    BY <2>19 DEF SetExecuted
  <2>20. CASE SwapDependents(w)
    BY <2>20 DEF SwapDependents
  <2>21. ASSUME NEW d \in deps[w], Resume(w, d) PROVE StatusStep
    BY <2>21 DEF Resume, WaitInv, Sleeps
  <2>22. CASE AfterResume(w)
    BY <2>22 DEF AfterResume
  <2>23. CASE StoreMin(w)
    BY <2>23 DEF StoreMin, DecreaseTarget
  <2>24. CASE CountDecrease(w)
    BY <2>24 DEF CountDecrease
  <2>25. CASE TryValidationAbort(w)
    BY <2>25 DEF TryValidationAbort
  <2>26. CASE SetReadyStatus(w)
    BY <2>26 DEF SetReadyStatus
  <2>27. CASE RetryAborted(w)
    BY <2>27 DEF RetryAborted
  <2> QED
    BY <1>3, <2>1, <2>2, <2>3, <2>4, <2>5, <2>6, <2>7, <2>8, <2>9, <2>10,
       <2>11, <2>12, <2>13, <2>14, <2>15, <2>16, <2>17, <2>18, <2>19, <2>20,
       <2>21, <2>22, <2>23, <2>24, <2>25, <2>26, <2>27 DEF SchedulerStep
<1>4. ASSUME NEW w \in Workers, MemoryStep(w) PROVE StatusStep
  <2>1. ASSUME NEW b \in Txns, MeetEstimate(w, b) PROVE StatusStep
    BY <2>1 DEF MeetEstimate
  <2>2. ASSUME NEW n \in BOOLEAN, Recorded(w, n) PROVE StatusStep
    BY <2>2 DEF Recorded
  <2>3. ASSUME NEW v \in BOOLEAN, Validated(w, v) PROVE StatusStep
    BY <2>3 DEF Validated
  <2>4. CASE Converted(w)
    BY <2>4 DEF Converted
  <2> QED
    BY <1>4, <2>1, <2>2, <2>3, <2>4 DEF MemoryStep
<1> QED BY <1>1, <1>2, <1>3, <1>4 DEF SchedNext


(* Whoever changes a status moves it along an edge of the diagram.         *)
THEOREM DiagramCorrect == SchedSpec => StatusDiagram
<1>1. IndInv /\ [SchedNext]_schedVars => [StatusStep]_schedVars
  BY StatusEdgeStep DEF IndInv, CoreInv
<1> QED BY <1>1, Inductive, PTL DEF SchedSpec, StatusDiagram

(***************************************************************************)
(* The block executor: what a read finds in the memory                     *)
(***************************************************************************)
(* A nonempty set of naturals up to n has a maximum.                       *)
LEMMA MaxExists ==
  ASSUME NEW n \in Nat, NEW S \in SUBSET (0 .. n), S # {}
  PROVE  Max(S) \in S /\ \A y \in S : y <= Max(S)
<1> DEFINE T == {m \in Nat : n - m \in S}
<1>1. T # {}
  <2>1. PICK x \in S : TRUE OBVIOUS
  <2>2. n - (n - x) = x /\ n - x \in Nat BY <2>1
  <2>3. n - x \in T BY <2>1, <2>2
  <2> QED BY <2>3
<1>2. PICK m \in T : \A y \in T : ~ (<<y, m>> \in OpToRel(<, Nat))
  <2>1. T \subseteq Nat OBVIOUS
  <2> HIDE DEF T
  <2> QED BY <1>1, <2>1, NatLessThanWellFounded, WFMin
<1>3. \A y \in T : ~ (y < m)
  BY <1>2 DEF OpToRel
<1>4. n - m \in S /\ \A y \in S : y <= n - m
  <2>1. ASSUME NEW y \in S PROVE y <= n - m
    <3>1. y \in Nat /\ y <= n BY <2>1
    <3>2. n - (n - y) = y /\ n - y \in Nat BY <3>1
    <3>3. n - y \in T BY <2>1, <3>2
    <3>4. ~ (n - y < m) BY <1>3, <3>3
    <3> QED BY <3>1, <3>4
  <2> QED BY <2>1
<1> QED BY <1>4 DEF Max
(* An ESTIMATE that a reader meets belongs to a lower transaction.         *)
LEMMA ReadIndex ==
  ASSUME NEW versions, DOMAIN versions \subseteq Txns, NEW t \in Nat,
         Read(versions, t).estimate
  PROVE  Read(versions, t).version.index \in Txns
<1> DEFINE low == Lower(versions, t)
<1>1. CASE low = {}
  BY <1>1 DEF Read
<1>2. CASE low # {}
  <2>1. low \in SUBSET (0 .. BlockSize)
    BY BlockSizeAssumption DEF Lower, Txns
  <2>2. Max(low) \in low
    BY <1>2, <2>1, MaxExists, BlockSizeAssumption
  <2>3. Read(versions, t).version.index = Max(low)
    BY <1>2 DEF Read
  <2> QED BY <2>2, <2>3 DEF Lower
<1> QED BY <1>1, <1>2

(***************************************************************************)
(* Every step of the block executor is a step of the scheduler, or none    *)
(***************************************************************************)
(* Each step of the block is a step of the scheduler or leaves it alone.   *)
LEMMA SimulationStep ==
  ASSUME CoreInv, MemoryShape, [Next]_vars
  PROVE  [SchedNext]_schedVars
<1>1. CASE UNCHANGED vars
  BY <1>1 DEF vars
<1>2. CASE Return
  BY <1>2 DEF Return
<1>3. CASE CancelBlock
  BY <1>3 DEF CancelBlock, SchedNext
<1>4. CASE Finished
  BY <1>4 DEF Finished, vars
<1>5. ASSUME NEW w \in Workers, ControlStep(w) PROVE SchedNext
  BY <1>5 DEF ControlStep, SchedNext
<1>6. ASSUME NEW w \in Workers, DataStep(w) PROVE [SchedNext]_schedVars
  <2>1. CASE Get(w)
    <3> DEFINE r == Read(data[WantedKey(w)], txn[w])
    <3>1. CASE r.estimate
      <4>1. r.version.index \in Txns
        BY <2>1, <3>1, ReadIndex DEF Get, MemoryShape, CoreInv, SchedTypeOK
      <4>2. MeetEstimate(w, r.version.index)
        BY <2>1, <3>1 DEF Get
      <4> QED BY <4>1, <4>2 DEF SchedNext, MemoryStep
    <3>2. CASE ~ r.estimate
      BY <2>1, <3>2 DEF Get
    <3> QED BY <3>1, <3>2
  <2>2. ASSUME NEW k \in Keys, ApplyWriteSet(w, k) \/ RemoveUnwritten(w, k) \/ MarkEstimate(w, k)
        PROVE  UNCHANGED schedVars
    BY <2>2 DEF ApplyWriteSet, WriteKey, RemoveUnwritten, RemoveKey, MarkEstimate
  <2>3. CASE Record(w)
    BY <2>3 DEF Record, Publish, SchedNext, MemoryStep
  <2>4. CASE LoadReadSet(w)
    BY <2>4 DEF LoadReadSet
  <2>5. ASSUME NEW d \in unchecked[w], CheckRead(w, d) PROVE [SchedNext]_schedVars
    BY <2>5 DEF CheckRead, Verdict, SchedNext, MemoryStep
  <2>6. CASE ReadSetValid(w)
    BY <2>6 DEF ReadSetValid, Verdict, SchedNext, MemoryStep
  <2>7. CASE AllMarked(w)
    BY <2>7 DEF AllMarked, SchedNext, MemoryStep
  <2> QED BY <1>6, <2>1, <2>2, <2>3, <2>4, <2>5, <2>6, <2>7 DEF DataStep
<1> QED BY <1>1, <1>2, <1>3, <1>4, <1>5, <1>6 DEF Next, WorkerStep

(***************************************************************************)
(* Entries: the scheduler's steps                                          *)
(***************************************************************************)
(* The scheduler's own steps move statuses only when the entries already   *)
(* fit.                                                                    *)
LEMMA ControlStatusEntries ==
  ASSUME CoreInv, MemInv,
         NEW w \in Workers, SchedulerStep(w), UNCHANGED <<memory, views>>
  PROVE  StatusEntries'
<1> USE DEF CoreInv, SchedTypeOK, TaskInv, WorkerTask, OwnerInv, OwnedStatus,
        MemInv, StatusEntries, WorkerEntries, AsWritten, AsEstimated, Executes, memory,
        views, counters, statusVars, waitVars, taskVars, sharedVars, Goto, Observe, SetTask
<1>1. CASE RunLoop(w)
  BY <1>1 DEF RunLoop
<1>2. CASE LoadValidationIdx(w)
  BY <1>2 DEF LoadValidationIdx
<1>3. CASE LoadExecutionIdx(w)
  BY <1>3 DEF LoadExecutionIdx
<1>4. CASE ValidateCheck(w)
  BY <1>4 DEF ValidateCheck
<1>5. CASE ValidateIncr(w)
  BY <1>5 DEF ValidateIncr
<1>6. CASE ValidateFetch(w)
  BY <1>6 DEF ValidateFetch
<1>7. CASE ValidateStatus(w)
  BY <1>7 DEF ValidateStatus
<1>8. CASE ExecuteCheck(w)
  BY <1>8 DEF ExecuteCheck
<1>9. CASE ExecuteIncr(w)
  BY <1>9 DEF ExecuteIncr
<1>10. CASE ExecuteAdd(w)
  BY <1>10 DEF ExecuteAdd
<1>11. CASE TryIncarnate(w)
  BY <1>11 DEF TryIncarnate
<1>12. CASE DecrActive(w)
  BY <1>12 DEF DecrActive
<1>13. CASE CheckDoneCount(w)
  BY <1>13 DEF CheckDoneCount
<1>14. CASE CheckDoneLoads(w)
  BY <1>14 DEF CheckDoneLoads
<1>15. CASE CheckDoneStore(w)
  BY <1>15 DEF CheckDoneStore
<1>16. CASE LockDependency(w)
  BY <1>16 DEF LockDependency
<1>17. CASE Suspend(w)
  BY <1>17 DEF Suspend
<1>18. CASE WakeUp(w)
  BY <1>18 DEF WakeUp
<1>19. CASE SetExecuted(w)
  BY <1>19 DEF SetExecuted
<1>20. CASE SwapDependents(w)
  BY <1>20 DEF SwapDependents
<1>21. ASSUME NEW d \in deps[w], Resume(w, d) PROVE StatusEntries'
  BY <1>21 DEF Resume, WaitInv, Sleeps
<1>22. CASE AfterResume(w)
  BY <1>22 DEF AfterResume
<1>23. CASE StoreMin(w)
  BY <1>23 DEF StoreMin
<1>24. CASE CountDecrease(w)
  BY <1>24 DEF CountDecrease
<1>25. CASE TryValidationAbort(w)
  BY <1>25 DEF TryValidationAbort
<1>26. CASE SetReadyStatus(w)
  BY <1>26 DEF SetReadyStatus
<1>27. CASE RetryAborted(w)
  BY <1>27 DEF RetryAborted
<1> QED
  BY <1>1, <1>2, <1>3, <1>4, <1>5, <1>6, <1>7, <1>8, <1>9, <1>10, <1>11, <1>12,
     <1>13, <1>14, <1>15, <1>16, <1>17, <1>18, <1>19, <1>20, <1>21, <1>22,
     <1>23, <1>24, <1>25, <1>26, <1>27 DEF SchedulerStep

(* The scheduler's own steps keep what each worker knows of its entries.   *)
LEMMA ControlWorkerEntries ==
  ASSUME CoreInv, MemInv, NEW v \in Workers,
         NEW w \in Workers, SchedulerStep(w), UNCHANGED <<memory, views>>
  PROVE  WorkerEntries(v)'
<1> USE DEF CoreInv, SchedTypeOK, TaskInv, WorkerTask, OwnerInv, OwnedStatus, MemInv, MemoryShape,
        StatusEntries, WorkerEntries, AsWritten, AsEstimated, AsRecorded, Executes,
        memory, views, Returned, counters, statusVars, waitVars, taskVars, sharedVars, Goto, Observe, SetTask
<1>0. txn'[v] = txn[v] => Written(v)' = Written(v) /\ WantedKey(v)' = WantedKey(v)
  BY DEF Written, WantedKey, Values
<1>1. CASE RunLoop(w)
  BY <1>1, <1>0 DEF RunLoop
<1>2. CASE LoadValidationIdx(w)
  BY <1>2, <1>0 DEF LoadValidationIdx
<1>3. CASE LoadExecutionIdx(w)
  BY <1>3, <1>0 DEF LoadExecutionIdx
<1>4. CASE ValidateCheck(w)
  BY <1>4, <1>0 DEF ValidateCheck
<1>5. CASE ValidateIncr(w)
  BY <1>5, <1>0 DEF ValidateIncr
<1>6. CASE ValidateFetch(w)
  BY <1>6, <1>0 DEF ValidateFetch
<1>7. CASE ValidateStatus(w)
  BY <1>7, <1>0 DEF ValidateStatus
<1>8. CASE ExecuteCheck(w)
  BY <1>8, <1>0 DEF ExecuteCheck
<1>9. CASE ExecuteIncr(w)
  BY <1>9, <1>0 DEF ExecuteIncr
<1>10. CASE ExecuteAdd(w)
  BY <1>10, <1>0 DEF ExecuteAdd
<1>11. CASE TryIncarnate(w)
  <2>1. CASE obs[w] < BlockSize /\ status[obs[w]] = "Ready"
    <3>1. obs[w] \in Txns BY <2>1, TxnIndices
    <3>2. \A k \in Keys : AsEstimated(obs[w], k) BY <2>1, <3>1
    <3>3. CASE v = w
      <4>1. applied[v] = {} BY <1>11, <2>1, <3>3 DEF TryIncarnate
      <4>2. txn'[v] = obs[w] /\ inc'[v] = incarnation[obs[w]] /\ pc'[v] = "loop"
        BY <1>11, <2>1, <3>3 DEF TryIncarnate
      <4> QED BY <1>11, <2>1, <3>2, <3>3, <4>1, <4>2 DEF TryIncarnate
    <3>4. CASE v # w
      BY <1>11, <2>1, <3>1, <3>4, <1>0 DEF TryIncarnate
    <3> QED BY <3>3, <3>4
  <2>2. CASE ~ (obs[w] < BlockSize /\ status[obs[w]] = "Ready")
    BY <1>11, <2>2, <1>0 DEF TryIncarnate
  <2> QED BY <2>1, <2>2
<1>12. CASE DecrActive(w)
  BY <1>12, <1>0 DEF DecrActive
<1>13. CASE CheckDoneCount(w)
  BY <1>13, <1>0 DEF CheckDoneCount
<1>14. CASE CheckDoneLoads(w)
  BY <1>14, <1>0 DEF CheckDoneLoads
<1>15. CASE CheckDoneStore(w)
  BY <1>15, <1>0 DEF CheckDoneStore
<1>16. CASE LockDependency(w)
  BY <1>16, <1>0 DEF LockDependency
<1>17. CASE Suspend(w)
  BY <1>17, <1>0 DEF Suspend
<1>18. CASE WakeUp(w)
  BY <1>18, <1>0 DEF WakeUp
<1>19. CASE SetExecuted(w)
  BY <1>19, <1>0 DEF SetExecuted
<1>20. CASE SwapDependents(w)
  BY <1>20, <1>0 DEF SwapDependents
<1>21. ASSUME NEW d \in deps[w], Resume(w, d) PROVE WorkerEntries(v)'
  BY <1>21, <1>0 DEF Resume, WaitInv, Sleeps
<1>22. CASE AfterResume(w)
  BY <1>22, <1>0 DEF AfterResume
<1>23. CASE StoreMin(w)
  BY <1>23, <1>0 DEF StoreMin
<1>24. CASE CountDecrease(w)
  BY <1>24, <1>0 DEF CountDecrease
<1>25. CASE TryValidationAbort(w)
  BY <1>25, <1>0 DEF TryValidationAbort
<1>26. CASE SetReadyStatus(w)
  BY <1>26, <1>0 DEF SetReadyStatus
<1>27. CASE RetryAborted(w)
  BY <1>27, <1>0 DEF RetryAborted
<1> QED
  BY ZenonT(30), <1>1, <1>2, <1>3, <1>4, <1>5, <1>6, <1>7, <1>8, <1>9, <1>10, <1>11, <1>12,
     <1>13, <1>14, <1>15, <1>16, <1>17, <1>18, <1>19, <1>20, <1>21, <1>22,
     <1>23, <1>24, <1>25, <1>26, <1>27 DEF SchedulerStep
(***************************************************************************)
(* Entries: the memory's steps                                             *)
(***************************************************************************)

\* A step leaves the entry of t at k as it is.
SameEntry(t, k) ==
  /\ t \in DOMAIN data'[k] <=> t \in DOMAIN data[k]
  /\ t \in DOMAIN data[k] => data'[k][t] = data[k][t]

(* A worker's knowledge of its entries survives a step that changes none   *)
(* of them.                                                                *)
LEMMA EntryFrame ==
  ASSUME MemoryShape, NEW k0 \in Keys, NEW t0 \in Txns, NEW D,
         data' = [data EXCEPT ![k0] = D],
         DOMAIN D \ {t0} = DOMAIN data[k0] \ {t0},
         \A u \in DOMAIN D \ {t0} : D[u] = data[k0][u],
         NEW t \in Txns, NEW k \in Keys, t # t0 \/ k # k0
  PROVE  SameEntry(t, k)
<1>1. CASE k # k0
  BY <1>1 DEF SameEntry, MemoryShape
<1>2. CASE k = k0
  BY <1>2 DEF SameEntry, MemoryShape
<1> QED BY <1>1, <1>2

(* Writing one key of the write set preserves the invariant of the         *)
(* entries.                                                                *)
LEMMA ApplyWriteSetEntries ==
  ASSUME CoreInv, MemInv, NEW w \in Workers, NEW k0 \in Keys, ApplyWriteSet(w, k0)
  PROVE  MemInv'
<1> USE DEF CoreInv, MemInv, views, memory
<1> DEFINE t0 == txn[w]
<1>1. t0 \in Txns /\ Owner(w, t0) /\ UNCHANGED <<schedVars, lastWritten, reads>>
  BY DEF ApplyWriteSet, WriteKey, Returned, TaskInv, WorkerTask, Owner
<1>2. PICK D : /\ data' = [data EXCEPT ![k0] = D]
               /\ D = Write(data[k0], Written(w)[k0], t0, inc[w])
  BY DEF ApplyWriteSet, WriteKey
<1>3. /\ DOMAIN D \subseteq Txns
      /\ DOMAIN D \ {t0} = DOMAIN data[k0] \ {t0}
      /\ \A u \in DOMAIN D \ {t0} : D[u] = data[k0][u]
      /\ t0 \in DOMAIN D /\ D[t0].incarnation = inc[w] /\ ~ D[t0].estimate
  BY <1>1, <1>2 DEF MemoryShape, Write, SetEntry, Entry
<1>4. MemoryShape' /\ data'[k0] = D
  BY <1>1, <1>2, <1>3 DEF MemoryShape, ApplyWriteSet, WriteKey
<1> HIDE DEF t0
<1>5. ASSUME NEW t \in Txns, NEW k \in Keys, t # t0 \/ k # k0
      PROVE  SameEntry(t, k)
  <2>1. data' = [data EXCEPT ![k0] = D] /\ t0 \in Txns /\ MemoryShape
    BY <1>1, <1>2
  <2> QED BY ZenonT(30), <2>1, <1>3, <1>5, EntryFrame
<1>6. StatusEntries'
  <2> SUFFICES ASSUME NEW t \in Txns, NEW k \in Keys
               PROVE  (status[t] = "Executed" => AsWritten(t, k)') /\ (status[t] = "Ready" => AsEstimated(t, k)')
    BY <1>1 DEF StatusEntries, schedVars, statusVars
  <2>1. CASE t = t0
    BY <1>1, <2>1 DEF t0, OwnerInv, OwnedStatus, ApplyWriteSet, WriteKey, Returned, TaskInv, WorkerTask
  <2>2. CASE t # t0
    BY <1>1, <1>5, <2>2 DEF StatusEntries, AsWritten, AsEstimated, SameEntry, schedVars, statusVars
  <2> QED BY <2>1, <2>2
<1>7. ASSUME NEW v \in Workers PROVE WorkerEntries(v)'
  <2>0. Written(v)' = Written(v) /\ WantedKey(v)' = WantedKey(v)
    BY <1>1 DEF Written, WantedKey, Values, schedVars
  <2>1. CASE v # w
    <3>1. Executes(v) \/ pc[v] \in {"convert", "setReady"} => txn[v] \in Txns /\ txn[v] # t0
      BY <1>1, <2>1 DEF TaskInv, WorkerTask, OwnerInv, UniqueOwner, Owner, Executes
    <3>2. UNCHANGED <<pc, kind, txn, inc, incarnation, lastWritten>> /\ applied'[v] = applied[v]
      BY <1>1, <2>1 DEF schedVars, statusVars, ApplyWriteSet, WriteKey, MemoryShape
    <3> QED
      BY <2>0, <1>5, <3>1, <3>2 DEF WorkerEntries, AsWritten, AsEstimated, AsRecorded,
         Executes, Returned, SameEntry, TaskInv, WorkerTask
  <2>2. CASE v = w
    <3>1. UNCHANGED <<pc, kind, txn, inc, incarnation, lastWritten>> /\ applied'[w] = applied[w] \cup {k0}
      BY <1>1 DEF schedVars, statusVars, ApplyWriteSet, WriteKey, MemoryShape
    <3>2. pc[w] = "exec" /\ kind[w] = "execution" /\ Returned(w) /\ k0 \in DOMAIN Written(w)
      BY DEF ApplyWriteSet, WriteKey, Returned, TaskInv, WorkerTask
    <3>3. AsRecorded(w, k0)'
      BY <1>3, <1>4, <2>0, <2>2, <3>1, <3>2 DEF AsRecorded, WorkerEntries, Executes, t0
    <3>4. ASSUME NEW k \in Keys, k # k0
          PROVE  IF k \in applied[w] THEN AsRecorded(w, k)' ELSE AsEstimated(t0, k)'
      BY <1>1, <1>5, <2>0, <2>2, <3>1, <3>2, <3>4
         DEF AsRecorded, AsEstimated, SameEntry, WorkerEntries, Executes, t0
    <3> QED BY <2>0, <2>2, <3>1, <3>2, <3>3, <3>4 DEF WorkerEntries, Executes, Returned, t0
  <2> QED BY <2>1, <2>2
<1> QED BY <1>4, <1>6, <1>7

(* Deleting one key that is no longer written preserves it.                *)
LEMMA RemoveUnwrittenEntries ==
  ASSUME CoreInv, MemInv, NEW w \in Workers, NEW k0 \in Keys, RemoveUnwritten(w, k0)
  PROVE  MemInv'
<1> USE DEF CoreInv, MemInv, views, memory
<1> DEFINE t0 == txn[w]
<1>1. t0 \in Txns /\ Owner(w, t0) /\ UNCHANGED <<schedVars, lastWritten, reads>>
  BY DEF RemoveUnwritten, RemoveKey, Returned, TaskInv, WorkerTask, Owner
<1>2. PICK D : /\ data' = [data EXCEPT ![k0] = D]
               /\ D = DeleteEntry(data[k0], t0)
  BY DEF RemoveUnwritten, RemoveKey
<1>3. /\ DOMAIN D \subseteq Txns
      /\ DOMAIN D \ {t0} = DOMAIN data[k0] \ {t0}
      /\ \A u \in DOMAIN D \ {t0} : D[u] = data[k0][u]
      /\ t0 \notin DOMAIN D
  BY <1>1, <1>2 DEF MemoryShape, DeleteEntry
<1>4. MemoryShape' /\ data'[k0] = D
  BY <1>1, <1>2, <1>3 DEF MemoryShape, RemoveUnwritten, RemoveKey
<1> HIDE DEF t0
<1>5. ASSUME NEW t \in Txns, NEW k \in Keys, t # t0 \/ k # k0
      PROVE  SameEntry(t, k)
  <2>1. data' = [data EXCEPT ![k0] = D] /\ t0 \in Txns /\ MemoryShape
    BY <1>1, <1>2
  <2> QED BY <2>1, <1>3, <1>5, EntryFrame
<1>6. StatusEntries'
  <2> SUFFICES ASSUME NEW t \in Txns, NEW k \in Keys
               PROVE  (status[t] = "Executed" => AsWritten(t, k)') /\ (status[t] = "Ready" => AsEstimated(t, k)')
    BY <1>1 DEF StatusEntries, schedVars, statusVars
  <2>1. CASE t = t0
    BY <1>1, <2>1 DEF t0, OwnerInv, OwnedStatus, RemoveUnwritten, RemoveKey, Returned, TaskInv, WorkerTask
  <2>2. CASE t # t0
    BY <1>1, <1>5, <2>2 DEF StatusEntries, AsWritten, AsEstimated, SameEntry, schedVars, statusVars
  <2> QED BY <2>1, <2>2
<1>7. ASSUME NEW v \in Workers PROVE WorkerEntries(v)'
  <2>0. Written(v)' = Written(v) /\ WantedKey(v)' = WantedKey(v)
    BY <1>1 DEF Written, WantedKey, Values, schedVars
  <2>1. CASE v # w
    <3>1. Executes(v) \/ pc[v] \in {"convert", "setReady"} => txn[v] \in Txns /\ txn[v] # t0
      BY <1>1, <2>1 DEF TaskInv, WorkerTask, OwnerInv, UniqueOwner, Owner, Executes
    <3>2. UNCHANGED <<pc, kind, txn, inc, incarnation, lastWritten>> /\ applied'[v] = applied[v]
      BY <1>1, <2>1 DEF schedVars, statusVars, RemoveUnwritten, RemoveKey, MemoryShape
    <3> QED
      BY <2>0, <1>5, <3>1, <3>2 DEF WorkerEntries, AsWritten, AsEstimated, AsRecorded,
         Executes, Returned, SameEntry, TaskInv, WorkerTask
  <2>2. CASE v = w
    <3>1. UNCHANGED <<pc, kind, txn, inc, incarnation, lastWritten>> /\ applied'[w] = applied[w] \cup {k0}
      BY <1>1 DEF schedVars, statusVars, RemoveUnwritten, RemoveKey, MemoryShape
    <3>2. pc[w] = "exec" /\ kind[w] = "execution" /\ Returned(w) /\ k0 \notin DOMAIN Written(w)
      BY DEF RemoveUnwritten, RemoveKey, Returned, TaskInv, WorkerTask
    <3>3. AsRecorded(w, k0)'
      BY <1>3, <1>4, <2>0, <2>2, <3>1, <3>2 DEF AsRecorded, t0
    <3>4. ASSUME NEW k \in Keys, k # k0
          PROVE  IF k \in applied[w] THEN AsRecorded(w, k)' ELSE AsEstimated(t0, k)'
      BY <1>1, <1>5, <2>0, <2>2, <3>1, <3>2, <3>4
         DEF AsRecorded, AsEstimated, SameEntry, WorkerEntries, Executes, t0
    <3> QED BY <2>0, <2>2, <3>1, <3>2, <3>3, <3>4 DEF WorkerEntries, Executes, Returned, t0
  <2> QED BY <2>1, <2>2
<1> QED BY <1>4, <1>6, <1>7

(* Marking one written key as an ESTIMATE preserves it.                    *)
LEMMA MarkEstimateEntries ==
  ASSUME CoreInv, MemInv, NEW w \in Workers, NEW k0 \in Keys, MarkEstimate(w, k0)
  PROVE  MemInv'
<1> USE DEF CoreInv, MemInv, views, memory
<1> DEFINE t0 == txn[w]
<1>1. t0 \in Txns /\ Owner(w, t0) /\ UNCHANGED <<schedVars, lastWritten, reads>>
  BY DEF MarkEstimate, Returned, TaskInv, WorkerTask, Owner
<1>2. PICK D : /\ data' = [data EXCEPT ![k0] = D]
               /\ D = WriteEstimate(data[k0], t0)
  BY DEF MarkEstimate
<1>3. /\ DOMAIN D \subseteq Txns
      /\ DOMAIN D \ {t0} = DOMAIN data[k0] \ {t0}
      /\ \A u \in DOMAIN D \ {t0} : D[u] = data[k0][u]
      /\ t0 \in DOMAIN D /\ D[t0].estimate
  BY <1>1, <1>2 DEF MemoryShape, WriteEstimate, SetEntry, Entry
<1>4. MemoryShape' /\ data'[k0] = D
  BY <1>1, <1>2, <1>3 DEF MemoryShape, MarkEstimate
<1> HIDE DEF t0
<1>5. ASSUME NEW t \in Txns, NEW k \in Keys, t # t0 \/ k # k0
      PROVE  SameEntry(t, k)
  <2>1. data' = [data EXCEPT ![k0] = D] /\ t0 \in Txns /\ MemoryShape
    BY <1>1, <1>2
  <2>2. CASE k # k0
    BY <2>1, <2>2 DEF SameEntry, MemoryShape
  <2>3. CASE k = k0
    BY <2>1, <2>3, <1>3, <1>5 DEF SameEntry, MemoryShape
  <2> QED BY <2>2, <2>3
<1>6. StatusEntries'
  <2> SUFFICES ASSUME NEW t \in Txns, NEW k \in Keys
               PROVE  (status[t] = "Executed" => AsWritten(t, k)') /\ (status[t] = "Ready" => AsEstimated(t, k)')
    BY <1>1 DEF StatusEntries, schedVars, statusVars
  <2>1. CASE t = t0
    BY <1>1, <2>1 DEF t0, OwnerInv, OwnedStatus, MarkEstimate, Returned, TaskInv, WorkerTask
  <2>2. CASE t # t0
    BY <1>1, <1>5, <2>2 DEF StatusEntries, AsWritten, AsEstimated, SameEntry, schedVars, statusVars
  <2> QED BY <2>1, <2>2
<1>7. ASSUME NEW v \in Workers PROVE WorkerEntries(v)'
  <2>0. Written(v)' = Written(v) /\ WantedKey(v)' = WantedKey(v)
    BY <1>1 DEF Written, WantedKey, Values, schedVars
  <2>1. CASE v # w
    <3>1. Executes(v) \/ pc[v] \in {"convert", "setReady"} => txn[v] \in Txns /\ txn[v] # t0
      BY <1>1, <2>1 DEF TaskInv, WorkerTask, OwnerInv, UniqueOwner, Owner, Executes
    <3>2. UNCHANGED <<pc, kind, txn, inc, incarnation, lastWritten>> /\ applied'[v] = applied[v]
      BY <1>1, <2>1 DEF schedVars, statusVars, MarkEstimate, MemoryShape
    <3> QED
      BY <2>0, <1>5, <3>1, <3>2 DEF WorkerEntries, AsWritten, AsEstimated, AsRecorded,
         Executes, Returned, SameEntry, TaskInv, WorkerTask
  <2>2. CASE v = w
    <3>1. UNCHANGED <<pc, kind, txn, inc, incarnation, lastWritten>> /\ applied'[w] = applied[w] \cup {k0}
      BY <1>1 DEF schedVars, statusVars, MarkEstimate, MemoryShape
    <3>2. pc[w] = "convert" /\ kind[w] = "validation" /\ k0 \in lastWritten[t0]
      BY DEF MarkEstimate, TaskInv, WorkerTask, t0
    <3>3. AsEstimated(t0, k0)'
      BY <1>1, <1>3, <1>4, <3>1, <3>2 DEF AsEstimated, t0
    <3>4. ASSUME NEW k \in Keys, k # k0
          PROVE  IF k \in applied[w] THEN AsEstimated(t0, k)' ELSE AsWritten(t0, k)'
      BY <1>1, <1>5, <2>2, <3>1, <3>2, <3>4
         DEF AsWritten, AsEstimated, SameEntry, WorkerEntries, t0
    <3> QED BY <2>2, <3>1, <3>2, <3>3, <3>4 DEF WorkerEntries, Executes, Returned, t0
  <2> QED BY <2>1, <2>2
<1> QED BY <1>4, <1>6, <1>7

(* Reading preserves it.                                                   *)
LEMMA GetEntries ==
  ASSUME CoreInv, MemInv, NEW w \in Workers, Get(w)
  PROVE  MemInv'
<1> USE DEF CoreInv, MemInv
<1>1. /\ UNCHANGED <<memory, applied, status, incarnation, kind, txn, inc>>
      /\ pc[w] = "exec" /\ pc'[w] \in {"exec", "depend"} /\ WantedKey(w) \in Keys
      /\ \A v \in Workers \ {w} : pc'[v] = pc[v] /\ reads'[v] = reads[v]
      /\ reads' = [v \in Workers |-> reads'[v]]
  BY DEF Get, MeetEstimate, Goto, schedVars, statusVars, sharedVars, taskVars, memory,
     SchedTypeOK, MemoryShape
<1>2. applied[w] = {}
  BY <1>1, NoKeyAssumption DEF WorkerEntries, Returned
<1>3. MemoryShape' /\ StatusEntries'
  BY <1>1 DEF MemoryShape, StatusEntries, AsWritten, AsEstimated, memory
<1>4. ASSUME NEW v \in Workers, v # w PROVE WorkerEntries(v)'
  <2>1. Written(v)' = Written(v) /\ WantedKey(v)' = WantedKey(v)
    BY <1>1, <1>4 DEF Written, WantedKey, Values
  <2> QED
    BY <1>1, <1>4, <2>1 DEF WorkerEntries, Executes, Returned, AsWritten, AsEstimated,
       AsRecorded, memory
<1>5. WorkerEntries(w)'
  BY <1>1, <1>2 DEF WorkerEntries, Executes, AsWritten, AsEstimated, memory, TaskInv, WorkerTask
<1> QED BY <1>3, <1>4, <1>5

(* Publishing the write locations turns the recorded entries into written  *)
(* ones.                                                                   *)
LEMMA RecordEntries ==
  ASSUME CoreInv, MemInv, NEW w \in Workers, Record(w)
  PROVE  MemInv'
<1> USE DEF CoreInv, MemInv
<1> DEFINE t0 == txn[w]
<1>1. /\ UNCHANGED <<data, status, incarnation, kind, txn, inc>>
      /\ pc[w] = "exec" /\ pc'[w] = "setExecuted" /\ kind[w] = "execution"
      /\ t0 \in Txns /\ Owner(w, t0)
      /\ \A v \in Workers \ {w} : pc'[v] = pc[v] /\ reads'[v] = reads[v] /\ applied'[v] = applied[v]
  BY DEF Record, Publish, Recorded, Goto, sharedVars, statusVars, SchedTypeOK, MemoryShape,
     TaskInv, WorkerTask, Owner
<1>2. /\ lastWritten'[t0] = DOMAIN Written(w) /\ applied'[w] = {}
      /\ \A t \in Txns \ {t0} : lastWritten'[t] = lastWritten[t]
  BY <1>1 DEF Record, Publish, MemoryShape
<1>3. MemoryShape'
  <2>1. DOMAIN Written(w) \subseteq Keys
    BY DEF Record, Publish, MemoryShape
  <2>2. lastWritten' \in [Txns -> SUBSET Keys]
    BY <2>1 DEF Record, Publish, MemoryShape
  <2>3. applied' \in [Workers -> SUBSET Keys]
    BY DEF Record, Publish, MemoryShape
  <2>4. reads' = [v \in Workers |-> reads'[v]]
    BY DEF Record, Publish, MemoryShape
  <2> QED BY <1>1, <2>2, <2>3, <2>4 DEF MemoryShape
<1>4. ASSUME NEW k \in Keys PROVE AsWritten(t0, k)'
  <2>1. CASE k \in applied[w]
    BY <1>1, <1>2, <2>1 DEF WorkerEntries, Executes, AsRecorded, AsWritten
  <2>2. CASE k \notin applied[w]
    BY <1>1, <1>2, <2>2 DEF WorkerEntries, Executes, AsEstimated, AsWritten, Record, Publish
  <2> QED BY <2>1, <2>2
<1>5. StatusEntries'
  <2>1. status[t0] = "Executing"
    BY <1>1 DEF OwnerInv, OwnedStatus
  <2> QED BY <1>1, <1>2, <2>1 DEF StatusEntries, AsWritten, AsEstimated
<1>6. ASSUME NEW v \in Workers, v # w PROVE WorkerEntries(v)'
  <2>1. Written(v)' = Written(v) /\ WantedKey(v)' = WantedKey(v)
    BY <1>1, <1>6 DEF Written, WantedKey, Values
  <2>2. Executes(v) \/ pc[v] \in {"convert", "setReady"} => txn[v] \in Txns /\ txn[v] # t0
    BY <1>1, <1>6 DEF TaskInv, WorkerTask, OwnerInv, UniqueOwner, Owner, Executes
  <2> HIDE DEF t0
  <2> QED
    BY <1>1, <1>2, <1>6, <2>1, <2>2 DEF WorkerEntries, Executes, Returned, AsWritten,
       AsEstimated, AsRecorded, TaskInv, WorkerTask
<1>7. WorkerEntries(w)'
  BY <1>1, <1>2, <1>4 DEF WorkerEntries, Executes
<1> QED BY <1>3, <1>5, <1>6, <1>7

(* Validating, and finishing the marks, change no entry.                   *)
LEMMA ValidateEntries ==
  ASSUME CoreInv, MemInv, NEW w \in Workers,
         \/ LoadReadSet(w) \/ ReadSetValid(w)
         \/ \E d \in unchecked[w] : CheckRead(w, d)
  PROVE  MemInv'
<1> USE DEF CoreInv, MemInv
<1>1. /\ UNCHANGED <<memory, applied, reads, status, incarnation, kind, txn, inc>>
      /\ pc[w] = "validate" /\ pc'[w] \in {"validate", "decr", "tryAbort"}
      /\ \A v \in Workers \ {w} : pc'[v] = pc[v]
  BY DEF LoadReadSet, ReadSetValid, CheckRead, Verdict, Validated, Goto, schedVars,
     statusVars, sharedVars, taskVars, SchedTypeOK
<1>2. MemoryShape' /\ StatusEntries'
  BY <1>1 DEF MemoryShape, StatusEntries, AsWritten, AsEstimated, memory
<1>3. ASSUME NEW v \in Workers PROVE WorkerEntries(v)'
  <2>1. Written(v)' = Written(v) /\ WantedKey(v)' = WantedKey(v)
    BY <1>1 DEF Written, WantedKey, Values
  <2> QED
    BY <1>1, <2>1 DEF WorkerEntries, Executes, Returned, AsWritten, AsEstimated,
       AsRecorded, memory
<1> QED BY <1>2, <1>3

(* When all keys are marked, every entry of the transaction is an          *)
(* ESTIMATE.                                                               *)
LEMMA AllMarkedEntries ==
  ASSUME CoreInv, MemInv, NEW w \in Workers, AllMarked(w)
  PROVE  MemInv'
<1> USE DEF CoreInv, MemInv
<1>1. /\ UNCHANGED <<memory, reads, status, incarnation, kind, txn, inc>>
      /\ pc[w] = "convert" /\ pc'[w] = "setReady" /\ applied'[w] = {}
      /\ \A v \in Workers \ {w} : pc'[v] = pc[v] /\ applied'[v] = applied[v]
  BY DEF AllMarked, Converted, Goto, statusVars, sharedVars, taskVars, SchedTypeOK, MemoryShape
<1>2. MemoryShape' /\ StatusEntries'
  BY <1>1 DEF MemoryShape, StatusEntries, AsWritten, AsEstimated, memory, AllMarked
<1>3. ASSUME NEW v \in Workers, v # w PROVE WorkerEntries(v)'
  <2>1. Written(v)' = Written(v) /\ WantedKey(v)' = WantedKey(v)
    BY <1>1 DEF Written, WantedKey, Values
  <2> QED
    BY <1>1, <1>3, <2>1 DEF WorkerEntries, Executes, Returned, AsWritten, AsEstimated,
       AsRecorded, memory
<1>4. WorkerEntries(w)'
  <2>1. ASSUME NEW k \in Keys PROVE AsEstimated(txn[w], k)'
    BY <1>1 DEF AllMarked, WorkerEntries, AsWritten, AsEstimated, memory
  <2> QED BY <1>1, <2>1 DEF WorkerEntries, Executes, TaskInv, WorkerTask
<1> QED BY <1>2, <1>3, <1>4

(* Every step of the block preserves the invariant of the entries.         *)
LEMMA MemInvStep ==
  ASSUME CoreInv, MemInv, [Next]_vars
  PROVE  MemInv'
<1>1. CASE UNCHANGED <<schedVars, memory, views>>
  <2>1. ASSUME NEW v \in Workers
        PROVE  Written(v)' = Written(v) /\ WantedKey(v)' = WantedKey(v)
    BY <1>1 DEF Written, WantedKey, Values, schedVars, views
  <2>2. ASSUME NEW v \in Workers PROVE WorkerEntries(v)'
    BY <1>1, <2>1 DEF MemInv, WorkerEntries, Executes, Returned, AsWritten, AsEstimated,
       AsRecorded, schedVars, statusVars, memory, views
  <2> QED
    BY <1>1, <2>2 DEF MemInv, MemoryShape, StatusEntries, AsWritten, AsEstimated,
       schedVars, statusVars, memory, views
<1>2. CASE CancelBlock
  <2>1. ASSUME NEW v \in Workers
        PROVE  Written(v)' = Written(v) /\ WantedKey(v)' = WantedKey(v)
    BY <1>2 DEF Written, WantedKey, Values, CancelBlock, Cancel, views
  <2>2. ASSUME NEW v \in Workers PROVE WorkerEntries(v)'
    BY <1>2, <2>1 DEF MemInv, WorkerEntries, Executes, Returned, AsWritten, AsEstimated,
       AsRecorded, CancelBlock, Cancel, statusVars, memory, views
  <2> QED
    BY <1>2, <2>2 DEF MemInv, MemoryShape, StatusEntries, AsWritten, AsEstimated,
       CancelBlock, Cancel, statusVars, memory, views
<1>3. ASSUME NEW w \in Workers, ControlStep(w) PROVE MemInv'
  <2>1. SchedulerStep(w) /\ UNCHANGED <<memory, views>>
    BY <1>3 DEF ControlStep
  <2>2. MemoryShape'
    BY <2>1 DEF MemInv, MemoryShape, memory, views
  <2> QED BY <2>1, <2>2, ControlStatusEntries, ControlWorkerEntries DEF MemInv
<1>4. ASSUME NEW w \in Workers, DataStep(w) PROVE MemInv'
  BY <1>4, GetEntries, ApplyWriteSetEntries, RemoveUnwrittenEntries, MarkEstimateEntries,
     RecordEntries, ValidateEntries, AllMarkedEntries DEF DataStep
<1> QED
  BY <1>1, <1>2, <1>3, <1>4 DEF Next, WorkerStep, Return, Finished, vars

(***************************************************************************)
(* The kernels built around this one                                       *)
(***************************************************************************)
\* A step with which their wrapping code moves a worker that has no task, or lets
\* a reader go on that met an ESTIMATE, and leaves the rest alone.
Quiet(w) ==
  /\ UNCHANGED <<counters, done_marker, statusVars, cancelled, taskVars, memory, views, outcome>>
  /\ \A v \in Workers : v # w => pc'[v] = pc[v] /\ obs'[v] = obs[v]
  /\ \/ /\ kind[w] = "none" /\ pc[w] \in {"loop", "loadE", "neCheck", "incarnate"}
        /\ pc'[w] \in {"loop", "incarnate", "nvCheck", "neCheck"}
     \/ pc[w] = "depend" /\ pc'[w] = "exec"

(* Such a step leaves the entries as they were.                            *)
LEMMA QuietEntries ==
  ASSUME CoreInv, MemInv, NEW w \in Workers, Quiet(w)
  PROVE  MemInv'
<1> USE DEF Quiet, counters, statusVars, taskVars, memory, views
<1>1. ASSUME NEW v \in Workers
      PROVE  Written(v)' = Written(v) /\ WantedKey(v)' = WantedKey(v)
  BY DEF Written, WantedKey, Values
<1>2. ASSUME NEW v \in Workers PROVE WorkerEntries(v)'
  <2>1. CASE v # w
    BY <1>1, <2>1 DEF MemInv, WorkerEntries, Executes, Returned, AsWritten, AsEstimated, AsRecorded
  <2>2. CASE v = w /\ pc[w] = "depend"
    <3>1. applied[w] = {} /\ kind[w] = "execution"
      BY <2>2 DEF MemInv, WorkerEntries, Returned, CoreInv, TaskInv, WorkerTask
    <3> QED BY <1>1, <2>2, <3>1 DEF MemInv, WorkerEntries, Executes, AsEstimated
  <2>3. CASE v = w /\ pc[w] # "depend"
    BY <1>1, <2>3 DEF MemInv, WorkerEntries, Executes, Returned
  <2> QED BY <2>1, <2>2, <2>3
<1> QED
  BY <1>2 DEF MemInv, MemoryShape, StatusEntries, AsWritten, AsEstimated

(***************************************************************************)
(* The theorems                                                            *)
(***************************************************************************)
(* The memory NewMVMemoryWithEstimates creates satisfies it.               *)
LEMMA InitMemInv == Init => MemInv
<1> SUFFICES ASSUME Init PROVE MemInv
  OBVIOUS
<1>1. MemoryShape
  BY EstimatesAssumption DEF Init, MemoryShape
<1>2. StatusEntries
  BY EstimatesAssumption DEF Init, SchedInit, StatusEntries, AsEstimated, Entry
<1>3. \A w \in Workers : WorkerEntries(w)
  BY DEF Init, SchedInit, WorkerEntries, Executes
<1> QED BY <1>1, <1>2, <1>3 DEF MemInv

(* Both invariants hold throughout the execution of the block.             *)
LEMMA BlockInvariant == Spec => [](IndInv /\ MemInv)
<1>1. Init => IndInv /\ MemInv
  BY InitIndInv, InitMemInv DEF Init
<1>2. IndInv /\ MemInv /\ [Next]_vars => IndInv' /\ MemInv'
  BY SimulationStep, IndInvStep, MemInvStep DEF IndInv, MemInv
<1> QED BY <1>1, <1>2, PTL DEF Spec

(* Executing a block is a behaviour of the scheduler, whatever the         *)
(* transactions read and write: every step on the multi-version memory is  *)
(* one the scheduler allows.                                               *)
THEOREM BlockImplementsScheduler == Spec => SchedSpec
<1>1. Init => SchedInit
  BY DEF Init
<1>2. IndInv /\ MemInv /\ [Next]_vars => [SchedNext]_schedVars
  BY SimulationStep DEF IndInv, MemInv
<1> QED BY <1>1, <1>2, BlockInvariant, PTL DEF Spec, SchedSpec

(* The entries of an EXECUTED transaction are exactly the writes of its    *)
(* current incarnation, and none is an ESTIMATE.                           *)
THEOREM EntriesCorrect == Spec => []EntriesMatchStatus
<1>1. MemInv => EntriesMatchStatus
  BY DEF MemInv, StatusEntries, AsWritten, EntriesMatchStatus
<1> QED BY <1>1, BlockInvariant, PTL

(***************************************************************************)
(* What a change of one entry does to a reader                             *)
(***************************************************************************)
\* Two version trees of a key that differ at most in the entry of u.
DifferAt(V, D, u) ==
  /\ DOMAIN V \subseteq Txns /\ DOMAIN D \subseteq Txns
  /\ DOMAIN D \ {u} = DOMAIN V \ {u}
  /\ \A x \in DOMAIN D \ {u} : D[x] = V[x]

(* A reader does not see the entries of its own transaction or of a later  *)
(* one.                                                                    *)
LEMMA HiddenAbove ==
  ASSUME NEW V, NEW D, NEW u \in Txns, NEW t \in Txns, DifferAt(V, D, u), t <= u
  PROVE  Read(D, t) = Read(V, t)
<1>1. Lower(D, t) = Lower(V, t)
  BY TxnIndices DEF DifferAt, Lower
<1>2. CASE Lower(V, t) = {}
  BY <1>1, <1>2 DEF Read
<1>3. CASE Lower(V, t) # {}
  <2>1. Lower(V, t) \in SUBSET (0 .. BlockSize)
    BY BlockSizeAssumption DEF Lower, DifferAt, Txns
  <2>2. Max(Lower(V, t)) \in Lower(V, t)
    BY <1>3, <2>1, MaxExists, BlockSizeAssumption
  <2>3. D[Max(Lower(V, t))] = V[Max(Lower(V, t))]
    BY <2>2, TxnIndices DEF Lower, DifferAt
  <2> QED BY <1>1, <1>3, <2>3 DEF Read
<1> QED BY <1>2, <1>3

(* A reader that still reads what it read, and for whom the entry of u was *)
(* an ESTIMATE, reads a later entry: it does not see what becomes of u's.  *)
LEMMA HiddenEstimate ==
  ASSUME NEW V, NEW D, NEW u \in Txns, NEW t \in Txns, DifferAt(V, D, u), NEW v,
         u \in DOMAIN V, V[u].estimate, StillReads(V, t, v)
  PROVE  StillReads(D, t, v)
<1>1. CASE t <= u
  BY <1>1, HiddenAbove DEF StillReads
<1>2. CASE u < t
  <2> DEFINE m == Max(Lower(V, t))
             n == Max(Lower(D, t))
  <2>1. u \in Lower(V, t) /\ Lower(V, t) \in SUBSET (0 .. BlockSize)
        /\ Lower(D, t) \in SUBSET (0 .. BlockSize)
    BY <1>2, BlockSizeAssumption DEF Lower, DifferAt, Txns
  <2>2. m \in Lower(V, t) /\ \A y \in Lower(V, t) : y <= m
    BY <2>1, MaxExists, BlockSizeAssumption
  <2>3. ~ V[m].estimate
    BY <2>1 DEF StillReads, Read
  <2>4. m # u /\ m \in Lower(D, t) /\ D[m] = V[m]
    BY <2>2, <2>3 DEF Lower, DifferAt
  <2>5. n \in Lower(D, t) /\ \A y \in Lower(D, t) : y <= n
    BY <2>1, <2>4, MaxExists, BlockSizeAssumption
  <2>6. \A y \in Lower(D, t) : y <= m
    BY <2>1, <2>2 DEF Lower, DifferAt
  <2>7. n = m
    <3> HIDE DEF m, n
    <3> QED BY <2>1, <2>2, <2>4, <2>5, <2>6
  <2>8. Read(D, t) = Read(V, t)
    BY <2>1, <2>4, <2>7 DEF Read
  <2> QED BY <2>8 DEF StillReads
<1> QED BY <1>1, <1>2, TxnIndices

(***************************************************************************)
(* The scheduler's steps                                                   *)
(***************************************************************************)
(* A worker's step leaves the registers of the others alone.               *)
LEMMA ControlFrame ==
  ASSUME CoreInv, NEW w \in Workers, SchedulerStep(w), NEW v \in Workers, v # w
  PROVE  /\ pc'[v] = pc[v] /\ kind'[v] = kind[v] /\ txn'[v] = txn[v] /\ inc'[v] = inc[v]
         /\ obs'[v] = obs[v] /\ wroteNew'[v] = wroteNew[v]
<1> USE DEF CoreInv, SchedTypeOK, counters, statusVars, waitVars, taskVars, sharedVars,
        Goto, Observe, SetTask
<1> DEFINE G == /\ pc'[v] = pc[v] /\ kind'[v] = kind[v] /\ txn'[v] = txn[v] /\ inc'[v] = inc[v]
         /\ obs'[v] = obs[v] /\ wroteNew'[v] = wroteNew[v]
<1>1. CASE RunLoop(w)
  BY <1>1 DEF RunLoop
<1>2. CASE LoadValidationIdx(w)
  BY <1>2 DEF LoadValidationIdx
<1>3. CASE LoadExecutionIdx(w)
  BY <1>3 DEF LoadExecutionIdx
<1>4. CASE ValidateCheck(w)
  BY <1>4 DEF ValidateCheck
<1>5. CASE ValidateIncr(w)
  BY <1>5 DEF ValidateIncr
<1>6. CASE ValidateFetch(w)
  BY <1>6 DEF ValidateFetch
<1>7. CASE ValidateStatus(w)
  BY <1>7 DEF ValidateStatus
<1>8. CASE ExecuteCheck(w)
  BY <1>8 DEF ExecuteCheck
<1>9. CASE ExecuteIncr(w)
  BY <1>9 DEF ExecuteIncr
<1>10. CASE ExecuteAdd(w)
  BY <1>10 DEF ExecuteAdd
<1>11. CASE TryIncarnate(w)
  BY <1>11 DEF TryIncarnate
<1>12. CASE DecrActive(w)
  BY <1>12 DEF DecrActive
<1>13. CASE CheckDoneCount(w)
  BY <1>13 DEF CheckDoneCount
<1>14. CASE CheckDoneLoads(w)
  BY <1>14 DEF CheckDoneLoads
<1>15. CASE CheckDoneStore(w)
  BY <1>15 DEF CheckDoneStore
<1>16. CASE LockDependency(w)
  BY <1>16 DEF LockDependency
<1>17. CASE Suspend(w)
  BY <1>17 DEF Suspend
<1>18. CASE WakeUp(w)
  BY <1>18 DEF WakeUp
<1>19. CASE SetExecuted(w)
  BY <1>19 DEF SetExecuted
<1>20. CASE SwapDependents(w)
  BY <1>20 DEF SwapDependents
<1>21. ASSUME NEW d0 \in deps[w], Resume(w, d0) PROVE G
  BY <1>21 DEF Resume
<1>22. CASE AfterResume(w)
  BY <1>22 DEF AfterResume
<1>23. CASE StoreMin(w)
  BY <1>23 DEF StoreMin
<1>24. CASE CountDecrease(w)
  BY <1>24 DEF CountDecrease
<1>25. CASE TryValidationAbort(w)
  BY <1>25 DEF TryValidationAbort
<1>26. CASE SetReadyStatus(w)
  BY <1>26 DEF SetReadyStatus
<1>27. CASE RetryAborted(w)
  BY <1>27 DEF RetryAborted
<1> QED
  BY <1>1, <1>2, <1>3, <1>4, <1>5, <1>6, <1>7, <1>8, <1>9, <1>10, <1>11, <1>12,
     <1>13, <1>14, <1>15, <1>16, <1>17, <1>18, <1>19, <1>20, <1>21, <1>22, <1>23,
     <1>24, <1>25, <1>26, <1>27 DEF SchedulerStep

(* A stale read that validation was bound to notice still is, and one of a *)
(* transaction that has just been EXECUTED is too.                         *)
LEMMA ControlCovered ==
  ASSUME CoreInv, MemInv, ValidationInv,
         NEW w \in Workers, SchedulerStep(w), UNCHANGED <<memory, views>>,
         NEW t \in Txns, NEW d \in lastRead[t],
         status'[t] = "Executed", ~ ReadStillCurrent(t, d)
  PROVE  Covered(t, d)'
<1> USE DEF CoreInv, SchedTypeOK, counters, statusVars, waitVars, taskVars, sharedVars,
        Goto, Observe, SetTask
<1>0. /\ \A v \in Workers \ {w} :
           /\ pc'[v] = pc[v] /\ kind'[v] = kind[v] /\ txn'[v] = txn[v] /\ inc'[v] = inc[v]
           /\ obs'[v] = obs[v] /\ wroteNew'[v] = wroteNew[v]
      /\ UNCHANGED <<applied, unchecked, checking, lastWritten>>
      /\ status[t] = "Executed" => Covered(t, d)
      /\ WorkerTask(w) /\ WorkerEntries(w) /\ OwnedStatus(w) /\ WorkerViews(w)
  BY ControlFrame DEF memory, views, ValidationInv, StaleCovered, TaskInv, MemInv, OwnerInv
<1> USE TxnIndices DEF WorkerTask, OwnedStatus, WorkerViews, Covered, WillCheck, LowersFor
<1>1. CASE RunLoop(w)
  <2>1. kind[w] = "validation" => ~ done_marker
    BY DEF DoneInv, DoneIsQuiescent, Quiescent
  <2> QED BY <1>0, <1>1, <2>1 DEF RunLoop
<1>2. CASE LoadValidationIdx(w)
  BY <1>2, <1>0 DEF LoadValidationIdx
<1>3. CASE LoadExecutionIdx(w)
  BY <1>3, <1>0 DEF LoadExecutionIdx
<1>4. CASE ValidateCheck(w)
  BY <1>4, <1>0 DEF ValidateCheck
<1>5. CASE ValidateIncr(w)
  BY <1>5, <1>0 DEF ValidateIncr
<1>6. CASE ValidateFetch(w)
  BY <1>6, <1>0 DEF ValidateFetch
<1>7. CASE ValidateStatus(w)
  BY <1>7, <1>0 DEF ValidateStatus
<1>8. CASE ExecuteCheck(w)
  BY <1>8, <1>0 DEF ExecuteCheck
<1>9. CASE ExecuteIncr(w)
  BY <1>9, <1>0 DEF ExecuteIncr
<1>10. CASE ExecuteAdd(w)
  BY <1>10, <1>0 DEF ExecuteAdd
<1>11. CASE TryIncarnate(w)
  BY <1>11, <1>0, SMTT(30) DEF TryIncarnate
<1>12. CASE DecrActive(w)
  BY <1>12, <1>0 DEF DecrActive
<1>13. CASE CheckDoneCount(w)
  BY <1>13, <1>0 DEF CheckDoneCount
<1>14. CASE CheckDoneLoads(w)
  BY <1>14, <1>0 DEF CheckDoneLoads
<1>15. CASE CheckDoneStore(w)
  BY <1>15, <1>0 DEF CheckDoneStore
<1>16. CASE LockDependency(w)
  BY <1>16, <1>0 DEF LockDependency
<1>17. CASE Suspend(w)
  BY <1>17, <1>0 DEF Suspend
<1>18. CASE WakeUp(w)
  BY <1>18, <1>0 DEF WakeUp
<1>19. CASE SetExecuted(w)
  <2>1. pc[w] = "setExecuted" /\ pc'[w] = "swap" /\ UNCHANGED <<kind, txn, inc, incarnation, wroteNew, validation_idx>>
    BY <1>19 DEF SetExecuted
  <2>2. CASE txn[w] = t
    <3>1. kind[w] = "execution" /\ inc[w] = incarnation[t]
      BY <1>0, <2>1, <2>2 DEF WorkerEntries, Executes
    <3> QED BY <2>1, <2>2, <3>1
  <2>3. CASE txn[w] # t
    <3>1. status[t] = "Executed"
      BY <1>19, <2>3 DEF SetExecuted
    <3> QED BY <1>0, <2>1, <2>3, <3>1
  <2> QED BY <2>2, <2>3
<1>20. CASE SwapDependents(w)
  BY <1>20, <1>0 DEF SwapDependents
<1>21. ASSUME NEW d0 \in deps[w], Resume(w, d0) PROVE Covered(t, d)'
  BY <1>21, <1>0 DEF Resume
<1>22. CASE AfterResume(w)
  BY <1>22, <1>0 DEF AfterResume
<1>23. CASE StoreMin(w)
  BY <1>23, <1>0 DEF StoreMin, DecreaseTarget
<1>24. CASE CountDecrease(w)
  BY <1>24, <1>0 DEF CountDecrease
<1>25. CASE TryValidationAbort(w)
  BY <1>25, <1>0 DEF TryValidationAbort
<1>26. CASE SetReadyStatus(w)
  BY <1>26, <1>0 DEF SetReadyStatus
<1>27. CASE RetryAborted(w)
  BY <1>27, <1>0 DEF RetryAborted
<1> QED
  BY <1>1, <1>2, <1>3, <1>4, <1>5, <1>6, <1>7, <1>8, <1>9, <1>10, <1>11, <1>12,
     <1>13, <1>14, <1>15, <1>16, <1>17, <1>18, <1>19, <1>20, <1>21, <1>22, <1>23,
     <1>24, <1>25, <1>26, <1>27 DEF SchedulerStep

(* The steps of a transaction on the memory are not the scheduler's.       *)
LEMMA ControlSource ==
  ASSUME NEW w \in Workers, SchedulerStep(w)
  PROVE  pc[w] \notin {"exec", "validate", "convert", "stopped"}
BY DEF SchedulerStep, Goto, RunLoop, LoadValidationIdx, LoadExecutionIdx, ValidateCheck,
   ValidateIncr, ValidateFetch, ValidateStatus, ExecuteCheck, ExecuteIncr, ExecuteAdd,
   TryIncarnate, DecrActive, CheckDoneCount, CheckDoneLoads, CheckDoneStore,
   LockDependency, Suspend, WakeUp, SetExecuted, SwapDependents, Resume, AfterResume,
   StoreMin, CountDecrease, TryValidationAbort, SetReadyStatus, RetryAborted

(* The scheduler's steps keep a worker's views in order.                   *)
LEMMA ControlViews ==
  ASSUME CoreInv, MemInv, ValidationInv, NEW v \in Workers,
         NEW w \in Workers, SchedulerStep(w), UNCHANGED <<memory, views>>
  PROVE  WorkerViews(v)'
<1>1. UNCHANGED <<applied, checking, lastWritten>> /\ WorkerViews(v) /\ WorkerEntries(v)
  BY DEF memory, views, ValidationInv, MemInv
<1>2. CASE v # w
  <2>1. Written(v)' = Written(v) /\ WantedKey(v)' = WantedKey(v)
    BY <1>2, ControlFrame DEF Written, WantedKey, Values, views
  <2> QED BY <1>1, <1>2, <2>1, ControlFrame DEF WorkerViews, Returned
<1>3. CASE v = w
  <2>1. ~ checking[v] /\ applied[v] = {}
    BY <1>1, <1>3, ControlSource DEF WorkerViews, WorkerEntries, Returned
  <2> QED BY <1>1, <2>1 DEF WorkerViews
<1> QED BY <1>2, <1>3

(***************************************************************************)
(* The memory's steps                                                      *)
(***************************************************************************)
(* Whoever was to check or to lower still is after a step that moves no    *)
(* worker and takes nothing back.                                          *)
LEMMA CoveredFrame ==
  ASSUME NEW t, NEW d, Covered(t, d),
         UNCHANGED <<schedVars, lastWritten, unchecked, checking>>,
         \A v \in Workers : applied[v] \subseteq applied'[v]
  PROVE  Covered(t, d)'
BY DEF Covered, WillCheck, LowersFor, schedVars, counters, statusVars

(* An entry of an executing transaction that Record has not dealt with is  *)
(* an ESTIMATE, so only a write to a new location can change what others   *)
(* read, and then validation_idx will be lowered.                          *)
LEMMA RecordKeyCovered ==
  ASSUME CoreInv, MemInv, ValidationInv, NEW w \in Workers, NEW k0 \in Keys,
         ApplyWriteSet(w, k0) \/ RemoveUnwritten(w, k0),
         NEW t \in Txns, NEW d \in lastRead[t],
         status[t] = "Executed", ~ ReadStillCurrent(t, d)'
  PROVE  Covered(t, d)'
<1> DEFINE u == txn[w]
<1>1. /\ UNCHANGED <<schedVars, lastWritten, lastRead, reads, unchecked, checking>>
      /\ applied'[w] = applied[w] \cup {k0} /\ \A v \in Workers : applied[v] \subseteq applied'[v]
      /\ k0 \notin applied[w] /\ pc[w] = "exec" /\ kind[w] = "execution" /\ u \in Txns
  BY DEF ApplyWriteSet, WriteKey, RemoveUnwritten, RemoveKey, Returned, MemInv, MemoryShape,
     CoreInv, TaskInv, WorkerTask
<1>2. PICK D : /\ data' = [data EXCEPT ![k0] = D] /\ DifferAt(data[k0], D, u)
  <2>1. CASE ApplyWriteSet(w, k0)
    <3>1. DifferAt(data[k0], Write(data[k0], Written(w)[k0], u, inc[w]), u)
      BY <1>1 DEF Write, SetEntry, DifferAt, MemInv, MemoryShape
    <3> QED BY <2>1, <3>1 DEF ApplyWriteSet, WriteKey
  <2>2. CASE RemoveUnwritten(w, k0)
    <3>1. DifferAt(data[k0], DeleteEntry(data[k0], u), u)
      BY <1>1 DEF DeleteEntry, DifferAt, MemInv, MemoryShape
    <3> QED BY <2>2, <3>1 DEF RemoveUnwritten, RemoveKey
  <2> QED BY <2>1, <2>2
<1>3. d.key \in Keys
  BY DEF ValidationInv, ReadShape
<1>4. CASE ~ ReadStillCurrent(t, d)
  <2>1. Covered(t, d)
    BY <1>4 DEF ValidationInv, StaleCovered
  <2> QED BY <1>1, <2>1, CoveredFrame
<1>5. CASE ReadStillCurrent(t, d)
  <2>1. d.key = k0 /\ data'[k0] = D
    BY <1>2, <1>3, <1>5 DEF ReadStillCurrent, MemInv, MemoryShape
  <2>2. ~ StillReads(D, t, d.version) /\ StillReads(data[k0], t, d.version)
    BY <1>5, <2>1 DEF ReadStillCurrent
  <2>3. u < t
    <3>1. ~ (t <= u)
      BY <1>1, <1>2, <2>2, HiddenAbove DEF StillReads
    <3> QED BY <1>1, <3>1, TxnIndices
  <2>4. ~ (u \in DOMAIN data[k0] /\ data[k0][u].estimate)
    <3> HIDE DEF u
    <3> QED BY <1>1, <1>2, <2>2, HiddenEstimate
  <2>5. AsEstimated(u, k0)
    BY <1>1 DEF MemInv, WorkerEntries, Executes
  <2>6. k0 \notin lastWritten[u]
    BY <2>4, <2>5 DEF AsEstimated
  <2>7. LowersFor(w, t)'
    BY <1>1, <2>3, <2>6 DEF LowersFor, schedVars
  <2> QED BY <2>7 DEF Covered
<1> QED BY <1>4, <1>5

(* A validation that marks entries will lower validation_idx below every   *)
(* reader of them.                                                         *)
LEMMA MarkCovered ==
  ASSUME CoreInv, MemInv, ValidationInv, NEW w \in Workers, NEW k0 \in Keys,
         MarkEstimate(w, k0), NEW t \in Txns, NEW d \in lastRead[t],
         status[t] = "Executed", ~ ReadStillCurrent(t, d)'
  PROVE  Covered(t, d)'
<1> DEFINE u == txn[w]
<1>1. /\ UNCHANGED <<schedVars, lastWritten, lastRead, reads, unchecked, checking>>
      /\ \A v \in Workers : applied[v] \subseteq applied'[v]
      /\ pc[w] = "convert" /\ kind[w] = "validation" /\ u \in Txns
  BY DEF MarkEstimate, MemInv, MemoryShape, CoreInv, TaskInv, WorkerTask
<1>2. PICK D : /\ data' = [data EXCEPT ![k0] = D] /\ DifferAt(data[k0], D, u)
  <2>1. DifferAt(data[k0], WriteEstimate(data[k0], u), u)
    BY <1>1 DEF WriteEstimate, SetEntry, DifferAt, MemInv, MemoryShape
  <2> QED BY <2>1 DEF MarkEstimate
<1>3. d.key \in Keys
  BY DEF ValidationInv, ReadShape
<1>4. CASE ~ ReadStillCurrent(t, d)
  <2>1. Covered(t, d)
    BY <1>4 DEF ValidationInv, StaleCovered
  <2> QED BY <1>1, <2>1, CoveredFrame
<1>5. CASE ReadStillCurrent(t, d)
  <2>1. d.key = k0 /\ data'[k0] = D
    BY <1>2, <1>3, <1>5 DEF ReadStillCurrent, MemInv, MemoryShape
  <2>2. ~ StillReads(D, t, d.version) /\ StillReads(data[k0], t, d.version)
    BY <1>5, <2>1 DEF ReadStillCurrent
  <2>3. ~ (t <= u)
    BY <1>1, <1>2, <2>2, HiddenAbove DEF StillReads
  <2>4. u < t
    BY <1>1, <2>3, TxnIndices
  <2>5. LowersFor(w, t)'
    BY <1>1, <2>4 DEF LowersFor, schedVars
  <2> QED BY <2>5 DEF Covered
<1> QED BY <1>4, <1>5

(* Writing, removing or marking one key preserves the invariant.           *)
LEMMA KeyValidation ==
  ASSUME CoreInv, MemInv, ValidationInv, NEW w \in Workers, NEW k0 \in Keys,
         ApplyWriteSet(w, k0) \/ RemoveUnwritten(w, k0) \/ MarkEstimate(w, k0)
  PROVE  ValidationInv'
<1>1. UNCHANGED <<schedVars, lastWritten, lastRead, reads, unchecked, checking>>
  BY DEF ApplyWriteSet, WriteKey, RemoveUnwritten, RemoveKey, MarkEstimate
<1>2. ReadShape'
  BY <1>1 DEF ValidationInv, ReadShape
<1>3. StaleCovered'
  <2>1. UNCHANGED <<status, lastRead>>
    BY <1>1 DEF schedVars, statusVars
  <2>2. ASSUME NEW t \in Txns, NEW d \in lastRead[t], status[t] = "Executed", ~ ReadStillCurrent(t, d)'
        PROVE  Covered(t, d)'
    BY <2>2, RecordKeyCovered, MarkCovered
  <2> QED BY <2>1, <2>2 DEF StaleCovered
<1>4. ASSUME NEW v \in Workers PROVE WorkerViews(v)'
  <2>1. Written(v)' = Written(v) /\ WantedKey(v)' = WantedKey(v)
    BY <1>1 DEF Written, WantedKey, Values, schedVars
  <2>2. UNCHANGED <<pc, txn, lastWritten, checking>> /\ WorkerViews(v)
    BY <1>1 DEF schedVars, ValidationInv
  <2>3. CASE v # w
    <3>1. applied'[v] = applied[v]
      BY <2>3 DEF ApplyWriteSet, WriteKey, RemoveUnwritten, RemoveKey, MarkEstimate, MemInv, MemoryShape
    <3> QED BY <2>1, <2>2, <3>1 DEF WorkerViews, Returned
  <2>4. CASE v = w
    <3>1. applied'[w] = applied[w] \cup {k0}
      BY DEF ApplyWriteSet, WriteKey, RemoveUnwritten, RemoveKey, MarkEstimate, MemInv, MemoryShape
    <3>2. Returned(w) => k0 \in DOMAIN Written(w) \cup lastWritten[txn[w]]
      BY DEF ApplyWriteSet, WriteKey, RemoveUnwritten, RemoveKey, MarkEstimate, Returned
    <3> QED BY <2>1, <2>2, <2>4, <3>1, <3>2 DEF WorkerViews, Returned
  <2> QED BY <2>3, <2>4
<1> QED BY <1>2, <1>3, <1>4 DEF ValidationInv

(* A further read keeps the reads a sequence over keys.                    *)
LEMMA AppendRead ==
  ASSUME NEW s, IsSequence(s), NEW e
  PROVE  /\ IsSequence(Append(s, e))
         /\ DOMAIN Append(s, e) = 1 .. Len(s) + 1 /\ Len(s) \in Nat
         /\ \A i \in 1 .. Len(s) : Append(s, e)[i] = s[i]
         /\ Append(s, e)[Len(s) + 1] = e
<1> DEFINE S == {s[i] : i \in DOMAIN s} \cup {e}
           q == Append(s, e)
<1>1. s \in Seq(S) /\ e \in S
  BY SeqDef DEF IsSequence, Records
<1>2. q \in Seq(S) /\ Len(q) = Len(s) + 1
      /\ (\A i \in 1 .. Len(s) : q[i] = s[i]) /\ q[Len(s) + 1] = e
  BY <1>1, AppendProperties
<1>3. Len(s) \in Nat /\ DOMAIN q = 1 .. Len(s) + 1 /\ q \in [1 .. Len(s) + 1 -> S]
  BY <1>1, <1>2, LenProperties
<1>4. q \in [1 .. Len(s) + 1 -> {q[i] : i \in DOMAIN q}]
  BY <1>3
<1>5. q \in Seq({q[i] : i \in DOMAIN q})
  <2> DEFINE R == {q[i] : i \in DOMAIN q}
  <2>1. q \in [1 .. Len(s) + 1 -> R] /\ Len(s) + 1 \in Nat
    BY <1>3, <1>4
  <2> HIDE DEF R, q
  <2>2. q \in Seq(R)
    BY <2>1, SeqDef
  <2> QED BY <2>2 DEF R
<1> QED BY <1>2, <1>3, <1>5 DEF IsSequence, Records

(* A read preserves the invariant: the reader has nothing to lower yet.    *)
LEMMA GetValidation ==
  ASSUME CoreInv, MemInv, ValidationInv, NEW w \in Workers, Get(w)
  PROVE  ValidationInv'
<1>1. /\ UNCHANGED <<memory, applied, unchecked, checking, status, incarnation, kind, txn, inc,
                     obs, wroteNew, validation_idx>>
      /\ pc[w] = "exec" /\ pc'[w] \in {"exec", "depend"} /\ WantedKey(w) \in Keys
      /\ \A v \in Workers \ {w} : pc'[v] = pc[v] /\ reads'[v] = reads[v]
  BY DEF Get, MeetEstimate, Goto, schedVars, counters, statusVars, sharedVars, taskVars, memory,
     CoreInv, SchedTypeOK, MemInv, MemoryShape
<1>2. applied[w] = {}
  BY <1>1, NoKeyAssumption DEF MemInv, WorkerEntries, Returned
<1>3. ReadShape'
  <2>1. UNCHANGED <<lastRead, unchecked, checking>> /\ ReadShape
    BY <1>1 DEF memory, ValidationInv
  <2>2. ASSUME NEW v \in Workers
        PROVE  /\ IsSequence(reads'[v])
               /\ \A i \in DOMAIN reads'[v] : reads'[v][i].key \in Keys
    <3>1. CASE reads'[v] = reads[v]
      BY <2>1, <3>1 DEF ReadShape
    <3>2. CASE reads'[v] # reads[v]
      <4>1. v = w BY <1>1, <3>2
      <4>2. PICK e : reads'[w] = Append(reads[w], e) /\ e.key \in Keys
        BY <1>1, <3>2, <4>1 DEF Get, MemInv, MemoryShape
      <4>3. IsSequence(reads[w])
        BY <2>1 DEF ReadShape
      <4>4. Len(reads[w]) \in Nat /\ DOMAIN reads[w] = 1 .. Len(reads[w])
        BY <4>3, LenProperties DEF IsSequence, Records
      <4>5. \A i \in 1 .. Len(reads[w]) + 1 : i \in 1 .. Len(reads[w]) \/ i = Len(reads[w]) + 1
        BY <4>4
      <4>6. \A i \in 1 .. Len(reads[w]) : reads[w][i].key \in Keys
        BY <2>1, <4>4 DEF ReadShape
      <4>7. /\ IsSequence(reads'[w])
            /\ DOMAIN reads'[w] = 1 .. Len(reads[w]) + 1
            /\ \A i \in 1 .. Len(reads[w]) : reads'[w][i] = reads[w][i]
            /\ reads'[w][Len(reads[w]) + 1] = e
        BY <4>2, <4>3, AppendRead
      <4> QED BY <4>1, <4>2, <4>5, <4>6, <4>7
    <3> QED BY <3>1, <3>2
  <2> QED BY <2>1, <2>2 DEF ReadShape
<1>4. StaleCovered'
  <2> SUFFICES ASSUME NEW t \in Txns, NEW d \in lastRead[t], status[t] = "Executed",
                      ~ ReadStillCurrent(t, d)
               PROVE  Covered(t, d)'
    BY <1>1 DEF StaleCovered, ReadStillCurrent, memory
  <2>1. Covered(t, d)
    BY DEF ValidationInv, StaleCovered
  <2>2. ~ WillCheck(w, t, d) /\ (LowersFor(w, t) => FALSE)
    BY <1>1, <1>2 DEF WillCheck, LowersFor
  <2> QED BY <1>1, <2>1, <2>2 DEF Covered, WillCheck, LowersFor, memory
<1>5. ASSUME NEW v \in Workers PROVE WorkerViews(v)'
  <2>1. CASE v # w
    <3>1. Written(v)' = Written(v) /\ WantedKey(v)' = WantedKey(v)
      BY <1>1, <2>1 DEF Written, WantedKey, Values
    <3> QED BY <1>1, <2>1, <3>1 DEF ValidationInv, WorkerViews, Returned, memory
  <2>2. CASE v = w
    BY <1>1, <1>2, <2>2 DEF ValidationInv, WorkerViews
  <2> QED BY <2>1, <2>2
<1> QED BY <1>3, <1>4, <1>5 DEF ValidationInv

(* Record preserves it: a write to a new location shows in its result.     *)
LEMMA RecordValidation ==
  ASSUME CoreInv, MemInv, ValidationInv, NEW w \in Workers, Record(w)
  PROVE  ValidationInv'
<1> DEFINE u == txn[w]
<1>1. /\ UNCHANGED <<data, unchecked, checking, status, incarnation, kind, txn, inc, obs, validation_idx>>
      /\ pc[w] = "exec" /\ pc'[w] = "setExecuted" /\ kind[w] = "execution" /\ Returned(w)
      /\ u \in Txns /\ Owner(w, u) /\ status[u] = "Executing"
      /\ wroteNew'[w] = ~ (DOMAIN Written(w) \subseteq lastWritten[u])
      /\ applied'[w] = {} /\ reads'[w] = <<>>
      /\ \A v \in Workers \ {w} : /\ pc'[v] = pc[v] /\ reads'[v] = reads[v]
                                    /\ applied'[v] = applied[v] /\ wroteNew'[v] = wroteNew[v]
  BY DEF Record, Returned, Publish, Recorded, Goto, sharedVars, counters, statusVars, CoreInv, SchedTypeOK,
     MemInv, MemoryShape, TaskInv, WorkerTask, Owner, OwnerInv, OwnedStatus
<1>2. \A t \in Txns \ {u} : lastWritten'[t] = lastWritten[t] /\ lastRead'[t] = lastRead[t]
  BY <1>1 DEF Record, Publish, MemInv, MemoryShape, ValidationInv, ReadShape
<1>3. ReadShape'
  <2>1. /\ lastRead' = [t \in Txns |-> lastRead'[t]]
        /\ lastRead'[u] = {[key |-> reads[w][i].key, version |-> reads[w][i].version] : i \in DOMAIN reads[w]}
    BY <1>1 DEF Record, Publish, ValidationInv, ReadShape
  <2>2. \A t \in Txns : \A d \in lastRead'[t] : d.key \in Keys
    <3>1. \A d \in lastRead'[u] : d.key \in Keys
      BY <2>1 DEF ValidationInv, ReadShape
    <3> QED BY <1>2, <3>1 DEF ValidationInv, ReadShape
  <2>3. ASSUME NEW v \in Workers
        PROVE  /\ IsSequence(reads'[v])
               /\ \A i \in DOMAIN reads'[v] : reads'[v][i].key \in Keys
    <3>1. CASE v # w
      BY <1>1, <3>1 DEF ValidationInv, ReadShape
    <3>2. CASE v = w
      <4>1. IsSequence(<< >>)
        BY EmptySeq DEF IsSequence, Records
      <4>2. DOMAIN << >> = {}
        OBVIOUS
      <4> QED BY <1>1, <3>2, <4>1, <4>2
    <3> QED BY <3>1, <3>2
  <2> QED BY <1>1, <2>1, <2>2, <2>3 DEF ValidationInv, ReadShape
<1>4. StaleCovered'
  <2> SUFFICES ASSUME NEW t \in Txns, NEW d \in lastRead'[t], status[t] = "Executed",
                      ~ ReadStillCurrent(t, d)
               PROVE  Covered(t, d)'
    BY <1>1 DEF StaleCovered, ReadStillCurrent
  <2>1. t # u /\ d \in lastRead[t]
    BY <1>1, <1>2
  <2>2. PICK v \in Workers : validation_idx <= t \/ WillCheck(v, t, d) \/ LowersFor(v, t)
    BY <2>1 DEF ValidationInv, StaleCovered, Covered
  <2>3. CASE v # w
    <3>1. kind[v] = "execution" /\ pc[v] = "exec" => txn[v] \in Txns \ {u}
      BY <1>1, <2>3 DEF CoreInv, TaskInv, WorkerTask, OwnerInv, UniqueOwner, Owner
    <3> HIDE DEF u
    <3> QED BY <1>1, <1>2, <2>2, <2>3, <3>1 DEF Covered, WillCheck, LowersFor
  <2>4. CASE v = w
    <3>1. LowersFor(w, t) => u < t /\ ~ (applied[w] \subseteq lastWritten[u])
      BY <1>1 DEF LowersFor
    <3>2. applied[w] \subseteq DOMAIN Written(w) \cup lastWritten[u]
      BY <1>1 DEF ValidationInv, WorkerViews
    <3>3. LowersFor(w, t) => LowersFor(w, t)'
      BY <1>1, <3>1, <3>2 DEF LowersFor
    <3>4. ~ WillCheck(w, t, d)
      BY <1>1 DEF WillCheck
    <3> QED BY <1>1, <2>2, <2>4, <3>3, <3>4 DEF Covered
  <2> QED BY <2>3, <2>4
<1>5. ASSUME NEW v \in Workers PROVE WorkerViews(v)'
  <2>1. CASE v # w
    <3>1. Written(v)' = Written(v) /\ WantedKey(v)' = WantedKey(v)
      BY <1>1, <2>1 DEF Written, WantedKey, Values
    <3>2. Returned(v) => txn[v] \in Txns \ {u}
      BY <1>1, <2>1 DEF CoreInv, TaskInv, WorkerTask, OwnerInv, UniqueOwner, Owner, Returned
    <3> HIDE DEF u
    <3> QED BY <1>1, <1>2, <2>1, <3>1, <3>2 DEF ValidationInv, WorkerViews, Returned
  <2>2. CASE v = w
    BY <1>1, <2>2 DEF ValidationInv, WorkerViews
  <2> QED BY <2>1, <2>2
<1> QED BY <1>3, <1>4, <1>5 DEF ValidationInv

(* Validating preserves it: the reads already checked were current, and    *)
(* one that was not leads to the abort.                                    *)
LEMMA ValidateValidation ==
  ASSUME CoreInv, MemInv, ValidationInv, NEW w \in Workers,
         \/ LoadReadSet(w) \/ ReadSetValid(w)
         \/ \E d \in unchecked[w] : CheckRead(w, d)
  PROVE  ValidationInv'
<1>1. /\ UNCHANGED <<memory, applied, reads, status, incarnation, kind, txn, inc, obs, wroteNew,
                     validation_idx>>
      /\ pc[w] = "validate" /\ pc'[w] \in {"validate", "decr", "tryAbort"}
      /\ \A v \in Workers \ {w} : /\ pc'[v] = pc[v] /\ unchecked'[v] = unchecked[v]
                                    /\ checking'[v] = checking[v]
      /\ unchecked' = [v \in Workers |-> unchecked'[v]] /\ checking' \in [Workers -> BOOLEAN]
      /\ checking'[w] => pc'[w] = "validate"
  BY DEF LoadReadSet, ReadSetValid, CheckRead, Verdict, Validated, Goto, schedVars, counters,
     statusVars, sharedVars, taskVars, CoreInv, SchedTypeOK, ValidationInv, ReadShape, WorkerViews
<1>2. ReadShape'
  BY <1>1 DEF ValidationInv, ReadShape, memory
<1>3. StaleCovered'
  <2> SUFFICES ASSUME NEW t \in Txns, NEW d \in lastRead[t], status[t] = "Executed",
                      ~ ReadStillCurrent(t, d)
               PROVE  Covered(t, d)'
    BY <1>1 DEF StaleCovered, ReadStillCurrent, memory
  <2>1. PICK v \in Workers : validation_idx <= t \/ WillCheck(v, t, d) \/ LowersFor(v, t)
    BY DEF ValidationInv, StaleCovered, Covered
  <2>2. CASE v # w
    BY <1>1, <2>1, <2>2 DEF Covered, WillCheck, LowersFor, memory
  <2>3. CASE v = w
    <3>1. ~ LowersFor(w, t)
      BY <1>1 DEF LowersFor
    <3>2. ASSUME WillCheck(w, t, d) PROVE WillCheck(w, t, d)'
      <4>1. txn[w] = t /\ kind[w] = "validation" /\ inc[w] = incarnation[t]
            /\ (checking[w] => d \in unchecked[w])
        BY <1>1, <3>2 DEF WillCheck
      <4>2. CASE LoadReadSet(w)
        <5>1. d \in unchecked'[w] /\ pc'[w] = "validate"
          BY <1>1, <4>1, <4>2 DEF LoadReadSet, schedVars, ValidationInv, ReadShape
        <5> QED BY <1>1, <4>1, <5>1 DEF WillCheck
      <4>3. CASE ReadSetValid(w)
        BY <4>1, <4>3 DEF ReadSetValid
      <4>4. ASSUME NEW d0 \in unchecked[w], CheckRead(w, d0) PROVE WillCheck(w, t, d)'
        <5>1. CASE StillReads(data[d0.key], t, d0.version)
          <6>1. d0 # d
            BY <5>1 DEF ReadStillCurrent
          <6>2. /\ unchecked'[w] = unchecked[w] \ {d0} /\ checking'[w] = checking[w]
                /\ pc'[w] = "validate"
            BY <1>1, <4>1, <4>4, <5>1 DEF CheckRead, schedVars, ValidationInv, ReadShape
          <6> QED BY <1>1, <4>1, <6>1, <6>2 DEF WillCheck
        <5>2. CASE ~ StillReads(data[d0.key], t, d0.version)
          <6>1. pc'[w] = "tryAbort"
            BY <4>1, <4>4, <5>2 DEF CheckRead, Verdict, Validated, Goto, CoreInv, SchedTypeOK
          <6> QED BY <1>1, <4>1, <6>1 DEF WillCheck
        <5> QED BY <5>1, <5>2
      <4> QED BY <4>2, <4>3, <4>4
    <3> QED BY <1>1, <2>1, <2>3, <3>1, <3>2 DEF Covered
  <2> QED BY <2>2, <2>3
<1>4. ASSUME NEW v \in Workers PROVE WorkerViews(v)'
  <2>1. Written(v)' = Written(v) /\ WantedKey(v)' = WantedKey(v)
    BY <1>1 DEF Written, WantedKey, Values
  <2> QED BY <1>1, <2>1 DEF ValidationInv, WorkerViews, Returned, memory
<1> QED BY <1>2, <1>3, <1>4 DEF ValidationInv

(* Ending the marking preserves it: the worker goes on to lower the index. *)
LEMMA AllMarkedValidation ==
  ASSUME CoreInv, MemInv, ValidationInv, NEW w \in Workers, AllMarked(w)
  PROVE  ValidationInv'
<1>1. /\ UNCHANGED <<memory, reads, unchecked, checking, status, incarnation, kind, txn, inc,
                     obs, wroteNew, validation_idx>>
      /\ pc[w] = "convert" /\ pc'[w] = "setReady" /\ applied'[w] = {}
      /\ \A v \in Workers \ {w} : pc'[v] = pc[v] /\ applied'[v] = applied[v]
  BY DEF AllMarked, Converted, Goto, counters, statusVars, sharedVars, taskVars, CoreInv, SchedTypeOK,
     MemInv, MemoryShape
<1>2. ReadShape'
  BY <1>1 DEF ValidationInv, ReadShape, memory
<1>3. StaleCovered'
  <2> SUFFICES ASSUME NEW t \in Txns, NEW d \in lastRead[t], status[t] = "Executed",
                      ~ ReadStillCurrent(t, d)
               PROVE  Covered(t, d)'
    BY <1>1 DEF StaleCovered, ReadStillCurrent, memory
  <2>1. Covered(t, d)
    BY DEF ValidationInv, StaleCovered
  <2> QED BY <1>1, <2>1 DEF Covered, WillCheck, LowersFor, memory
<1>4. ASSUME NEW v \in Workers PROVE WorkerViews(v)'
  <2>1. Written(v)' = Written(v) /\ WantedKey(v)' = WantedKey(v)
    BY <1>1 DEF Written, WantedKey, Values
  <2> QED BY <1>1, <2>1 DEF ValidationInv, WorkerViews, Returned, memory
<1> QED BY <1>2, <1>3, <1>4 DEF ValidationInv

(***************************************************************************)
(* The theorems                                                            *)
(***************************************************************************)
(* Every step of the block preserves the invariant of validation.          *)
LEMMA ValidationInvStep ==
  ASSUME CoreInv, MemInv, ValidationInv, [Next]_vars
  PROVE  ValidationInv'
<1>1. CASE UNCHANGED <<validation_idx, status, incarnation, pc, kind, txn, inc, obs, wroteNew, memory, views>>
  <2>1. ASSUME NEW v \in Workers
        PROVE  Written(v)' = Written(v) /\ WantedKey(v)' = WantedKey(v)
    BY <1>1 DEF Written, WantedKey, Values, views
  <2>2. ASSUME NEW v \in Workers PROVE WorkerViews(v)'
    BY <1>1, <2>1 DEF ValidationInv, WorkerViews, Returned, memory, views
  <2>3. StaleCovered'
    BY <1>1 DEF ValidationInv, StaleCovered, Covered, WillCheck, LowersFor, ReadStillCurrent, memory, views
  <2>4. ReadShape'
    BY <1>1 DEF ValidationInv, ReadShape, memory, views
  <2> QED BY <2>2, <2>3, <2>4 DEF ValidationInv
<1>2. ASSUME NEW w \in Workers, ControlStep(w) PROVE ValidationInv'
  <2>1. SchedulerStep(w) /\ UNCHANGED <<memory, views>>
    BY <1>2 DEF ControlStep
  <2>2. ReadShape'
    BY <2>1 DEF ValidationInv, ReadShape, memory, views
  <2>3. StaleCovered'
    <3> SUFFICES ASSUME NEW t \in Txns, NEW d \in lastRead[t], status'[t] = "Executed",
                        ~ ReadStillCurrent(t, d)
                 PROVE  Covered(t, d)'
      BY <2>1 DEF StaleCovered, ReadStillCurrent, memory
    <3> QED BY <2>1, ControlCovered
  <2> QED BY <2>1, <2>2, <2>3, ControlViews DEF ValidationInv
<1>3. ASSUME NEW w \in Workers, DataStep(w) PROVE ValidationInv'
  BY <1>3, GetValidation, KeyValidation, RecordValidation, ValidateValidation,
     AllMarkedValidation DEF DataStep
<1>4. CASE Return \/ Finished \/ CancelBlock \/ UNCHANGED vars
  BY <1>1, <1>4 DEF Return, Finished, CancelBlock, Cancel, vars, schedVars, counters, statusVars
<1> QED BY <1>2, <1>3, <1>4 DEF Next, WorkerStep

(* At the start nothing has been read.                                     *)
LEMMA InitValidationInv == Init => ValidationInv
<1> SUFFICES ASSUME Init PROVE ValidationInv
  OBVIOUS
<1>1. IsSequence(<< >>) /\ DOMAIN << >> = {}
  BY EmptySeq DEF IsSequence, Records
<1>2. ReadShape
  BY <1>1 DEF Init, ReadShape
<1>3. StaleCovered
  BY DEF Init, StaleCovered
<1>4. \A w \in Workers : WorkerViews(w)
  BY DEF Init, WorkerViews
<1> QED BY <1>2, <1>3, <1>4 DEF ValidationInv

(* The three invariants hold together throughout the execution.            *)
LEMMA ValidationInvariant == Spec => [](IndInv /\ MemInv /\ ValidationInv)
<1>1. CoreInv /\ MemInv /\ ValidationInv /\ [Next]_vars => ValidationInv'
  BY ValidationInvStep
<1>2. IndInv => CoreInv
  BY DEF IndInv
<1> QED BY <1>1, <1>2, InitValidationInv, BlockInvariant, PTL DEF Spec

(* The commit rule: whatever an EXECUTED transaction has read and would    *)
(* read differently now is still going to be noticed by a validation.      *)
THEOREM CommitRule == Spec => []NoMissedValidation
<1>1. ValidationInv => NoMissedValidation
  BY DEF ValidationInv, StaleCovered, Covered, LowersFor, WillLower, NoMissedValidation
<1> QED BY <1>1, ValidationInvariant, PTL

(***************************************************************************)
(* The serial semantics                                                    *)
(***************************************************************************)
(* A nonempty set of naturals has a least element.                         *)
LEMMA LeastExists ==
  ASSUME NEW T \in SUBSET Nat, T # {}
  PROVE  \E m \in T : \A y \in T : m <= y
<1>1. PICK m \in T : \A y \in T : ~ (<<y, m>> \in OpToRel(<, Nat))
  BY NatLessThanWellFounded, WFMin
<1>2. \A y \in T : ~ (y < m)
  BY <1>1 DEF OpToRel
<1> QED BY <1>2

\* The values from which transaction t, alone on state s, may go on, and the
\* equation of the recursive function of SerialReads.
ValuesIn(s) == Seq(UNION {{s[k]} : k \in Keys})
ReadsEquation(f, t, s) ==
  f = [vals \in ValuesIn(s) |->
         IF NextRead(t, vals) \in Keys THEN f[Append(vals, s[NextRead(t, vals)])] ELSE vals]

\* The program run on s from the values v ends with the values u.
Prefix(u, i) == [j \in 1 .. i |-> u[j]]
RunsOn(t, s, u, n) ==
  \A i \in n .. Len(u) - 1 :
    NextRead(t, Prefix(u, i)) \in Keys /\ u[i + 1] = s[NextRead(t, Prefix(u, i))]
Ends(t, s, v) ==
  {u \in ValuesIn(s) : /\ Len(v) <= Len(u) /\ Prefix(u, Len(v)) = v
                       /\ RunsOn(t, s, u, Len(v)) /\ NextRead(t, u) \notin Keys}
AnEnd(E) == CHOOSE u : u \in E

(* A sequence is its own longest prefix.                                   *)
LEMMA WholePrefix ==
  ASSUME NEW S, NEW u \in Seq(S)
  PROVE  Len(u) \in Nat /\ Prefix(u, Len(u)) = u /\ DOMAIN u = 1 .. Len(u)
BY DEF Prefix

(* Where the program stops it has reached its end.                         *)
LEMMA EndHere ==
  ASSUME NEW t, NEW s, NEW v \in ValuesIn(s), NextRead(t, v) \notin Keys
  PROVE  Ends(t, s, v) = {v}
<1> DEFINE S == UNION {{s[k]} : k \in Keys}
<1>1. v \in Seq(S) /\ Len(v) \in Nat /\ Prefix(v, Len(v)) = v
  BY WholePrefix DEF ValuesIn
<1>2. v \in Ends(t, s, v)
  BY <1>1 DEF Ends, RunsOn
<1>3. ASSUME NEW u \in Ends(t, s, v) PROVE u = v
  <2>1. u \in Seq(S) /\ Len(u) \in Nat /\ Prefix(u, Len(u)) = u
    BY <1>3, WholePrefix DEF Ends, ValuesIn
  <2>2. Len(v) <= Len(u) /\ Prefix(u, Len(v)) = v
    BY <1>3 DEF Ends
  <2>3. ~ (Len(v) < Len(u))
    BY <1>1, <1>3, <2>1, <2>2 DEF Ends, RunsOn
  <2> QED BY <1>1, <2>1, <2>2, <2>3
<1> QED BY <1>2, <1>3

(* Where it reads on, the end is that of the longer run.                   *)
LEMMA EndFurther ==
  ASSUME NEW t, NEW s, NEW v \in ValuesIn(s), NextRead(t, v) \in Keys
  PROVE  /\ Append(v, s[NextRead(t, v)]) \in ValuesIn(s)
         /\ Ends(t, s, Append(v, s[NextRead(t, v)])) = Ends(t, s, v)
<1> DEFINE S == UNION {{s[k]} : k \in Keys}
           x == s[NextRead(t, v)]
           q == Append(v, x)
           n == Len(v)
<1>1. v \in Seq(S) /\ n \in Nat /\ Prefix(v, n) = v /\ x \in S
  BY WholePrefix DEF ValuesIn
<1> HIDE DEF S, x
<1>2. /\ q \in Seq(S) /\ Len(q) = n + 1 /\ q[n + 1] = x
      /\ \A i \in 1 .. n : q[i] = v[i]
  BY <1>1, AppendProperties
<1>3. q = Prefix(q, n + 1) /\ v = [j \in 1 .. n |-> v[j]]
  BY <1>1, <1>2, WholePrefix DEF Prefix
<1>4. ASSUME NEW u \in Seq(S)
      PROVE  (n <= Len(u) /\ Prefix(u, n) = v /\ RunsOn(t, s, u, n) /\ NextRead(t, u) \notin Keys)
              <=> (n + 1 <= Len(u) /\ Prefix(u, n + 1) = q /\ RunsOn(t, s, u, n + 1)
                     /\ NextRead(t, u) \notin Keys)
  <2>1. Len(u) \in Nat /\ Prefix(u, Len(u)) = u
    BY WholePrefix
  <2>2. ASSUME n <= Len(u), Prefix(u, n) = v, RunsOn(t, s, u, n), NextRead(t, u) \notin Keys
        PROVE  n + 1 <= Len(u) /\ Prefix(u, n + 1) = q /\ RunsOn(t, s, u, n + 1)
    <3>1. n # Len(u)
      BY <2>1, <2>2
    <3>2. n \in n .. Len(u) - 1
      BY <1>1, <2>1, <2>2, <3>1
    <3>3. u[n + 1] = x
      BY <2>2, <3>2 DEF RunsOn, x
    <3>4. \A i \in 1 .. n : u[i] = v[i]
      BY <2>2 DEF Prefix
    <3>5. \A i \in 1 .. n + 1 : u[i] = q[i]
      BY <1>1, <1>2, <3>3, <3>4
    <3>6. Prefix(u, n + 1) = q
      BY <1>3, <3>5 DEF Prefix
    <3> QED BY <1>1, <2>1, <2>2, <3>1, <3>6 DEF RunsOn
  <2>3. ASSUME n + 1 <= Len(u), Prefix(u, n + 1) = q, RunsOn(t, s, u, n + 1)
        PROVE  n <= Len(u) /\ Prefix(u, n) = v /\ RunsOn(t, s, u, n)
    <3>1. \A i \in 1 .. n + 1 : u[i] = q[i]
      BY <2>3 DEF Prefix
    <3>2. Prefix(u, n) = v /\ u[n + 1] = x
      BY <1>1, <1>2, <1>3, <3>1 DEF Prefix
    <3>3. \A i \in n .. Len(u) - 1 : i = n \/ i \in n + 1 .. Len(u) - 1
      BY <1>1, <2>1
    <3> QED BY <1>1, <2>1, <2>3, <3>2, <3>3 DEF RunsOn, x
  <2> QED BY <2>2, <2>3
<1> QED BY <1>2, <1>4 DEF Ends, ValuesIn, S, x

(* SerialReads is well defined.                                            *)
LEMMA ReadsFunction ==
  ASSUME NEW t, NEW s
  PROVE  \E f : ReadsEquation(f, t, s) /\ Serial!SerialReads(t, s) = f[<< >>]
<1> DEFINE g == CHOOSE f : ReadsEquation(f, t, s)
           h == [vals \in ValuesIn(s) |-> AnEnd(Ends(t, s, vals))]
<1>1. ReadsEquation(h, t, s)
  <2> SUFFICES ASSUME NEW v \in ValuesIn(s)
               PROVE  AnEnd(Ends(t, s, v)) =
                        IF NextRead(t, v) \in Keys THEN h[Append(v, s[NextRead(t, v)])] ELSE v
    BY DEF ReadsEquation
  <2>1. CASE NextRead(t, v) \in Keys
    BY <2>1, EndFurther
  <2>2. CASE NextRead(t, v) \notin Keys
    BY <2>2, EndHere DEF AnEnd
  <2> QED BY <2>1, <2>2
<1>2. ReadsEquation(g, t, s)
  <2> HIDE DEF h
  <2> QED BY <1>1
<1>3. Serial!SerialReads(t, s) = g[<< >>]
  BY DEF Serial!SerialReads, ReadsEquation, ValuesIn
<1> QED BY <1>2, <1>3

(* It returns the values of any run of the program on the state.           *)
LEMMA ReadsOfRun ==
  ASSUME NEW t, NEW s, NEW u \in ValuesIn(s), RunsOn(t, s, u, 0), NextRead(t, u) \notin Keys
  PROVE  Serial!SerialReads(t, s) = u
<1> DEFINE S == UNION {{s[k]} : k \in Keys}
<1>1. PICK f : ReadsEquation(f, t, s) /\ Serial!SerialReads(t, s) = f[<< >>]
  BY ReadsFunction
<1>2. u \in Seq(S) /\ Len(u) \in Nat /\ Prefix(u, Len(u)) = u /\ u \in [1 .. Len(u) -> S]
  BY WholePrefix, LenProperties DEF ValuesIn
<1> HIDE DEF S
<1>3. ASSUME NEW i \in 0 .. Len(u) PROVE Prefix(u, i) \in Seq(S)
  BY <1>2, SeqDef DEF Prefix
<1> DEFINE J == {i \in 0 .. Len(u) : f[Prefix(u, i)] = u}
<1>4. Len(u) \in J
  BY <1>1, <1>2 DEF ReadsEquation
<1>5. ASSUME NEW i \in 0 .. Len(u) - 1, i + 1 \in J PROVE i \in J
  <2> DEFINE k == NextRead(t, Prefix(u, i))
  <2>1. k \in Keys /\ u[i + 1] = s[k]
    BY DEF RunsOn
  <2>2. Prefix(u, i) \in Seq(S) /\ s[k] \in S
    BY <1>2, <1>3, <2>1 DEF S
  <2>3. f[Prefix(u, i)] = f[Append(Prefix(u, i), s[k])]
    BY <1>1, <2>1, <2>2 DEF ReadsEquation, ValuesIn, S
  <2>4. Append(Prefix(u, i), s[k]) = Prefix(u, i + 1)
    <3>1. Len(Prefix(u, i)) = i
      BY <1>2, <2>2 DEF Prefix
    <3>2. Prefix(u, i + 1) \in Seq(S) /\ Len(Prefix(u, i + 1)) = i + 1
      BY <1>2, <1>3 DEF Prefix
    <3>3. \A j \in 1 .. i + 1 : Append(Prefix(u, i), s[k])[j] = Prefix(u, i + 1)[j]
      BY <1>2, <2>1, <2>2, <3>1, AppendProperties DEF Prefix
    <3> QED BY <2>2, <3>1, <3>2, <3>3, AppendProperties, SeqEqual
  <2> QED BY <1>2, <1>5, <2>3, <2>4
<1>6. 0 \in J
  <2>0. J \in SUBSET Nat /\ J # {}
    BY <1>4
  <2>1. PICK m \in J : \A y \in J : m <= y
    <3> HIDE DEF J
    <3> QED BY <2>0, LeastExists
  <2>2. m = 0
    <3> SUFFICES ASSUME m # 0 PROVE FALSE OBVIOUS
    <3>1. m - 1 \in 0 .. Len(u) - 1 /\ (m - 1) + 1 = m
      BY <1>2, <2>1
    <3>2. m - 1 \in J
      BY <1>5, <2>1, <3>1
    <3> QED BY <2>1, <3>1, <3>2
  <2> QED BY <2>1, <2>2
<1>7. Prefix(u, 0) = << >>
  BY DEF Prefix
<1> QED BY <1>1, <1>6, <1>7

(* SerialState is well defined: the states after one transaction more.     *)
StateEquation(f, n) ==
  f = [m \in 0 .. n |->
         IF m = 0 THEN InitStorage
         ELSE Serial!ApplyWrites(f[m - 1], WriteSet(m - 1, Serial!SerialReads(m - 1, f[m - 1])))]

LEMMA StateFunction == StateEquation(Serial!SerialState, BlockSize)
<1> DEFINE G(m, x) == Serial!ApplyWrites(x, WriteSet(m - 1, Serial!SerialReads(m - 1, x)))
           T == {n \in Nat : ~ \E f : StateEquation(f, n)}
<1>1. T = {}
  <2> SUFFICES ASSUME T # {} PROVE FALSE OBVIOUS
  <2>1. PICK n \in T : \A y \in T : n <= y
    BY LeastExists
  <2>2. StateEquation([m \in 0 .. 0 |-> InitStorage], 0)
    BY DEF StateEquation
  <2>3. n # 0
    BY <2>1, <2>2
  <2>4. PICK f : StateEquation(f, n - 1)
    BY <2>1, <2>3
  <2> DEFINE h == [m \in 0 .. n |-> IF m = n THEN G(n, f[n - 1]) ELSE f[m]]
  <2>5. ASSUME NEW m \in 0 .. n
        PROVE  h[m] = IF m = 0 THEN InitStorage ELSE G(m, h[m - 1])
    <3>1. \A i \in 0 .. n - 1 : f[i] = IF i = 0 THEN InitStorage ELSE G(i, f[i - 1])
      BY <2>4 DEF StateEquation
    <3>2. m # 0 => m - 1 \in 0 .. n /\ m - 1 # n
      BY <2>1
    <3>3. m # n => m \in 0 .. n - 1
      BY <2>1
    <3> HIDE DEF G
    <3> QED BY <2>1, <2>3, <3>1, <3>2, <3>3
  <2>6. StateEquation(h, n)
    BY <2>5 DEF StateEquation
  <2> QED BY <2>1, <2>6
<1>2. \E f : StateEquation(f, BlockSize)
  BY <1>1, BlockSizeAssumption
<1> DEFINE g == CHOOSE f : StateEquation(f, BlockSize)
<1>3. StateEquation(g, BlockSize)
  BY <1>2
<1>4. Serial!SerialState = g
  BY DEF Serial!SerialState, StateEquation
<1> QED BY <1>3, <1>4

(***************************************************************************)
(* The life of a version                                                   *)
(***************************************************************************)
(* An entry that is not an ESTIMATE is the current incarnation's, and that *)
(* incarnation will not write the key again.                               *)
LEMMA EntryCurrent ==
  ASSUME CoreInv, MemInv, NEW u \in Txns, NEW k \in Keys,
         u \in DOMAIN data[k], ~ data[k][u].estimate
  PROVE  data[k][u].incarnation = incarnation[u] /\ Settled(u, k)
<1>1. CASE status[u] = "Executed"
  BY <1>1 DEF MemInv, StatusEntries, AsWritten, Settled
<1>2. CASE status[u] # "Executed"
  <2>1. status[u] # "Ready"
    BY DEF MemInv, StatusEntries, AsEstimated
  <2>2. PICK w \in Workers : Owner(w, u)
    BY <1>2, <2>1, TxnIndices DEF CoreInv, OwnerInv, ClaimedStatus, HasOwner, SchedTypeOK
  <2>3. OwnedStatus(w) /\ WorkerEntries(w)
    BY DEF CoreInv, OwnerInv, MemInv
  <2>4. CASE Executes(w) /\ txn[w] = u
    BY <2>3, <2>4 DEF WorkerEntries, AsWritten, AsEstimated, AsRecorded, Settled, Executes
  <2>5. CASE pc[w] \in {"convert", "setReady"} /\ txn[w] = u
    BY <2>3, <2>5 DEF WorkerEntries, OwnedStatus, AsWritten, AsEstimated, Settled
  <2> QED BY <2>1, <2>2, <2>3, <2>4, <2>5, TxnIndices DEF Owner, OwnedStatus, Executes
<1> QED BY <1>1, <1>2

(* What the scheduler's steps do to the worker that takes them.            *)
LEMMA ControlMoves ==
  ASSUME CoreInv, NEW w \in Workers, SchedulerStep(w)
  PROVE  /\ pc[w] \in {"depend", "suspend", "wait"} =>
              pc'[w] \in {"exec", "suspend", "wait"} /\ txn'[w] = txn[w]
         /\ pc[w] = "setExecuted" => status'[txn[w]] = "Executed"
         /\ pc'[w] # "setExecuted"
         /\ pc'[w] = "stopped" => done_marker' \/ cancelled'
         /\ (done_marker => done_marker') /\ cancelled' = cancelled
         /\ \A t \in Txns : status'[t] = "Executed" =>
              status[t] = "Executed" \/ (pc[w] = "setExecuted" /\ txn[w] = t)
<1> USE DEF CoreInv, SchedTypeOK, TaskInv, WorkerTask, counters, statusVars, waitVars, taskVars, sharedVars,
        Goto, Observe, SetTask
<1> DEFINE G == /\ pc[w] \in {"depend", "suspend", "wait"} =>
                     pc'[w] \in {"exec", "suspend", "wait"} /\ txn'[w] = txn[w]
                /\ pc[w] = "setExecuted" => status'[txn[w]] = "Executed"
                /\ pc'[w] # "setExecuted"
                /\ pc'[w] = "stopped" => done_marker' \/ cancelled'
                /\ (done_marker => done_marker') /\ cancelled' = cancelled
                /\ \A t \in Txns : status'[t] = "Executed" =>
                     status[t] = "Executed" \/ (pc[w] = "setExecuted" /\ txn[w] = t)
<1>1. CASE RunLoop(w)
  BY <1>1 DEF RunLoop
<1>2. CASE LoadValidationIdx(w)
  BY <1>2 DEF LoadValidationIdx
<1>3. CASE LoadExecutionIdx(w)
  BY <1>3 DEF LoadExecutionIdx
<1>4. CASE ValidateCheck(w)
  BY <1>4 DEF ValidateCheck
<1>5. CASE ValidateIncr(w)
  BY <1>5 DEF ValidateIncr
<1>6. CASE ValidateFetch(w)
  BY <1>6 DEF ValidateFetch
<1>7. CASE ValidateStatus(w)
  BY <1>7 DEF ValidateStatus
<1>8. CASE ExecuteCheck(w)
  BY <1>8 DEF ExecuteCheck
<1>9. CASE ExecuteIncr(w)
  BY <1>9 DEF ExecuteIncr
<1>10. CASE ExecuteAdd(w)
  BY <1>10 DEF ExecuteAdd
<1>11. CASE TryIncarnate(w)
  BY <1>11 DEF TryIncarnate
<1>12. CASE DecrActive(w)
  BY <1>12 DEF DecrActive
<1>13. CASE CheckDoneCount(w)
  BY <1>13 DEF CheckDoneCount
<1>14. CASE CheckDoneLoads(w)
  BY <1>14 DEF CheckDoneLoads
<1>15. CASE CheckDoneStore(w)
  BY <1>15 DEF CheckDoneStore
<1>16. CASE LockDependency(w)
  BY <1>16 DEF LockDependency
<1>17. CASE Suspend(w)
  BY <1>17 DEF Suspend
<1>18. CASE WakeUp(w)
  BY <1>18 DEF WakeUp
<1>19. CASE SetExecuted(w)
  BY <1>19 DEF SetExecuted
<1>20. CASE SwapDependents(w)
  BY <1>20 DEF SwapDependents
<1>21. ASSUME NEW d0 \in deps[w], Resume(w, d0) PROVE G
  BY <1>21 DEF Resume
<1>22. CASE AfterResume(w)
  BY <1>22 DEF AfterResume
<1>23. CASE StoreMin(w)
  BY <1>23 DEF StoreMin
<1>24. CASE CountDecrease(w)
  BY <1>24 DEF CountDecrease
<1>25. CASE TryValidationAbort(w)
  BY <1>25 DEF TryValidationAbort
<1>26. CASE SetReadyStatus(w)
  BY <1>26 DEF SetReadyStatus
<1>27. CASE RetryAborted(w)
  BY <1>27 DEF RetryAborted
<1> QED
  BY <1>1, <1>2, <1>3, <1>4, <1>5, <1>6, <1>7, <1>8, <1>9, <1>10, <1>11, <1>12,
     <1>13, <1>14, <1>15, <1>16, <1>17, <1>18, <1>19, <1>20, <1>21, <1>22, <1>23,
     <1>24, <1>25, <1>26, <1>27 DEF SchedulerStep

(* What the memory's steps do to the workers.                              *)
LEMMA DataMoves ==
  ASSUME CoreInv, MemInv, NEW w \in Workers, DataStep(w)
  PROVE  /\ UNCHANGED <<status, incarnation, kind, txn, inc, done_marker, cancelled, storage, result>>
         /\ \A v \in Workers : v # w =>
              pc'[v] = pc[v] /\ applied'[v] = applied[v] /\ reads'[v] = reads[v]
         /\ pc[w] \in {"exec", "validate", "convert"} /\ pc'[w] # "stopped"
         /\ pc'[w] = "setExecuted" => Record(w)
         /\ applied[w] # {} /\ pc[w] = "exec" =>
              Record(w) \/ (pc'[w] = "exec" /\ applied[w] \subseteq applied'[w])
         /\ pc[w] = "exec" /\ reads'[w] # << >> => pc'[w] \in {"exec", "depend"}
         /\ pc[w] # "exec" => reads'[w] = reads[w]
<1> USE DEF CoreInv, SchedTypeOK, MemInv, MemoryShape, counters, statusVars, waitVars, taskVars, sharedVars,
        schedVars, Goto, outcome
<1> DEFINE G == /\ UNCHANGED <<status, incarnation, kind, txn, inc, done_marker, cancelled, storage, result>>
                /\ \A v \in Workers : v # w =>
                     pc'[v] = pc[v] /\ applied'[v] = applied[v] /\ reads'[v] = reads[v]
                /\ pc[w] \in {"exec", "validate", "convert"} /\ pc'[w] # "stopped"
                /\ pc'[w] = "setExecuted" => Record(w)
                /\ applied[w] # {} /\ pc[w] = "exec" =>
                     Record(w) \/ (pc'[w] = "exec" /\ applied[w] \subseteq applied'[w])
                /\ pc[w] = "exec" /\ reads'[w] # << >> => pc'[w] \in {"exec", "depend"}
                /\ pc[w] # "exec" => reads'[w] = reads[w]
<1>1. CASE Get(w)
  <2>1. applied[w] = {}
    BY <1>1, NoKeyAssumption DEF Get, WorkerEntries, Returned
  <2> QED BY <1>1, <2>1 DEF Get, MeetEstimate
<1>2. ASSUME NEW k \in Keys, ApplyWriteSet(w, k) PROVE G
  BY <1>2 DEF ApplyWriteSet, WriteKey, Returned
<1>3. ASSUME NEW k \in Keys, RemoveUnwritten(w, k) PROVE G
  BY <1>3 DEF RemoveUnwritten, RemoveKey, Returned
<1>4. ASSUME NEW k \in Keys, MarkEstimate(w, k) PROVE G
  BY <1>4 DEF MarkEstimate
<1>5. CASE Record(w)
  BY <1>5 DEF Record, Publish, Recorded
<1>6. CASE LoadReadSet(w)
  BY <1>6 DEF LoadReadSet
<1>7. ASSUME NEW d \in unchecked[w], CheckRead(w, d) PROVE G
  BY <1>7 DEF CheckRead, Verdict, Validated
<1>8. CASE ReadSetValid(w)
  BY <1>8 DEF ReadSetValid, Verdict, Validated
<1>9. CASE AllMarked(w)
  BY <1>9 DEF AllMarked, Converted
<1> QED BY <1>1, <1>2, <1>3, <1>4, <1>5, <1>6, <1>7, <1>8, <1>9 DEF DataStep

(* Once an incarnation has dealt with a key it has until it ends.          *)
LEMMA SettledStep ==
  ASSUME CoreInv, MemInv, [Next]_vars, NEW u \in Txns, NEW k \in Keys, Settled(u, k)
  PROVE  Settled(u, k)' \/ incarnation'[u] = incarnation[u] + 1
<1>1. StatusStep
  BY SimulationStep, StatusEdgeStep DEF CoreInv, MemInv
<1>2. CASE status[u] \in {"Executed", "Aborting"}
  BY <1>1, <1>2 DEF StatusStep, StatusEdges, Settled
<1>3. ASSUME NEW v \in Workers, Executes(v), txn[v] = u, k \in applied[v] \/ pc[v] = "setExecuted"
      PROVE  Settled(u, k)'
  <2>1. k \in applied[v] => pc[v] = "exec"
    BY <1>3 DEF MemInv, WorkerEntries, Returned, Executes
  <2>2. CASE Return \/ Finished \/ CancelBlock \/ UNCHANGED vars
    BY <1>3, <2>2 DEF Return, Finished, CancelBlock, Cancel, vars, schedVars, views, Settled, Executes
  <2>3. ASSUME NEW w \in Workers, ControlStep(w) PROVE Settled(u, k)'
    <3>1. SchedulerStep(w) /\ UNCHANGED applied
      BY <2>3 DEF ControlStep, views
    <3>2. CASE v = w
      <4>1. pc[v] = "setExecuted"
        BY <1>3, <2>1, <3>1, <3>2, ControlSource
      <4> QED BY <1>3, <3>1, <3>2, <4>1, ControlMoves DEF Settled
    <3>3. CASE v # w
      BY <1>3, <3>1, <3>3, ControlFrame DEF Settled, Executes
    <3> QED BY <3>2, <3>3
  <2>4. ASSUME NEW w \in Workers, DataStep(w) PROVE Settled(u, k)'
    <3>1. CASE v = w
      <4>1. pc[w] = "exec" /\ k \in applied[w] /\ kind[w] = "execution"
        BY <1>3, <2>1, <2>4, <3>1, DataMoves DEF Executes
      <4>2. CASE Record(w)
        <5>1. pc'[w] = "setExecuted"
          BY <4>2 DEF Record, Publish, Recorded, Goto, CoreInv, SchedTypeOK
        <5> QED BY <1>3, <2>4, <3>1, <4>1, <5>1, DataMoves DEF Settled, Executes
      <4>3. CASE ~ Record(w)
        <5>1. pc'[w] = "exec" /\ applied[w] \subseteq applied'[w]
          BY <2>4, <4>1, <4>3, DataMoves
        <5> QED BY <1>3, <2>4, <3>1, <4>1, <5>1, DataMoves DEF Settled, Executes
      <4> QED BY <4>2, <4>3
    <3>2. CASE v # w
      BY <1>3, <2>4, <3>2, DataMoves DEF Settled, Executes
    <3> QED BY <3>1, <3>2
  <2> QED BY <2>2, <2>3, <2>4 DEF Next, WorkerStep
<1> QED BY <1>2, <1>3 DEF Settled

(* A version keeps its value; a new one is the first of its incarnation.   *)
LEMMA VersionStep ==
  ASSUME CoreInv, MemInv, [Next]_vars, NEW u \in Txns, NEW k \in Keys, NEW i,
         HasVersion(u, k, i)'
  PROVE  \/ HasVersion(u, k, i) /\ data'[k][u].value = data[k][u].value
         \/ ~ Settled(u, k) /\ i = incarnation[u]
<1>1. CASE UNCHANGED data
  BY <1>1 DEF HasVersion
<1>2. ASSUME NEW w \in Workers, NEW k0 \in Keys, NEW D,
             data' = [data EXCEPT ![k0] = D], DifferAt(data[k0], D, txn[w]),
             u # txn[w] \/ k # k0, txn[w] \in Txns
      PROVE  HasVersion(u, k, i) /\ data'[k][u].value = data[k][u].value
  <2>1. MemoryShape BY DEF MemInv
  <2>2. ASSUME k # k0 PROVE SameEntry(u, k)
    BY <1>2, <2>1, <2>2 DEF SameEntry, MemoryShape
  <2>3. ASSUME k = k0 PROVE SameEntry(u, k)
    BY <1>2, <2>1, <2>3 DEF SameEntry, MemoryShape, DifferAt
  <2>4. SameEntry(u, k)
    BY <2>2, <2>3
  <2> QED BY <2>4 DEF SameEntry, HasVersion
<1>3. ASSUME NEW w \in Workers, NEW k0 \in Keys, ApplyWriteSet(w, k0)
      PROVE  \/ HasVersion(u, k, i) /\ data'[k][u].value = data[k][u].value
             \/ ~ Settled(u, k) /\ i = incarnation[u]
  <2> DEFINE D == Write(data[k0], Written(w)[k0], txn[w], inc[w])
  <2>1. /\ data' = [data EXCEPT ![k0] = D] /\ pc[w] = "exec" /\ kind[w] = "execution" /\ txn[w] \in Txns
        /\ k0 \notin applied[w]
    BY <1>3 DEF ApplyWriteSet, WriteKey, Returned, CoreInv, TaskInv, WorkerTask
  <2>2. DifferAt(data[k0], D, txn[w])
    BY <2>1 DEF Write, SetEntry, DifferAt, MemInv, MemoryShape
  <2>3. CASE u = txn[w] /\ k = k0
    <3>1. data'[k][u].incarnation = inc[w]
      BY <2>1, <2>3 DEF Write, SetEntry, Entry, MemInv, MemoryShape
    <3>2. inc[w] = incarnation[u] /\ status[u] = "Executing" /\ Owner(w, u)
      BY <2>1, <2>3 DEF MemInv, WorkerEntries, Executes, CoreInv, OwnerInv, OwnedStatus, Owner
    <3>3. ASSUME NEW v \in Workers, Executes(v), txn[v] = u PROVE v = w
      BY <3>2, <3>3 DEF CoreInv, OwnerInv, UniqueOwner, Owner, Executes
    <3> QED BY <2>1, <2>3, <3>1, <3>2, <3>3 DEF Settled, HasVersion
  <2>4. CASE u # txn[w] \/ k # k0
    <3> HIDE DEF D
    <3> QED BY <1>2, <2>1, <2>2, <2>4
  <2> QED BY <2>3, <2>4
<1>4. ASSUME NEW w \in Workers, NEW k0 \in Keys, RemoveUnwritten(w, k0)
      PROVE  HasVersion(u, k, i) /\ data'[k][u].value = data[k][u].value
  <2> DEFINE D == DeleteEntry(data[k0], txn[w])
  <2>1. data' = [data EXCEPT ![k0] = D] /\ txn[w] \in Txns
    BY <1>4 DEF RemoveUnwritten, RemoveKey, Returned, CoreInv, TaskInv, WorkerTask
  <2>2. DifferAt(data[k0], D, txn[w])
    BY <2>1 DEF DeleteEntry, DifferAt, MemInv, MemoryShape
  <2>3. u # txn[w] \/ k # k0
    BY <2>1 DEF DeleteEntry, HasVersion, MemInv, MemoryShape
  <2> HIDE DEF D
  <2> QED BY <1>2, <2>1, <2>2, <2>3
<1>5. ASSUME NEW w \in Workers, NEW k0 \in Keys, MarkEstimate(w, k0)
      PROVE  HasVersion(u, k, i) /\ data'[k][u].value = data[k][u].value
  <2> DEFINE D == WriteEstimate(data[k0], txn[w])
  <2>1. data' = [data EXCEPT ![k0] = D] /\ txn[w] \in Txns
    BY <1>5 DEF MarkEstimate, CoreInv, TaskInv, WorkerTask
  <2>2. DifferAt(data[k0], D, txn[w])
    BY <2>1 DEF WriteEstimate, SetEntry, DifferAt, MemInv, MemoryShape
  <2>3. u # txn[w] \/ k # k0
    BY <2>1 DEF WriteEstimate, SetEntry, Entry, HasVersion, MemInv, MemoryShape
  <2> HIDE DEF D
  <2> QED BY <1>2, <2>1, <2>2, <2>3
<1>6. CASE Return \/ Finished \/ CancelBlock \/ UNCHANGED vars
  BY <1>1, <1>6 DEF Return, Finished, CancelBlock, vars, memory
<1>7. ASSUME NEW w \in Workers, ControlStep(w) PROVE UNCHANGED data
  BY <1>7 DEF ControlStep, memory
<1>8. ASSUME NEW w \in Workers,
             \/ Get(w) \/ Record(w) \/ LoadReadSet(w) \/ ReadSetValid(w) \/ AllMarked(w)
             \/ \E d \in unchecked[w] : CheckRead(w, d)
      PROVE  UNCHANGED data
  BY <1>8 DEF Get, Record, Publish, LoadReadSet, ReadSetValid, AllMarked, CheckRead, memory
<1> QED BY <1>1, <1>3, <1>4, <1>5, <1>6, <1>7, <1>8 DEF Next, WorkerStep, DataStep

(* So a read stays faithful: a version names one value.                    *)
LEMMA FaithfulStep ==
  ASSUME CoreInv, MemInv, [Next]_vars, NEW r, r.key \in Keys, Faithful(r)
  PROVE  Faithful(r)'
<1> DEFINE u == r.version.index
           i == r.version.incarnation
<1>1. CASE r.version = InvalidVersion
  BY <1>1 DEF Faithful
<1>2. CASE r.version # InvalidVersion
  <2>1. /\ u \in Txns /\ i \in Nat /\ i <= incarnation[u]
        /\ i = incarnation[u] => Settled(u, r.key)
        /\ HasVersion(u, r.key, i) => data[r.key][u].value = r.value
    BY <1>2 DEF Faithful
  <2> HIDE DEF u, i
  <2>2. incarnation[u] \in Nat /\ incarnation'[u] \in {incarnation[u], incarnation[u] + 1}
    BY <2>1, SimulationStep, StatusEdgeStep DEF CoreInv, MemInv, SchedTypeOK, StatusStep
  <2>3. i <= incarnation'[u]
    BY <2>1, <2>2
  <2>4. i = incarnation'[u] => Settled(u, r.key)'
    BY <2>1, <2>2, SettledStep
  <2>5. HasVersion(u, r.key, i)' => data'[r.key][u].value = r.value
    BY <2>1, VersionStep
  <2> QED BY <1>2, <2>1, <2>3, <2>4, <2>5 DEF Faithful, u, i
<1> QED BY <1>1, <1>2

(***************************************************************************)
(* A worker's run of its transaction                                       *)
(***************************************************************************)
(* What Get returns is faithful: the storage's value, or that of a version *)
(* the memory holds.                                                       *)
LEMMA GetFaithful ==
  ASSUME CoreInv, MemInv, storage = InitStorage, NEW k \in Keys, NEW t \in Nat,
         ~ Read(data[k], t).estimate, NEW r, r.key = k, r.version = Read(data[k], t).version,
         r.value = IF r.version = InvalidVersion THEN storage[k] ELSE Read(data[k], t).value
  PROVE  Faithful(r)
<1>1. CASE r.version = InvalidVersion
  BY <1>1 DEF Faithful
<1>2. CASE r.version # InvalidVersion
  <2> DEFINE low == Lower(data[k], t)
             u == Max(low)
  <2>1. low # {}
    BY <1>2 DEF Read
  <2>2. low \in SUBSET (0 .. BlockSize)
    BY BlockSizeAssumption DEF Lower, Txns, MemInv, MemoryShape
  <2>3. u \in low
    BY <2>1, <2>2, MaxExists, BlockSizeAssumption
  <2>4. u \in Txns /\ u \in DOMAIN data[k]
    BY <2>3 DEF Lower, MemInv, MemoryShape
  <2>5. /\ r.version = [index |-> u, incarnation |-> data[k][u].incarnation]
        /\ r.value = data[k][u].value /\ ~ data[k][u].estimate
    BY <1>2, <2>1 DEF Read
  <2> HIDE DEF u
  <2>6. data[k][u].incarnation = incarnation[u] /\ Settled(u, k)
    BY <2>4, <2>5, EntryCurrent
  <2>7. r.version.index = u /\ r.version.incarnation = incarnation[u] /\ incarnation[u] \in Nat
    BY <2>4, <2>5, <2>6 DEF CoreInv, SchedTypeOK
  <2> QED BY <1>2, <2>4, <2>5, <2>6, <2>7 DEF Faithful
<1> QED BY <1>1, <1>2

(* A worker's reads stay those of its program.                             *)
LEMMA ReadsStep ==
  ASSUME CoreInv, MemInv, ValidationInv, ReplayInv, [Next]_vars, NEW v \in Workers
  PROVE  /\ reads'[v] # << >> => pc'[v] \in {"exec", "depend", "suspend", "wait"}
         /\ InOrder(txn'[v], reads'[v])
         /\ \A r \in Records(reads'[v]) : Faithful(r)'
<1>0. /\ reads[v] # << >> => pc[v] \in {"exec", "depend", "suspend", "wait"}
      /\ InOrder(txn[v], reads[v])
      /\ \A r \in Records(reads[v]) : Faithful(r) /\ r.key \in Keys
  BY DEF ReplayInv, WorkerRun, ValidationInv, ReadShape, Records
<1>1. \A r \in Records(reads[v]) : Faithful(r)'
  BY <1>0, FaithfulStep
<1>2. ASSUME reads'[v] = << >>
      PROVE  InOrder(txn'[v], reads'[v]) /\ \A r \in Records(reads'[v]) : Faithful(r)'
  <2>1. DOMAIN << >> = {}
    OBVIOUS
  <2> QED BY <1>2, <2>1 DEF InOrder, Records
<1>3. CASE /\ reads'[v] = reads[v]
           /\ reads[v] # << >> => /\ txn'[v] = txn[v]
                                  /\ pc'[v] \in {"exec", "depend", "suspend", "wait"}
  BY <1>0, <1>1, <1>2, <1>3
<1>4. CASE Return \/ Finished \/ CancelBlock \/ UNCHANGED vars
  BY <1>0, <1>3, <1>4 DEF Return, Finished, CancelBlock, Cancel, vars, schedVars, views
<1>5. ASSUME NEW w \in Workers, ControlStep(w)
      PROVE  /\ reads'[v] = reads[v]
             /\ reads[v] # << >> => /\ txn'[v] = txn[v]
                                    /\ pc'[v] \in {"exec", "depend", "suspend", "wait"}
  <2>1. SchedulerStep(w) /\ UNCHANGED reads
    BY <1>5 DEF ControlStep, views
  <2>2. CASE v # w
    BY <1>0, <2>1, <2>2, ControlFrame
  <2>3. CASE v = w
    BY <1>0, <2>1, <2>3, ControlMoves, ControlSource
  <2> QED BY <2>2, <2>3
<1>6. ASSUME NEW w \in Workers, DataStep(w)
      PROVE  /\ reads'[v] # << >> => pc'[v] \in {"exec", "depend", "suspend", "wait"}
             /\ InOrder(txn'[v], reads'[v])
             /\ \A r \in Records(reads'[v]) : Faithful(r)'
  <2>1. CASE v # w
    BY <1>0, <1>3, <1>6, <2>1, DataMoves
  <2>2. CASE v = w
    <3>1. CASE reads'[w] = reads[w]
      <4>1. UNCHANGED txn /\ (reads[w] # << >> => pc'[w] \in {"exec", "depend"})
        BY <1>0, <1>6, <2>2, <3>1, DataMoves
      <4> QED BY <1>3, <2>2, <3>1, <4>1
    <3>2. CASE reads'[w] = << >>
      BY <1>2, <2>2, <3>2
    <3>3. CASE reads'[w] # reads[w] /\ reads'[w] # << >>
      <4>1. Get(w)
        BY <1>6, <3>3 DEF DataStep, ApplyWriteSet, WriteKey, RemoveUnwritten, RemoveKey, MarkEstimate,
           Record, Publish, LoadReadSet, CheckRead, ReadSetValid, AllMarked, MemInv, MemoryShape
      <4> DEFINE k == WantedKey(w)
                 q == Read(data[k], txn[w])
                 e == [key |-> k, version |-> q.version,
                       value |-> IF q.version = InvalidVersion THEN storage[k] ELSE q.value]
                 n == Len(reads[w])
      <4>2. /\ reads'[w] = Append(reads[w], e) /\ ~ q.estimate /\ k \in Keys /\ pc[w] = "exec"
            /\ UNCHANGED <<txn, pc>>
        BY <3>3, <4>1 DEF Get, schedVars, MemInv, MemoryShape
      <4>3. storage = InitStorage /\ txn[w] \in Nat
        BY <4>2 DEF ReplayInv, AllStopped, CoreInv, SchedTypeOK
      <4>4. \A r : r = e => r.key \in Keys /\ Faithful(r)
        BY <4>2, <4>3, GetFaithful
      <4>5. \A r : r = e => Faithful(r)'
        <5> HIDE DEF e
        <5> QED BY <4>4, FaithfulStep
      <4>6. IsSequence(reads[w])
        BY DEF ValidationInv, ReadShape
      <4> HIDE DEF e, q
      <4>7. /\ DOMAIN reads'[w] = 1 .. n + 1 /\ n \in Nat
            /\ \A i \in 1 .. n : reads'[w][i] = reads[w][i]
            /\ reads'[w][n + 1] = e
        BY <4>2, <4>6, AppendRead
      <4>8. DOMAIN reads[w] = 1 .. n
        BY <4>6, LenProperties DEF IsSequence, Records
      <4>9. \A i \in 1 .. n + 1 : i \in 1 .. n \/ i = n + 1
        BY <4>7
      <4> HIDE DEF n
      <4>10. \A r \in Records(reads'[w]) : Faithful(r)'
        BY <1>1, <2>2, <4>5, <4>7, <4>8, <4>9 DEF Records
      <4>11. InOrder(txn[w], reads'[w])
        <5> SUFFICES ASSUME NEW i \in 1 .. n + 1
                     PROVE  NextRead(txn[w], [j \in 1 .. i - 1 |-> reads'[w][j].value]) = reads'[w][i].key
          BY <4>7 DEF InOrder
        <5>1. [j \in 1 .. i - 1 |-> reads'[w][j].value] = [j \in 1 .. i - 1 |-> reads[w][j].value]
          BY <4>7
        <5>2. CASE i \in 1 .. n
          BY <1>0, <2>2, <4>7, <4>8, <5>1, <5>2 DEF InOrder
        <5>3. CASE i = n + 1
          <6>1. i - 1 = n BY <4>7, <5>3
          <6>2. [j \in 1 .. i - 1 |-> reads[w][j].value] = Values(w)
            BY <4>8, <6>1 DEF Values
          <6>3. e.key = k BY DEF e
          <6> QED BY <4>7, <5>1, <5>3, <6>2, <6>3 DEF WantedKey
        <5> QED BY <4>9, <5>2, <5>3
      <4> QED BY <2>2, <4>2, <4>10, <4>11
    <3> QED BY <3>1, <3>2, <3>3
  <2> QED BY <2>1, <2>2
<1> QED BY <1>3, <1>4, <1>5, <1>6 DEF Next, WorkerStep

(* A worker stops when the block is complete or cancelled.                 *)
LEMMA StopStep ==
  ASSUME CoreInv, MemInv, ReplayInv, [Next]_vars, NEW v \in Workers
  PROVE  pc'[v] = "stopped" => done_marker' \/ cancelled'
<1>0. pc[v] = "stopped" => done_marker \/ cancelled
  BY DEF ReplayInv, WorkerRun
<1>1. CASE Return \/ Finished \/ CancelBlock \/ UNCHANGED vars
  BY <1>0, <1>1 DEF Return, Finished, CancelBlock, Cancel, vars, schedVars
<1>2. ASSUME NEW w \in Workers, ControlStep(w) PROVE pc'[v] = "stopped" => done_marker' \/ cancelled'
  <2>1. SchedulerStep(w) BY <1>2 DEF ControlStep
  <2> QED BY <1>0, <2>1, ControlMoves, ControlFrame
<1>3. ASSUME NEW w \in Workers, DataStep(w) PROVE pc'[v] = "stopped" => done_marker' \/ cancelled'
  BY <1>0, <1>3, DataMoves
<1> QED BY <1>1, <1>2, <1>3 DEF Next, WorkerStep

(* The steps of Record and ConvertWritesToEstimates touch one key's entry  *)
(* of the worker's own transaction.                                        *)
LEMMA KeyFrame ==
  ASSUME CoreInv, MemInv, NEW w \in Workers, NEW k0 \in Keys,
         ApplyWriteSet(w, k0) \/ RemoveUnwritten(w, k0) \/ MarkEstimate(w, k0)
  PROVE  /\ UNCHANGED <<lastRead, lastWritten>>
         /\ \A t \in Txns, k \in Keys : t # txn[w] \/ k # k0 => SameEntry(t, k)
<1>1. UNCHANGED <<lastRead, lastWritten>> /\ txn[w] \in Txns
  BY DEF ApplyWriteSet, WriteKey, RemoveUnwritten, RemoveKey, MarkEstimate, Returned,
     CoreInv, TaskInv, WorkerTask
<1>2. PICK D : data' = [data EXCEPT ![k0] = D] /\ DifferAt(data[k0], D, txn[w])
  <2>1. CASE ApplyWriteSet(w, k0)
    <3>1. DifferAt(data[k0], Write(data[k0], Written(w)[k0], txn[w], inc[w]), txn[w])
      BY <1>1 DEF Write, SetEntry, DifferAt, MemInv, MemoryShape
    <3> QED BY <2>1, <3>1 DEF ApplyWriteSet, WriteKey
  <2>2. CASE RemoveUnwritten(w, k0)
    <3>1. DifferAt(data[k0], DeleteEntry(data[k0], txn[w]), txn[w])
      BY <1>1 DEF DeleteEntry, DifferAt, MemInv, MemoryShape
    <3> QED BY <2>2, <3>1 DEF RemoveUnwritten, RemoveKey
  <2>3. CASE MarkEstimate(w, k0)
    <3>1. DifferAt(data[k0], WriteEstimate(data[k0], txn[w]), txn[w])
      BY <1>1 DEF WriteEstimate, SetEntry, DifferAt, MemInv, MemoryShape
    <3> QED BY <2>3, <3>1 DEF MarkEstimate
  <2> QED BY <2>1, <2>2, <2>3
<1>3. \A t \in Txns, k \in Keys : t # txn[w] \/ k # k0 => SameEntry(t, k)
  BY <1>1, <1>2, EntryFrame DEF DifferAt, MemInv
<1> QED BY <1>1, <1>3

(* The entries that Record has written hold the values of the write set.   *)
LEMMA WrittenStep ==
  ASSUME CoreInv, MemInv, ValidationInv, ReplayInv, [Next]_vars, NEW v \in Workers, Returned(v)',
         NEW k \in applied'[v], k \in DOMAIN Written(v)'
  PROVE  data'[k][txn'[v]].value = Written(v)'[k]
<1>0. Returned(v) => \A x \in applied[v] \cap DOMAIN Written(v) : data[x][txn[v]].value = Written(v)[x]
  BY DEF ReplayInv, WorkerRun
<1>1. applied[v] # {} => Returned(v) \/ pc[v] = "convert"
  BY DEF MemInv, WorkerEntries
<1>2. CASE UNCHANGED <<data, applied>> /\ pc'[v] = pc[v] /\ txn'[v] = txn[v] /\ reads'[v] = reads[v]
  <2>1. Written(v)' = Written(v) /\ WantedKey(v)' = WantedKey(v)
    BY <1>2 DEF Written, WantedKey, Values
  <2> QED BY <1>0, <1>2, <2>1 DEF Returned
<1>3. CASE Return \/ Finished \/ CancelBlock \/ UNCHANGED vars
  BY <1>2, <1>3 DEF Return, Finished, CancelBlock, Cancel, vars, schedVars, views, memory
<1>4. ASSUME NEW w \in Workers, ControlStep(w) PROVE data'[k][txn'[v]].value = Written(v)'[k]
  <2>1. SchedulerStep(w) /\ UNCHANGED <<data, applied, reads>>
    BY <1>4 DEF ControlStep, views, memory
  <2>2. v # w
    BY <1>1, <2>1, ControlSource DEF Returned
  <2> QED BY <1>2, <2>1, <2>2, ControlFrame
<1>5. ASSUME NEW w \in Workers, DataStep(w) PROVE data'[k][txn'[v]].value = Written(v)'[k]
  <2>1. CASE ~ \E k0 \in Keys : ApplyWriteSet(w, k0) \/ RemoveUnwritten(w, k0) \/ MarkEstimate(w, k0)
    <3>1. UNCHANGED data
      BY <1>5, <2>1 DEF DataStep, Get, Record, Publish, LoadReadSet, ReadSetValid, AllMarked,
         CheckRead, memory
    <3>2. CASE v # w
      <4>1. Written(v)' = Written(v) /\ WantedKey(v)' = WantedKey(v) /\ UNCHANGED txn
        BY <1>5, <3>2, DataMoves DEF Written, WantedKey, Values
      <4> QED BY <1>0, <1>5, <3>1, <3>2, <4>1, DataMoves DEF Returned
    <3>3. CASE v = w
      <4>1. applied'[w] \subseteq applied[w]
        BY <1>5, <2>1 DEF DataStep, Get, Record, Publish, LoadReadSet, ReadSetValid, AllMarked,
           CheckRead, MemInv, MemoryShape
      <4>2. applied[w] # {} BY <3>3, <4>1
      <4>3. CASE pc[w] = "convert"
        <5>1. AllMarked(w)
          BY <1>5, <2>1, <4>3 DEF DataStep, Get, Record, Returned, LoadReadSet, ReadSetValid,
             CheckRead, Verdict, Validated, Goto
        <5> QED BY <3>3, <5>1 DEF AllMarked, MemInv, MemoryShape
      <4>4. CASE Returned(w)
        <5>1. ~ Get(w)
          BY <4>4, NoKeyAssumption DEF Get, Returned
        <5>2. ~ Record(w)
          BY <3>3 DEF Record, Publish, Recorded, Goto, CoreInv, SchedTypeOK, Returned
        <5> QED BY <1>5, <2>1, <4>4, <5>1, <5>2 DEF DataStep, LoadReadSet, ReadSetValid, AllMarked, CheckRead,
                Returned, Verdict, Validated, Converted, Goto
      <4> QED BY <1>1, <3>3, <4>2, <4>3, <4>4
    <3> QED BY <3>2, <3>3
  <2>2. ASSUME NEW k0 \in Keys, ApplyWriteSet(w, k0) \/ RemoveUnwritten(w, k0) \/ MarkEstimate(w, k0)
        PROVE  data'[k][txn'[v]].value = Written(v)'[k]
    <3>1. /\ UNCHANGED <<schedVars, reads>> /\ txn[w] \in Txns /\ Owner(w, txn[w])
      BY <2>2 DEF ApplyWriteSet, WriteKey, RemoveUnwritten, RemoveKey, MarkEstimate, Returned,
         CoreInv, TaskInv, WorkerTask, Owner
    <3>2. Written(v)' = Written(v) /\ WantedKey(v)' = WantedKey(v) /\ UNCHANGED <<pc, txn>>
      BY <3>1 DEF Written, WantedKey, Values, schedVars
    <3>3. Returned(v) /\ k \in DOMAIN Written(v) /\ txn[v] \in Txns /\ Owner(v, txn[v]) /\ k \in Keys
      BY <3>2, MemInvStep DEF Returned, CoreInv, TaskInv, WorkerTask, Owner, MemInv, MemoryShape
    <3>4. CASE v # w
      <4>1. txn[v] # txn[w]
        BY <3>1, <3>3, <3>4 DEF CoreInv, OwnerInv, UniqueOwner
      <4>2. SameEntry(txn[v], k)
        BY <2>2, <3>3, <4>1, KeyFrame
      <4>3. k \in applied[v] BY <1>5, <3>4, DataMoves
      <4>4. txn[v] \in DOMAIN data[k]
        BY <3>3, <4>3 DEF MemInv, WorkerEntries, Executes, AsRecorded, Returned, CoreInv, TaskInv, WorkerTask
      <4> QED BY <1>0, <3>2, <3>3, <4>2, <4>3, <4>4 DEF SameEntry
    <3>5. CASE v = w
      <4>1. pc[w] = "exec" /\ applied'[w] = applied[w] \cup {k0} /\ k0 \notin applied[w]
        BY <2>2, <3>3, <3>5 DEF ApplyWriteSet, WriteKey, RemoveUnwritten, RemoveKey, MarkEstimate, Returned,
           MemInv, MemoryShape
      <4>2. CASE k = k0
        <5>1. ApplyWriteSet(w, k0)
          BY <2>2, <3>3, <3>5, <4>1, <4>2 DEF RemoveUnwritten, RemoveKey, MarkEstimate
        <5>2. data'[k] = Write(data[k0], Written(w)[k0], txn[w], inc[w])
          BY <4>2, <5>1 DEF ApplyWriteSet, WriteKey, MemInv, MemoryShape
        <5> QED BY <3>2, <3>5, <4>2, <5>2 DEF Write, SetEntry, Entry
      <4>3. CASE k # k0
        <5>1. SameEntry(txn[v], k)
          BY <2>2, <3>3, <4>3, KeyFrame
        <5>2. k \in applied[v] BY <3>5, <4>1, <4>3
        <5>3. txn[v] \in DOMAIN data[k]
          BY <3>3, <5>2 DEF MemInv, WorkerEntries, Executes, AsRecorded, Returned, CoreInv, TaskInv, WorkerTask
        <5> QED BY <1>0, <3>2, <3>3, <5>1, <5>2, <5>3 DEF SameEntry
      <4> QED BY <4>2, <4>3
    <3> QED BY <3>4, <3>5
  <2> QED BY <2>1, <2>2
<1> QED BY <1>3, <1>4, <1>5 DEF Next, WorkerStep

(***************************************************************************)
(* The run of an executed transaction                                      *)
(***************************************************************************)
(* Nobody touches what an executed transaction has recorded before it is   *)
(* aborted.                                                                *)
LEMMA RunFrame ==
  ASSUME CoreInv, MemInv, [Next]_vars, NEW t \in Txns, HasRun(t)
  PROVE  /\ lastRead'[t] = lastRead[t] /\ lastWritten'[t] = lastWritten[t]
         /\ \A k \in lastWritten[t] : data'[k][t].value = data[k][t].value
<1>1. \A k \in Keys : AsWritten(t, k)
  BY DEF HasRun, MemInv, StatusEntries, WorkerEntries
<1>2. ASSUME NEW w \in Workers, pc[w] \in {"exec", "convert"} PROVE txn[w] # t
  <2> SUFFICES ASSUME txn[w] = t PROVE FALSE OBVIOUS
  <2>1. status[t] \in {"Executing", "Aborting"}
    BY <1>2 DEF CoreInv, OwnerInv, OwnedStatus, TaskInv, WorkerTask
  <2>2. PICK v \in Workers : pc[v] = "setExecuted" /\ txn[v] = t
    BY <2>1 DEF HasRun
  <2>3. status[t] = "Executing" /\ Owner(v, t) /\ Owner(w, t)
    BY <1>2, <2>2 DEF CoreInv, OwnerInv, OwnedStatus, TaskInv, WorkerTask, Owner
  <2> QED BY <1>2, <2>2, <2>3 DEF CoreInv, OwnerInv, UniqueOwner
<1>3. CASE Return \/ Finished \/ CancelBlock \/ UNCHANGED vars
  BY <1>3 DEF Return, Finished, CancelBlock, vars, memory
<1>4. ASSUME NEW w \in Workers, ControlStep(w) PROVE UNCHANGED memory
  BY <1>4 DEF ControlStep
<1>5. ASSUME NEW w \in Workers,
             \/ Get(w) \/ LoadReadSet(w) \/ ReadSetValid(w) \/ AllMarked(w)
             \/ \E d \in unchecked[w] : CheckRead(w, d)
      PROVE  UNCHANGED memory
  BY <1>5 DEF Get, LoadReadSet, ReadSetValid, AllMarked, CheckRead
<1>6. ASSUME NEW w \in Workers, Record(w)
      PROVE  UNCHANGED data /\ lastRead'[t] = lastRead[t] /\ lastWritten'[t] = lastWritten[t]
  <2>1. txn[w] # t
    BY <1>2, <1>6 DEF Record, Returned
  <2> QED BY <1>6, <2>1 DEF Record, Publish
<1>7. ASSUME NEW w \in Workers, NEW k0 \in Keys,
             ApplyWriteSet(w, k0) \/ RemoveUnwritten(w, k0) \/ MarkEstimate(w, k0)
      PROVE  /\ UNCHANGED <<lastRead, lastWritten>>
             /\ \A k \in lastWritten[t] : data'[k][t].value = data[k][t].value
  <2>1. t # txn[w]
    BY <1>2, <1>7 DEF ApplyWriteSet, RemoveUnwritten, MarkEstimate, Returned
  <2>2. lastWritten[t] \subseteq Keys
    BY DEF MemInv, MemoryShape
  <2> QED BY <1>1, <1>7, <2>1, <2>2, KeyFrame DEF SameEntry, AsWritten
<1> QED BY <1>3, <1>4, <1>5, <1>6, <1>7 DEF Next, WorkerStep, DataStep, memory

(* Record makes the worker's reads the run of its transaction.             *)
LEMMA RecordRun ==
  ASSUME CoreInv, MemInv, ValidationInv, ReplayInv, NEW w \in Workers, Record(w),
         NEW t \in Txns, t = txn[w], NEW rs, rs = reads[w]
  PROVE  RunOf(t, rs)'
<1>1. rs = reads[w]
  OBVIOUS
<1>2. /\ Returned(w) /\ UNCHANGED <<data, txn>> /\ DOMAIN Written(w) \subseteq applied[w]
      /\ lastRead'[t] = {[key |-> rs[i].key, version |-> rs[i].version] : i \in DOMAIN rs}
      /\ lastWritten'[t] = DOMAIN Written(w)
  BY <1>1 DEF Record, Publish, Recorded, ValidationInv, ReadShape, MemInv, MemoryShape
<1>3. Values(w) = ValuesOf(rs) /\ Written(w) = WriteSet(t, ValuesOf(rs))
  BY <1>1 DEF Values, ValuesOf, Written
<1>4. IsSequence(rs) /\ InOrder(t, rs) /\ NextRead(t, ValuesOf(rs)) = NoKey
  BY <1>1, <1>2, <1>3 DEF ValidationInv, ReadShape, ReplayInv, WorkerRun, Returned, WantedKey
<1>5. \A r \in Records(rs) : r.key \in Keys /\ Faithful(r)
  BY <1>1 DEF ValidationInv, ReadShape, ReplayInv, WorkerRun, Records
<1>6. \A r \in Records(rs) : Faithful(r)'
  <2>1. [Next]_vars BY DEF Next, WorkerStep, DataStep
  <2> QED BY <1>5, <2>1, FaithfulStep
<1>7. \A k \in DOMAIN Written(w) : data[k][t].value = Written(w)[k]
  BY <1>2 DEF ReplayInv, WorkerRun
<1> HIDE DEF ValuesOf
<1>8. \A k \in lastWritten'[t] : data'[k][t].value = WriteSet(t, ValuesOf(rs))[k]
  BY <1>2, <1>3, <1>7
<1> QED BY <1>2, <1>3, <1>4, <1>5, <1>6, <1>8 DEF RunOf, IsSequence, InOrder, Records, ValuesOf

(* An executed transaction keeps its run as long as it is not aborted.     *)
LEMMA RunKept ==
  ASSUME CoreInv, MemInv, [Next]_vars, NEW t \in Txns, HasRun(t), NEW rs, RunOf(t, rs)
  PROVE  RunOf(t, rs)'
<1>1. \A r \in Records(rs) : Faithful(r)'
  BY FaithfulStep DEF RunOf
<1>2. \A k \in lastWritten'[t] : data'[k][t].value = WriteSet(t, ValuesOf(rs))[k]
  BY RunFrame DEF RunOf
<1> QED BY <1>1, <1>2, RunFrame DEF RunOf, IsSequence, InOrder, Records, ValuesOf

(* A transaction has a new run when a worker records one.                  *)
LEMMA RunStarts ==
  ASSUME CoreInv, MemInv, [Next]_vars, NEW t \in Txns, ~ HasRun(t), HasRun(t)'
  PROVE  \E w \in Workers : Record(w) /\ txn[w] = t
<1>1. CASE Return \/ Finished \/ CancelBlock \/ UNCHANGED vars
  BY <1>1 DEF Return, Finished, CancelBlock, Cancel, vars, schedVars, statusVars, HasRun
<1>2. ASSUME NEW w \in Workers, ControlStep(w) PROVE FALSE
  <2>1. SchedulerStep(w)
    BY <1>2 DEF ControlStep
  <2>2. status'[t] # "Executed"
    BY <2>1, ControlMoves DEF HasRun
  <2>3. \A v \in Workers : pc'[v] = "setExecuted" => pc[v] = "setExecuted" /\ txn'[v] = txn[v]
    BY <2>1, ControlMoves, ControlFrame
  <2> QED BY <2>2, <2>3 DEF HasRun
<1>3. ASSUME NEW w \in Workers, DataStep(w) PROVE Record(w) /\ txn[w] = t
  <2>1. UNCHANGED <<status, txn>> BY <1>3, DataMoves
  <2>2. PICK v \in Workers : pc'[v] = "setExecuted" /\ txn[v] = t
    BY <2>1 DEF HasRun
  <2>3. v = w
    BY <1>3, <2>2, DataMoves DEF HasRun
  <2> QED BY <1>3, <2>2, <2>3, DataMoves
<1> QED BY <1>1, <1>2, <1>3 DEF Next, WorkerStep

(* So an executed transaction has a run.                                   *)
LEMMA RunStep ==
  ASSUME CoreInv, MemInv, ValidationInv, ReplayInv, [Next]_vars, NEW t \in Txns, HasRun(t)'
  PROVE  \E rs : RunOf(t, rs)'
<1>1. CASE HasRun(t)
  <2>1. PICK rs : RunOf(t, rs)
    BY <1>1 DEF ReplayInv
  <2>2. RunOf(t, rs)'
    BY <1>1, <2>1, RunKept
  <2> QED BY <2>2
<1>2. CASE ~ HasRun(t)
  <2>1. PICK w \in Workers : Record(w) /\ txn[w] = t
    BY <1>2, RunStarts
  <2>2. PICK rs : rs = reads[w]
    OBVIOUS
  <2>3. RunOf(t, rs)'
    BY <2>1, <2>2, RecordRun
  <2> QED BY <2>3
<1> QED BY <1>1, <1>2

(* Every step keeps the invariant of the results.                          *)
LEMMA ReplayInvStep ==
  ASSUME CoreInv, MemInv, ValidationInv, ReplayInv, [Next]_vars
  PROVE  ReplayInv'
<1>1. ASSUME NEW w \in Workers, WorkerStep(w) PROVE pc[w] # "stopped" /\ UNCHANGED outcome
  BY <1>1, ControlSource, DataMoves DEF WorkerStep, ControlStep, outcome
<1>2. result' = "running" => storage' = InitStorage
  <2>1. CASE Return
    BY <2>1 DEF Return
  <2>2. CASE UNCHANGED outcome
    BY <2>2 DEF outcome, ReplayInv
  <2> QED BY <1>1, <2>1, <2>2 DEF Next, Finished, CancelBlock, vars
<1>3. result' # "running" => AllStopped'
  <2>1. CASE UNCHANGED <<pc, result>>
    BY <2>1 DEF AllStopped, ReplayInv
  <2>2. CASE Return
    BY <2>2 DEF Return, schedVars, AllStopped
  <2>3. ASSUME NEW w \in Workers, WorkerStep(w) PROVE result' = "running"
    BY <1>1, <2>3 DEF outcome, ReplayInv, AllStopped
  <2> QED BY <2>1, <2>2, <2>3 DEF Next, Finished, CancelBlock, Cancel, vars, outcome, schedVars
<1>4. ASSUME NEW v \in Workers PROVE WorkerRun(v)'
  <2>1. Returned(v)' => \A k \in applied'[v] \cap DOMAIN Written(v)' :
                          data'[k][txn'[v]].value = Written(v)'[k]
    BY WrittenStep
  <2> QED BY <2>1, ReadsStep, StopStep DEF WorkerRun
<1>5. ASSUME NEW t \in Txns, HasRun(t)' PROVE \E rs : RunOf(t, rs)'
  BY <1>5, RunStep
<1> QED BY <1>2, <1>3, <1>4, <1>5 DEF ReplayInv

(* At the start nobody has read and nobody has run.                        *)
LEMMA InitReplayInv == Init => ReplayInv
<1> SUFFICES ASSUME Init PROVE ReplayInv
  OBVIOUS
<1>1. DOMAIN << >> = {}
  OBVIOUS
<1>2. ASSUME NEW w \in Workers PROVE WorkerRun(w)
  BY <1>1 DEF Init, SchedInit, WorkerRun, InOrder, Records, Returned
<1>3. ASSUME NEW t \in Txns PROVE ~ HasRun(t)
  BY DEF Init, SchedInit, HasRun
<1> QED BY <1>2, <1>3 DEF ReplayInv, Init

(* The four invariants hold together throughout the execution.             *)
LEMMA ReplayInvariant == Spec => [](IndInv /\ MemInv /\ ValidationInv /\ ReplayInv)
<1>1. CoreInv /\ MemInv /\ ValidationInv /\ ReplayInv /\ [Next]_vars => ReplayInv'
  BY ReplayInvStep
<1>2. IndInv => CoreInv
  BY DEF IndInv
<1> QED BY <1>1, <1>2, InitReplayInv, ValidationInvariant, PTL DEF Spec

(***************************************************************************)
(* The complete block                                                      *)
(***************************************************************************)
(* When the block is complete every transaction is the run of its program  *)
(* on what it would still read.                                            *)
LEMMA RunCurrent ==
  ASSUME CoreInv, ValidationInv, Quiescent, NEW t \in Txns, NEW rs, RunOf(t, rs)
  PROVE  \A r \in Records(rs) : StillReads(data[r.key], t, r.version)
<1>1. ASSUME NEW d \in lastRead[t] PROVE ReadStillCurrent(t, d)
  <2> SUFFICES ASSUME ~ ReadStillCurrent(t, d) PROVE FALSE OBVIOUS
  <2>1. Covered(t, d)
    BY DEF ValidationInv, StaleCovered, Quiescent
  <2>2. t \in Nat /\ t < BlockSize /\ validation_idx \in Nat
    BY TxnIndices DEF CoreInv, SchedTypeOK
  <2> QED BY <2>1, <2>2, BlockSizeAssumption DEF Covered, WillCheck, LowersFor, Quiescent
<1>2. ASSUME NEW r \in Records(rs) PROVE StillReads(data[r.key], t, r.version)
  <2>1. PICK i \in DOMAIN rs : r = rs[i]
    BY DEF Records
  <2>2. [key |-> r.key, version |-> r.version] \in lastRead[t]
    BY <2>1 DEF RunOf
  <2> QED BY <1>1, <2>2 DEF ReadStillCurrent
<1> QED BY <1>2

LEMMA AllCurrent ==
  ASSUME CoreInv, MemInv, ValidationInv, ReplayInv, Quiescent, NEW t \in Txns
  PROVE  \E rs : RunOf(t, rs) /\ \A r \in Records(rs) : StillReads(data[r.key], t, r.version)
<1>1. PICK rs : RunOf(t, rs)
  BY DEF Quiescent, HasRun, ReplayInv
<1> QED BY <1>1, RunCurrent

\* The value of key k that transaction n finds below it.
Visible(k, n) ==
  IF Lower(data[k], n) = {} THEN InitStorage[k] ELSE data[k][Max(Lower(data[k], n))].value

(* The closest entry below n is one of them and none lies between.         *)
LEMMA LowerMax ==
  ASSUME MemInv, NEW k \in Keys, NEW n \in Nat, Lower(data[k], n) # {}
  PROVE  /\ Max(Lower(data[k], n)) \in Lower(data[k], n)
         /\ \A y \in Lower(data[k], n) : y <= Max(Lower(data[k], n))
<1>1. Lower(data[k], n) \in SUBSET (0 .. BlockSize)
  BY BlockSizeAssumption DEF Lower, Txns, MemInv, MemoryShape
<1> QED BY <1>1, MaxExists, BlockSizeAssumption

(* A faithful read that is still current has returned that value.          *)
LEMMA CurrentValue ==
  ASSUME MemInv, NEW t \in Txns, NEW r, r.key \in Keys, Faithful(r),
         StillReads(data[r.key], t, r.version)
  PROVE  r.value = Visible(r.key, t)
<1> DEFINE k == r.key
           low == Lower(data[k], t)
           u == Max(low)
<1>0. t \in Nat BY TxnIndices
<1>1. CASE low = {}
  BY <1>1 DEF StillReads, Read, Faithful, Visible
<1>2. CASE low # {}
  <2>1. u \in low
    BY <1>0, <1>2, LowerMax
  <2>2. u \in Nat /\ u \in DOMAIN data[k]
    BY <2>1, TxnIndices DEF Lower, MemInv, MemoryShape
  <2>3. /\ r.version = [index |-> u, incarnation |-> data[k][u].incarnation]
        /\ ~ data[k][u].estimate
    BY <1>2 DEF StillReads, Read
  <2> HIDE DEF u
  <2>4. r.version.index = u /\ r.version.incarnation = data[k][u].incarnation
    BY <2>3
  <2>5. r.version # InvalidVersion
    BY <2>2, <2>4 DEF InvalidVersion
  <2>6. data[k][u].value = r.value
    BY <2>2, <2>3, <2>4, <2>5 DEF Faithful, HasVersion
  <2> QED BY <1>2, <2>6 DEF Visible, u
<1> QED BY <1>1, <1>2

(* Transaction n adds its own entry to what the next one finds.            *)
LEMMA VisibleNext ==
  ASSUME MemInv, NEW k \in Keys, NEW n \in Txns
  PROVE  Visible(k, n + 1) = IF n \in DOMAIN data[k] THEN data[k][n].value ELSE Visible(k, n)
<1> DEFINE low == Lower(data[k], n)
           up == Lower(data[k], n + 1)
<1>1. n \in Nat /\ n + 1 \in Nat /\ DOMAIN data[k] \subseteq Nat
  BY TxnIndices DEF MemInv, MemoryShape
<1>2. CASE n \in DOMAIN data[k]
  <2>1. n \in up
    BY <1>1, <1>2 DEF Lower
  <2>2. Max(up) \in up /\ n <= Max(up)
    BY <1>1, <2>1, LowerMax
  <2>3. Max(up) \in Nat /\ Max(up) < n + 1
    BY <1>1, <2>2 DEF Lower
  <2>4. Max(up) = n
    BY <1>1, <2>2, <2>3
  <2> QED BY <1>2, <2>1, <2>4 DEF Visible
<1>3. CASE n \notin DOMAIN data[k]
  <2>1. up = low
    BY <1>1, <1>3 DEF Lower
  <2> QED BY <1>3, <2>1 DEF Visible
<1> QED BY <1>2, <1>3

(* A run on what the first n transactions leave is the serial one.         *)
LEMMA RunIsSerial ==
  ASSUME NEW t, NEW s, NEW rs, IsSequence(rs), InOrder(t, rs),
         NextRead(t, ValuesOf(rs)) \notin Keys,
         \A r \in Records(rs) : r.key \in Keys /\ r.value = s[r.key]
  PROVE  Serial!SerialReads(t, s) = ValuesOf(rs)
<1> DEFINE u == ValuesOf(rs)
           S == UNION {{s[k]} : k \in Keys}
<1>1. Len(rs) \in Nat /\ DOMAIN rs = 1 .. Len(rs)
  BY LenProperties DEF IsSequence
<1>2. \A i \in DOMAIN rs : rs[i].key \in Keys /\ rs[i].value = s[rs[i].key]
  BY DEF Records
<1>3. u = [i \in 1 .. Len(rs) |-> rs[i].value]
  BY <1>1 DEF ValuesOf
<1>4. u \in Seq(S) /\ Len(u) = Len(rs)
  BY <1>1, <1>2, <1>3, SeqDef, LenProperties
<1>5. ASSUME NEW i \in 0 .. Len(u) - 1
      PROVE  NextRead(t, Prefix(u, i)) \in Keys /\ u[i + 1] = s[NextRead(t, Prefix(u, i))]
  <2>1. i + 1 \in DOMAIN rs /\ (i + 1) - 1 = i /\ 1 .. i \subseteq 1 .. Len(rs)
    BY <1>1, <1>4
  <2>2. Prefix(u, i) = [j \in 1 .. i |-> rs[j].value]
    BY <1>3, <2>1 DEF Prefix
  <2>3. NextRead(t, [j \in 1 .. i |-> rs[j].value]) = rs[i + 1].key
    BY <2>1 DEF InOrder
  <2> QED BY <1>1, <1>2, <1>3, <2>1, <2>2, <2>3
<1>6. RunsOn(t, s, u, 0)
  BY <1>5 DEF RunsOn
<1> QED BY <1>4, <1>6, ReadsOfRun DEF ValuesIn

(* When the block is complete, what transaction n finds below it is the    *)
(* serial state after the first n.                                         *)
LEMMA VisibleIsSerial ==
  ASSUME CoreInv, MemInv, ValidationInv, ReplayInv, Quiescent
  PROVE  \A n \in 0 .. BlockSize : \A k \in Keys : Serial!SerialState[n][k] = Visible(k, n)
<1> DEFINE P(n) == \A k \in Keys : Serial!SerialState[n][k] = Visible(k, n)
           T == {n \in 0 .. BlockSize : ~ P(n)}
           st == Serial!SerialState
<1>0. \A n \in 0 .. BlockSize :
        st[n] = IF n = 0 THEN InitStorage
                ELSE Serial!ApplyWrites(st[n - 1], WriteSet(n - 1, Serial!SerialReads(n - 1, st[n - 1])))
  BY StateFunction DEF StateEquation
<1>1. P(0)
  <2> SUFFICES ASSUME NEW k \in Keys PROVE st[0][k] = Visible(k, 0) OBVIOUS
  <2>1. Lower(data[k], 0) = {}
    BY TxnIndices DEF Lower, MemInv, MemoryShape
  <2> QED BY <1>0, <2>1, BlockSizeAssumption DEF Visible
<1>2. ASSUME NEW m \in 0 .. BlockSize - 1, P(m) PROVE P(m + 1)
  <2>1. m \in Txns /\ m + 1 \in 0 .. BlockSize /\ m + 1 # 0 /\ (m + 1) - 1 = m
    BY BlockSizeAssumption DEF Txns
  <2>2. PICK rs : RunOf(m, rs) /\ \A r \in Records(rs) : StillReads(data[r.key], m, r.version)
    BY <2>1, AllCurrent
  <2>3. \A r \in Records(rs) : r.key \in Keys /\ r.value = st[m][r.key]
    BY <1>2, <2>1, <2>2, CurrentValue DEF RunOf
  <2> DEFINE ws == WriteSet(m, ValuesOf(rs))
  <2>4. Serial!SerialReads(m, st[m]) = ValuesOf(rs)
    BY <2>2, <2>3, RunIsSerial, NoKeyAssumption DEF RunOf
  <2>5. st[m + 1] = Serial!ApplyWrites(st[m], ws)
    BY <1>0, <2>1, <2>4
  <2>6. lastWritten[m] = DOMAIN ws /\ \A k \in lastWritten[m] : data[k][m].value = ws[k]
    BY <2>2 DEF RunOf
  <2>7. \A k \in Keys : m \in DOMAIN data[k] <=> k \in lastWritten[m]
    BY <2>1 DEF MemInv, StatusEntries, AsWritten, Quiescent
  <2> HIDE DEF ws, st
  <2> SUFFICES ASSUME NEW k \in Keys PROVE st[m + 1][k] = Visible(k, m + 1)
    BY DEF st
  <2>8. st[m + 1][k] = IF k \in DOMAIN ws THEN ws[k] ELSE st[m][k]
    BY <2>5 DEF Serial!ApplyWrites
  <2>9. Visible(k, m + 1) = IF m \in DOMAIN data[k] THEN data[k][m].value ELSE Visible(k, m)
    BY <2>1, VisibleNext
  <2>10. st[m][k] = Visible(k, m)
    BY <1>2 DEF st
  <2> QED BY <2>6, <2>7, <2>8, <2>9, <2>10
<1>3. T = {}
  <2> SUFFICES ASSUME T # {} PROVE FALSE OBVIOUS
  <2> HIDE DEF P
  <2>1. T \in SUBSET Nat
    BY BlockSizeAssumption
  <2>2. PICK n \in T : \A y \in T : n <= y
    <3> HIDE DEF T
    <3> QED BY <2>1, LeastExists
  <2>3. n # 0
    BY <1>1, <2>2
  <2>4. n - 1 \in 0 .. BlockSize - 1 /\ (n - 1) + 1 = n /\ n - 1 < n /\ n - 1 \in 0 .. BlockSize
    BY <2>2, <2>3, BlockSizeAssumption
  <2>5. P(n - 1)
    BY <2>1, <2>2, <2>4
  <2>6. P((n - 1) + 1)
    BY <1>2, <2>4, <2>5
  <2> QED BY <2>2, <2>4, <2>6
<1> QED BY <1>3

(* So the snapshot of a complete block is the serial result.               *)
LEMMA SnapshotIsSerial ==
  ASSUME CoreInv, MemInv, ValidationInv, ReplayInv, Quiescent, storage = InitStorage
  PROVE  Snapshot = Serial!SerialState[BlockSize]
<1> DEFINE st == Serial!SerialState
<1>1. BlockSize \in 0 .. BlockSize
  BY BlockSizeAssumption
<1>2. ASSUME NEW k \in Keys PROVE SnapshotKey(data[k], storage[k]) = Visible(k, BlockSize)
  <2>1. DOMAIN data[k] \subseteq Txns
    BY DEF MemInv, MemoryShape
  <2>2. Lower(data[k], BlockSize) = DOMAIN data[k]
    BY <2>1, TxnIndices DEF Lower
  <2>3. \A t \in DOMAIN data[k] : ~ data[k][t].estimate
    BY <2>1 DEF MemInv, StatusEntries, AsWritten, Quiescent
  <2>4. DOMAIN data[k] # {} => Max(DOMAIN data[k]) \in DOMAIN data[k]
    BY <2>2, LowerMax, BlockSizeAssumption
  <2> QED BY <2>2, <2>3, <2>4 DEF SnapshotKey, Visible
<1>3. \A k \in Keys : st[BlockSize][k] = Visible(k, BlockSize)
  BY <1>1, VisibleIsSerial
<1>4. st[BlockSize] = [k \in Keys |-> st[BlockSize][k]]
  <2>1. st[BlockSize] = IF BlockSize = 0 THEN InitStorage
          ELSE Serial!ApplyWrites(st[BlockSize - 1],
                 WriteSet(BlockSize - 1, Serial!SerialReads(BlockSize - 1, st[BlockSize - 1])))
    BY <1>1, StateFunction DEF StateEquation
  <2>2. CASE BlockSize = 0
    BY <2>1, <2>2, StorageAssumption
  <2>3. CASE BlockSize # 0
    BY <2>1, <2>3 DEF Serial!ApplyWrites
  <2> QED BY <2>2, <2>3
<1> HIDE DEF st
<1>5. \A k \in Keys : SnapshotKey(data[k], storage[k]) = st[BlockSize][k]
  BY <1>2, <1>3
<1> QED BY <1>4, <1>5 DEF Snapshot, st

(* Every step is one of the serial block, or leaves it alone.              *)
LEMMA SerialStep ==
  ASSUME CoreInv, MemInv, ValidationInv, ReplayInv, [Next]_vars
  PROVE  [Serial!Next]_<<storage, result>>
<1>1. ASSUME NEW w \in Workers, WorkerStep(w) PROVE UNCHANGED <<storage, result>>
  BY <1>1, DataMoves DEF WorkerStep, ControlStep, outcome
<1>2. CASE Return
  <2>1. CASE done_marker
    <3>1. Quiescent /\ storage = InitStorage
      BY <1>2, <2>1 DEF CoreInv, DoneInv, DoneIsQuiescent, ReplayInv, Return
    <3>2. Snapshot = Serial!SerialState[BlockSize]
      BY <3>1, SnapshotIsSerial
    <3> QED BY <1>2, <2>1, <3>2 DEF Return, Serial!Next, Serial!Commit
  <2>2. CASE ~ done_marker
    <3>1. cancelled
      BY <1>2, <2>2, SomeWorkerAssumption DEF Return, AllStopped, ReplayInv, WorkerRun
    <3> QED BY <1>2, <2>2, <3>1 DEF Return, Serial!Next, Serial!GiveUp
  <2> QED BY <2>1, <2>2
<1> QED BY <1>1, <1>2 DEF Next, CancelBlock, Finished, vars, outcome

(* ExecuteBlock implements the serial block: it returns once, with the     *)
(* serial result in the storage or, cancelled, with the storage untouched, *)
(* and never with "scheduler did not complete".                            *)
THEOREM Serializable == Spec => ImplementsSerial
<1>1. Init => Serial!Init
  BY DEF Init, Serial!Init
<1>2. IndInv /\ MemInv /\ ValidationInv /\ ReplayInv /\ [Next]_vars
        => [Serial!Next]_<<storage, result>>
  BY SerialStep DEF IndInv
<1> QED BY <1>1, <1>2, ReplayInvariant, PTL DEF Spec, ImplementsSerial, Serial!Spec

(***************************************************************************)
(* The kernels built around this one                                       *)
(***************************************************************************)
(* Their steps move nobody past a validation.                              *)
LEMMA QuietValidation ==
  ASSUME CoreInv, MemInv, ValidationInv, NEW w \in Workers, Quiet(w)
  PROVE  ValidationInv'
<1> USE DEF Quiet, counters, statusVars, taskVars, memory, views
<1>1. ASSUME NEW v \in Workers
      PROVE  Written(v)' = Written(v) /\ WantedKey(v)' = WantedKey(v)
  BY DEF Written, WantedKey, Values
<1>2. pc[w] # "exec" /\ pc[w] # "validate" /\ applied[w] = {} /\ ~ checking[w]
  BY DEF MemInv, WorkerEntries, Returned, ValidationInv, WorkerViews
<1>3. ASSUME NEW v \in Workers PROVE WorkerViews(v)'
  BY <1>1, <1>2 DEF ValidationInv, WorkerViews, Returned
<1>4. ReadShape'
  BY DEF ValidationInv, ReadShape, IsSequence, Records
<1>5. ASSUME NEW v \in Workers, NEW t \in Txns, NEW d, WillCheck(v, t, d) \/ LowersFor(v, t)
      PROVE  (WillCheck(v, t, d) \/ LowersFor(v, t))'
  <2>1. v # w
    <3> SUFFICES ASSUME v = w PROVE FALSE OBVIOUS
    <3> QED BY <1>2, <1>5 DEF WillCheck, LowersFor, CoreInv, TaskInv, WorkerTask
  <2>2. pc'[v] = pc[v] /\ obs'[v] = obs[v]
    BY <2>1
  <2> QED BY <1>5, <2>2 DEF WillCheck, LowersFor
<1>6. StaleCovered'
  <2> SUFFICES ASSUME NEW t \in Txns, NEW d \in lastRead'[t], status'[t] = "Executed",
                      ~ ReadStillCurrent(t, d)'
               PROVE  Covered(t, d)'
    BY DEF StaleCovered
  <2>1. Covered(t, d)
    BY DEF ValidationInv, StaleCovered, ReadStillCurrent
  <2> QED BY <1>5, <2>1 DEF Covered
<1> QED BY <1>3, <1>4, <1>6 DEF ValidationInv

(* They touch nobody's reads, written values or runs.                      *)
LEMMA QuietFaithful ==
  ASSUME CoreInv, MemInv, NEW w \in Workers, Quiet(w), NEW r, Faithful(r)
  PROVE  Faithful(r)'
<1> USE DEF Quiet, counters, statusVars, taskVars, memory, views
<1>1. applied[w] = {}
  BY DEF MemInv, WorkerEntries, Returned
<1>2. ASSUME NEW u, NEW k, Settled(u, k) PROVE Settled(u, k)'
  <2>1. CASE status[u] \in {"Executed", "Aborting"}
    BY <2>1 DEF Settled
  <2>2. ASSUME NEW v \in Workers, Executes(v), txn[v] = u, k \in applied[v] \/ pc[v] = "setExecuted"
        PROVE  Settled(u, k)'
    <3>1. v # w BY <1>1, <2>2
    <3> QED BY <2>2, <3>1 DEF Settled, Executes
  <2> QED BY <1>2, <2>1, <2>2 DEF Settled
<1> QED BY <1>2 DEF Faithful, HasVersion

LEMMA QuietRun ==
  ASSUME CoreInv, MemInv, NEW w \in Workers, Quiet(w), NEW t \in Txns, HasRun(t)'
  PROVE  HasRun(t) /\ \A rs : RunOf(t, rs) => RunOf(t, rs)'
<1> USE DEF Quiet, counters, statusVars, taskVars, memory, views
<1>1. HasRun(t)
  BY DEF HasRun
<1>2. ASSUME NEW rs, RunOf(t, rs) PROVE RunOf(t, rs)'
  <2>1. \A r \in Records(rs) : r.key \in Keys /\ Faithful(r)'
    BY <1>2, QuietFaithful DEF RunOf
  <2> QED BY <1>2, <2>1 DEF RunOf, IsSequence, InOrder, Records, ValuesOf
<1> QED BY <1>1, <1>2

LEMMA QuietReplay ==
  ASSUME CoreInv, MemInv, ValidationInv, ReplayInv, NEW w \in Workers, Quiet(w)
  PROVE  ReplayInv' /\ UNCHANGED <<storage, result>>
<1> USE DEF Quiet, counters, statusVars, taskVars, memory, views, outcome
<1>1. ASSUME NEW v \in Workers
      PROVE  Written(v)' = Written(v) /\ WantedKey(v)' = WantedKey(v)
  BY DEF Written, WantedKey, Values
<1>2. pc[w] # "exec" /\ pc[w] # "stopped" /\ pc'[w] # "stopped" /\ applied[w] = {}
  BY DEF MemInv, WorkerEntries, Returned
<1>3. ASSUME NEW r, Faithful(r) PROVE Faithful(r)'
  BY <1>3, QuietFaithful
<1>4. ASSUME NEW v \in Workers PROVE WorkerRun(v)'
  <2>1. \A r \in Records(reads[v]) : Faithful(r)'
    BY <1>3 DEF ReplayInv, WorkerRun
  <2>2. InOrder(txn[v], reads[v])' /\ Records(reads[v])' = Records(reads[v])
    BY DEF ReplayInv, WorkerRun, InOrder, Records
  <2>3. CASE v # w
    BY <1>1, <2>1, <2>2, <2>3 DEF ReplayInv, WorkerRun, Returned
  <2>4. CASE v = w
    BY <1>2, <2>1, <2>2, <2>4 DEF ReplayInv, WorkerRun
  <2> QED BY <2>3, <2>4
<1>5. ASSUME NEW t \in Txns, HasRun(t)' PROVE \E rs : RunOf(t, rs)'
  <2>1. HasRun(t) /\ \A rs : RunOf(t, rs) => RunOf(t, rs)'
    BY <1>5, QuietRun
  <2> QED BY <2>1 DEF ReplayInv
<1>6. result' # "running" => AllStopped'
  BY <1>2 DEF ReplayInv, AllStopped
<1> QED BY <1>4, <1>5, <1>6 DEF ReplayInv

=============================================================================
