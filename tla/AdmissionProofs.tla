--------------------------- MODULE AdmissionProofs ---------------------------
(***************************************************************************)
(* The admission limiter keeps its window, and what is proved of the       *)
(* frozen kernel survives it: for every block, limit and set of workers.   *)
(***************************************************************************)
EXTENDS Admission, BlockSTMProofs

(***************************************************************************)
(* The frozen kernel inside the limiter                                    *)
(***************************************************************************)
(* Every step of the limited kernel is one of the frozen kernel, or leaves *)
(* NextVersionToExecute without a task.                                    *)
LEMMA AdmissionSimulation ==
  ASSUME [AdmNext]_<<vars, admVars>>
  PROVE  \/ [Next]_vars
         \/ \E w \in Workers : Retreat(w) /\ UNCHANGED <<memory, views, outcome>>
<1>1. ASSUME NEW w \in Workers, ControlStep(w) \/ DataStep(w) PROVE Next
  BY <1>1 DEF Next, WorkerStep
<1>2. ASSUME NEW w \in Workers, AdmStep(w)
      PROVE  \/ [Next]_vars
             \/ Retreat(w) /\ UNCHANGED <<memory, views, outcome>>
  BY <1>1, <1>2 DEF AdmStep, Base, Data, Admit, Stall, StallEnds, StallCancelled, LockFinish,
     ValidationToken, AnnounceAbort, Pass
<1> QED BY <1>2 DEF AdmNext, AdmReturn, AdmCancel, AdmFinished, Next

(* Leaving without a task preserves the scheduler's invariant.             *)
LEMMA RetreatStep ==
  ASSUME IndInv, NEW w \in Workers, Retreat(w)
  PROVE  IndInv'
<1> USE DEF IndInv, CoreInv, Retreat, Goto, sharedVars, waitVars, taskVars, counters, statusVars
<1>1. pc[w] = "neCheck" /\ pc' = [pc EXCEPT ![w] = "loop"] /\ kind[w] = "none"
  BY DEF TaskInv, WorkerTask
<1>2. SchedTypeOK'
  BY <1>1 DEF SchedTypeOK, PCs
<1>3. \A v \in Workers : v # w => pc'[v] = pc[v]
  BY DEF SchedTypeOK
<1>4. pc'[w] = "loop"
  BY DEF SchedTypeOK
<1>5. TaskInv'
  BY <1>1, <1>3, <1>4 DEF TaskInv, WorkerTask
<1>6. TaskAccounting'
  <2>1. \A v \in Workers : Holds(v)' <=> Holds(v)
    BY <1>1, <1>3, <1>4 DEF Holds, ReservedPCs
  <2> QED BY <2>1 DEF TaskAccounting, Holders
<1>7. OwnerInv' /\ DispatchedBut({})'
  <2>1. \A v \in Workers, t \in Txns : Owner(v, t)' <=> Owner(v, t)
    BY <1>1, <1>3, <1>4 DEF Owner
  <2> QED BY <1>1, <1>3, <1>4, <2>1 DEF OwnerInv, UniqueOwner, ClaimedStatus, OwnedStatus,
          HasOwner, DispatchedBut
<1>8. WaitInv'
  <2>1. \A v \in Workers, d \in Txns : Sleeps(v, d)' <=> Sleeps(v, d)
    BY <1>1, <1>3, <1>4 DEF Sleeps
  <2> QED BY <2>1 DEF WaitInv
<1>9. WakeInv'
  <2>1. \A b : SwapToCome(b)' <=> SwapToCome(b)
    BY <1>1, <1>3, <1>4 DEF SwapToCome
  <2> QED BY <1>1, <1>3, <1>4, <2>1 DEF WakeInv, WillWake
<1>10. DoneInv'
  <2>1. Quiescent' <=> Quiescent
    BY <1>1, <1>3, <1>4 DEF Quiescent
  <2>2. \A v \in Workers : pc'[v] = "count" <=> pc[v] = "count"
    BY <1>1, <1>3, <1>4
  <2> QED BY <1>1, <1>3, <1>4, <2>1, <2>2 DEF DoneInv, DoneIsQuiescent
<1> QED BY <1>2, <1>5, <1>6, <1>7, <1>8, <1>9, <1>10

(* It is a quiet step.                                                     *)
LEMMA RetreatQuiet ==
  ASSUME CoreInv, NEW w \in Workers, Retreat(w), UNCHANGED <<memory, views, outcome>>
  PROVE  Quiet(w)
BY DEF CoreInv, SchedTypeOK, TaskInv, WorkerTask, Retreat, Quiet, Goto, sharedVars, taskVars

(* The invariants of the frozen kernel hold under the limiter.             *)
LEMMA AdmissionInvariant == AdmSpec => [](IndInv /\ MemInv /\ ValidationInv /\ ReplayInv)
<1> DEFINE I == IndInv /\ MemInv /\ ValidationInv /\ ReplayInv
<1>1. AdmInit => I
  BY InitIndInv, InitMemInv, InitValidationInv, InitReplayInv DEF AdmInit, Init
<1>2. I /\ [AdmNext]_<<vars, admVars>> => I'
  <2> SUFFICES ASSUME I, [AdmNext]_<<vars, admVars>> PROVE I'
    OBVIOUS
  <2>1. CoreInv /\ MemoryShape BY DEF IndInv, MemInv
  <2>2. CASE [Next]_vars
    BY <2>1, <2>2, SimulationStep, IndInvStep, MemInvStep, ValidationInvStep, ReplayInvStep
  <2>3. ASSUME NEW w \in Workers, Retreat(w), UNCHANGED <<memory, views, outcome>> PROVE I'
    <3>1. Quiet(w) BY <2>1, <2>3, RetreatQuiet
    <3> QED BY <2>1, <2>3, <3>1, RetreatStep, QuietEntries, QuietValidation, QuietReplay
  <2> QED BY <2>2, <2>3, AdmissionSimulation
<1> QED BY <1>1, <1>2, PTL DEF AdmSpec

(* Under the limiter, too, block execution implements the serial block:    *)
(* the window delays executions and never changes what they compute.       *)
THEOREM AdmissionSerializable == AdmSpec => ImplementsSerial
<1>1. AdmInit => Serial!Init
  BY DEF AdmInit, Init, Serial!Init
<1>2. IndInv /\ MemInv /\ ValidationInv /\ ReplayInv /\ [AdmNext]_<<vars, admVars>>
        => [Serial!Next]_<<storage, result>>
  <2> SUFFICES ASSUME IndInv, MemInv, ValidationInv, ReplayInv, [AdmNext]_<<vars, admVars>>
               PROVE  [Serial!Next]_<<storage, result>>
    OBVIOUS
  <2>1. CASE [Next]_vars
    BY <2>1, SerialStep DEF IndInv
  <2>2. CASE \E w \in Workers : Retreat(w) /\ UNCHANGED <<memory, views, outcome>>
    BY <2>2 DEF outcome
  <2> QED BY <2>1, <2>2, AdmissionSimulation
<1> QED BY <1>1, <1>2, AdmissionInvariant, PTL DEF AdmSpec, ImplementsSerial, Serial!Spec

(* CheckDone is right under the limiter too, inside the mutex or outside   *)
(* it: the block ends only when every transaction is EXECUTED.             *)
THEOREM AdmissionCompletion == AdmSpec => []DoneIsQuiescent
<1>1. IndInv => DoneIsQuiescent
  BY DEF IndInv, CoreInv, DoneInv
<1> QED BY <1>1, AdmissionInvariant, PTL

(* A reader waiting for an estimate loses no wake-up under the limiter,    *)
(* whose mutex FinishExecution now holds while it resumes the readers.     *)
THEOREM AdmissionWakeup == AdmSpec => []NoLostWakeup
<1>1. IndInv => NoLostWakeup
  BY DEF IndInv, CoreInv, TaskInv, WorkerTask, WakeInv, WillWake, NoLostWakeup
<1> QED BY <1>1, AdmissionInvariant, PTL

(***************************************************************************)
(* The window                                                              *)
(***************************************************************************)
(* The prefix only grows, and stays in the block.                          *)
LEMMA AdvanceBounds ==
  ASSUME NEW s \in 0 .. BlockSize, NEW flags
  PROVE  Advance(s, flags) \in s .. BlockSize
<1> DEFINE S == {i \in s .. BlockSize : i = BlockSize \/ ~ flags[i]}
<1>1. S \subseteq Nat /\ BlockSize \in S
  BY BlockSizeAssumption
<1>2. PICK m \in S : \A y \in S : ~ (<<y, m>> \in OpToRel(<, Nat))
  <2> HIDE DEF S
  <2> QED BY <1>1, NatLessThanWellFounded, WFMin
<1>3. ASSUME NEW y \in S PROVE m <= y
  <2>1. y \in Nat /\ m \in Nat
    BY <1>1
  <2>2. ~ (y < m)
    BY <1>2, <2>1 DEF OpToRel
  <2> QED BY <2>1, <2>2
<1>4. Min(S) \in S
  <2> HIDE DEF S
  <2> QED BY <1>2, <1>3 DEF Min
<1> QED BY <1>4 DEF Advance

(* How the frozen scheduler moves between the admission and the increment. *)
LEMMA WindowFrame ==
  ASSUME SchedTypeOK, NEW w \in Workers, SchedulerStep(w)
  PROVE  /\ \A v \in Workers : v # w => pc'[v] = pc[v]
         /\ execution_idx' = IF pc[w] = "neAdd" THEN execution_idx + 1 ELSE execution_idx
         /\ pc'[w] = "neIncr" => pc[w] = "neCheck"
         /\ pc[w] = "neIncr" <=> pc'[w] = "neAdd"
<1> USE DEF SchedTypeOK, counters, statusVars, waitVars, taskVars, sharedVars, Goto, Observe, SetTask
<1>1. CASE RunLoop(w) BY <1>1 DEF RunLoop
<1>2. CASE LoadValidationIdx(w) \/ LoadExecutionIdx(w)
  BY <1>2 DEF LoadValidationIdx, LoadExecutionIdx
<1>3. CASE ValidateCheck(w) \/ ValidateIncr(w) \/ ValidateFetch(w)
  BY <1>3 DEF ValidateCheck, ValidateIncr, ValidateFetch
<1>4. CASE ValidateStatus(w) BY <1>4 DEF ValidateStatus
<1>5. CASE ExecuteCheck(w) \/ ExecuteIncr(w) \/ ExecuteAdd(w)
  BY <1>5 DEF ExecuteCheck, ExecuteIncr, ExecuteAdd
<1>6. CASE TryIncarnate(w) BY <1>6 DEF TryIncarnate
<1>7. CASE DecrActive(w) BY <1>7 DEF DecrActive
<1>8. CASE CheckDoneCount(w) \/ CheckDoneStore(w)
  BY <1>8 DEF CheckDoneCount, CheckDoneStore
<1>9. CASE CheckDoneLoads(w) BY <1>9 DEF CheckDoneLoads
<1>10. CASE LockDependency(w) \/ Suspend(w) \/ WakeUp(w)
  BY <1>10 DEF LockDependency, Suspend, WakeUp
<1>11. CASE SetExecuted(w) \/ SwapDependents(w)
  BY <1>11 DEF SetExecuted, SwapDependents
<1>12. CASE \E d \in deps[w] : Resume(w, d)
  BY <1>12 DEF Resume
<1>13. CASE AfterResume(w) BY <1>13 DEF AfterResume
<1>14. CASE StoreMin(w) \/ CountDecrease(w)
  BY <1>14 DEF StoreMin, CountDecrease
<1>15. CASE TryValidationAbort(w) BY <1>15 DEF TryValidationAbort
<1>16. CASE SetReadyStatus(w) \/ RetryAborted(w)
  BY <1>16 DEF SetReadyStatus, RetryAborted
<1> QED
  BY <1>1, <1>2, <1>3, <1>4, <1>5, <1>6, <1>7, <1>8, <1>9, <1>10, <1>11, <1>12, <1>13,
     <1>14, <1>15, <1>16 DEF SchedulerStep

(* Only ExecuteCheck starts at "neCheck".                                  *)
LEMMA NeCheckStep ==
  ASSUME NEW w \in Workers, SchedulerStep(w), pc[w] = "neCheck"
  PROVE  ExecuteCheck(w)
BY DEF SchedulerStep, Goto, RunLoop, LoadValidationIdx, LoadExecutionIdx, ValidateCheck,
   ValidateIncr, ValidateFetch, ValidateStatus, ExecuteIncr, ExecuteAdd, TryIncarnate, DecrActive,
   CheckDoneCount, CheckDoneLoads, CheckDoneStore, LockDependency, Suspend, WakeUp, SetExecuted,
   SwapDependents, Resume, AfterResume, StoreMin, CountDecrease, TryValidationAbort,
   SetReadyStatus, RetryAborted

(* The steps on the memory are away from both.                             *)
LEMMA DataFrame ==
  ASSUME SchedTypeOK, NEW w \in Workers, DataStep(w)
  PROVE  /\ \A v \in Workers : v # w => pc'[v] = pc[v]
         /\ execution_idx' = execution_idx
         /\ pc[w] \notin {"neIncr", "neAdd"} /\ pc'[w] \notin {"neIncr", "neAdd"}
<1> USE DEF SchedTypeOK, schedVars, counters, statusVars, waitVars, taskVars, sharedVars, Goto
<1>1. CASE Get(w) BY <1>1 DEF Get, MeetEstimate
<1>2. CASE \E k \in Keys : ApplyWriteSet(w, k) \/ RemoveUnwritten(w, k) \/ MarkEstimate(w, k)
  BY <1>2 DEF ApplyWriteSet, WriteKey, RemoveUnwritten, RemoveKey, MarkEstimate, Returned
<1>3. CASE Record(w) BY <1>3 DEF Record, Publish, Recorded
<1>4. CASE LoadReadSet(w) BY <1>4 DEF LoadReadSet
<1>5. CASE \E d \in unchecked[w] : CheckRead(w, d)
  BY <1>5 DEF CheckRead, Verdict, Validated
<1>6. CASE ReadSetValid(w) BY <1>6 DEF ReadSetValid, Verdict, Validated
<1>7. CASE AllMarked(w) BY <1>7 DEF AllMarked, Converted
<1> QED BY <1>1, <1>2, <1>3, <1>4, <1>5, <1>6, <1>7 DEF DataStep

(* Letting the prefix grow makes room.                                     *)
LEMMA RoomGrows ==
  ASSUME NEW e \in Nat, NEW l \in Nat, NEW s1 \in Nat, NEW s2 \in Nat, s1 <= s2
  PROVE  /\ e - s1 <= l => e - s2 <= l
         /\ e - s1 < l => e - s2 < l
OBVIOUS

(* Invalidating keeps the types of the window.                             *)
LEMMA InvalidateTypes ==
  ASSUME AdmTypeOK, NEW first, InvalidateFrom(first)
  PROVE  generation' \in Nat /\ epoch' \in [Txns -> Nat] /\ passed' \in [Txns -> BOOLEAN]
<1>1. generation' \in Nat
  BY DEF AdmTypeOK, InvalidateFrom
<1>2. epoch' \in [Txns -> Nat]
  BY DEF AdmTypeOK, InvalidateFrom
<1>3. passed' \in [Txns -> BOOLEAN]
  <2>1. \A t \in Txns : (passed[t] /\ ~ (first <= t /\ t < execution_idx)) \in BOOLEAN
    BY DEF AdmTypeOK
  <2> QED BY <2>1 DEF InvalidateFrom
<1> QED BY <1>1, <1>2, <1>3

(* Every step of the limited kernel preserves the invariant of the window. *)
LEMMA WindowStep ==
  ASSUME IndInv, WindowInv, [AdmNext]_<<vars, admVars>>
  PROVE  WindowInv'
<1> USE LimitAssumption, BlockSizeAssumption
<1>0. /\ SchedTypeOK /\ execution_idx \in Nat /\ stable \in 0 .. BlockSize /\ peak \in Nat
      /\ BlockSize \in Nat /\ Limit \in Nat
  BY DEF IndInv, CoreInv, SchedTypeOK, WindowInv, AdmTypeOK
<1>1. CASE UNCHANGED <<vars, admVars>>
  BY <1>1 DEF WindowInv, AdmTypeOK, WindowBound, StalledIsFull, Allows, vars, schedVars,
     counters, admVars, window
<1>2. CASE UNCHANGED <<pc, execution_idx, admVars>>
  BY <1>2 DEF WindowInv, AdmTypeOK, WindowBound, StalledIsFull, Allows, admVars, window
<1>3. CASE AdmReturn \/ AdmCancel \/ AdmFinished
  BY <1>2, <1>3 DEF AdmReturn, AdmCancel, AdmFinished, Return, CancelBlock, Cancel, Finished,
     vars, schedVars, counters
<1>4. ASSUME NEW w \in Workers, Base(w) PROVE WindowInv'
  <2>1. SchedulerStep(w) /\ UNCHANGED window
    BY <1>4 DEF Base, ControlStep
  <2>2. /\ \A v \in Workers : v # w => pc'[v] = pc[v]
        /\ execution_idx' = IF pc[w] = "neAdd" THEN execution_idx + 1 ELSE execution_idx
        /\ pc'[w] # "neIncr" /\ (pc[w] = "neIncr" <=> pc'[w] = "neAdd")
    BY <1>0, <1>4, <2>1, WindowFrame DEF Base
  <2>3. AdmTypeOK'
    BY <1>4, <2>1 DEF Base, WindowInv, AdmTypeOK, window, Woken
  <2>4. pc[w] = "neAdd" => Allows(execution_idx) /\ mu = w
    BY DEF WindowInv
  <2>5. execution_idx' - stable' <= Limit /\ peak' <= Limit
    BY <1>0, <2>1, <2>2, <2>4 DEF WindowInv, WindowBound, Allows, window
  <2>6. ASSUME NEW v \in Workers, stage'[v] = "stalled" PROVE execution_idx' - stable' = Limit
    <3>1. stage[v] = "stalled"
      BY <1>4, <2>6 DEF Base, Woken, WindowInv, AdmTypeOK
    <3>2. execution_idx - stable = Limit
      BY <3>1 DEF WindowInv, StalledIsFull
    <3>3. pc[w] # "neAdd"
      BY <1>0, <2>4, <3>2 DEF Allows
    <3> QED BY <2>1, <2>2, <3>2, <3>3 DEF window
  <2>7. ASSUME NEW v \in Workers, pc'[v] \in {"neIncr", "neAdd"}
        PROVE  mu' = v /\ execution_idx' - stable' < Limit
    <3>1. pc[v] \in {"neIncr", "neAdd"} /\ (v = w => pc[w] = "neIncr")
      BY <2>2, <2>7
    <3>2. mu = v /\ execution_idx - stable < Limit
      BY <3>1 DEF WindowInv, Allows
    <3>3. pc[w] # "neAdd"
      BY <2>4, <3>1, <3>2
    <3>4. mu' = v
      BY <1>4, <2>7, <3>1, <3>2, WorkersAssumption DEF Base
    <3> QED BY <2>1, <2>2, <3>2, <3>3, <3>4 DEF window
  <2> QED BY <2>3, <2>5, <2>6, <2>7 DEF WindowInv, WindowBound, StalledIsFull, Allows
<1>5. ASSUME NEW w \in Workers, Data(w) PROVE WindowInv'
  <2>1. /\ \A v \in Workers : v # w => pc'[v] = pc[v]
        /\ execution_idx' = execution_idx
        /\ pc'[w] \notin {"neIncr", "neAdd"}
    BY <1>0, <1>5, DataFrame DEF Data
  <2>2. AdmTypeOK'
    BY <1>5 DEF Data, WindowInv, AdmTypeOK, window, NoClaim
  <2>3. ASSUME NEW v \in Workers, stage'[v] = "stalled" PROVE stage[v] = "stalled"
    BY <1>5, <2>3 DEF Data, WindowInv, AdmTypeOK
  <2> QED BY <1>5, <2>1, <2>2, <2>3 DEF Data, WindowInv, WindowBound, StalledIsFull, Allows, window
<1>6. ASSUME NEW w \in Workers, Admit(w) PROVE WindowInv'
  <2>1. SchedulerStep(w) /\ UNCHANGED <<stable, passed, epoch, generation, stage, claim>>
    BY <1>6 DEF Admit, ControlStep
  <2>2. /\ \A v \in Workers : v # w => pc'[v] = pc[v]
        /\ execution_idx' = execution_idx
        /\ pc'[w] # "neAdd" /\ pc[w] = "neCheck" /\ mu = NoWorker
    BY <1>0, <1>6, <2>1, WindowFrame DEF Admit
  <2>3. ExecuteCheck(w)
    BY <1>0, <2>1, <2>2, NeCheckStep
  <2>4. pc'[w] = "neIncr" => execution_idx < BlockSize
    BY <1>0, <2>2, <2>3 DEF ExecuteCheck, Goto, SchedTypeOK
  <2>5. AdmTypeOK' /\ peak' <= Limit
    BY <1>0, <1>6, <2>1 DEF Admit, WindowInv, WindowBound, AdmTypeOK, Allows
  <2>6. ASSUME NEW v \in Workers, pc'[v] \in {"neIncr", "neAdd"}
        PROVE  v = w
    BY <2>2, <2>6, WorkersAssumption DEF WindowInv
  <2>7. pc'[w] = "neIncr" => mu' = w /\ Allows(execution_idx)
    BY <1>6, <2>4 DEF Admit
  <2> QED
    BY <2>1, <2>2, <2>5, <2>6, <2>7 DEF WindowInv, WindowBound, StalledIsFull, Allows
<1>7. ASSUME NEW w \in Workers, Stall(w) PROVE WindowInv'
  <2>1. /\ \A v \in Workers : v # w => pc'[v] = pc[v]
        /\ pc'[w] = "loop"
        /\ UNCHANGED <<execution_idx, mu, window, claim>>
        /\ stage' = [stage EXCEPT ![w] = "stalled"]
        /\ execution_idx - stable >= Limit
    BY <1>0, <1>7 DEF Stall, Retreat, Goto, sharedVars, counters, SchedTypeOK, Allows
  <2>2. execution_idx - stable = Limit
    BY <1>0, <2>1 DEF WindowInv, WindowBound
  <2> QED
    BY <2>1, <2>2 DEF WindowInv, AdmTypeOK, WindowBound, StalledIsFull, Allows, window
<1>8. ASSUME NEW w \in Workers, StallEnds(w) PROVE WindowInv'
  BY <1>8 DEF StallEnds, WindowInv, AdmTypeOK, WindowBound, StalledIsFull, Allows, window, vars,
     schedVars, counters
<1>9. ASSUME NEW w \in Workers, StallCancelled(w) PROVE WindowInv'
  <2>1. SchedulerStep(w) /\ UNCHANGED <<mu, window, claim>> /\ stage' = [stage EXCEPT ![w] = "none"]
    BY <1>9 DEF StallCancelled, ControlStep
  <2>2. pc[w] = "loop"
    BY <1>9 DEF StallCancelled
  <2>3. /\ \A v \in Workers : v # w => pc'[v] = pc[v]
        /\ execution_idx' = execution_idx
        /\ pc'[w] \notin {"neIncr", "neAdd"}
    BY <1>0, <2>1, <2>2, WindowFrame
  <2> QED
    BY <2>1, <2>3 DEF WindowInv, AdmTypeOK, WindowBound, StalledIsFull, Allows, window
<1>10. ASSUME NEW w \in Workers, LockFinish(w) PROVE WindowInv'
  <2>1. UNCHANGED <<pc, execution_idx, stage, claim, stable, peak>> /\ mu = NoWorker /\ mu' = w
    BY <1>10 DEF LockFinish, InvalidateFrom, window, vars, schedVars, counters
  <2>2. generation' \in Nat /\ epoch' \in [Txns -> Nat] /\ passed' \in [Txns -> BOOLEAN]
    BY <1>10, InvalidateTypes DEF LockFinish, window, WindowInv, AdmTypeOK
  <2>3. AdmTypeOK'
    BY <2>1, <2>2 DEF WindowInv, AdmTypeOK
  <2>4. \A v \in Workers : pc[v] \notin {"neIncr", "neAdd"}
    BY <2>1, WorkersAssumption DEF WindowInv
  <2> QED BY <2>1, <2>3, <2>4 DEF WindowInv, WindowBound, StalledIsFull
<1>11. ASSUME NEW w \in Workers, ValidationToken(w) PROVE WindowInv'
  <2>1. txn[w] \in Txns /\ txn[w] \in Nat /\ inc[w] \in Nat
    BY <1>0, <1>11 DEF ValidationToken, IndInv, CoreInv, TaskInv, WorkerTask, SchedTypeOK
  <2>2. [txn |-> txn[w], inc |-> inc[w], token |-> epoch[txn[w]]]
          \in [txn : Nat, inc : Nat, token : Nat]
    BY <2>1 DEF WindowInv, AdmTypeOK
  <2>3. AdmTypeOK'
    BY <1>11, <2>2 DEF ValidationToken, WindowInv, AdmTypeOK, window
  <2>4. \A v \in Workers : stage'[v] = "stalled" => stage[v] = "stalled"
    BY <1>11 DEF ValidationToken, WindowInv, AdmTypeOK
  <2> QED
    BY <1>11, <2>3, <2>4 DEF ValidationToken, WindowInv, WindowBound, StalledIsFull,
       Allows, window, vars, schedVars, counters
<1>12. ASSUME NEW w \in Workers, AnnounceAbort(w) PROVE WindowInv'
  BY <1>12 DEF AnnounceAbort, InvalidateFrom, Woken, WindowInv, AdmTypeOK, WindowBound,
     StalledIsFull, Allows, window, vars, schedVars, counters
<1>13. ASSUME NEW w \in Workers, Pass(w) PROVE WindowInv'
  <2>1. UNCHANGED <<pc, execution_idx, mu, epoch, generation, peak>>
    BY <1>13 DEF Pass, vars, schedVars, counters
  <2>2. stable' \in stable .. BlockSize
    BY <1>0, <1>13, AdvanceBounds DEF Pass
  <2>3. AdmTypeOK'
    <3>1. stable' \in 0 .. BlockSize
      BY <1>0, <2>2
    <3>2. passed' \in [Txns -> BOOLEAN]
      BY <1>13 DEF Pass, WindowInv, AdmTypeOK
    <3>3. stage' \in [Workers -> {"none", "stalled", "woken", "token", "valid", "announced"}]
      BY <1>13 DEF Pass, Woken, WindowInv, AdmTypeOK
    <3>4. claim' \in [Workers -> [txn : Nat, inc : Nat, token : Nat]]
      BY <1>13 DEF Pass, NoClaim, WindowInv, AdmTypeOK
    <3> QED BY <2>1, <3>1, <3>2, <3>3, <3>4 DEF WindowInv, AdmTypeOK
  <2>4. ASSUME NEW v \in Workers, stage'[v] = "stalled" PROVE stage[v] = "stalled" /\ stable' = stable
    BY <1>13, <2>4 DEF Pass, Woken, WindowInv, AdmTypeOK
  <2>5. stable \in Nat /\ stable' \in Nat /\ stable <= stable'
    BY <1>0, <2>2
  <2>6. execution_idx' - stable' <= Limit /\ peak' <= Limit
    <3>1. execution_idx - stable <= Limit /\ peak <= Limit
      BY DEF WindowInv, WindowBound
    <3>2. execution_idx' = execution_idx /\ peak' = peak
      BY <2>1
    <3>3. execution_idx \in Nat /\ Limit \in Nat
      BY <1>0
    <3> QED BY <2>5, <3>1, <3>2, <3>3, RoomGrows
  <2>7. ASSUME NEW v \in Workers, pc'[v] \in {"neIncr", "neAdd"}
        PROVE  mu' = v /\ execution_idx' - stable' < Limit
    <3>1. mu = v /\ execution_idx - stable < Limit
      BY <2>1, <2>7 DEF WindowInv, Allows
    <3>2. execution_idx' = execution_idx /\ mu' = mu
      BY <2>1
    <3>3. execution_idx \in Nat /\ Limit \in Nat
      BY <1>0
    <3> QED BY <2>5, <3>1, <3>2, <3>3, RoomGrows
  <2>8. ASSUME NEW v \in Workers, stage'[v] = "stalled" PROVE execution_idx' - stable' = Limit
    BY <2>1, <2>4, <2>8 DEF WindowInv, StalledIsFull
  <2> QED BY <2>3, <2>6, <2>7, <2>8 DEF WindowInv, WindowBound, StalledIsFull, Allows
<1> QED
  BY <1>1, <1>3, <1>4, <1>5, <1>6, <1>7, <1>8, <1>9, <1>10, <1>11, <1>12, <1>13
  DEF AdmNext, AdmStep

(* The invariant of the window holds throughout.                           *)
LEMMA WindowInvariant == AdmSpec => []WindowInv
<1>1. AdmInit => WindowInv
  BY LimitAssumption, BlockSizeAssumption DEF AdmInit, Init, SchedInit, WindowInv, AdmTypeOK,
     WindowBound, StalledIsFull, NoClaim
<1>2. IndInv /\ WindowInv /\ [AdmNext]_<<vars, admVars>> => WindowInv'
  BY WindowStep
<1> QED BY <1>1, <1>2, AdmissionInvariant, PTL DEF AdmSpec

(* At most Limit transactions are admitted beyond the stable prefix.       *)
THEOREM WindowCorrect == AdmSpec => []WindowBound
<1>1. WindowInv => WindowBound
  BY DEF WindowInv
<1> QED BY <1>1, WindowInvariant, PTL

(* A worker that sleeps unnotified sleeps because the window is full.      *)
THEOREM StallCorrect == AdmSpec => []StalledIsFull
<1>1. WindowInv => StalledIsFull
  BY DEF WindowInv
<1> QED BY <1>1, WindowInvariant, PTL
=============================================================================
