---------------------------- MODULE PolicyProofs ----------------------------
(***************************************************************************)
(* The policy kernel keeps what is proved of the frozen kernel, and its    *)
(* queues, its gate and its idle workers are in order: for every block,    *)
(* every set of policies and every finite set of workers.                  *)
(***************************************************************************)
EXTENDS PolicyInv, BlockSTMProofs

(***************************************************************************)
(* Lines                                                                   *)
(***************************************************************************)
\* R orders the finite set S totally.
Orders(R, S) ==
  /\ IsFiniteSet(S)
  /\ \A x \in S : <<x, x>> \notin R
  /\ \A x, y \in S : x # y => <<x, y>> \in R \/ <<y, x>> \in R
  /\ \A x, y, z \in S : <<x, y>> \in R /\ <<y, z>> \in R => <<x, z>> \in R

(* A line of the members of S holds each of them once.                     *)
LEMMA LineOnce ==
  ASSUME NEW S, NEW R, Orders(R, S)
  PROVE  /\ Line(S, R) \in Seq(S)
         /\ Range(Line(S, R)) = S
         /\ IsInjective(Line(S, R))
<1> DEFINE below(x) == {v \in S : <<v, x>> \in R}
           n == Cardinality(S)
           T == 0 .. n - 1
           rank == [x \in S |-> Cardinality(below(x))]
<1>1. IsFiniteSet(S) /\ n \in Nat
  BY FS_CardinalityType DEF Orders
<1>2. ASSUME NEW x \in S PROVE IsFiniteSet(below(x)) /\ rank[x] \in Nat
  <2>1. IsFiniteSet(below(x)) BY <1>1, FS_Subset
  <2> QED BY <2>1, FS_CardinalityType
<1>3. ASSUME NEW x \in S PROVE rank[x] \in T
  <2>1. IsFiniteSet(S \ {x}) /\ Cardinality(S \ {x}) = n - 1
    BY <1>1, FS_RemoveElement
  <2>2. below(x) \in SUBSET (S \ {x})
    BY DEF Orders
  <2>3. Cardinality(below(x)) <= n - 1
    <3> HIDE DEF below, n
    <3>1. Cardinality(below(x)) <= Cardinality(S \ {x}) BY <2>1, <2>2, FS_Subset
    <3> QED BY <2>1, <3>1
  <2> QED BY <1>1, <1>2, <2>3
<1>4. ASSUME NEW x \in S, NEW y \in S, <<x, y>> \in R PROVE rank[x] < rank[y]
  <2>1. below(x) \cup {x} \in SUBSET below(y) /\ x \notin below(x)
    BY <1>4 DEF Orders
  <2>2. Cardinality(below(x) \cup {x}) = Cardinality(below(x)) + 1
    BY <1>2, <2>1, FS_AddElement
  <2>3. Cardinality(below(x) \cup {x}) <= Cardinality(below(y))
    BY <1>2, <2>1, FS_Subset
  <2> HIDE DEF below
  <2> QED BY <1>2, <2>2, <2>3
<1>5. ASSUME NEW x \in S, NEW y \in S, rank[x] = rank[y] PROVE x = y
  <2>1. rank[x] \in Nat /\ ~ (rank[x] < rank[y]) /\ ~ (rank[y] < rank[x])
    BY <1>2, <1>5
  <2>2. x # y => <<x, y>> \in R \/ <<y, x>> \in R BY DEF Orders
  <2> HIDE DEF rank
  <2> QED BY <1>4, <2>1, <2>2
<1>6. rank \in Injection(S, T)
  <2>1. rank \in [S -> T] BY <1>3
  <2> HIDE DEF rank, T
  <2> QED BY <1>5, <2>1 DEF Injection, IsInjective
<1>7. IsFiniteSet(T) /\ Cardinality(T) = n
  BY <1>1, FS_Interval
<1>8. rank \in Surjection(S, T)
  BY <1>1, <1>6, <1>7, FS_Injection
<1>9. ASSUME NEW i \in 1 .. n
      PROVE  Line(S, R)[i] \in S /\ rank[Line(S, R)[i]] = i - 1
  <2>1. i - 1 \in T BY <1>1
  <2>2. PICK x \in S : rank[x] = i - 1
    BY <1>8, <2>1 DEF Surjection
  <2>3. \E u \in S : Cardinality({v \in S : <<v, u>> \in R}) = i - 1 BY <2>2
  <2> QED BY <2>3 DEF Line
<1>10. Line(S, R) \in [1 .. n -> S]
  <2>1. DOMAIN Line(S, R) = 1 .. n /\ Line(S, R) = [i \in DOMAIN Line(S, R) |-> Line(S, R)[i]]
    <3> DEFINE f(i) == CHOOSE u \in S : Cardinality({v \in S : <<v, u>> \in R}) = i - 1
    <3>1. Line(S, R) = [i \in 1 .. n |-> f(i)] BY DEF Line
    <3> HIDE DEF f
    <3> QED BY <3>1
  <2> QED BY <1>9, <2>1
<1>11. Line(S, R) \in Seq(S)
  BY <1>1, <1>10
<1>12. ASSUME NEW x \in S PROVE x \in Range(Line(S, R))
  <2>1. rank[x] + 1 \in 1 .. n /\ (rank[x] + 1) - 1 = rank[x]
    BY <1>1, <1>3
  <2>2. rank[Line(S, R)[rank[x] + 1]] = rank[x] /\ Line(S, R)[rank[x] + 1] \in S
    BY <1>9, <2>1
  <2>3. Line(S, R)[rank[x] + 1] = x
    BY <1>5, <2>2
  <2> QED BY <1>10, <2>1, <2>3 DEF Range
<1>13. IsInjective(Line(S, R))
  <2> SUFFICES ASSUME NEW i \in 1 .. n, NEW j \in 1 .. n, Line(S, R)[i] = Line(S, R)[j]
               PROVE  i = j
    BY <1>10 DEF IsInjective
  <2>1. i - 1 = j - 1 BY <1>9
  <2> QED BY <1>1, <2>1
<1>14. Range(Line(S, R)) \subseteq S
  BY <1>10 DEF Range
<1> QED BY <1>11, <1>12, <1>13, <1>14

(***************************************************************************)
(* The worker's place in the wrapping code                                 *)
(***************************************************************************)
(* A step of the frozen scheduler takes the worker on as WorkerStage says. *)
LEMMA BaseStage ==
  ASSUME CoreInv, PolTypeOK, StageInv, NEW w \in Workers, Base(w),
         UNCHANGED policy
  PROVE  WorkerStage(w)'
<1> USE DEF CoreInv, SchedTypeOK, TaskInv, WorkerTask, counters, statusVars, waitVars, taskVars,
        sharedVars, Goto, Observe, SetTask, WorkerStage, FinishPCs, AbortPCs
<1> DEFINE next == CASE pc[w] = "neAdd" /\ execution_idx < BlockSize -> "gate"
             [] pc[w] = "incarnate" /\ stage[w] = "gate" -> "none"
             [] pc[w] = "setExecuted" -> "finishing"
             [] pc[w] = "decr" /\ kind[w] = "none" /\ stage[w] = "none" -> "idle"
             [] pc[w] \in {"cdExec", "cdVal", "cdActive", "cdRecount", "cdStore"} /\ pc'[w] = "loop" -> "checked"
             [] OTHER -> stage[w]
<1>a. SchedulerStep(w) /\ WorkerStage(w) /\ WorkerTask(w)
  BY DEF Base, ControlStep, StageInv
<1>b. stage'[w] = next /\ own'[w] = IF pc[w] = "setExecuted" THEN txn[w] ELSE own[w]
  BY DEF Base, At, PolTypeOK
<1>c. /\ pc[w] = "loop" => stage[w] = "none"
      /\ pc[w] = "depend" => EstimateRead # "abort_and_reschedule"
      /\ EstimateRead' = EstimateRead
  BY DEF Base, EstimateRead
<1>1. CASE RunLoop(w)
  BY <1>1, <1>a, <1>b, <1>c, TxnIndices DEF RunLoop
<1>2. CASE LoadValidationIdx(w)
  BY <1>2, <1>a, <1>b, <1>c, TxnIndices DEF LoadValidationIdx
<1>3. CASE LoadExecutionIdx(w)
  BY <1>3, <1>a, <1>b, <1>c, TxnIndices DEF LoadExecutionIdx
<1>4. CASE ValidateCheck(w)
  BY <1>4, <1>a, <1>b, <1>c, TxnIndices DEF ValidateCheck
<1>5. CASE ValidateIncr(w)
  BY <1>5, <1>a, <1>b, <1>c, TxnIndices DEF ValidateIncr
<1>6. CASE ValidateFetch(w)
  BY <1>6, <1>a, <1>b, <1>c, TxnIndices DEF ValidateFetch
<1>7. CASE ValidateStatus(w)
  BY <1>7, <1>a, <1>b, <1>c, TxnIndices DEF ValidateStatus
<1>8. CASE ExecuteCheck(w)
  BY <1>8, <1>a, <1>b, <1>c, TxnIndices DEF ExecuteCheck
<1>9. CASE ExecuteIncr(w)
  BY <1>9, <1>a, <1>b, <1>c, TxnIndices DEF ExecuteIncr
<1>10. CASE ExecuteAdd(w)
  BY <1>10, <1>a, <1>b, <1>c, TxnIndices DEF ExecuteAdd
<1>11. CASE TryIncarnate(w)
  BY <1>11, <1>a, <1>b, <1>c, TxnIndices DEF TryIncarnate
<1>12. CASE DecrActive(w)
  BY <1>12, <1>a, <1>b, <1>c, TxnIndices DEF DecrActive
<1>13. CASE CheckDoneCount(w)
  BY <1>13, <1>a, <1>b, <1>c, TxnIndices DEF CheckDoneCount
<1>14. CASE CheckDoneLoads(w)
  BY <1>14, <1>a, <1>b, <1>c, TxnIndices DEF CheckDoneLoads
<1>15. CASE CheckDoneStore(w)
  BY <1>15, <1>a, <1>b, <1>c, TxnIndices DEF CheckDoneStore
<1>16. CASE LockDependency(w)
  BY <1>16, <1>a, <1>b, <1>c, TxnIndices DEF LockDependency
<1>17. CASE Suspend(w)
  BY <1>17, <1>a, <1>b, <1>c, TxnIndices DEF Suspend
<1>18. CASE WakeUp(w)
  BY <1>18, <1>a, <1>b, <1>c, TxnIndices DEF WakeUp
<1>19. CASE SetExecuted(w)
  BY <1>19, <1>a, <1>b, <1>c, TxnIndices DEF SetExecuted
<1>20. CASE SwapDependents(w)
  BY <1>20, <1>a, <1>b, <1>c, TxnIndices DEF SwapDependents
<1>21. ASSUME NEW d0 \in deps[w], Resume(w, d0) PROVE WorkerStage(w)'
  BY <1>21, <1>a, <1>b, <1>c, TxnIndices DEF Resume
<1>22. CASE AfterResume(w)
  BY <1>22, <1>a, <1>b, <1>c, TxnIndices DEF AfterResume
<1>23. CASE StoreMin(w)
  BY <1>23, <1>a, <1>b, <1>c, TxnIndices DEF StoreMin
<1>24. CASE CountDecrease(w)
  BY <1>24, <1>a, <1>b, <1>c, TxnIndices DEF CountDecrease
<1>25. CASE TryValidationAbort(w)
  BY <1>25, <1>a, <1>b, <1>c, TxnIndices DEF TryValidationAbort
<1>26. CASE SetReadyStatus(w)
  BY <1>26, <1>a, <1>b, <1>c, TxnIndices DEF SetReadyStatus
<1>27. CASE RetryAborted(w)
  BY <1>27, <1>a, <1>b, <1>c, TxnIndices DEF RetryAborted
<1> QED
  BY <1>1, <1>2, <1>3, <1>4, <1>5, <1>6, <1>7, <1>8, <1>9, <1>10, <1>11, <1>12,
     <1>13, <1>14, <1>15, <1>16, <1>17, <1>18, <1>19, <1>20, <1>21, <1>22, <1>23,
     <1>24, <1>25, <1>26, <1>27, <1>a DEF SchedulerStep

(* Where the steps on the memory lead.                                     *)
LEMMA DataTargets ==
  ASSUME CoreInv, NEW w \in Workers, DataStep(w)
  PROVE  /\ UNCHANGED <<obs, execution_idx, validation_idx, num_active_tasks, kind, txn, inc, status,
                       incarnation, done_marker, cancelled, storage, result>>
         /\ \A v \in Workers : v # w => pc'[v] = pc[v]
         /\ pc[w] \in {"exec", "validate", "convert"}
         /\ pc[w] = "exec" => pc'[w] \in {"exec", "depend", "setExecuted"}
         /\ pc[w] = "convert" => pc'[w] \in {"convert", "setReady"}
         /\ pc[w] = "validate" => pc'[w] \in {"validate", "decr", "tryAbort"}
<1> USE DEF CoreInv, SchedTypeOK, counters, statusVars, waitVars, taskVars, sharedVars, schedVars, outcome, Goto
<1> DEFINE G == /\ UNCHANGED <<obs, execution_idx, validation_idx, num_active_tasks, kind, txn, inc, status,
                              incarnation, done_marker, cancelled, storage, result>>
                /\ \A v \in Workers : v # w => pc'[v] = pc[v]
                /\ pc[w] \in {"exec", "validate", "convert"}
                /\ pc[w] = "exec" => pc'[w] \in {"exec", "depend", "setExecuted"}
                /\ pc[w] = "convert" => pc'[w] \in {"convert", "setReady"}
                /\ pc[w] = "validate" => pc'[w] \in {"validate", "decr", "tryAbort"}
<1>1. CASE Get(w)
  BY <1>1 DEF Get, MeetEstimate
<1>2. ASSUME NEW k \in Keys, ApplyWriteSet(w, k) PROVE G
  BY <1>2 DEF ApplyWriteSet, WriteKey, Returned
<1>3. ASSUME NEW k \in Keys, RemoveUnwritten(w, k) PROVE G
  BY <1>3 DEF RemoveUnwritten, RemoveKey, Returned
<1>4. ASSUME NEW k \in Keys, MarkEstimate(w, k) PROVE G
  BY <1>4 DEF MarkEstimate
<1>5. CASE Record(w)
  BY <1>5 DEF Record, Publish, Recorded
<1>6. CASE LoadReadSet(w)
  BY <1>6 DEF LoadReadSet
<1>7. ASSUME NEW d \in unchecked[w], CheckRead(w, d) PROVE G
  BY <1>7 DEF CheckRead, Verdict, Validated
<1>8. CASE ReadSetValid(w)
  BY <1>8 DEF ReadSetValid, Verdict, Validated
<1>9. CASE AllMarked(w)
  BY <1>9 DEF AllMarked, Converted
<1> QED BY <1>1, <1>2, <1>3, <1>4, <1>5, <1>6, <1>7, <1>8, <1>9 DEF DataStep

(* A worker stands where it stood if nobody moves it, or it is woken.      *)
LEMMA StageKept ==
  ASSUME NEW v \in Workers, WorkerStage(v), EstimateRead' = EstimateRead,
         pc'[v] = pc[v], kind'[v] = kind[v], obs'[v] = obs[v], own'[v] = own[v],
         stage'[v] = stage[v] \/ (stage[v] = "parked" /\ stage'[v] = "woken")
  PROVE  WorkerStage(v)'
<1>1. CASE stage'[v] = stage[v] BY <1>1 DEF WorkerStage
<1>2. CASE stage[v] = "parked" /\ stage'[v] = "woken"
  BY <1>2 DEF WorkerStage, AbortPCs
<1> QED BY <1>1, <1>2

(* And so does every step of the policy kernel.                            *)
LEMMA StageStep ==
  ASSUME CoreInv, MemoryShape, PolTypeOK, StageInv, [PolNext]_<<vars, polVars>>
  PROVE  StageInv'
<1> USE DEF CoreInv, SchedTypeOK, TaskInv, WorkerTask, counters, statusVars, waitVars, taskVars,
        sharedVars, schedVars, Goto, Observe, SetTask, WorkerStage, FinishPCs, AbortPCs, At, Wake,
        PolTypeOK, EstimateRead
<1>1. CASE UNCHANGED <<schedVars, polVars>>
  BY <1>1 DEF StageInv, polVars
<1>2. CASE UNCHANGED <<vars, polVars>> \/ PolReturn \/ PolFinished
  BY <1>1, <1>2 DEF vars, PolReturn, PolFinished, Return, Finished
<1>3. CASE PolCancel
  BY <1>3 DEF StageInv, polVars, PolCancel, CancelBlock, Cancel
<1>4. ASSUME NEW w \in Workers, PolStep(w) PROVE StageInv'
  <2>0. UNCHANGED policy /\ WorkerStage(w) /\ WorkerTask(w)
    BY <1>4 DEF PolStep, StageInv
  <2> SUFFICES ASSUME NEW v \in Workers PROVE WorkerStage(v)'
    BY DEF StageInv
  <2>1. WorkerStage(v) /\ WorkerTask(v)
    BY DEF StageInv
  <2>e. EstimateRead' = EstimateRead
    BY <2>0
  <2>2. CASE Base(w)
    <3>1. CASE v = w BY <2>0, <2>2, <3>1, BaseStage
    <3>2. CASE v # w
      <4>1. pc'[v] = pc[v] /\ kind'[v] = kind[v] /\ obs'[v] = obs[v]
        <5>1. SchedulerStep(w) BY <2>2 DEF Base, ControlStep
        <5> HIDE DEF CoreInv
        <5> QED BY <3>2, <5>1, ControlFrame
      <4>2. stage'[v] = stage[v] /\ own'[v] = own[v]
        BY <2>2, <3>2 DEF Base
      <4> HIDE DEF WorkerStage, EstimateRead
      <4> QED BY <2>1, <2>e, <4>1, <4>2, StageKept
    <3> QED BY <3>1, <3>2
  <2>3. CASE Data(w)
    <3>0. DataStep(w) /\ own' = own
      BY <2>3 DEF Data
    <3>1. /\ UNCHANGED <<status, incarnation, kind, txn, inc>>
          /\ (v # w => pc'[v] = pc[v])
          /\ pc[w] \in {"exec", "validate", "convert"}
      BY <3>0, DataTargets
    <3>2. obs' = obs /\ pc'[w] \in {"exec", "depend", "setExecuted", "validate", "decr", "tryAbort",
                                    "convert", "setReady"}
      BY <3>0, <3>1, DataTargets
    <3>3. pc[w] = "exec" => pc'[w] \in {"exec", "depend", "setExecuted"}
      BY <3>0, DataTargets
    <3>4. pc[w] = "convert" => pc'[w] \in {"convert", "setReady"}
      BY <3>0, DataTargets
    <3>5. pc[w] = "validate" => pc'[w] \in {"validate", "decr", "tryAbort"}
      BY <3>0, DataTargets
    <3>6. stage'[w] = IF pc[w] = "validate" /\ pc'[w] # "validate" THEN "validating" ELSE stage[w]
      BY <2>3 DEF Data
    <3>7. v # w => stage'[v] = stage[v]
      BY <2>3 DEF Data
    <3>8. own'[v] = own[v] /\ obs'[v] = obs[v] /\ kind'[v] = kind[v]
      BY <3>0, <3>1, <3>2
    <3>9. CASE v = w
      BY <2>0, <2>1, <3>1, <3>2, <3>3, <3>4, <3>5, <3>6, <3>8, <3>9
    <3>10. CASE v # w
      BY <2>0, <2>1, <3>1, <3>7, <3>8, <3>10
    <3> QED BY <3>9, <3>10
  <2>4. CASE PopReady(w)
    BY <2>0, <2>1, <2>4 DEF PopReady
  <2>5. CASE ScanWork(w)
    BY <2>0, <2>1, <2>5 DEF ScanWork
  <2>6. CASE Defer(w)
    BY <2>0, <2>1, <2>6 DEF Defer
  <2>7. CASE CompleteExecution(w)
    BY <2>0, <2>1, <2>7 DEF CompleteExecution, vars
  <2>8. CASE NotifyValidated(w)
    BY <2>0, <2>1, <2>8 DEF NotifyValidated, vars
  <2>9. CASE NotifyDone(w)
    <3>1. /\ UNCHANGED <<pc, kind, obs, own>> /\ stage'[w] = "idle" /\ pc[w] = "loop"
          /\ v # w => stage'[v] = stage[v] \/ (stage[v] = "parked" /\ stage'[v] = "woken")
      BY <2>9 DEF NotifyDone, vars
    <3>2. CASE v = w BY <3>1, <3>2
    <3>3. CASE v # w
      <4> HIDE DEF WorkerStage, EstimateRead
      <4> QED BY <2>1, <2>e, <3>1, <3>3, StageKept
    <3> QED BY <3>2, <3>3
  <2>10. CASE UnwindOrRetry(w)
    <3>1. /\ pc[w] = "depend" /\ stage[w] = "none" /\ EstimateRead = "abort_and_reschedule"
          /\ UNCHANGED <<kind, obs, own>>
          /\ v # w => stage'[v] = stage[v] /\ pc'[v] = pc[v]
      BY <2>10 DEF UnwindOrRetry
    <3>2. \/ stage'[w] = "none" /\ pc'[w] = "exec"
          \/ stage'[w] = "unwinding" /\ pc'[w] = "depend"
      BY <2>10 DEF UnwindOrRetry
    <3>3. CASE v = w
      <4>1. CASE stage'[w] = "none" /\ pc'[w] = "exec" BY <3>3, <4>1
      <4>2. CASE stage'[w] = "unwinding" /\ pc'[w] = "depend" BY <2>e, <3>1, <3>3, <4>2, <2>1
      <4> QED BY <3>2, <4>1, <4>2
    <3>4. CASE v # w
      <4> HIDE DEF WorkerStage, EstimateRead
      <4> QED BY <2>1, <2>e, <3>1, <3>4, StageKept
    <3> QED BY <3>3, <3>4
  <2>11. CASE IdleCheck(w)
    BY <2>0, <2>1, <2>11 DEF IdleCheck, vars
  <2>12. CASE ParkEnds(w)
    BY <2>0, <2>1, <2>12 DEF ParkEnds, vars
  <2>13. CASE RegisterAbort(w)
    <3>1. /\ pc[w] = "depend" /\ pc' = [pc EXCEPT ![w] = "loop"] /\ stage'[w] = "none"
          /\ kind' = [kind EXCEPT ![w] = "none"] /\ UNCHANGED <<obs, own>>
      BY <2>13 DEF RegisterAbort
    <3>2. v # w => stage'[v] = stage[v] \/ (stage[v] = "parked" /\ stage'[v] = "woken")
      BY <2>13 DEF RegisterAbort
    <3>3. CASE v = w
      BY <3>1, <3>3
    <3>4. CASE v # w
      BY <2>0, <2>1, <3>1, <3>2, <3>4
    <3> QED BY <3>3, <3>4
  <2> QED BY <1>4, <2>2, <2>3, <2>4, <2>5, <2>6, <2>7, <2>8, <2>9, <2>10, <2>11, <2>12, <2>13
          DEF PolStep, PolControl
<1> QED BY <1>2, <1>3, <1>4 DEF PolNext

(***************************************************************************)
(* The steps that the frozen kernel does not have                          *)
(***************************************************************************)
(* A worker without a task may move to another place of nextTask, or take  *)
(* up or give up a transaction that is ready and that nobody else has.     *)
LEMMA TasklessStep ==
  ASSUME CoreInv, NEW w \in Workers, NEW p, NEW n \in Nat, kind[w] = "none",
         UNCHANGED <<sharedVars, waitVars, taskVars>>,
         pc[w] \in {"loop", "loadE", "neCheck", "incarnate"},
         p \in {"loop", "incarnate", "nvCheck", "neCheck"},
         pc' = [pc EXCEPT ![w] = p], obs' = [obs EXCEPT ![w] = n],
         p = "incarnate" => n \in Txns /\ Unowned(n)
  PROVE  CoreInv'
<1> USE DEF CoreInv, Unowned, HasOwner, sharedVars, waitVars, taskVars, counters, statusVars
<1>1. SchedTypeOK'
  BY DEF SchedTypeOK, PCs
<1>2. \A v \in Workers : v # w => pc'[v] = pc[v] /\ obs'[v] = obs[v]
  BY DEF SchedTypeOK
<1>3. pc'[w] = p /\ obs'[w] = n
  BY DEF SchedTypeOK
<1>4. TaskInv'
  BY <1>2, <1>3 DEF TaskInv, WorkerTask
<1>5. \A t \in Txns : t >= execution_idx => status[t] = "Ready"
  BY DEF OwnerInv, ClaimedStatus
<1>6. ASSUME NEW t \in Txns PROVE /\ Owner(w, t)' => p = "incarnate" /\ t = n
                                  /\ Owner(w, t) => status[t] = "Ready"
  BY <1>3, <1>6, TxnIndices DEF Owner, OwnerInv, OwnedStatus
<1>7. ASSUME NEW t \in Txns, NEW v \in Workers, v # w PROVE Owner(v, t)' <=> Owner(v, t)
  BY <1>2, <1>7 DEF Owner
<1>8. UniqueOwner'
  BY <1>6, <1>7 DEF OwnerInv, UniqueOwner
<1>9. ClaimedStatus'
  <2> SUFFICES ASSUME NEW t \in Txns, status[t] \notin {"Ready", "Executed"} PROVE HasOwner(t)'
    BY <1>5 DEF ClaimedStatus
  <2>1. PICK v \in Workers : Owner(v, t) BY DEF OwnerInv, ClaimedStatus
  <2> QED BY <1>6, <1>7, <2>1
<1>10. ASSUME NEW v \in Workers PROVE OwnedStatus(v)'
  <2>1. OwnedStatus(v) BY DEF OwnerInv
  <2>2. CASE v # w BY <1>2, <2>1, <2>2 DEF OwnedStatus
  <2>3. CASE v = w BY <1>3, <2>3 DEF OwnedStatus
  <2> QED BY <2>2, <2>3
<1>11. WaitInv'
  <2>1. \A v \in Workers, d \in Txns : Sleeps(v, d)' <=> Sleeps(v, d)
    BY <1>2, <1>3 DEF Sleeps
  <2> QED BY <2>1 DEF WaitInv
<1>12. WakeInv'
  <2>1. \A b : SwapToCome(b)' <=> SwapToCome(b)
    BY <1>2, <1>3 DEF SwapToCome
  <2> QED BY <1>2, <1>3, <2>1 DEF WakeInv, WillWake
<1>13. DoneInv'
  <2>1. Quiescent => Quiescent'
    BY <1>2, <1>3, TxnIndices DEF Quiescent
  <2>2. \A v \in Workers : pc'[v] = "count" <=> pc[v] = "count"
    BY <1>2, <1>3
  <2> QED BY <1>2, <1>3, <2>1, <2>2 DEF DoneInv, DoneIsQuiescent
<1> QED BY <1>1, <1>4, <1>8, <1>9, <1>10, <1>11, <1>12, <1>13 DEF OwnerInv

(* A reader whose blocking transaction has finished reads again.           *)
LEMMA ReadAgainStep ==
  ASSUME CoreInv, NEW w \in Workers, Goto(w, "depend", "exec"), blk' = [blk EXCEPT ![w] = 0],
         UNCHANGED <<sharedVars, cond, dependents, notified, deps, taskVars, obs>>
  PROVE  CoreInv'
<1> USE DEF CoreInv, Goto, sharedVars, taskVars, counters, statusVars
<1>1. SchedTypeOK'
  BY DEF SchedTypeOK, PCs
<1>2. \A v \in Workers : v # w => pc'[v] = pc[v] /\ blk'[v] = blk[v]
  BY DEF SchedTypeOK
<1>3. pc[w] = "depend" /\ pc'[w] = "exec"
  BY DEF SchedTypeOK
<1>4. TaskInv'
  BY <1>2, <1>3 DEF TaskInv, WorkerTask
<1>5. OwnerInv'
  <2>1. \A v \in Workers, t \in Txns : Owner(v, t)' <=> Owner(v, t)
    BY <1>2, <1>3 DEF Owner
  <2>2. UniqueOwner' /\ ClaimedStatus'
    BY <2>1 DEF OwnerInv, UniqueOwner, ClaimedStatus, HasOwner
  <2>3. ASSUME NEW v \in Workers PROVE OwnedStatus(v)'
    BY <1>2, <1>3 DEF OwnerInv, OwnedStatus, TaskInv, WorkerTask
  <2> QED BY <2>2, <2>3 DEF OwnerInv
<1>6. WaitInv'
  <2>1. \A v \in Workers, d \in Txns : Sleeps(v, d) => Sleeps(v, d)' /\ blk'[v] = blk[v]
    BY <1>2, <1>3 DEF Sleeps
  <2> QED BY <2>1 DEF WaitInv
<1>7. WakeInv'
  <2>1. \A b : SwapToCome(b)' <=> SwapToCome(b)
    BY <1>2, <1>3 DEF SwapToCome
  <2> QED BY <1>2, <1>3, <2>1 DEF WakeInv, WillWake
<1>8. DoneInv'
  <2>1. Quiescent => Quiescent'
    BY <1>2, <1>3, TxnIndices DEF Quiescent
  <2>2. \A v \in Workers : pc'[v] = "count" <=> pc[v] = "count"
    BY <1>2, <1>3
  <2> QED BY <1>2, <1>3, <2>1, <2>2 DEF DoneInv, DoneIsQuiescent
<1> QED BY <1>1, <1>4, <1>5, <1>6, <1>7, <1>8

\* Worker w gives its transaction up where it met an ESTIMATE, as registerAbort does.
GivesUp(w) ==
  /\ pc[w] = "depend" /\ pc' = [pc EXCEPT ![w] = "loop"]
  /\ status' = [status EXCEPT ![txn[w]] = "Ready"]
  /\ incarnation' = [incarnation EXCEPT ![txn[w]] = @ + 1]
  /\ SetTask(w, "none", 0, 0)
  /\ blk' = [blk EXCEPT ![w] = 0]
  /\ reads' = [reads EXCEPT ![w] = <<>>]
  /\ UNCHANGED <<counters, num_active_tasks, done_marker, cancelled, cond, dependents,
                 notified, deps, obs, wroteNew, memory, applied, unchecked, checking, outcome>>

(* Only its own transaction is affected, which was executing and was its.  *)
LEMMA GivesUpFrame ==
  ASSUME CoreInv, NEW w \in Workers, GivesUp(w)
  PROVE  /\ txn[w] \in Txns /\ kind[w] = "execution" /\ status[txn[w]] = "Executing"
         /\ \A v \in Workers : v # w =>
              pc'[v] = pc[v] /\ kind'[v] = kind[v] /\ txn'[v] = txn[v] /\ inc'[v] = inc[v] /\ blk'[v] = blk[v]
         /\ pc[w] = "depend" /\ pc'[w] = "loop" /\ kind'[w] = "none" /\ blk'[w] = 0
         /\ \A t \in Txns : t # txn[w] => status'[t] = status[t] /\ incarnation'[t] = incarnation[t]
         /\ status'[txn[w]] = "Ready" /\ incarnation'[txn[w]] = incarnation[txn[w]] + 1
         /\ \A v \in Workers : v # w => ~ Owner(v, txn[w])
         /\ \A v \in Workers, t \in Txns : Owner(v, t)' <=> Owner(v, t) /\ v # w
BY TxnIndices DEF CoreInv, SchedTypeOK, TaskInv, WorkerTask, OwnerInv, OwnedStatus, UniqueOwner, Owner, GivesUp, SetTask

(* It leaves what the kernels share in order.                              *)
LEMMA GivesUpStep ==
  ASSUME CoreInv, NEW w \in Workers, GivesUp(w)
  PROVE  CoreInv'
<1> USE DEF CoreInv, counters
<1>0. UNCHANGED <<counters, num_active_tasks, done_marker, cancelled, cond, dependents,
                 notified, deps, obs, wroteNew>>
  BY DEF GivesUp
<1>1. SchedTypeOK'
  <2>1. txn[w] \in Txns BY GivesUpFrame
  <2>2. incarnation' \in [Txns -> Nat] /\ status' \in [Txns -> Statuses]
    BY <2>1 DEF SchedTypeOK, GivesUp, Statuses
  <2>3. /\ pc' \in [Workers -> PCs] /\ kind' \in [Workers -> {"none", "execution", "validation"}]
        /\ txn' \in [Workers -> Nat] /\ inc' \in [Workers -> Nat] /\ blk' \in [Workers -> Nat]
    BY DEF SchedTypeOK, PCs, GivesUp, SetTask
  <2> QED BY <1>0, <2>2, <2>3 DEF SchedTypeOK
<1>2. /\ txn[w] \in Txns /\ kind[w] = "execution" /\ status[txn[w]] = "Executing"
      /\ \A v \in Workers : v # w =>
           pc'[v] = pc[v] /\ kind'[v] = kind[v] /\ txn'[v] = txn[v] /\ inc'[v] = inc[v] /\ blk'[v] = blk[v]
      /\ pc[w] = "depend" /\ pc'[w] = "loop" /\ kind'[w] = "none" /\ blk'[w] = 0
      /\ \A t \in Txns : t # txn[w] => status'[t] = status[t]
      /\ status'[txn[w]] = "Ready"
  BY GivesUpFrame
<1>3. \A v \in Workers, t \in Txns : Owner(v, t)' <=> Owner(v, t) /\ v # w
  BY GivesUpFrame
<1>4. TaskInv'
  BY <1>0, <1>2 DEF TaskInv, WorkerTask
<1>5. OwnerInv'
  <2>1. UniqueOwner'
    BY <1>3 DEF OwnerInv, UniqueOwner
  <2>2. ClaimedStatus'
    <3>1. ASSUME NEW t \in Txns, status'[t] \notin {"Ready", "Executed"} PROVE HasOwner(t)'
      <4>1. t # txn[w] /\ status[t] = status'[t] BY <1>2, <3>1
      <4>2. PICK v \in Workers : Owner(v, t) BY <3>1, <4>1 DEF OwnerInv, ClaimedStatus, HasOwner
      <4>3. v # w BY <1>2, <4>1, <4>2 DEF Owner
      <4> QED BY <1>3, <4>2, <4>3 DEF HasOwner
    <3> QED BY <1>0, <1>2, <3>1 DEF OwnerInv, ClaimedStatus
  <2>3. ASSUME NEW v \in Workers PROVE OwnedStatus(v)'
    <3>1. CASE v = w BY <1>2, <3>1 DEF OwnedStatus
    <3>2. CASE v # w
      <4>1. OwnedStatus(v) /\ WorkerTask(v) BY DEF OwnerInv, TaskInv
      <4>2. ~ Owner(v, txn[w]) BY <3>2, GivesUpFrame
      <4>3. /\ pc'[v] = pc[v] /\ kind'[v] = kind[v] /\ txn'[v] = txn[v]
            /\ obs'[v] = obs[v] /\ notified'[v] = notified[v]
        BY <1>0, <1>2, <3>2
      <4>4. kind[v] # "none" => txn[v] \in Txns BY <4>1 DEF WorkerTask
      <4>5. obs[v] \in Nat BY DEF SchedTypeOK
      <4>6. ASSUME NEW t \in Txns, Owner(v, t) PROVE status'[t] = status[t]
        BY <1>2, <4>2, <4>6
      <4>7. kind[v] = "execution" /\ pc[v] \in {"loop", "exec", "depend", "suspend", "setExecuted"}
              => status'[txn[v]] = "Executing"
        BY <4>1, <4>4, <4>6 DEF OwnedStatus, Owner
      <4>8. pc[v] = "wait" => status'[txn[v]] = IF notified[v] THEN "Executing" ELSE "Suspended"
        BY <4>1, <4>4, <4>6 DEF OwnedStatus, Owner, WorkerTask
      <4>9. pc[v] \in {"convert", "setReady"} => status'[txn[v]] = "Aborting"
        BY <4>1, <4>4, <4>6 DEF OwnedStatus, Owner, WorkerTask
      <4>10. kind[v] = "validation" /\ pc[v] \in {"storeMin", "count", "retry"}
               => status'[txn[v]] = "Ready"
        BY <4>1, <4>4, <4>6 DEF OwnedStatus, Owner
      <4>11. pc[v] = "incarnate" /\ obs[v] < BlockSize => status'[obs[v]] = "Ready"
        BY <4>1, <4>5, <4>6, TxnIndices DEF OwnedStatus, Owner
      <4> QED BY <4>3, <4>7, <4>8, <4>9, <4>10, <4>11 DEF OwnedStatus
    <3> QED BY <3>1, <3>2
  <2> QED BY <2>1, <2>2, <2>3 DEF OwnerInv
<1>6. WaitInv'
  <2>1. \A v \in Workers, d \in Txns : Sleeps(v, d) => Sleeps(v, d)' /\ blk'[v] = blk[v]
    BY <1>0, <1>2 DEF Sleeps
  <2> QED BY <1>0, <2>1 DEF WaitInv
<1>7. WakeInv'
  <2>1. ASSUME NEW b \in Txns, SwapToCome(b) PROVE SwapToCome(b)'
    <3>1. CASE b = txn[w] BY <1>2, <3>1 DEF SwapToCome
    <3>2. CASE b # txn[w] /\ status[b] # "Executed" BY <1>2, <3>2 DEF SwapToCome
    <3>3. CASE b # txn[w] /\ status[b] = "Executed"
      <4>1. PICK u \in Workers : pc[u] = "swap" /\ txn[u] = b BY <2>1, <3>3 DEF SwapToCome
      <4>2. u # w BY <1>2, <4>1
      <4> QED BY <1>2, <4>1, <4>2 DEF SwapToCome
    <3> QED BY <3>1, <3>2, <3>3
  <2> SUFFICES ASSUME NEW v \in Workers PROVE WillWake(v)'
    BY DEF WakeInv
  <2>2. CASE v = w BY <1>2, <2>2 DEF WillWake
  <2>3. CASE v # w
    <3>1. WillWake(v) /\ WorkerTask(v) BY DEF WakeInv, TaskInv
    <3>2. pc[v] \in {"suspend", "wait"} => blk[v] \in Txns
      BY <3>1, TxnIndices, BlockSizeAssumption DEF WorkerTask, SchedTypeOK
    <3> QED BY <1>0, <1>2, <2>1, <2>3, <3>1, <3>2 DEF WillWake
  <2> QED BY <2>2, <2>3
<1>8. DoneInv'
  <2>1. ~ Quiescent
    BY <1>2 DEF Quiescent
  <2>2. \A v \in Workers : pc'[v] = "count" <=> pc[v] = "count"
    BY <1>2
  <2> QED BY <1>0, <1>2, <2>1, <2>2 DEF DoneInv, DoneIsQuiescent
<1> QED BY <1>1, <1>4, <1>5, <1>6, <1>7, <1>8

(* It leaves the entries, ...                                              *)
LEMMA GivesUpEntries ==
  ASSUME CoreInv, MemInv, NEW w \in Workers, GivesUp(w)
  PROVE  MemInv'
<1>0. UNCHANGED <<memory, applied>> /\ reads' = [reads EXCEPT ![w] = <<>>]
  BY DEF GivesUp
<1>1. /\ txn[w] \in Txns /\ kind[w] = "execution" /\ status[txn[w]] = "Executing"
      /\ \A v \in Workers : v # w =>
           pc'[v] = pc[v] /\ kind'[v] = kind[v] /\ txn'[v] = txn[v] /\ inc'[v] = inc[v]
      /\ pc[w] = "depend" /\ pc'[w] = "loop" /\ kind'[w] = "none"
      /\ \A t \in Txns : t # txn[w] => status'[t] = status[t] /\ incarnation'[t] = incarnation[t]
      /\ status'[txn[w]] = "Ready"
      /\ \A v \in Workers : v # w => ~ Owner(v, txn[w])
  BY GivesUpFrame
<1>2. applied[w] = {}
  BY <1>1 DEF MemInv, WorkerEntries, Returned
<1>3. \A k \in Keys : AsEstimated(txn[w], k)
  BY <1>1, <1>2 DEF MemInv, WorkerEntries, Executes
<1>4. MemoryShape'
  BY <1>0 DEF MemInv, MemoryShape, memory
<1>5. StatusEntries'
  <2> SUFFICES ASSUME NEW t \in Txns, NEW k \in Keys
               PROVE  /\ status'[t] = "Executed" => AsWritten(t, k)'
                      /\ status'[t] = "Ready" => AsEstimated(t, k)'
    BY DEF StatusEntries
  <2>1. CASE t = txn[w]
    BY <1>0, <1>1, <1>3, <2>1 DEF AsEstimated, memory
  <2>2. CASE t # txn[w]
    BY <1>0, <1>1, <2>2 DEF MemInv, StatusEntries, AsWritten, AsEstimated, memory
  <2> QED BY <2>1, <2>2
<1>6. ASSUME NEW v \in Workers PROVE WorkerEntries(v)'
  <2>1. CASE v = w
    BY <1>0, <1>1, <1>2, <2>1 DEF WorkerEntries, Executes
  <2>2. CASE v # w
    <3>1. /\ pc'[v] = pc[v] /\ kind'[v] = kind[v] /\ txn'[v] = txn[v] /\ inc'[v] = inc[v]
          /\ applied'[v] = applied[v]
      BY <1>0, <1>1, <2>2
    <3>2. reads'[v] = reads[v]
      BY <1>0, <2>2 DEF MemInv, MemoryShape
    <3>3. Written(v)' = Written(v) /\ WantedKey(v)' = WantedKey(v)
      BY <3>1, <3>2 DEF Written, WantedKey, Values
    <3>4. Executes(v) \/ pc[v] \in {"setExecuted", "convert", "setReady"} =>
            txn[v] \in Txns /\ txn[v] # txn[w]
      BY <1>1, <2>2 DEF Executes, Owner, CoreInv, TaskInv, WorkerTask
    <3>5. Executes(v) \/ pc[v] \in {"setExecuted", "convert", "setReady"} =>
            incarnation'[txn[v]] = incarnation[txn[v]]
      BY <1>1, <3>4
    <3>6. Executes(v)' <=> Executes(v)
      BY <3>1 DEF Executes
    <3>7. WorkerEntries(v) BY DEF MemInv
    <3> QED BY <1>0, <3>1, <3>3, <3>5, <3>6, <3>7
            DEF WorkerEntries, Returned, AsWritten, AsEstimated, AsRecorded, memory
  <2> QED BY <2>1, <2>2
<1> QED BY <1>4, <1>5, <1>6 DEF MemInv

(* the validations to come, ...                                            *)
LEMMA GivesUpValidation ==
  ASSUME CoreInv, MemInv, ValidationInv, NEW w \in Workers, GivesUp(w)
  PROVE  ValidationInv'
<1>0. /\ UNCHANGED <<memory, applied, unchecked, checking, validation_idx, wroteNew, obs>>
      /\ reads' = [reads EXCEPT ![w] = <<>>]
  BY DEF GivesUp, counters
<1>1. /\ txn[w] \in Txns /\ kind[w] = "execution" /\ status[txn[w]] = "Executing"
      /\ \A v \in Workers : v # w =>
           pc'[v] = pc[v] /\ kind'[v] = kind[v] /\ txn'[v] = txn[v] /\ inc'[v] = inc[v]
      /\ pc[w] = "depend" /\ pc'[w] = "loop" /\ kind'[w] = "none"
      /\ \A t \in Txns : t # txn[w] => status'[t] = status[t] /\ incarnation'[t] = incarnation[t]
      /\ status'[txn[w]] = "Ready"
  BY GivesUpFrame
<1>2. ASSUME NEW v \in Workers, v # w
      PROVE  Written(v)' = Written(v) /\ WantedKey(v)' = WantedKey(v)
  <2>1. reads'[v] = reads[v]
    BY <1>0, <1>2 DEF MemInv, MemoryShape
  <2> QED BY <1>1, <1>2, <2>1 DEF Written, WantedKey, Values
<1>3. ASSUME NEW v \in Workers PROVE WorkerViews(v)'
  <2>0. WorkerViews(v) BY DEF ValidationInv
  <2>1. CASE v = w BY <1>0, <1>1, <2>0, <2>1 DEF WorkerViews, Returned
  <2>2. CASE v # w BY <1>0, <1>1, <1>2, <2>0, <2>2 DEF WorkerViews, Returned, memory
  <2> QED BY <2>1, <2>2
<1>4. ReadShape'
  <2>1. ASSUME NEW v \in Workers
        PROVE  IsSequence(reads'[v]) /\ \A i \in DOMAIN reads'[v] : reads'[v][i].key \in Keys
    <3>1. CASE v = w
      <4>1. reads'[v] = <<>> BY <1>0, <3>1 DEF MemInv, MemoryShape
      <4> QED BY <4>1 DEF IsSequence
    <3>2. CASE v # w
      <4>1. reads'[v] = reads[v] BY <1>0, <3>2 DEF MemInv, MemoryShape
      <4> QED BY <4>1 DEF ValidationInv, ReadShape
    <3> QED BY <3>1, <3>2
  <2> QED BY <1>0, <2>1 DEF ValidationInv, ReadShape, memory, IsSequence, Records
<1>5. StaleCovered'
  <2> SUFFICES ASSUME NEW t \in Txns, NEW d \in lastRead'[t], status'[t] = "Executed",
                      ~ ReadStillCurrent(t, d)'
               PROVE  Covered(t, d)'
    BY DEF StaleCovered
  <2>1. t # txn[w] /\ status[t] = "Executed" /\ incarnation'[t] = incarnation[t]
    BY <1>1
  <2>2. Covered(t, d)
    BY <1>0, <2>1 DEF ValidationInv, StaleCovered, ReadStillCurrent, memory
  <2>3. ASSUME NEW v \in Workers, WillCheck(v, t, d) \/ LowersFor(v, t)
        PROVE  (WillCheck(v, t, d) \/ LowersFor(v, t))'
    <3>1. v # w
      BY <1>1, <2>3 DEF WillCheck, LowersFor
    <3>2. pc'[v] = pc[v] /\ kind'[v] = kind[v] /\ txn'[v] = txn[v] /\ inc'[v] = inc[v]
      BY <1>1, <3>1
    <3> QED BY <1>0, <2>1, <2>3, <3>2 DEF WillCheck, LowersFor, memory
  <2> QED BY <1>0, <2>2, <2>3 DEF Covered
<1> QED BY <1>3, <1>4, <1>5 DEF ValidationInv

(* and everybody's reads, written values and runs.                         *)
LEMMA GivesUpFaithful ==
  ASSUME CoreInv, NEW w \in Workers, GivesUp(w), NEW r, Faithful(r)
  PROVE  Faithful(r)'
<1>0. UNCHANGED <<memory, applied>>
  BY DEF GivesUp
<1>1. /\ txn[w] \in Txns
      /\ \A v \in Workers : v # w =>
           pc'[v] = pc[v] /\ kind'[v] = kind[v] /\ txn'[v] = txn[v]
      /\ \A t \in Txns : t # txn[w] => status'[t] = status[t] /\ incarnation'[t] = incarnation[t]
      /\ incarnation'[txn[w]] = incarnation[txn[w]] + 1
  BY GivesUpFrame
<1>2. CASE r.version = InvalidVersion
  BY <1>2 DEF Faithful
<1>3. CASE r.version # InvalidVersion
  <2> DEFINE u == r.version.index
             i == r.version.incarnation
  <2>1. /\ u \in Txns /\ i \in Nat /\ i <= incarnation[u]
        /\ i = incarnation[u] => Settled(u, r.key)
        /\ HasVersion(u, r.key, i) => data[r.key][u].value = r.value
    BY <1>3 DEF Faithful
  <2>2. incarnation[u] \in Nat
    BY <2>1 DEF CoreInv, SchedTypeOK
  <2>3. HasVersion(u, r.key, i)' => data'[r.key][u].value = r.value
    BY <1>0, <2>1 DEF HasVersion, memory
  <2>4. i <= incarnation'[u] /\ (i = incarnation'[u] => Settled(u, r.key)')
    <3>1. CASE u = txn[w]
      <4>1. incarnation'[u] = incarnation[u] + 1 BY <1>1, <3>1
      <4> HIDE DEF i, u
      <4> QED BY <2>1, <2>2, <4>1
    <3>2. CASE u # txn[w]
      <4>1. status'[u] = status[u] /\ incarnation'[u] = incarnation[u]
        BY <1>1, <2>1, <3>2
      <4>2. Settled(u, r.key) => Settled(u, r.key)'
        <5>1. ASSUME NEW v \in Workers, Executes(v), txn[v] = u,
                     r.key \in applied[v] \/ pc[v] = "setExecuted"
              PROVE  Settled(u, r.key)'
          <6>1. v # w BY <3>2, <5>1
          <6> QED BY <1>0, <1>1, <5>1, <6>1 DEF Settled, Executes
        <5> QED BY <4>1, <5>1 DEF Settled
      <4> QED BY <2>1, <4>1, <4>2
    <3> QED BY <3>1, <3>2
  <2> QED BY <1>3, <2>1, <2>3, <2>4 DEF Faithful
<1> QED BY <1>2, <1>3

LEMMA GivesUpRun ==
  ASSUME CoreInv, NEW w \in Workers, GivesUp(w), NEW t \in Txns, HasRun(t)'
  PROVE  HasRun(t) /\ \A rs : RunOf(t, rs) => RunOf(t, rs)'
<1>1. HasRun(t)
  BY GivesUpFrame DEF HasRun
<1>2. ASSUME NEW rs, RunOf(t, rs) PROVE RunOf(t, rs)'
  <2>1. \A r \in Records(rs) : r.key \in Keys /\ Faithful(r)'
    BY <1>2, GivesUpFaithful DEF RunOf
  <2>2. UNCHANGED memory
    BY DEF GivesUp
  <2> QED BY <1>2, <2>1, <2>2 DEF RunOf, IsSequence, InOrder, Records, ValuesOf, memory
<1> QED BY <1>1, <1>2

LEMMA GivesUpReplay ==
  ASSUME CoreInv, MemInv, ValidationInv, ReplayInv, NEW w \in Workers, GivesUp(w)
  PROVE  ReplayInv' /\ UNCHANGED <<storage, result>>
<1>0. /\ UNCHANGED <<memory, applied, done_marker, cancelled, storage, result>>
      /\ reads' = [reads EXCEPT ![w] = <<>>]
  BY DEF GivesUp, outcome
<1>1. /\ txn[w] \in Txns /\ kind[w] = "execution" /\ status[txn[w]] = "Executing"
      /\ \A v \in Workers : v # w =>
           pc'[v] = pc[v] /\ kind'[v] = kind[v] /\ txn'[v] = txn[v]
      /\ pc[w] = "depend" /\ pc'[w] = "loop" /\ kind'[w] = "none"
      /\ \A t \in Txns : t # txn[w] => status'[t] = status[t] /\ incarnation'[t] = incarnation[t]
      /\ status'[txn[w]] = "Ready" /\ incarnation'[txn[w]] = incarnation[txn[w]] + 1
  BY GivesUpFrame
<1>2. ASSUME NEW v \in Workers, v # w
      PROVE  /\ reads'[v] = reads[v]
             /\ Written(v)' = Written(v) /\ WantedKey(v)' = WantedKey(v)
  <2>1. reads'[v] = reads[v]
    BY <1>0, <1>2 DEF MemInv, MemoryShape
  <2> QED BY <1>1, <1>2, <2>1 DEF Written, WantedKey, Values
<1>3. ASSUME NEW r, Faithful(r) PROVE Faithful(r)'
  BY <1>3, GivesUpFaithful
<1>4. ASSUME NEW v \in Workers PROVE WorkerRun(v)'
  <2>0. WorkerRun(v) BY DEF ReplayInv
  <2>1. CASE v = w
    <3>1. reads'[v] = <<>> BY <1>0, <2>1 DEF MemInv, MemoryShape
    <3>2. Records(reads'[v]) = {} BY <3>1 DEF Records
    <3> QED BY <1>1, <2>1, <3>1, <3>2 DEF WorkerRun, InOrder, Returned
  <2>2. CASE v # w
    <3>1. \A r \in Records(reads[v]) : Faithful(r)'
      BY <1>3, <2>0 DEF WorkerRun
    <3>2. InOrder(txn[v], reads[v])' /\ Records(reads[v])' = Records(reads[v])
      BY <1>1, <1>2, <2>0, <2>2 DEF WorkerRun, InOrder, Records
    <3> QED BY <1>0, <1>1, <1>2, <2>0, <2>2, <3>1, <3>2 DEF WorkerRun, Returned, memory
  <2> QED BY <2>1, <2>2
<1>5. ASSUME NEW t \in Txns, HasRun(t)' PROVE \E rs : RunOf(t, rs)'
  <2>1. HasRun(t) /\ \A rs : RunOf(t, rs) => RunOf(t, rs)'
    BY <1>5, GivesUpRun
  <2> QED BY <2>1 DEF ReplayInv
<1>6. result' # "running" => AllStopped'
  BY <1>0, <1>1 DEF ReplayInv, AllStopped
<1> QED BY <1>0, <1>4, <1>5, <1>6 DEF ReplayInv

(***************************************************************************)
(* The queues                                                              *)
(***************************************************************************)
(* A transaction that is ready and with no worker stays so, whatever the   *)
(* frozen kernel does: only the wrapping code takes it up.                 *)
LEMMA UnownedStep ==
  ASSUME CoreInv, [SchedNext]_schedVars, NEW t \in Txns, Unowned(t)
  PROVE  Unowned(t)'
<1> USE DEF CoreInv, SchedTypeOK, TaskInv, WorkerTask, OwnerInv, OwnedStatus, Owner,
        counters, statusVars, waitVars, taskVars, sharedVars, Goto, Observe, SetTask
<1>a. t < execution_idx /\ status[t] = "Ready" /\ \A u \in Workers : ~ Owner(u, t)
  BY DEF Unowned, HasOwner
<1> SUFFICES ASSUME NEW v \in Workers
             PROVE  t < execution_idx' /\ status'[t] = "Ready" /\ ~ Owner(v, t)'
  <2>1. CASE Workers = {}
    BY <1>a, <2>1 DEF Unowned, HasOwner, SchedNext, Cancel, schedVars
  <2> QED BY <2>1 DEF Unowned, HasOwner
<1>b. WorkerTask(v) /\ OwnedStatus(v) /\ t \in Nat
  BY TxnIndices
<1> DEFINE G == t < execution_idx' /\ status'[t] = "Ready" /\ ~ Owner(v, t)'
<1>1. CASE UNCHANGED schedVars
  BY <1>1, <1>a DEF schedVars
<1>2. CASE Cancel
  BY <1>2, <1>a DEF Cancel
<1>3. ASSUME NEW w \in Workers, SchedulerStep(w) PROVE G
  <2>1. CASE RunLoop(w)
    BY <2>1, <1>a, <1>b, TxnIndices DEF RunLoop
  <2>2. CASE LoadValidationIdx(w)
    BY <2>2, <1>a, <1>b, TxnIndices DEF LoadValidationIdx
  <2>3. CASE LoadExecutionIdx(w)
    BY <2>3, <1>a, <1>b, TxnIndices DEF LoadExecutionIdx
  <2>4. CASE ValidateCheck(w)
    BY <2>4, <1>a, <1>b, TxnIndices DEF ValidateCheck
  <2>5. CASE ValidateIncr(w)
    BY <2>5, <1>a, <1>b, TxnIndices DEF ValidateIncr
  <2>6. CASE ValidateFetch(w)
    BY <2>6, <1>a, <1>b, TxnIndices DEF ValidateFetch
  <2>7. CASE ValidateStatus(w)
    BY <2>7, <1>a, <1>b, TxnIndices DEF ValidateStatus
  <2>8. CASE ExecuteCheck(w)
    BY <2>8, <1>a, <1>b, TxnIndices DEF ExecuteCheck
  <2>9. CASE ExecuteIncr(w)
    BY <2>9, <1>a, <1>b, TxnIndices DEF ExecuteIncr
  <2>10. CASE ExecuteAdd(w)
    BY <2>10, <1>a, <1>b, TxnIndices DEF ExecuteAdd
  <2>11. CASE TryIncarnate(w)
    BY <2>11, <1>a, <1>b, TxnIndices DEF TryIncarnate
  <2>12. CASE DecrActive(w)
    BY <2>12, <1>a, <1>b, TxnIndices DEF DecrActive
  <2>13. CASE CheckDoneCount(w)
    BY <2>13, <1>a, <1>b, TxnIndices DEF CheckDoneCount
  <2>14. CASE CheckDoneLoads(w)
    BY <2>14, <1>a, <1>b, TxnIndices DEF CheckDoneLoads
  <2>15. CASE CheckDoneStore(w)
    BY <2>15, <1>a, <1>b, TxnIndices DEF CheckDoneStore
  <2>16. CASE LockDependency(w)
    BY <2>16, <1>a, <1>b, TxnIndices DEF LockDependency
  <2>17. CASE Suspend(w)
    BY <2>17, <1>a, <1>b, TxnIndices DEF Suspend
  <2>18. CASE WakeUp(w)
    BY <2>18, <1>a, <1>b, TxnIndices DEF WakeUp
  <2>19. CASE SetExecuted(w)
    BY <2>19, <1>a, <1>b, TxnIndices DEF SetExecuted
  <2>20. CASE SwapDependents(w)
    BY <2>20, <1>a, <1>b, TxnIndices DEF SwapDependents
  <2>21. ASSUME NEW d0 \in deps[w], Resume(w, d0) PROVE G
    BY <2>21, <1>a, <1>b, TxnIndices DEF Resume, WaitInv, Sleeps
  <2>22. CASE AfterResume(w)
    BY <2>22, <1>a, <1>b, TxnIndices DEF AfterResume
  <2>23. CASE StoreMin(w)
    BY <2>23, <1>a, <1>b, TxnIndices DEF StoreMin
  <2>24. CASE CountDecrease(w)
    BY <2>24, <1>a, <1>b, TxnIndices DEF CountDecrease
  <2>25. CASE TryValidationAbort(w)
    BY <2>25, <1>a, <1>b, TxnIndices DEF TryValidationAbort
  <2>26. CASE SetReadyStatus(w)
    BY <2>26, <1>a, <1>b, TxnIndices DEF SetReadyStatus
  <2>27. CASE RetryAborted(w)
    BY <2>27, <1>a, <1>b, TxnIndices DEF RetryAborted
  <2> QED
    BY <1>3, <2>1, <2>2, <2>3, <2>4, <2>5, <2>6, <2>7, <2>8, <2>9, <2>10, <2>11, <2>12,
       <2>13, <2>14, <2>15, <2>16, <2>17, <2>18, <2>19, <2>20, <2>21, <2>22, <2>23,
       <2>24, <2>25, <2>26, <2>27 DEF SchedulerStep
<1>4. ASSUME NEW w \in Workers, MemoryStep(w) PROVE G
  <2>1. ASSUME NEW b \in Txns, MeetEstimate(w, b) PROVE G
    BY <2>1, <1>a, <1>b, TxnIndices DEF MeetEstimate
  <2>2. ASSUME NEW n \in BOOLEAN, Recorded(w, n) PROVE G
    BY <2>2, <1>a, <1>b, TxnIndices DEF Recorded
  <2>3. ASSUME NEW r \in BOOLEAN, Validated(w, r) PROVE G
    BY <2>3, <1>a, <1>b, TxnIndices DEF Validated
  <2>4. CASE Converted(w)
    BY <2>4, <1>a, <1>b, TxnIndices DEF Converted
  <2> QED
    BY <1>4, <2>1, <2>2, <2>3, <2>4 DEF MemoryStep
<1> QED BY <1>1, <1>2, <1>3, <1>4 DEF SchedNext

(* What putting one at the end, ...                                        *)
LEMMA PutLast ==
  ASSUME NEW S, NEW s \in Seq(S), NEW x \in S
  PROVE  /\ Append(s, x) \in Seq(S)
         /\ Range(Append(s, x)) = Range(s) \cup {x}
         /\ IsInjective(s) /\ x \notin Range(s) => IsInjective(Append(s, x))
<1>1. /\ Append(s, x) \in Seq(S) /\ Len(s) \in Nat /\ DOMAIN s = 1 .. Len(s)
      /\ DOMAIN Append(s, x) = 1 .. Len(s) + 1
      /\ \A i \in 1 .. Len(s) : Append(s, x)[i] = s[i]
      /\ Append(s, x)[Len(s) + 1] = x
  OBVIOUS
<1>2. Range(Append(s, x)) = Range(s) \cup {x}
  <2>1. ASSUME NEW y \in Range(Append(s, x)) PROVE y \in Range(s) \cup {x}
    <3>1. PICK i \in 1 .. Len(s) + 1 : Append(s, x)[i] = y BY <1>1 DEF Range
    <3>2. i \in 1 .. Len(s) \/ i = Len(s) + 1 BY <1>1
    <3> QED BY <1>1, <3>1, <3>2 DEF Range
  <2>2. ASSUME NEW y \in Range(s) \cup {x} PROVE y \in Range(Append(s, x))
    <3>1. CASE y = x
      <4>1. Len(s) + 1 \in DOMAIN Append(s, x) BY <1>1
      <4> QED BY <1>1, <3>1, <4>1 DEF Range
    <3>2. CASE y \in Range(s)
      <4>1. PICK i \in 1 .. Len(s) : s[i] = y BY <1>1, <3>2 DEF Range
      <4>2. i \in DOMAIN Append(s, x) /\ Append(s, x)[i] = y BY <1>1, <4>1
      <4> QED BY <4>2 DEF Range
    <3> QED BY <3>1, <3>2
  <2> QED BY <2>1, <2>2
<1>3. ASSUME IsInjective(s), x \notin Range(s) PROVE IsInjective(Append(s, x))
  <2>1. \A i \in 1 .. Len(s) : s[i] # x BY <1>1, <1>3 DEF Range
  <2>2. \A i, j \in 1 .. Len(s) : s[i] = s[j] => i = j BY <1>1, <1>3 DEF IsInjective
  <2>3. \A i \in 1 .. Len(s) + 1 : i \in 1 .. Len(s) \/ i = Len(s) + 1 BY <1>1
  <2> QED BY <1>1, <2>1, <2>2, <2>3 DEF IsInjective
<1> QED BY <1>1, <1>2, <1>3

(* taking one from the end, ...                                            *)
LEMMA TakeLast ==
  ASSUME NEW S, NEW s \in Seq(S), s # <<>>, IsInjective(s)
  PROVE  /\ Front(s) \in Seq(S) /\ IsInjective(Front(s)) /\ Last(s) \in S
         /\ Last(s) \in Range(s) /\ Range(Front(s)) = Range(s) \ {Last(s)}
<1>1. Len(s) \in Nat /\ Len(s) # 0 /\ DOMAIN s = 1 .. Len(s) /\ Last(s) = s[Len(s)]
  BY DEF Last
<1>2. /\ Front(s) \in Seq(S) /\ DOMAIN Front(s) = 1 .. Len(s) - 1
      /\ \A i \in 1 .. Len(s) - 1 : Front(s)[i] = s[i]
  BY <1>1 DEF Front
<1>3. \A i, j \in 1 .. Len(s) : s[i] = s[j] => i = j
  BY <1>1 DEF IsInjective
<1>4. Last(s) \in S /\ Last(s) \in Range(s)
  <2>1. Len(s) \in 1 .. Len(s) BY <1>1
  <2> QED BY <1>1, <2>1 DEF Range
<1>5. IsInjective(Front(s))
  <2>1. \A i \in 1 .. Len(s) - 1 : i \in 1 .. Len(s) BY <1>1
  <2> QED BY <1>2, <1>3, <2>1 DEF IsInjective
<1>6. ASSUME NEW y \in Range(Front(s)) PROVE y \in Range(s) /\ y # Last(s)
  <2>0. ASSUME NEW n \in Nat, n # 0, NEW i \in 1 .. n - 1
        PROVE  i \in 1 .. n /\ n \in 1 .. n /\ i # n
    BY <2>0
  <2>1. PICK i \in 1 .. Len(s) - 1 : y = s[i] BY <1>2 DEF Range
  <2>2. i \in 1 .. Len(s) /\ Len(s) \in 1 .. Len(s) /\ i # Len(s) BY <1>1, <2>0
  <2> QED BY <1>1, <1>3, <2>1, <2>2 DEF Range
<1>7. ASSUME NEW y \in Range(s), y # Last(s) PROVE y \in Range(Front(s))
  <2>1. PICK i \in 1 .. Len(s) : y = s[i] BY <1>1 DEF Range
  <2>2. i \in 1 .. Len(s) - 1 BY <1>1, <1>7, <2>1
  <2> QED BY <1>2, <2>1, <2>2 DEF Range
<1> QED BY <1>2, <1>4, <1>5, <1>6, <1>7

(* and adding a whole queue do to the members of a queue.                  *)
LEMMA PutAll ==
  ASSUME NEW S, NEW s \in Seq(S), NEW r \in Seq(S)
  PROVE  /\ s \o r \in Seq(S)
         /\ Range(s \o r) = Range(s) \cup Range(r)
         /\ IsInjective(s) /\ IsInjective(r) /\ Range(s) \cap Range(r) = {} => IsInjective(s \o r)
<1> DEFINE m == Len(s)
           n == Len(r)
<1>1. /\ s \o r \in Seq(S) /\ m \in Nat /\ n \in Nat /\ DOMAIN s = 1 .. m /\ DOMAIN r = 1 .. n
      /\ DOMAIN (s \o r) = 1 .. m + n
      /\ \A i \in 1 .. m : (s \o r)[i] = s[i]
      /\ \A i \in 1 .. m + n : i \notin 1 .. m => (s \o r)[i] = r[i - m]
  OBVIOUS
<1>2. \A i \in 1 .. m + n : i \notin 1 .. m => i - m \in 1 .. n
  BY <1>1
<1>3. \A i \in 1 .. n : i + m \in 1 .. m + n /\ i + m \notin 1 .. m /\ (i + m) - m = i
  BY <1>1
<1>4. \A i \in 1 .. m : i \in 1 .. m + n
  BY <1>1
<1> HIDE DEF m, n
<1>5. ASSUME NEW y \in Range(s \o r) PROVE y \in Range(s) \cup Range(r)
  <2>1. PICK i \in 1 .. m + n : (s \o r)[i] = y BY <1>1 DEF Range
  <2> QED BY <1>1, <1>2, <2>1 DEF Range
<1>6. ASSUME NEW y \in Range(s) PROVE y \in Range(s \o r)
  BY <1>1, <1>4 DEF Range
<1>7. ASSUME NEW y \in Range(r) PROVE y \in Range(s \o r)
  <2>1. PICK i \in 1 .. n : r[i] = y BY <1>1 DEF Range
  <2>2. i + m \in DOMAIN (s \o r) /\ (s \o r)[i + m] = y BY <1>1, <1>3, <2>1
  <2> QED BY <2>2 DEF Range
<1>8. ASSUME IsInjective(s), IsInjective(r), Range(s) \cap Range(r) = {}
      PROVE  IsInjective(s \o r)
  <2> SUFFICES ASSUME NEW i \in 1 .. m + n, NEW j \in 1 .. m + n, (s \o r)[i] = (s \o r)[j]
               PROVE  i = j
    BY <1>1 DEF IsInjective
  <2>1. \A a \in 1 .. m, b \in 1 .. n : s[a] # r[b]
    BY <1>1, <1>8 DEF Range
  <2>2. CASE i \in 1 .. m /\ j \in 1 .. m
    BY <1>1, <1>8, <2>2 DEF IsInjective
  <2>3. CASE i \notin 1 .. m /\ j \notin 1 .. m
    <3>1. i - m = j - m
      <4>1. i - m \in 1 .. n /\ j - m \in 1 .. n /\ r[i - m] = r[j - m]
        BY <1>1, <1>2, <2>3
      <4>2. \A a, b \in 1 .. n : r[a] = r[b] => a = b
        BY <1>1, <1>8 DEF IsInjective
      <4> QED BY <4>1, <4>2
    <3>2. m \in Nat /\ n \in Nat BY <1>1
    <3> QED BY <3>1, <3>2
  <2>4. CASE (i \in 1 .. m) # (j \in 1 .. m)
    BY <1>1, <1>2, <2>1, <2>4
  <2> QED BY <2>2, <2>3, <2>4
<1> QED BY <1>1, <1>5, <1>6, <1>7, <1>8

(* The orders in which completeExecution releases are total.               *)
LEMMA ReleaseOrders ==
  ASSUME PolTypeOK, IsInjective(deferred), NEW S, S \subseteq Range(deferred)
  PROVE  Orders(ByIndex, S) /\ Orders(ByDeferral, S) /\ Orders(ByBarrier, S)
<1>1. Range(deferred) \subseteq Txns /\ deferred \in Seq(Txns)
  BY DEF PolTypeOK, Range
<1>2. IsFiniteSet(Txns)
  BY FS_Interval, BlockSizeAssumption DEF Txns
<1>3. IsFiniteSet(S) /\ S \subseteq Txns
  BY <1>1, <1>2, FS_Subset
<1>4. Orders(ByIndex, S)
  BY <1>3, TxnIndices DEF Orders, ByIndex
<1> DEFINE n == Len(deferred)
<1>5. n \in Nat /\ DOMAIN deferred = 1 .. n
  BY <1>1
<1>6. \A i, j \in 1 .. n : deferred[i] = deferred[j] => i = j
  BY <1>5 DEF IsInjective
<1>7. ASSUME NEW x \in S PROVE \E i \in 1 .. n : deferred[i] = x
  BY <1>5 DEF Range
<1>8. ASSUME NEW x \in S, NEW y \in S, NEW i \in 1 .. n, NEW j \in 1 .. n,
             deferred[i] = x, deferred[j] = y
      PROVE  <<x, y>> \in ByDeferral <=> i < j
  BY <1>3, <1>5, <1>6, <1>8 DEF ByDeferral
<1> HIDE DEF n
<1>9. /\ \A x \in S : <<x, x>> \notin ByDeferral
      /\ \A x, y \in S : x # y => <<x, y>> \in ByDeferral \/ <<y, x>> \in ByDeferral
      /\ \A x, y, z \in S : <<x, y>> \in ByDeferral /\ <<y, z>> \in ByDeferral => <<x, z>> \in ByDeferral
  <2>1. ASSUME NEW x \in S PROVE <<x, x>> \notin ByDeferral
    <3>1. PICK i \in 1 .. n : deferred[i] = x BY <1>7
    <3>2. ~ (i < i) BY <1>5
    <3> QED BY <1>8, <3>1, <3>2
  <2>2. ASSUME NEW x \in S, NEW y \in S, x # y
        PROVE  <<x, y>> \in ByDeferral \/ <<y, x>> \in ByDeferral
    <3>1. PICK i \in 1 .. n : deferred[i] = x BY <1>7
    <3>2. PICK j \in 1 .. n : deferred[j] = y BY <1>7
    <3>3. i < j \/ j < i BY <1>5, <2>2, <3>1, <3>2
    <3> QED BY <1>8, <3>1, <3>2, <3>3
  <2>3. ASSUME NEW x \in S, NEW y \in S, NEW z \in S, <<x, y>> \in ByDeferral, <<y, z>> \in ByDeferral
        PROVE  <<x, z>> \in ByDeferral
    <3>1. PICK i \in 1 .. n : deferred[i] = x BY <1>7
    <3>2. PICK j \in 1 .. n : deferred[j] = y BY <1>7
    <3>3. PICK k \in 1 .. n : deferred[k] = z BY <1>7
    <3>4. i < j /\ j < k BY <1>8, <2>3, <3>1, <3>2, <3>3
    <3>5. i < k BY <1>5, <3>4
    <3> QED BY <1>8, <3>1, <3>3, <3>5
  <2> QED BY <2>1, <2>2, <2>3
<1>10. Orders(ByDeferral, S)
  BY <1>3, <1>9 DEF Orders
<1>11. \A x \in S : Barriers[x] \in Int
  BY <1>3, PolicyAssumption DEF PolTypeOK, ValidGate, Barriers
<1>12. \A x, y \in S : <<x, y>> \in ByBarrier <=>
         Barriers[x] < Barriers[y] \/ (Barriers[x] = Barriers[y] /\ <<x, y>> \in ByDeferral)
  BY <1>3 DEF ByBarrier
<1>13. Orders(ByBarrier, S)
  BY <1>3, <1>9, <1>11, <1>12 DEF Orders
<1> QED BY <1>4, <1>10, <1>13

(* completeExecution moves the transactions that t aborted, and those it   *)
(* opens the gate for, to ready, each once.                                *)
LEMMA ReleaseMoves ==
  ASSUME PolTypeOK, QueuesApart, NEW t \in Txns, Release(t)
  PROVE  /\ ready' \in Seq(Txns) /\ IsInjective(ready')
         /\ deferred' \in Seq(Txns) /\ IsInjective(deferred')
         /\ Range(deferred') \subseteq Range(deferred)
         /\ Range(ready') = Range(ready) \cup Range(abortDeps[t]) \cup (Range(deferred) \ Range(deferred'))
<1>1. /\ ready \in Seq(Txns) /\ deferred \in Seq(Txns) /\ abortDeps[t] \in Seq(Txns)
      /\ IsInjective(ready) /\ IsInjective(deferred) /\ IsInjective(abortDeps[t])
      /\ Range(ready) \cap Range(deferred) = {}
      /\ Range(abortDeps[t]) \cap (Range(ready) \cup Range(deferred)) = {}
      /\ Range(deferred) \subseteq Txns
  <2>1. ready \in Seq(Txns) /\ deferred \in Seq(Txns) /\ abortDeps[t] \in Seq(Txns)
    BY DEF PolTypeOK
  <2>2. Range(deferred) \subseteq Txns
    BY <2>1 DEF Range
  <2> QED BY <2>1, <2>2 DEF QueuesApart
<1>2. /\ ready \o abortDeps[t] \in Seq(Txns) /\ IsInjective(ready \o abortDeps[t])
      /\ Range(ready \o abortDeps[t]) = Range(ready) \cup Range(abortDeps[t])
  BY <1>1, PutAll
<1>3. CASE UNCHANGED deferred /\ ready' = ready \o abortDeps[t]
  BY <1>1, <1>2, <1>3
<1>4. ASSUME NEW S, S \subseteq Range(deferred), NEW R, Orders(R, S),
             ready' = ready \o abortDeps[t] \o Line(S, R),
             deferred' = Line(Range(deferred) \ S, ByDeferral)
      PROVE  /\ ready' \in Seq(Txns) /\ IsInjective(ready')
             /\ deferred' \in Seq(Txns) /\ IsInjective(deferred')
             /\ Range(deferred') = Range(deferred) \ S
             /\ Range(ready') = Range(ready) \cup Range(abortDeps[t]) \cup S
  <2>1. Line(S, R) \in Seq(S) /\ Range(Line(S, R)) = S /\ IsInjective(Line(S, R))
    BY <1>4, LineOnce
  <2>2. S \subseteq Txns BY <1>1, <1>4
  <2>3. Line(S, R) \in Seq(Txns)
    BY <2>1, <2>2, SeqMonotonic
  <2>4. Range(ready \o abortDeps[t]) \cap Range(Line(S, R)) = {}
    BY <1>1, <1>2, <1>4, <2>1
  <2>5. /\ (ready \o abortDeps[t]) \o Line(S, R) \in Seq(Txns)
        /\ IsInjective((ready \o abortDeps[t]) \o Line(S, R))
        /\ Range((ready \o abortDeps[t]) \o Line(S, R)) = Range(ready \o abortDeps[t]) \cup S
    <3> DEFINE s == ready \o abortDeps[t]
               r == Line(S, R)
    <3>1. s \in Seq(Txns) /\ r \in Seq(Txns) /\ IsInjective(s) /\ IsInjective(r)
          /\ Range(s) \cap Range(r) = {} /\ Range(r) = S
      BY <1>2, <2>1, <2>3, <2>4
    <3> HIDE DEF s, r
    <3>2. s \o r \in Seq(Txns) /\ IsInjective(s \o r) /\ Range(s \o r) = Range(s) \cup S
      BY <3>1, PutAll
    <3> QED BY <3>2 DEF s, r
  <2> DEFINE L == Line(Range(deferred) \ S, ByDeferral)
  <2>6. Orders(ByDeferral, Range(deferred) \ S)
    <3>1. Range(deferred) \ S \subseteq Range(deferred) OBVIOUS
    <3> QED BY <1>1, <3>1, ReleaseOrders
  <2>7. L \in Seq(Range(deferred) \ S) /\ Range(L) = Range(deferred) \ S /\ IsInjective(L)
    BY <2>6, LineOnce
  <2>8. Range(deferred) \ S \subseteq Txns BY <1>1
  <2>9. L \in Seq(Txns) BY <2>7, <2>8, SeqMonotonic
  <2> QED BY <1>2, <1>4, <2>5, <2>7, <2>9
<1>5. CASE Gate = "index_order" \/ t \in completed
  BY <1>3, <1>5 DEF Release
<1>6. CASE Gate = "predecessors" /\ t \notin completed
  <2> DEFINE S == {u \in Range(deferred) : t \in Predecessors[u] /\ indegree[u] = 1}
  <2>1. ready' = ready \o abortDeps[t] \o Line(S, ByIndex) /\ deferred' = Line(Range(deferred) \ S, ByDeferral)
    BY <1>6 DEF Release
  <2>2. S \subseteq Range(deferred) OBVIOUS
  <2> HIDE DEF S
  <2>3. Orders(ByIndex, S) BY <1>1, <2>2, ReleaseOrders
  <2>4. /\ ready' \in Seq(Txns) /\ IsInjective(ready') /\ deferred' \in Seq(Txns) /\ IsInjective(deferred')
        /\ Range(deferred') = Range(deferred) \ S
        /\ Range(ready') = Range(ready) \cup Range(abortDeps[t]) \cup S
    BY <1>4, <2>1, <2>2, <2>3
  <2> QED BY <2>2, <2>4
<1>7. CASE Gate = "barriers" /\ t \notin completed
  <2> DEFINE S == {u \in Range(deferred) : frontier <= Barriers[u] /\ Barriers[u] < Advance(completed \cup {t})}
  <2>1. ready' = ready \o abortDeps[t] \o Line(S, ByBarrier) /\ deferred' = Line(Range(deferred) \ S, ByDeferral)
    BY <1>7 DEF Release
  <2>2. S \subseteq Range(deferred) OBVIOUS
  <2> HIDE DEF S
  <2>3. Orders(ByBarrier, S) BY <1>1, <2>2, ReleaseOrders
  <2>4. /\ ready' \in Seq(Txns) /\ IsInjective(ready') /\ deferred' \in Seq(Txns) /\ IsInjective(deferred')
        /\ Range(deferred') = Range(deferred) \ S
        /\ Range(ready') = Range(ready) \cup Range(abortDeps[t]) \cup S
    BY <1>4, <2>1, <2>2, <2>3
  <2> QED BY <2>2, <2>4
<1>8. Gate \in {"index_order", "predecessors", "barriers"}
  BY PolicyAssumption DEF PolTypeOK, Normalized, Gate
<1> QED BY <1>5, <1>6, <1>7, <1>8

(* The queues hold finitely many transactions.                             *)
LEMMA QueuedFinite ==
  ASSUME PolTypeOK
  PROVE  /\ Queued \subseteq Txns /\ IsFiniteSet(Queued) /\ Cardinality(Queued) \in Nat
         /\ IsFiniteSet(Holders) /\ Cardinality(Holders) \in Nat
<1>1. ASSUME NEW s \in Seq(Txns) PROVE Range(s) \subseteq Txns
  BY DEF Range
<1>2. Range(ready) \subseteq Txns /\ Range(deferred) \subseteq Txns
  BY <1>1 DEF PolTypeOK
<1>3. \A b \in Txns : Range(abortDeps[b]) \subseteq Txns
  BY <1>1 DEF PolTypeOK
<1>4. Queued \subseteq Txns
  BY <1>2, <1>3 DEF Queued
<1>5. IsFiniteSet(Txns)
  BY FS_Interval, BlockSizeAssumption DEF Txns
<1>6. IsFiniteSet(Queued)
  BY <1>4, <1>5, FS_Subset
<1>7. IsFiniteSet(Holders)
  BY WorkersAssumption, FS_Subset DEF Holders
<1> QED BY <1>4, <1>6, <1>7, FS_CardinalityType

(* No active task means an empty queue and nothing left to execute, which  *)
(* is what the frozen CheckDone takes it to mean.                          *)
LEMMA NoReservationLeft ==
  ASSUME CoreInv, PolTypeOK, QueueInv
  PROVE  IdleIsDone
<1> SUFFICES ASSUME num_active_tasks = 0
             PROVE  Holders = {} /\ \A t \in Txns : t < execution_idx => status[t] = "Executed"
  BY DEF IdleIsDone
<1>1. IsFiniteSet(Queued) /\ IsFiniteSet(Holders) /\ Cardinality(Queued) = 0 /\ Cardinality(Holders) = 0
  <2>1. Cardinality(Queued) \in Nat /\ Cardinality(Holders) \in Nat BY QueuedFinite
  <2>2. Cardinality(Holders) + Cardinality(Queued) = 0 BY DEF QueueInv
  <2>3. Cardinality(Queued) = 0 /\ Cardinality(Holders) = 0 BY <2>1, <2>2
  <2> QED BY <2>3, QueuedFinite
<1>2. Queued = {} /\ Holders = {}
  BY <1>1, FS_EmptySet
<1>3. \A t \in Txns : ~ HasOwner(t)
  BY <1>2 DEF Holders, Holds, HasOwner, Owner, ReservedPCs
<1> QED
  BY <1>2, <1>3 DEF QueueInv, DispatchedBut, CoreInv, OwnerInv, ClaimedStatus

(* A step of the frozen kernel leaves the queues in order, ...             *)
LEMMA FrozenQueue ==
  ASSUME CoreInv, PolTypeOK, QueueInv, [SchedNext]_schedVars, UNCHANGED <<ready, deferred, abortDeps>>
  PROVE  QueueInv'
<1>1. Queued' = Queued /\ QueuesApart'
  BY DEF QueueInv, Queued, QueuesApart
<1>2. Queued \subseteq Txns /\ Cardinality(Queued) \in Nat
  BY QueuedFinite
<1>3. num_active_tasks' = Cardinality(Holders') + Cardinality(Queued)
  BY <1>2, AccountingStep DEF QueueInv, CoreInv
<1>4. \A t \in Queued : Unowned(t)'
  BY <1>2, UnownedStep DEF QueueInv
<1>5. ASSUME NEW t \in Txns, t \notin Queued, t < execution_idx', status'[t] = "Ready" PROVE HasOwner(t)'
  <2>1. t < execution_idx /\ status[t] = "Ready" => HasOwner(t)
    BY <1>5 DEF QueueInv, DispatchedBut
  <2>2. DoneIsQuiescent BY DEF CoreInv, DoneInv
  <2> QED BY <1>5, <2>1, <2>2, ClaimedStep DEF CoreInv
<1> QED BY <1>1, <1>3, <1>4, <1>5 DEF QueueInv, DispatchedBut

\* Every transaction is with the workers it was with, except t and except w.
OwnersKept(w, t) ==
  \A v \in Workers, u \in Txns : v # w \/ u # t => (Owner(v, u)' <=> Owner(v, u))

(* ... and so does one that neither moves a transaction nor a reservation. *)
LEMMA QuietQueue ==
  ASSUME PolTypeOK, QueueInv, Holders' = Holders, \A v \in Workers, u \in Txns : Owner(v, u)' <=> Owner(v, u),
         UNCHANGED <<ready, deferred, abortDeps, status, execution_idx, num_active_tasks>>
  PROVE  QueueInv'
<1>1. Queued' = Queued /\ QueuesApart' /\ Queued \subseteq Txns
  BY QueuedFinite DEF QueueInv, Queued, QueuesApart
<1>2. \A u \in Txns : HasOwner(u)' <=> HasOwner(u)
  BY DEF HasOwner
<1>3. \A u \in Txns : Unowned(u)' <=> Unowned(u)
  BY <1>2 DEF Unowned
<1> QED BY <1>1, <1>2, <1>3 DEF QueueInv, DispatchedBut

(* A worker that takes a transaction from a queue takes its reservation.   *)
LEMMA TakeUp ==
  ASSUME CoreInv, PolTypeOK, QueueInv, NEW w \in Workers, NEW t \in Queued, Queued' = Queued \ {t}, QueuesApart',
         Holders' = Holders \cup {w}, w \notin Holders, Owner(w, t)', OwnersKept(w, t),
         UNCHANGED <<status, execution_idx, num_active_tasks>>
  PROVE  QueueInv'
<1>1. Queued \subseteq Txns /\ IsFiniteSet(Queued) /\ IsFiniteSet(Holders)
  BY QueuedFinite
<1>2. Cardinality(Queued') = Cardinality(Queued) - 1
  BY <1>1, FS_RemoveElement
<1>3. Cardinality(Holders') = Cardinality(Holders) + 1
  BY <1>1, FS_AddElement
<1>4. num_active_tasks' = Cardinality(Holders') + Cardinality(Queued')
  <2>1. Cardinality(Queued) \in Nat /\ Cardinality(Holders) \in Nat BY QueuedFinite
  <2>2. num_active_tasks' = Cardinality(Holders) + Cardinality(Queued) BY DEF QueueInv
  <2> QED BY <1>2, <1>3, <2>1, <2>2
<1>5. \A u \in Txns : u # t => (HasOwner(u)' <=> HasOwner(u))
  BY DEF HasOwner, OwnersKept
<1>6. \A u \in Queued' : Unowned(u)'
  BY <1>1, <1>5 DEF QueueInv, Unowned
<1>7. DispatchedBut(Queued)'
  BY <1>1, <1>5 DEF QueueInv, DispatchedBut, HasOwner
<1> QED BY <1>4, <1>6, <1>7 DEF QueueInv

(* One that puts a transaction into a queue leaves its reservation with it.*)
LEMMA PutDown ==
  ASSUME CoreInv, PolTypeOK, QueueInv, NEW w \in Workers, NEW t \in Txns, t \notin Queued,
         Queued' = Queued \cup {t}, QueuesApart', Holders' = Holders \ {w}, w \in Holders,
         Unowned(t)', OwnersKept(w, t), \A u \in Txns : u # t => status'[u] = status[u],
         UNCHANGED <<execution_idx, num_active_tasks>>
  PROVE  QueueInv'
<1>1. Queued \subseteq Txns /\ IsFiniteSet(Queued) /\ IsFiniteSet(Holders)
  BY QueuedFinite
<1>2. Cardinality(Queued') = Cardinality(Queued) + 1
  BY <1>1, FS_AddElement
<1>3. Cardinality(Holders') = Cardinality(Holders) - 1
  BY <1>1, FS_RemoveElement
<1>4. num_active_tasks' = Cardinality(Holders') + Cardinality(Queued')
  <2>1. Cardinality(Queued) \in Nat /\ Cardinality(Holders) \in Nat BY QueuedFinite
  <2>2. num_active_tasks' = Cardinality(Holders) + Cardinality(Queued) BY DEF QueueInv
  <2> QED BY <1>2, <1>3, <2>1, <2>2
<1>5. \A u \in Txns : u # t => (HasOwner(u)' <=> HasOwner(u))
  BY DEF HasOwner, OwnersKept
<1>6. \A u \in Queued' : Unowned(u)'
  BY <1>1, <1>5 DEF QueueInv, Unowned
<1>7. DispatchedBut(Queued)'
  BY <1>1, <1>5 DEF QueueInv, DispatchedBut
<1> QED BY <1>4, <1>6, <1>7 DEF QueueInv

(* What a step of the policy kernel is to the frozen one: a step of it, or *)
(* one of a worker without a task or of a reader that goes on, or a worker *)
(* giving its transaction up.                                              *)
LEMMA FrozenStep ==
  ASSUME CoreInv, MemoryShape, PolTypeOK, StageInv, QueueInv, [PolNext]_<<vars, polVars>>
  PROVE  \/ [Next]_vars
         \/ CoreInv' /\ \E w \in Workers : Quiet(w)
         \/ \E w \in Workers : GivesUp(w)
<1>1. CASE UNCHANGED <<vars, polVars>> \/ PolReturn \/ PolFinished \/ PolCancel
  BY <1>1 DEF PolReturn, PolFinished, PolCancel, Next
<1>2. ASSUME NEW w \in Workers, PolStep(w)
      PROVE  [Next]_vars \/ (CoreInv' /\ Quiet(w)) \/ GivesUp(w)
  <2>0. WorkerStage(w) /\ WorkerTask(w) /\ pc \in [Workers -> PCs] /\ obs \in [Workers -> Nat]
    BY DEF StageInv, CoreInv, TaskInv, SchedTypeOK
  <2>1. CASE Base(w) \/ Data(w)
    BY <2>1 DEF Base, Data, Next, WorkerStep
  <2>2. CASE CompleteExecution(w) \/ NotifyValidated(w) \/ NotifyDone(w) \/ IdleCheck(w) \/ ParkEnds(w)
    BY <2>2 DEF CompleteExecution, NotifyValidated, NotifyDone, IdleCheck, ParkEnds
  <2>3. CASE RegisterAbort(w)
    BY <2>3 DEF RegisterAbort, GivesUp, Goto
  <2>4. CASE PopReady(w)
    <3>1. Last(ready) \in Queued /\ Last(ready) \in Txns
      BY <2>4, TakeLast DEF PopReady, PolTypeOK, QueueInv, QueuesApart, Queued
    <3>2. Unowned(Last(ready)) /\ Last(ready) \in Nat
      BY <3>1, TxnIndices DEF QueueInv
    <3>3. CoreInv'
      <4>1. /\ kind[w] = "none" /\ UNCHANGED <<sharedVars, waitVars, taskVars>> /\ pc[w] = "loop"
            /\ pc' = [pc EXCEPT ![w] = "incarnate"] /\ obs' = [obs EXCEPT ![w] = Last(ready)]
        BY <2>4 DEF PopReady, Goto, Observe
      <4> QED BY <3>1, <3>2, <4>1, TasklessStep
    <3> QED BY <2>0, <2>4, <3>3 DEF PopReady, Quiet, Goto, Observe, sharedVars
  <2>5. CASE ScanWork(w)
    <3>1. CoreInv'
      <4>1. PICK p \in {"nvCheck", "neCheck"} : pc' = [pc EXCEPT ![w] = p]
        BY <2>5 DEF ScanWork, Goto
      <4>2. /\ kind[w] = "none" /\ UNCHANGED <<sharedVars, waitVars, taskVars>> /\ pc[w] = "loadE"
            /\ obs' = [obs EXCEPT ![w] = 0]
        BY <2>0, <2>5 DEF ScanWork, Goto, Observe, WorkerTask
      <4> QED BY <4>1, <4>2, TasklessStep
    <3> QED BY <2>0, <2>5, <3>1 DEF ScanWork, Quiet, Goto, Observe, sharedVars, WorkerTask
  <2>6. CASE Defer(w)
    <3>1. CoreInv'
      <4>1. /\ kind[w] = "none" /\ UNCHANGED <<sharedVars, waitVars, taskVars>> /\ pc[w] = "incarnate"
            /\ pc' = [pc EXCEPT ![w] = "loop"] /\ obs' = [obs EXCEPT ![w] = 0]
        BY <2>0, <2>6 DEF Defer, Goto, Observe, WorkerStage
      <4> QED BY <4>1, TasklessStep
    <3> QED BY <2>0, <2>6, <3>1 DEF Defer, Quiet, Goto, Observe, sharedVars, WorkerStage
  <2>7. CASE UnwindOrRetry(w)
    <3>1. CASE status[blk[w]] = "Executed"
      <4>1. CoreInv'
        BY <2>7, <3>1, ReadAgainStep DEF UnwindOrRetry
      <4> QED BY <2>0, <2>7, <3>1, <4>1 DEF UnwindOrRetry, Quiet, Goto, sharedVars
    <3>2. CASE status[blk[w]] # "Executed"
      BY <2>7, <3>2 DEF UnwindOrRetry, vars
    <3> QED BY <3>1, <3>2
  <2> QED BY <1>2, <2>1, <2>2, <2>3, <2>4, <2>5, <2>6, <2>7 DEF PolStep, PolControl
<1> QED BY <1>1, <1>2 DEF PolNext

(* So it keeps what is proved of the frozen kernel.                        *)
LEMMA KernelInvStep ==
  ASSUME CoreInv, MemInv, ValidationInv, ReplayInv, PolTypeOK, StageInv, QueueInv,
         [PolNext]_<<vars, polVars>>
  PROVE  /\ CoreInv' /\ MemInv' /\ ValidationInv' /\ ReplayInv'
         /\ [Serial!Next]_<<storage, result>>
<1>0. MemoryShape BY DEF MemInv
<1>1. CASE [Next]_vars
  <2>1. [SchedNext]_schedVars BY <1>0, <1>1, SimulationStep
  <2>2. CoreInv' BY <2>1, NoReservationLeft, CoreInvStep
  <2> QED BY <1>1, <2>2, MemInvStep, ValidationInvStep, ReplayInvStep, SerialStep
<1>2. ASSUME NEW w \in Workers, Quiet(w), CoreInv'
      PROVE  MemInv' /\ ValidationInv' /\ ReplayInv' /\ UNCHANGED <<storage, result>>
  BY <1>2, QuietEntries, QuietValidation, QuietReplay
<1>3. ASSUME NEW w \in Workers, GivesUp(w)
      PROVE  CoreInv' /\ MemInv' /\ ValidationInv' /\ ReplayInv' /\ UNCHANGED <<storage, result>>
  BY <1>3, GivesUpStep, GivesUpEntries, GivesUpValidation, GivesUpReplay
<1> QED BY <1>0, <1>1, <1>2, <1>3, FrozenStep

(* A reader waits for a transaction of the block.                          *)
LEMMA BlockerIndex ==
  ASSUME CoreInv, NEW w \in Workers, pc[w] = "depend"
  PROVE  txn[w] \in Txns /\ blk[w] \in Txns
<1>1. WorkerTask(w) /\ blk[w] \in Nat
  BY DEF CoreInv, TaskInv, SchedTypeOK
<1>2. txn[w] \in Txns /\ blk[w] < txn[w]
  BY <1>1 DEF WorkerTask
<1>3. ASSUME NEW a \in Nat, NEW b \in Txns, a < b PROVE a \in Txns
  BY <1>3, TxnIndices, BlockSizeAssumption
<1> QED BY <1>1, <1>2, <1>3

(* Who is in a queue.                                                      *)
LEMMA QueuedMember ==
  /\ \A x : x \in Queued <=> x \in Range(ready) \/ x \in Range(deferred)
                             \/ \E b \in Txns : x \in Range(abortDeps[b])
  /\ \A x : x \in Queued' <=> x \in Range(ready') \/ x \in Range(deferred')
                              \/ \E b \in Txns : x \in Range(abortDeps'[b])
BY DEF Queued

(* The variables of the wrapping code keep their types.                    *)
LEMMA PolTypeStep ==
  ASSUME CoreInv, PolTypeOK, StageInv, QueueInv, [PolNext]_<<vars, polVars>>
  PROVE  PolTypeOK'
<1> USE DEF At, Wake
<1>0. \A w \in Workers : txn[w] \in Nat /\ WorkerStage(w)
  BY DEF CoreInv, SchedTypeOK, StageInv
<1>1. CASE UNCHANGED <<vars, polVars>> \/ PolReturn \/ PolFinished \/ PolCancel
  BY <1>1 DEF PolReturn, PolFinished, PolCancel, polVars, queues, gateVars, PolTypeOK
<1>2. ASSUME NEW w \in Workers, PolStep(w) PROVE PolTypeOK'
  <2>0. UNCHANGED policy BY <1>2 DEF PolStep
  <2>1. CASE Base(w)
    <3>1. stage' \in [Workers -> {"none", "gate", "finishing", "validating", "checked", "unwinding",
                                  "idle", "parked", "woken"}]
      BY <2>1 DEF Base, PolTypeOK
    <3>2. own' \in [Workers -> Nat] /\ UNCHANGED queues
      BY <1>0, <2>1 DEF Base, PolTypeOK
    <3> QED BY <2>0, <3>1, <3>2 DEF PolTypeOK, queues, gateVars
  <2>2. CASE Data(w)
    BY <2>0, <2>2 DEF Data, PolTypeOK, queues, gateVars
  <2>3. CASE CompleteExecution(w)
    <3>1. own[w] \in Txns /\ Release(own[w])
      BY <1>0, <2>3 DEF CompleteExecution, WorkerStage
    <3>2. ready' \in Seq(Txns) /\ deferred' \in Seq(Txns)
      BY <3>1, ReleaseMoves DEF QueueInv
    <3>3. completed' \subseteq Txns
      <4>1. Gate \in {"index_order", "predecessors", "barriers"} /\ completed \subseteq Txns
        BY PolicyAssumption DEF PolTypeOK, Normalized, Gate
      <4>2. completed' = completed \/ completed' = completed \cup {own[w]}
        BY <3>1, <4>1 DEF Release, gateVars
      <4> QED BY <3>1, <4>1, <4>2
    <3>4. <<>> \in Seq(Txns) OBVIOUS
    <3>5. abortDeps' \in [Txns -> Seq(Txns)] /\ own' \in [Workers -> Nat]
      BY <2>3, <3>1, <3>4 DEF CompleteExecution, PolTypeOK
    <3>6. stage' \in [Workers -> {"none", "gate", "finishing", "validating", "checked", "unwinding",
                                  "idle", "parked", "woken"}]
      BY <2>3 DEF CompleteExecution, PolTypeOK
    <3> QED BY <2>0, <3>2, <3>3, <3>5, <3>6 DEF PolTypeOK
  <2>4. CASE NotifyValidated(w) \/ NotifyDone(w) \/ IdleCheck(w) \/ ParkEnds(w)
    BY <2>0, <2>4 DEF NotifyValidated, NotifyDone, IdleCheck, ParkEnds, PolTypeOK, queues, gateVars
  <2>5. CASE RegisterAbort(w)
    <3>1. txn[w] \in Txns /\ blk[w] \in Txns
      BY <2>5, BlockerIndex DEF RegisterAbort, Goto
    <3>2. Append(ready, txn[w]) \in Seq(Txns) /\ Append(abortDeps[blk[w]], txn[w]) \in Seq(Txns)
      BY <3>1 DEF PolTypeOK
    <3>3. ready' \in Seq(Txns) /\ abortDeps' \in [Txns -> Seq(Txns)]
      BY <2>5, <3>2 DEF RegisterAbort, PolTypeOK
    <3>4. stage' \in [Workers -> {"none", "gate", "finishing", "validating", "checked", "unwinding",
                                  "idle", "parked", "woken"}]
      BY <2>5 DEF RegisterAbort, PolTypeOK
    <3> QED BY <2>0, <2>5, <3>3, <3>4 DEF RegisterAbort, PolTypeOK, gateVars
  <2>6. CASE PopReady(w)
    <3>1. ready' \in Seq(Txns)
      BY <2>6, TakeLast DEF PopReady, PolTypeOK, QueueInv, QueuesApart
    <3> QED BY <2>0, <2>6, <3>1 DEF PopReady, PolTypeOK, gateVars
  <2>7. CASE ScanWork(w) \/ UnwindOrRetry(w)
    BY <2>0, <2>7 DEF ScanWork, UnwindOrRetry, PolTypeOK, queues, gateVars
  <2>8. CASE Defer(w)
    <3>1. obs[w] \in Txns BY <1>0, <2>8 DEF Defer, WorkerStage
    <3>2. Append(deferred, obs[w]) \in Seq(Txns) BY <3>1 DEF PolTypeOK
    <3> QED BY <2>0, <2>8, <3>2 DEF Defer, PolTypeOK, gateVars
  <2> QED BY <1>2, <2>1, <2>2, <2>3, <2>4, <2>5, <2>6, <2>7, <2>8 DEF PolStep, PolControl
<1> QED BY <1>1, <1>2 DEF PolNext

(* Every step leaves the queues in order.                                  *)
LEMMA QueueStep ==
  ASSUME CoreInv, MemoryShape, PolTypeOK, StageInv, QueueInv, [PolNext]_<<vars, polVars>>
  PROVE  QueueInv'
<1>0. \A w \in Workers : WorkerStage(w) /\ WorkerTask(w) /\ OwnedStatus(w)
  BY DEF CoreInv, TaskInv, OwnerInv, StageInv
<1>1. CASE [Next]_vars /\ UNCHANGED <<ready, deferred, abortDeps>>
  BY <1>1, SimulationStep, FrozenQueue
<1>2. CASE UNCHANGED <<vars, polVars>> \/ PolReturn \/ PolFinished \/ PolCancel
  BY <1>1, <1>2 DEF PolReturn, PolFinished, PolCancel, Next, polVars, queues
<1>3. ASSUME NEW w \in Workers, PolStep(w) PROVE QueueInv'
  <2>1. CASE Base(w) \/ Data(w)
    BY <1>1, <2>1 DEF Base, Data, Next, WorkerStep, queues
  <2>2. CASE NotifyValidated(w) \/ NotifyDone(w) \/ IdleCheck(w) \/ ParkEnds(w)
    BY <1>1, <2>2 DEF NotifyValidated, NotifyDone, IdleCheck, ParkEnds, queues
  <2>3. CASE CompleteExecution(w)
    <3> DEFINE t == own[w]
    <3>1. t \in Txns /\ Release(t)
      BY <1>0, <2>3 DEF CompleteExecution, WorkerStage
    <3>2. abortDeps \in [Txns -> Seq(Txns)] /\ abortDeps' = [abortDeps EXCEPT ![t] = <<>>]
      BY <2>3 DEF CompleteExecution, PolTypeOK
    <3> HIDE DEF t
    <3>3. /\ IsInjective(ready') /\ IsInjective(deferred') /\ Range(deferred') \subseteq Range(deferred)
          /\ Range(ready') = Range(ready) \cup Range(abortDeps[t]) \cup (Range(deferred) \ Range(deferred'))
      BY <3>1, ReleaseMoves DEF QueueInv
    <3>4. Range(<<>>) = {} /\ IsInjective(<<>>)
      BY DEF Range, IsInjective
    <3>5. /\ abortDeps'[t] = <<>>
          /\ \A b \in Txns : b # t => abortDeps'[b] = abortDeps[b]
      BY <3>1, <3>2
    <3>6. QueuesApart BY DEF QueueInv
    <3>7. QueuesApart'
      BY <3>1, <3>3, <3>4, <3>5, <3>6 DEF QueuesApart
    <3>8. ASSUME NEW x
          PROVE  (\E b \in Txns : x \in Range(abortDeps[b]))
                   <=> x \in Range(abortDeps[t]) \/ \E b \in Txns : x \in Range(abortDeps'[b])
      BY <3>1, <3>4, <3>5
    <3>9. Queued' = Queued
      BY <3>3, <3>8, QueuedMember
    <3>10. UNCHANGED vars BY <2>3 DEF CompleteExecution
    <3>11. \A u \in Txns : (HasOwner(u)' <=> HasOwner(u)) /\ (Unowned(u)' <=> Unowned(u))
      BY <3>10 DEF vars, schedVars, counters, statusVars, taskVars, Unowned, HasOwner, Owner
    <3>12. Holders' = Holders /\ num_active_tasks' = num_active_tasks /\ UNCHANGED <<status, execution_idx>>
      BY <3>10 DEF vars, schedVars, counters, statusVars, taskVars, Holders, Holds
    <3>13. Queued \subseteq Txns BY QueuedFinite
    <3> QED BY <3>7, <3>9, <3>11, <3>12, <3>13 DEF QueueInv, DispatchedBut
  <2>4. CASE PopReady(w)
    <3>t. PICK t : t = Last(ready) OBVIOUS
    <3>1. /\ ready \in Seq(Txns) /\ IsInjective(ready) /\ ready # <<>>
          /\ ready' = Front(ready) /\ UNCHANGED <<deferred, abortDeps>>
      BY <2>4 DEF PopReady, PolTypeOK, QueueInv, QueuesApart
    <3>2. t \in Txns /\ t \in Range(ready) /\ Range(ready') = Range(ready) \ {t} /\ IsInjective(ready')
      BY <3>t, <3>1, TakeLast
    <3>3. QueuesApart BY DEF QueueInv
    <3>4. \A b \in Txns : t \notin Range(abortDeps[b])
      BY <3>2, <3>3 DEF QueuesApart
    <3>5. t \in Queued /\ Queued' = Queued \ {t}
      BY <3>1, <3>2, <3>3, <3>4 DEF Queued, QueuesApart
    <3>6. QueuesApart'
      BY <3>1, <3>2, <3>3 DEF QueuesApart
    <3>7. /\ pc[w] = "loop" /\ kind[w] = "none" /\ pc' = [pc EXCEPT ![w] = "incarnate"]
          /\ obs' = [obs EXCEPT ![w] = t]
          /\ UNCHANGED <<status, execution_idx, num_active_tasks, kind, txn>>
      BY <3>t, <2>4 DEF PopReady, Goto, Observe, sharedVars, statusVars, counters, taskVars
    <3>8. Holders' = Holders \cup {w} /\ w \notin Holders
      BY <3>7 DEF Holders, Holds, ReservedPCs, CoreInv, SchedTypeOK
    <3>9. Owner(w, t)' /\ OwnersKept(w, t)
      BY <3>7 DEF Owner, OwnersKept, CoreInv, SchedTypeOK
    <3> QED BY <3>5, <3>6, <3>7, <3>8, <3>9, TakeUp
  <2>5. CASE Defer(w)
    <3>t. PICK t : t = obs[w] OBVIOUS
    <3>1. /\ pc[w] = "incarnate" /\ kind[w] = "none" /\ t \in Txns /\ pc' = [pc EXCEPT ![w] = "loop"]
          /\ obs' = [obs EXCEPT ![w] = 0] /\ deferred' = Append(deferred, t)
          /\ UNCHANGED <<status, execution_idx, num_active_tasks, kind, txn, ready, abortDeps>>
      BY <3>t, <1>0, <2>5 DEF Defer, Goto, Observe, sharedVars, statusVars, counters, taskVars, WorkerStage
    <3>2. Owner(w, t) /\ status[t] = "Ready" /\ t < execution_idx
      BY <3>t, <1>0, <3>1, TxnIndices DEF Owner, OwnedStatus, WorkerTask
    <3>3. t \notin Queued
      BY <3>2 DEF QueueInv, Unowned, HasOwner
    <3>4. Range(deferred') = Range(deferred) \cup {t} /\ IsInjective(deferred')
      <4>1. deferred \in Seq(Txns) /\ IsInjective(deferred) /\ t \notin Range(deferred)
        BY <3>3 DEF PolTypeOK, QueueInv, QueuesApart, Queued
      <4> QED BY <3>1, <4>1, PutLast
    <3>5. Queued' = Queued \cup {t}
      BY <3>1, <3>4 DEF Queued
    <3>6. t \notin Range(ready) /\ \A b \in Txns : t \notin Range(abortDeps[b])
      BY <3>3 DEF Queued
    <3>7. QueuesApart BY DEF QueueInv
    <3>8. QueuesApart'
      BY <3>1, <3>4, <3>6, <3>7 DEF QueuesApart
    <3>9. Holders' = Holders \ {w} /\ w \in Holders
      BY <3>1 DEF Holders, Holds, ReservedPCs, CoreInv, SchedTypeOK
    <3>10. pc[w] = "incarnate" /\ kind[w] = "none" /\ obs[w] = t BY <3>t, <3>1
    <3>11. OwnersKept(w, t) /\ ~ Owner(w, t)'
      BY <3>1, <3>10 DEF Owner, OwnersKept, CoreInv, SchedTypeOK
    <3>12. Unowned(t)'
      <4>1. \A v \in Workers : v # w => ~ Owner(v, t)
        BY <3>1, <3>2 DEF CoreInv, OwnerInv, UniqueOwner
      <4> QED BY <3>1, <3>2, <3>11, <4>1 DEF Unowned, HasOwner, OwnersKept
    <3> QED BY <3>1, <3>3, <3>5, <3>8, <3>9, <3>11, <3>12, PutDown
  <2>6. CASE RegisterAbort(w)
    <3>t. PICK t : t = txn[w] OBVIOUS
    <3>0. GivesUp(w) BY <2>6 DEF RegisterAbort, GivesUp, Goto
    <3>1. /\ t \in Txns /\ kind[w] = "execution" /\ pc[w] = "depend" /\ pc'[w] = "loop" /\ kind'[w] = "none"
          /\ \A u \in Txns : u # t => status'[u] = status[u]
          /\ status'[t] = "Ready"
          /\ \A v \in Workers : v # w => pc'[v] = pc[v] /\ kind'[v] = kind[v] /\ ~ Owner(v, t)
          /\ \A v \in Workers, u \in Txns : Owner(v, u)' <=> Owner(v, u) /\ v # w
      BY <3>t, <3>0, GivesUpFrame
    <3>2. UNCHANGED <<execution_idx, num_active_tasks>>
      BY <3>0 DEF GivesUp, counters
    <3>3. Owner(w, t) /\ \A u \in Txns : u # t => ~ Owner(w, u)
      BY <3>t, <3>1 DEF Owner
    <3>4. t \notin Queued /\ t < execution_idx
      BY <3>t, <1>0, <3>1, <3>3 DEF QueueInv, Unowned, HasOwner, WorkerTask
    <3>5. blk[w] \in Txns
      BY <3>1, BlockerIndex
    <3>6. /\ deferred' = deferred
          /\ \/ ready' = Append(ready, t) /\ abortDeps' = abortDeps
             \/ ready' = ready /\ abortDeps' = [abortDeps EXCEPT ![blk[w]] = Append(@, t)]
      BY <3>t, <2>6 DEF RegisterAbort
    <3>7. t \notin Range(ready) /\ t \notin Range(deferred) /\ \A b \in Txns : t \notin Range(abortDeps[b])
      BY <3>4 DEF Queued
    <3>8. QueuesApart BY DEF QueueInv
    <3>9. QueuesApart' /\ Queued' = Queued \cup {t}
      <4>1. CASE ready' = Append(ready, t) /\ abortDeps' = abortDeps
        <5>1. Range(ready') = Range(ready) \cup {t} /\ IsInjective(ready')
          <6>1. ready \in Seq(Txns) /\ IsInjective(ready)
            BY <3>8 DEF PolTypeOK, QueuesApart
          <6> QED BY <3>1, <3>7, <4>1, <6>1, PutLast
        <5>2. QueuesApart' BY <3>6, <3>7, <3>8, <4>1, <5>1 DEF QueuesApart
        <5> QED BY <3>6, <4>1, <5>1, <5>2 DEF Queued
      <4>2. CASE ready' = ready /\ abortDeps' = [abortDeps EXCEPT ![blk[w]] = Append(@, t)]
        <5> DEFINE b == blk[w]
        <5>0. abortDeps \in [Txns -> Seq(Txns)] /\ b \in Txns /\ IsInjective(abortDeps[b])
          BY <3>5, <3>8 DEF PolTypeOK, QueuesApart
        <5>1. abortDeps'[b] = Append(abortDeps[b], t) /\ \A c \in Txns : c # b => abortDeps'[c] = abortDeps[c]
          BY <4>2, <5>0
        <5> HIDE DEF b
        <5>2. Range(abortDeps'[b]) = Range(abortDeps[b]) \cup {t} /\ IsInjective(abortDeps'[b])
          <6>1. abortDeps[b] \in Seq(Txns) /\ t \in Txns /\ t \notin Range(abortDeps[b]) BY <3>1, <3>7, <5>0
          <6> QED BY <5>0, <5>1, <6>1, PutLast
        <5>3. QueuesApart' BY <3>6, <3>7, <3>8, <4>2, <5>0, <5>1, <5>2 DEF QueuesApart
        <5>4. ASSUME NEW x
              PROVE  (\E c \in Txns : x \in Range(abortDeps'[c]))
                       <=> x = t \/ \E c \in Txns : x \in Range(abortDeps[c])
          BY <5>0, <5>1, <5>2
        <5> QED BY <3>6, <4>2, <5>3, <5>4, QueuedMember
      <4> QED BY <3>6, <4>1, <4>2
    <3>10. Holders' = Holders \ {w} /\ w \in Holders
      BY <3>1 DEF Holders, Holds, ReservedPCs
    <3>11. OwnersKept(w, t)
      BY <3>1, <3>3 DEF OwnersKept
    <3>12. Unowned(t)'
      BY <3>1, <3>2, <3>4 DEF Unowned, HasOwner
    <3> QED BY <3>1, <3>2, <3>4, <3>9, <3>10, <3>11, <3>12, PutDown
  <2>7. CASE ScanWork(w)
    <3>1. /\ pc[w] = "loadE" /\ pc'[w] \in {"nvCheck", "neCheck"}
          /\ \A v \in Workers : v # w => pc'[v] = pc[v] /\ obs'[v] = obs[v]
          /\ UNCHANGED <<status, execution_idx, num_active_tasks, kind, txn, ready, deferred, abortDeps>>
      BY <2>7 DEF ScanWork, Goto, Observe, sharedVars, statusVars, counters, taskVars, queues, CoreInv, SchedTypeOK
    <3>2. Holders' = Holders
      BY <3>1 DEF Holders, Holds, ReservedPCs
    <3>3. \A v \in Workers, u \in Txns : Owner(v, u)' <=> Owner(v, u)
      BY <3>1 DEF Owner
    <3> QED BY <3>1, <3>2, <3>3, QuietQueue
  <2>8. CASE UnwindOrRetry(w)
    <3>1. CASE status[blk[w]] = "Executed"
      <4>1. /\ pc[w] = "depend" /\ pc'[w] = "exec"
            /\ \A v \in Workers : v # w => pc'[v] = pc[v]
            /\ UNCHANGED <<status, execution_idx, num_active_tasks, kind, txn, obs, ready, deferred, abortDeps>>
        BY <2>8, <3>1 DEF UnwindOrRetry, Goto, sharedVars, statusVars, counters, taskVars, queues, CoreInv, SchedTypeOK
      <4>2. Holders' = Holders
        BY <4>1 DEF Holders, Holds, ReservedPCs
      <4>3. \A v \in Workers, u \in Txns : Owner(v, u)' <=> Owner(v, u)
        BY <4>1 DEF Owner
      <4> QED BY <4>1, <4>2, <4>3, QuietQueue
    <3>2. CASE status[blk[w]] # "Executed"
      BY <1>1, <2>8, <3>2 DEF UnwindOrRetry, vars, queues
    <3> QED BY <3>1, <3>2
  <2> QED BY <1>3, <2>1, <2>2, <2>3, <2>4, <2>5, <2>6, <2>7, <2>8 DEF PolStep, PolControl
<1> QED BY <1>2, <1>3 DEF PolNext

(***************************************************************************)
(* The gate                                                                *)
(***************************************************************************)
(* How the frozen scheduler moves the indices, and who does.               *)
LEMMA IndexFrame ==
  ASSUME CoreInv, NEW w \in Workers, SchedulerStep(w)
  PROVE  /\ execution_idx' = IF pc[w] = "neAdd" THEN execution_idx + 1 ELSE execution_idx
         /\ pc[w] = "neAdd" => obs'[w] = execution_idx
         /\ validation_idx' < validation_idx => pc[w] = "storeMin"
         /\ done_marker' # done_marker => pc[w] = "cdStore" /\ pc'[w] = "loop"
<1> USE DEF CoreInv, SchedTypeOK, counters, statusVars, waitVars, taskVars, sharedVars, Goto, Observe
<1> DEFINE G == /\ execution_idx' = IF pc[w] = "neAdd" THEN execution_idx + 1 ELSE execution_idx
                /\ pc[w] = "neAdd" => obs'[w] = execution_idx
                /\ validation_idx' < validation_idx => pc[w] = "storeMin"
                /\ done_marker' # done_marker => pc[w] = "cdStore" /\ pc'[w] = "loop"
<1>1. CASE RunLoop(w)
  BY <1>1 DEF RunLoop
<1>2. CASE LoadValidationIdx(w)
  BY <1>2 DEF LoadValidationIdx
<1>3. CASE LoadExecutionIdx(w)
  BY <1>3 DEF LoadExecutionIdx
<1>4. CASE ValidateCheck(w)
  BY <1>4 DEF ValidateCheck
<1>5. CASE ValidateIncr(w)
  BY <1>5 DEF ValidateIncr
<1>6. CASE ValidateFetch(w)
  BY <1>6 DEF ValidateFetch
<1>7. CASE ValidateStatus(w)
  BY <1>7 DEF ValidateStatus
<1>8. CASE ExecuteCheck(w)
  BY <1>8 DEF ExecuteCheck
<1>9. CASE ExecuteIncr(w)
  BY <1>9 DEF ExecuteIncr
<1>10. CASE ExecuteAdd(w)
  BY <1>10 DEF ExecuteAdd
<1>11. CASE TryIncarnate(w)
  BY <1>11 DEF TryIncarnate
<1>12. CASE DecrActive(w)
  BY <1>12 DEF DecrActive
<1>13. CASE CheckDoneCount(w)
  BY <1>13 DEF CheckDoneCount
<1>14. CASE CheckDoneLoads(w)
  BY <1>14 DEF CheckDoneLoads
<1>15. CASE CheckDoneStore(w)
  BY <1>15 DEF CheckDoneStore
<1>16. CASE LockDependency(w)
  BY <1>16 DEF LockDependency
<1>17. CASE Suspend(w)
  BY <1>17 DEF Suspend
<1>18. CASE WakeUp(w)
  BY <1>18 DEF WakeUp
<1>19. CASE SetExecuted(w)
  BY <1>19 DEF SetExecuted
<1>20. CASE SwapDependents(w)
  BY <1>20 DEF SwapDependents
<1>21. ASSUME NEW d0 \in deps[w], Resume(w, d0) PROVE G
  BY <1>21 DEF Resume
<1>22. CASE AfterResume(w)
  BY <1>22 DEF AfterResume
<1>23. CASE StoreMin(w)
  BY <1>23 DEF StoreMin
<1>24. CASE CountDecrease(w)
  BY <1>24 DEF CountDecrease
<1>25. CASE TryValidationAbort(w)
  BY <1>25 DEF TryValidationAbort
<1>26. CASE SetReadyStatus(w)
  BY <1>26 DEF SetReadyStatus
<1>27. CASE RetryAborted(w)
  BY <1>27 DEF RetryAborted
<1> QED
  BY <1>1, <1>2, <1>3, <1>4, <1>5, <1>6, <1>7, <1>8, <1>9, <1>10, <1>11, <1>12,
     <1>13, <1>14, <1>15, <1>16, <1>17, <1>18, <1>19, <1>20, <1>21, <1>22, <1>23,
     <1>24, <1>25, <1>26, <1>27 DEF SchedulerStep

(* The counters of the gate tell exactly whether t has an obstacle left.   *)
LEMMA GateReadyExact ==
  ASSUME PolTypeOK, GateInv, NEW t \in Txns
  PROVE  GateReady(t) <=> Obstacles(t) \subseteq completed
<1>1. policy \in Policies /\ Gate \in {"index_order", "predecessors", "barriers"}
  BY PolicyAssumption DEF PolTypeOK, Normalized, Gate
<1>2. CASE Gate = "index_order"
  BY <1>2 DEF GateReady, Obstacles
<1>3. CASE Gate = "predecessors"
  <2> DEFINE P == Predecessors[t]
  <2>1. P \subseteq 0 .. t - 1 /\ t \in Nat
    BY <1>1, PolicyAssumption, TxnIndices DEF ValidGate, Predecessors
  <2>2. IsFiniteSet(0 .. t - 1)
    BY <2>1, FS_Interval
  <2>3. IsFiniteSet(P \ completed)
    BY <2>1, <2>2, FS_Subset
  <2>4. indegree[t] = Cardinality(P \ completed)
    BY <1>3 DEF GateInv
  <2> HIDE DEF P
  <2>5. indegree[t] = 0 <=> P \ completed = {}
    BY <2>3, <2>4, FS_EmptySet
  <2>6. GateReady(t) <=> indegree[t] = 0
    BY <1>3 DEF GateReady
  <2>7. Obstacles(t) = P
    BY <1>3 DEF Obstacles, P
  <2> QED BY <2>5, <2>6, <2>7
<1>4. CASE Gate = "barriers"
  <2> DEFINE b == Barriers[t]
  <2>1. b \in Int
    BY <1>1, PolicyAssumption DEF ValidGate, Barriers
  <2>2. frontier \in 0 .. BlockSize /\ frontier \notin completed /\ 0 .. frontier - 1 \subseteq completed
    BY <1>4 DEF GateInv
  <2>3. (GateReady(t) <=> b < frontier) /\ Obstacles(t) = 0 .. b
    BY <1>4 DEF GateReady, Obstacles
  <2> HIDE DEF b
  <2>4. b < frontier => 0 .. b \subseteq completed
    BY <2>1, <2>2, BlockSizeAssumption
  <2>5. ~ (b < frontier) => frontier \in 0 .. b
    BY <2>1, <2>2, BlockSizeAssumption
  <2> QED BY <2>2, <2>3, <2>4, <2>5
<1> QED BY <1>1, <1>2, <1>3, <1>4

(* The frontier is the first transaction that is still to complete.        *)
LEMMA AdvanceExact ==
  ASSUME NEW done, done \subseteq Txns
  PROVE  /\ Advance(done) \in 0 .. BlockSize /\ Advance(done) \notin done
         /\ 0 .. Advance(done) - 1 \subseteq done
<1> DEFINE T == {i \in 0 .. BlockSize : i \notin done}
<1>1. BlockSize \in T /\ T \in SUBSET Nat
  BY BlockSizeAssumption, TxnIndices
<1>2. \E m \in T : \A y \in T : m <= y
  <2> HIDE DEF T
  <2> QED BY <1>1, LeastExists
<1>3. Min(T) \in T /\ \A y \in T : Min(T) <= y
  <2> HIDE DEF T
  <2> QED BY <1>2 DEF Min
<1>4. Advance(done) = Min(T)
  BY DEF Advance
<1> DEFINE m == Min(T)
<1>5. m \in 0 .. BlockSize /\ m \notin done /\ \A y \in 0 .. BlockSize : y \notin done => m <= y
  BY <1>3
<1> HIDE DEF m, T
<1>6. 0 .. m - 1 \subseteq done
  BY <1>5, BlockSizeAssumption
<1> QED BY <1>4, <1>5, <1>6 DEF m

(* A step that completes nothing lets through only what is ready.          *)
LEMMA GateKept ==
  ASSUME GateInv, UNCHANGED <<policy, gateVars, deferred, execution_idx>>,
         \A v \in Workers, t \in Txns : AtGate(v, t) => AtGate(v, t)' \/ Obstacles(t) \subseteq completed
  PROVE  GateInv'
<1> USE DEF gateVars, Gate, Predecessors, Barriers, Obstacles
<1>1. /\ (Gate = "predecessors" => indegree = [t \in Txns |-> Cardinality(Predecessors[t] \ completed)])'
      /\ (Gate = "barriers" =>
            frontier \in 0 .. BlockSize /\ frontier \notin completed /\ 0 .. frontier - 1 \subseteq completed)'
  BY DEF GateInv
<1>2. \A t \in Txns : Obstacles(t)' = Obstacles(t)
  OBVIOUS
<1>3. (\A t \in Range(deferred) : ~ (Obstacles(t) \subseteq completed))'
  BY DEF GateInv
<1>4. ASSUME NEW t \in Txns, t < execution_idx'
      PROVE  \/ t \in Range(deferred')
             \/ \E w \in Workers : AtGate(w, t)'
             \/ Obstacles(t)' \subseteq completed'
  <2>1. \/ t \in Range(deferred)
        \/ \E w \in Workers : AtGate(w, t)
        \/ Obstacles(t) \subseteq completed
    BY <1>4 DEF GateInv
  <2> HIDE DEF Obstacles
  <2> QED BY <1>2, <2>1
<1> QED BY <1>1, <1>3, <1>4 DEF GateInv

(* The first completion of t counts it off, and opens the gate exactly for *)
(* what has no obstacle left.                                              *)
LEMMA GateReleases ==
  ASSUME PolTypeOK, QueuesApart, GateInv, NEW t \in Txns, t \notin completed, Release(t),
         Gate # "index_order", UNCHANGED policy
  PROVE  /\ completed' = completed \cup {t}
         /\ Range(deferred') = {u \in Range(deferred) : ~ (Obstacles(u) \subseteq completed \cup {t})}
         /\ (Gate = "predecessors" => indegree = [u \in Txns |-> Cardinality(Predecessors[u] \ completed)])'
         /\ (Gate = "barriers" =>
               frontier \in 0 .. BlockSize /\ frontier \notin completed /\ 0 .. frontier - 1 \subseteq completed)'
<1>0. /\ policy \in Policies /\ Gate \in {"predecessors", "barriers"} /\ completed \subseteq Txns
      /\ deferred \in Seq(Txns) /\ IsInjective(deferred)
  BY PolicyAssumption DEF PolTypeOK, Normalized, Gate, QueuesApart
<1>1. Range(deferred) \subseteq Txns
  BY <1>0 DEF Range
<1>2. ASSUME NEW S, S \subseteq Range(deferred) PROVE Range(Line(S, ByDeferral)) = S
  BY <1>0, <1>2, ReleaseOrders, LineOnce
<1>3. UNCHANGED <<Gate, Predecessors, Barriers>>
  BY DEF Gate, Predecessors, Barriers
<1>4. CASE Gate = "predecessors"
  <2> DEFINE P(u) == Predecessors[u]
             S == {u \in Range(deferred) : t \in P(u) /\ indegree[u] = 1}
  <2>1. /\ completed' = completed \cup {t}
        /\ indegree' = [u \in Txns |-> IF t \in P(u) THEN indegree[u] - 1 ELSE indegree[u]]
        /\ deferred' = Line(Range(deferred) \ S, ByDeferral)
    BY <1>4 DEF Release
  <2>2. ASSUME NEW u \in Txns
        PROVE  IsFiniteSet(P(u) \ completed) /\ indegree[u] = Cardinality(P(u) \ completed) /\ indegree[u] \in Nat
    <3>1. P(u) \subseteq 0 .. u - 1 /\ u \in Nat
      BY <1>0, PolicyAssumption, TxnIndices DEF ValidGate, Predecessors
    <3>2. IsFiniteSet(0 .. u - 1)
      BY <3>1, FS_Interval
    <3>3. IsFiniteSet(P(u) \ completed)
      BY <3>1, <3>2, FS_Subset
    <3>4. indegree[u] = Cardinality(P(u) \ completed)
      BY <1>4 DEF GateInv
    <3> QED BY <3>3, <3>4, FS_CardinalityType
  <2>3. ASSUME NEW u \in Txns
        PROVE  /\ indegree'[u] = Cardinality(P(u) \ completed')
               /\ IsFiniteSet(P(u) \ completed')
    <3>1. CASE t \in P(u)
      <4>1. P(u) \ completed' = (P(u) \ completed) \ {t} /\ t \in P(u) \ completed
        BY <2>1, <3>1
      <4>2. Cardinality(P(u) \ completed') = Cardinality(P(u) \ completed) - 1 /\ IsFiniteSet(P(u) \ completed')
        BY <2>2, <4>1, FS_RemoveElement
      <4>3. indegree'[u] = indegree[u] - 1
        BY <2>1, <3>1
      <4> QED BY <2>2, <4>2, <4>3
    <3>2. CASE t \notin P(u)
      <4>1. P(u) \ completed' = P(u) \ completed
        BY <2>1, <3>2
      <4>2. indegree'[u] = indegree[u]
        BY <2>1, <3>2
      <4> QED BY <2>2, <4>1, <4>2
    <3> QED BY <3>1, <3>2
  <2>4. indegree' = [u \in Txns |-> Cardinality(P(u) \ completed')]
    <3>1. indegree' = [u \in Txns |-> indegree'[u]] BY <2>1
    <3> QED BY <2>3, <3>1
  <2>5. Range(deferred') = Range(deferred) \ S
    BY <1>2, <2>1
  <2>6. ASSUME NEW u \in Range(deferred) PROVE u \in S <=> P(u) \subseteq completed'
    <3>0. u \in Txns BY <1>1
    <3>1. indegree[u] # 0
      <4>1. ~ (P(u) \subseteq completed) BY <1>4 DEF GateInv, Obstacles
      <4>2. P(u) \ completed # {} BY <4>1
      <4> QED BY <2>2, <3>0, <4>2, FS_EmptySet
    <3>2. indegree'[u] = 0 <=> P(u) \ completed' = {}
      BY <2>3, <3>0, FS_EmptySet
    <3>3. indegree'[u] = (IF t \in P(u) THEN indegree[u] - 1 ELSE indegree[u]) /\ indegree[u] \in Nat
      BY <2>1, <2>2, <3>0
    <3>4. indegree'[u] = 0 <=> t \in P(u) /\ indegree[u] = 1
      BY <3>1, <3>3
    <3> QED BY <3>2, <3>4
  <2>7. \A u \in Range(deferred) : Obstacles(u) = P(u)
    BY <1>4 DEF Obstacles
  <2> HIDE DEF S
  <2> QED BY <1>3, <1>4, <2>1, <2>4, <2>5, <2>6, <2>7
<1>5. CASE Gate = "barriers"
  <2> DEFINE next == Advance(completed \cup {t})
             S == {u \in Range(deferred) : frontier <= Barriers[u] /\ Barriers[u] < next}
  <2>1. completed' = completed \cup {t} /\ frontier' = next /\ deferred' = Line(Range(deferred) \ S, ByDeferral)
    BY <1>5 DEF Release
  <2>2. completed \cup {t} \subseteq Txns BY <1>0
  <2>3. next \in 0 .. BlockSize /\ next \notin completed \cup {t} /\ 0 .. next - 1 \subseteq completed \cup {t}
    BY <2>2, AdvanceExact
  <2>4. frontier \in 0 .. BlockSize /\ 0 .. frontier - 1 \subseteq completed
    BY <1>5 DEF GateInv
  <2>5. Range(deferred') = Range(deferred) \ S
    BY <1>2, <2>1
  <2> HIDE DEF next
  <2>6. ASSUME NEW u \in Range(deferred) PROVE u \in S <=> Obstacles(u) \subseteq completed \cup {t}
    <3> DEFINE b == Barriers[u]
    <3>1. b \in Int
      BY <1>0, <1>1, PolicyAssumption DEF ValidGate, Barriers
    <3>2. Obstacles(u) = 0 .. b /\ ~ (0 .. b \subseteq completed)
      BY <1>5 DEF GateInv, Obstacles
    <3>3. u \in S <=> frontier <= b /\ b < next
      OBVIOUS
    <3> HIDE DEF b, S
    <3>4. frontier <= b
      <4>1. b < frontier => 0 .. b \subseteq 0 .. frontier - 1
        BY <2>4, <3>1, BlockSizeAssumption
      <4>2. ~ (b < frontier)
        BY <2>4, <3>2, <4>1
      <4> QED BY <2>4, <3>1, <4>2, BlockSizeAssumption
    <3>5. b < next => 0 .. b \subseteq 0 .. next - 1
      BY <2>3, <3>1, BlockSizeAssumption
    <3>6. ~ (b < next) => next \in 0 .. b
      BY <2>3, <3>1, BlockSizeAssumption
    <3> QED BY <2>3, <3>2, <3>3, <3>4, <3>5, <3>6
  <2> HIDE DEF S
  <2> QED BY <1>3, <1>5, <2>1, <2>3, <2>5, <2>6
<1> QED BY <1>0, <1>4, <1>5

(* Every step keeps the gate exact.                                        *)
LEMMA GateStep ==
  ASSUME CoreInv, MemoryShape, PolTypeOK, StageInv, QueueInv, GateInv, [PolNext]_<<vars, polVars>>
  PROVE  GateInv'
<1> USE DEF At, Wake
<1>0. /\ \A w \in Workers : WorkerStage(w) /\ WorkerTask(w)
      /\ stage = [w \in Workers |-> stage[w]] /\ execution_idx \in Nat
  BY DEF CoreInv, TaskInv, StageInv, PolTypeOK, SchedTypeOK
<1>1. CASE UNCHANGED <<policy, gateVars, deferred, execution_idx, stage, obs>>
  <2>1. \A v \in Workers, t \in Txns : AtGate(v, t) => AtGate(v, t)'
    BY <1>1 DEF AtGate
  <2> QED BY <1>1, <2>1, GateKept
<1>2. CASE UNCHANGED <<vars, polVars>> \/ PolReturn \/ PolFinished \/ PolCancel
  BY <1>1, <1>2 DEF PolReturn, PolFinished, PolCancel, polVars, queues, vars, schedVars, counters, Return,
     Finished, CancelBlock, Cancel
<1>3. ASSUME NEW w \in Workers, PolStep(w) PROVE GateInv'
  <2>0. UNCHANGED policy BY <1>3 DEF PolStep
  <2>a. ASSUME stage[w] # "gate", UNCHANGED <<gateVars, deferred, execution_idx>>,
               \A v \in Workers : v # w /\ stage[v] = "gate" => stage'[v] = "gate" /\ obs'[v] = obs[v]
        PROVE  GateInv'
    <3>1. \A v \in Workers, t \in Txns : AtGate(v, t) => AtGate(v, t)'
      BY <2>a DEF AtGate
    <3> QED BY <2>0, <2>a, <3>1, GateKept
  <2>1. CASE Base(w)
    <3>1. /\ SchedulerStep(w) /\ UNCHANGED <<gateVars, deferred>>
          /\ \A v \in Workers : v # w => stage'[v] = stage[v]
      BY <1>0, <2>1 DEF Base, ControlStep, queues
    <3>2. \A v \in Workers : v # w => obs'[v] = obs[v]
      BY <3>1, ControlFrame
    <3>3. CASE pc[w] = "neAdd"
      <4>1. stage[w] # "gate" BY <1>0, <3>3 DEF WorkerStage
      <4>2. execution_idx' = execution_idx + 1 /\ obs'[w] = execution_idx
        BY <3>1, <3>3, IndexFrame
      <4>3. execution_idx < BlockSize => stage'[w] = "gate"
        BY <1>0, <2>1, <3>3 DEF Base
      <4>4. UNCHANGED <<Gate, Predecessors, Barriers>> /\ \A t \in Txns : Obstacles(t)' = Obstacles(t)
        BY <2>0 DEF Gate, Predecessors, Barriers, Obstacles
      <4>5. /\ (Gate = "predecessors" => indegree = [t \in Txns |-> Cardinality(Predecessors[t] \ completed)])'
            /\ (Gate = "barriers" =>
                 frontier \in 0 .. BlockSize /\ frontier \notin completed /\ 0 .. frontier - 1 \subseteq completed)'
        BY <3>1, <4>4 DEF GateInv, gateVars
      <4>6. (\A t \in Range(deferred) : ~ (Obstacles(t) \subseteq completed))'
        BY <2>0, <3>1 DEF GateInv, gateVars, Obstacles, Gate, Predecessors, Barriers
      <4>7. ASSUME NEW t \in Txns, t < execution_idx'
            PROVE  \/ t \in Range(deferred')
                   \/ \E v \in Workers : AtGate(v, t)'
                   \/ Obstacles(t)' \subseteq completed'
        <5>1. t \in Nat /\ t < BlockSize BY TxnIndices
        <5>2. CASE t = execution_idx
          <6>1. AtGate(w, t)' BY <4>2, <4>3, <5>1, <5>2 DEF AtGate
          <6> QED BY <6>1
        <5>3. CASE t # execution_idx
          <6>1. t < execution_idx BY <1>0, <4>2, <4>7, <5>1, <5>3
          <6>2. \/ t \in Range(deferred)
                \/ \E v \in Workers : AtGate(v, t)
                \/ Obstacles(t) \subseteq completed
            BY <6>1 DEF GateInv
          <6>3. ASSUME NEW v \in Workers, AtGate(v, t) PROVE AtGate(v, t)'
            <7>1. v # w BY <4>1, <6>3 DEF AtGate
            <7> QED BY <3>1, <3>2, <6>3, <7>1 DEF AtGate
          <6> QED BY <3>1, <4>4, <6>2, <6>3 DEF gateVars
        <5> QED BY <5>2, <5>3
      <4> QED BY <4>5, <4>6, <4>7 DEF GateInv
    <3>4. CASE pc[w] # "neAdd"
      <4>1. execution_idx' = execution_idx BY <3>1, <3>4, IndexFrame
      <4>2. ASSUME NEW v \in Workers, NEW t \in Txns, AtGate(v, t)
            PROVE  AtGate(v, t)' \/ Obstacles(t) \subseteq completed
        <5>1. CASE v # w BY <3>1, <3>2, <4>2, <5>1 DEF AtGate
        <5>2. CASE v = w
          <6>1. GateReady(t) BY <2>1, <4>2, <5>2 DEF Base, AtGate
          <6> QED BY <6>1, GateReadyExact
        <5> QED BY <5>1, <5>2
      <4> QED BY <2>0, <3>1, <4>1, <4>2, GateKept
    <3> QED BY <3>3, <3>4
  <2>2. CASE Data(w)
    <3>1. DataStep(w) /\ UNCHANGED <<gateVars, deferred>> /\ \A v \in Workers : v # w => stage'[v] = stage[v]
      BY <1>0, <2>2 DEF Data, queues
    <3>2. UNCHANGED <<obs, execution_idx>> BY <3>1, DataTargets
    <3>3. pc[w] \in {"exec", "validate", "convert"} BY <3>1, DataTargets
    <3>4. stage[w] # "gate" BY <1>0, <3>3 DEF WorkerStage
    <3> QED BY <2>a, <3>1, <3>2, <3>4
  <2>3. CASE Defer(w)
    <3>t. PICK t : t = obs[w] OBVIOUS
    <3>1. /\ t \in Txns /\ ~ GateReady(t) /\ stage[w] = "gate" /\ deferred' = Append(deferred, t)
          /\ UNCHANGED <<gateVars, execution_idx>>
          /\ \A v \in Workers : v # w => stage'[v] = stage[v] /\ obs'[v] = obs[v]
      BY <3>t, <1>0, <2>3 DEF Defer, WorkerStage, sharedVars, counters, Observe, CoreInv, SchedTypeOK
    <3>2. ~ (Obstacles(t) \subseteq completed)
      BY <3>1, GateReadyExact
    <3>3. Range(deferred') = Range(deferred) \cup {t}
      <4>1. deferred \in Seq(Txns) BY DEF PolTypeOK
      <4> QED BY <3>1, <4>1, PutLast
    <3>4. UNCHANGED <<Gate, Predecessors, Barriers, completed, indegree, frontier>>
      BY <2>0, <3>1 DEF Gate, Predecessors, Barriers, gateVars
    <3>5. \A u : Obstacles(u)' = Obstacles(u)
      BY <3>4 DEF Obstacles
    <3>6. /\ (Gate = "predecessors" => indegree = [u \in Txns |-> Cardinality(Predecessors[u] \ completed)])'
          /\ (Gate = "barriers" =>
               frontier \in 0 .. BlockSize /\ frontier \notin completed /\ 0 .. frontier - 1 \subseteq completed)'
      BY <3>4 DEF GateInv
    <3>7. \A u \in Range(deferred') : ~ (Obstacles(u)' \subseteq completed')
      BY <3>2, <3>3, <3>4, <3>5 DEF GateInv
    <3>8. ASSUME NEW u \in Txns, u < execution_idx'
          PROVE  \/ u \in Range(deferred')
                 \/ \E v \in Workers : AtGate(v, u)'
                 \/ Obstacles(u)' \subseteq completed'
      <4>1. \/ u \in Range(deferred)
            \/ \E v \in Workers : AtGate(v, u)
            \/ Obstacles(u) \subseteq completed
        BY <3>1, <3>8 DEF GateInv
      <4>2. ASSUME NEW v \in Workers, AtGate(v, u) PROVE u \in Range(deferred') \/ AtGate(v, u)'
        <5>1. CASE v = w BY <3>t, <3>3, <4>2, <5>1 DEF AtGate
        <5>2. CASE v # w BY <3>1, <4>2, <5>2 DEF AtGate
        <5> QED BY <5>1, <5>2
      <4> QED BY <3>3, <3>4, <3>5, <4>1, <4>2
    <3> QED BY <3>6, <3>7, <3>8 DEF GateInv
  <2>4. CASE CompleteExecution(w)
    <3>t. PICK t : t = own[w] OBVIOUS
    <3>1. t \in Txns /\ Release(t) /\ stage[w] = "finishing"
      BY <3>t, <1>0, <2>4 DEF CompleteExecution, WorkerStage
    <3>2. UNCHANGED <<obs, execution_idx>> /\ \A v \in Workers : stage[v] = "gate" => stage'[v] = "gate"
      BY <2>4, <3>1 DEF CompleteExecution, vars, schedVars, counters
    <3>3. CASE Gate = "index_order" \/ t \in completed
      <4>1. UNCHANGED <<gateVars, deferred>> BY <3>1, <3>3 DEF Release
      <4> QED BY <2>a, <3>1, <3>2, <4>1
    <3>4. CASE Gate # "index_order" /\ t \notin completed
      <4>1. /\ completed' = completed \cup {t}
            /\ Range(deferred') = {u \in Range(deferred) : ~ (Obstacles(u) \subseteq completed \cup {t})}
            /\ (Gate = "predecessors" => indegree = [u \in Txns |-> Cardinality(Predecessors[u] \ completed)])'
            /\ (Gate = "barriers" =>
                 frontier \in 0 .. BlockSize /\ frontier \notin completed /\ 0 .. frontier - 1 \subseteq completed)'
        BY <2>0, <3>1, <3>4, GateReleases DEF QueueInv
      <4>2. \A u : Obstacles(u)' = Obstacles(u)
        BY <2>0 DEF Obstacles, Gate, Predecessors, Barriers
      <4>3. \A u \in Range(deferred') : ~ (Obstacles(u)' \subseteq completed')
        BY <4>1, <4>2
      <4>4. ASSUME NEW u \in Txns, u < execution_idx'
            PROVE  \/ u \in Range(deferred')
                   \/ \E v \in Workers : AtGate(v, u)'
                   \/ Obstacles(u)' \subseteq completed'
        <5>1. \/ u \in Range(deferred)
              \/ \E v \in Workers : AtGate(v, u)
              \/ Obstacles(u) \subseteq completed
          BY <3>2, <4>4 DEF GateInv
        <5>2. \A v \in Workers : AtGate(v, u) => AtGate(v, u)'
          BY <3>2 DEF AtGate
        <5> QED BY <4>1, <4>2, <5>1, <5>2
      <4> QED BY <4>1, <4>3, <4>4 DEF GateInv
    <3> QED BY <3>3, <3>4
  <2>5. CASE NotifyValidated(w) \/ NotifyDone(w) \/ IdleCheck(w) \/ ParkEnds(w)
    BY <1>0, <2>5, <2>a DEF NotifyValidated, NotifyDone, IdleCheck, ParkEnds, queues, vars, schedVars, counters
  <2>6. CASE RegisterAbort(w)
    <3>1. \A v \in Workers : v # w /\ stage[v] = "gate" => stage'[v] = "gate"
      BY <1>0, <2>6 DEF RegisterAbort
    <3> QED BY <2>6, <2>a, <3>1 DEF RegisterAbort, counters
  <2>7. CASE PopReady(w)
    BY <1>0, <1>1, <2>0, <2>7, <2>a DEF PopReady, sharedVars, counters, Observe, CoreInv, SchedTypeOK
  <2>8. CASE ScanWork(w)
    <3>1. stage[w] # "gate" BY <1>0, <2>8 DEF ScanWork, Goto, WorkerStage
    <3> QED BY <2>8, <2>a, <3>1 DEF ScanWork, sharedVars, counters, Observe, queues, CoreInv, SchedTypeOK
  <2>9. CASE UnwindOrRetry(w)
    <3>1. stage[w] # "gate" /\ UNCHANGED <<obs, gateVars, deferred, execution_idx>>
      BY <2>9 DEF UnwindOrRetry, sharedVars, schedVars, counters, queues
    <3>2. \A v \in Workers : v # w => stage'[v] = stage[v]
      BY <1>0, <2>9 DEF UnwindOrRetry
    <3> QED BY <2>a, <3>1, <3>2
  <2> QED BY <1>3, <2>1, <2>2, <2>3, <2>4, <2>5, <2>6, <2>7, <2>8, <2>9 DEF PolStep, PolControl
<1> QED BY <1>2, <1>3 DEF PolNext

(***************************************************************************)
(* What is still to be announced                                           *)
(***************************************************************************)
(* Only the worker of a transaction makes it EXECUTED.                     *)
LEMMA ExecutedBy ==
  ASSUME CoreInv, NEW w \in Workers, SchedulerStep(w), NEW b \in Txns, status'[b] = "Executed"
  PROVE  status[b] = "Executed" \/ (pc[w] = "setExecuted" /\ txn[w] = b)
<1> USE DEF CoreInv, SchedTypeOK, counters, statusVars, waitVars, taskVars, sharedVars, Goto, Observe
<1> DEFINE G == status[b] = "Executed" \/ (pc[w] = "setExecuted" /\ txn[w] = b)
<1>1. CASE RunLoop(w)
  BY <1>1 DEF RunLoop
<1>2. CASE LoadValidationIdx(w)
  BY <1>2 DEF LoadValidationIdx
<1>3. CASE LoadExecutionIdx(w)
  BY <1>3 DEF LoadExecutionIdx
<1>4. CASE ValidateCheck(w)
  BY <1>4 DEF ValidateCheck
<1>5. CASE ValidateIncr(w)
  BY <1>5 DEF ValidateIncr
<1>6. CASE ValidateFetch(w)
  BY <1>6 DEF ValidateFetch
<1>7. CASE ValidateStatus(w)
  BY <1>7 DEF ValidateStatus
<1>8. CASE ExecuteCheck(w)
  BY <1>8 DEF ExecuteCheck
<1>9. CASE ExecuteIncr(w)
  BY <1>9 DEF ExecuteIncr
<1>10. CASE ExecuteAdd(w)
  BY <1>10 DEF ExecuteAdd
<1>11. CASE TryIncarnate(w)
  BY <1>11 DEF TryIncarnate
<1>12. CASE DecrActive(w)
  BY <1>12 DEF DecrActive
<1>13. CASE CheckDoneCount(w)
  BY <1>13 DEF CheckDoneCount
<1>14. CASE CheckDoneLoads(w)
  BY <1>14 DEF CheckDoneLoads
<1>15. CASE CheckDoneStore(w)
  BY <1>15 DEF CheckDoneStore
<1>16. CASE LockDependency(w)
  BY <1>16 DEF LockDependency
<1>17. CASE Suspend(w)
  BY <1>17 DEF Suspend
<1>18. CASE WakeUp(w)
  BY <1>18 DEF WakeUp
<1>19. CASE SetExecuted(w)
  BY <1>19 DEF SetExecuted
<1>20. CASE SwapDependents(w)
  BY <1>20 DEF SwapDependents
<1>21. ASSUME NEW d0 \in deps[w], Resume(w, d0) PROVE G
  BY <1>21 DEF Resume
<1>22. CASE AfterResume(w)
  BY <1>22 DEF AfterResume
<1>23. CASE StoreMin(w)
  BY <1>23 DEF StoreMin
<1>24. CASE CountDecrease(w)
  BY <1>24 DEF CountDecrease
<1>25. CASE TryValidationAbort(w)
  BY <1>25 DEF TryValidationAbort
<1>26. CASE SetReadyStatus(w)
  BY <1>26 DEF SetReadyStatus
<1>27. CASE RetryAborted(w)
  BY <1>27 DEF RetryAborted
<1> QED
  BY <1>1, <1>2, <1>3, <1>4, <1>5, <1>6, <1>7, <1>8, <1>9, <1>10, <1>11, <1>12,
     <1>13, <1>14, <1>15, <1>16, <1>17, <1>18, <1>19, <1>20, <1>21, <1>22, <1>23,
     <1>24, <1>25, <1>26, <1>27 DEF SchedulerStep

(* A worker keeps what it has to announce until it does.                   *)
LEMMA AnnouncementKept ==
  ASSUME CoreInv, MemoryShape, PolTypeOK, StageInv, NEW w \in Workers, PolStep(w),
         NEW v \in Workers, stage[v] \in {"finishing", "validating", "checked"}
  PROVE  \/ stage'[v] = stage[v] /\ own'[v] = own[v]
         \/ v = w /\ (CompleteExecution(w) \/ NotifyValidated(w) \/ NotifyDone(w))
<1> USE DEF At, Wake, PolTypeOK
<1>0. WorkerStage(v)
  BY DEF StageInv
<1>1. CASE Base(w)
  <2>1. CASE v # w BY <1>1, <2>1 DEF Base
  <2>2. CASE v = w
    <3>1. pc[w] # "loop" BY <1>1, <2>2 DEF Base
    <3>2. pc[w] \notin {"neAdd", "setExecuted", "cdExec", "cdVal", "cdActive", "cdRecount", "cdStore"}
      BY <1>0, <2>2 DEF WorkerStage, FinishPCs, AbortPCs
    <3> QED BY <1>1, <2>2, <3>1, <3>2 DEF Base
  <2> QED BY <2>1, <2>2
<1>2. CASE Data(w)
  <2>1. DataStep(w) /\ own' = own BY <1>2 DEF Data
  <2>2. v = w => pc[w] # "validate"
    BY <1>0 DEF WorkerStage, FinishPCs, AbortPCs
  <2> QED BY <1>2, <2>1, <2>2 DEF Data
<1>3. CASE CompleteExecution(w) \/ NotifyValidated(w) \/ NotifyDone(w)
  BY <1>3 DEF CompleteExecution, NotifyValidated, NotifyDone
<1>4. CASE PopReady(w) \/ ScanWork(w)
  BY <1>4 DEF PopReady, ScanWork
<1>5. CASE Defer(w)
  BY <1>5 DEF Defer
<1>6. CASE UnwindOrRetry(w)
  BY <1>6 DEF UnwindOrRetry
<1>7. CASE IdleCheck(w) \/ ParkEnds(w)
  BY <1>7 DEF IdleCheck, ParkEnds
<1>8. CASE RegisterAbort(w)
  BY <1>8 DEF RegisterAbort
<1> QED BY <1>1, <1>2, <1>3, <1>4, <1>5, <1>6, <1>7, <1>8 DEF PolStep, PolControl

(* Every step keeps the release of aborted transactions to come.           *)
LEMMA AbortsStep ==
  ASSUME CoreInv, MemoryShape, PolTypeOK, StageInv, AbortsReleased, [PolNext]_<<vars, polVars>>
  PROVE  AbortsReleased'
<1>1. CASE UNCHANGED <<abortDeps, status, stage, own>>
  BY <1>1 DEF AbortsReleased, CompletionToCome
<1>2. CASE UNCHANGED <<vars, polVars>> \/ PolReturn \/ PolFinished \/ PolCancel
  BY <1>1, <1>2 DEF PolReturn, PolFinished, PolCancel, polVars, queues, vars, schedVars, statusVars, Return,
     Finished, CancelBlock, Cancel
<1>3. ASSUME NEW w \in Workers, PolStep(w) PROVE AbortsReleased'
  <2> SUFFICES ASSUME NEW b \in Txns, abortDeps'[b] # <<>>, status'[b] = "Executed"
               PROVE  \E v \in Workers : stage'[v] = "finishing" /\ own'[v] = b
    BY DEF AbortsReleased, CompletionToCome
  <2>1. CASE abortDeps[b] # <<>> /\ status[b] = "Executed"
    <3>1. PICK v \in Workers : stage[v] = "finishing" /\ own[v] = b
      BY <2>1 DEF AbortsReleased, CompletionToCome
    <3>2. ~ (v = w /\ (CompleteExecution(w) \/ NotifyValidated(w) \/ NotifyDone(w)))
      BY <3>1 DEF CompleteExecution, NotifyValidated, NotifyDone, PolTypeOK
    <3>3. stage'[v] = "finishing" /\ own'[v] = b
      BY <1>3, <3>1, <3>2, AnnouncementKept
    <3> QED BY <3>3
  <2>2. CASE abortDeps[b] = <<>>
    <3>0. abortDeps'[b] # abortDeps[b] BY <2>2
    <3>1. RegisterAbort(w)
      BY <1>3, <2>2, <3>0 DEF PolStep, PolControl, Base, Data, PopReady, ScanWork, Defer, CompleteExecution,
         NotifyValidated, NotifyDone, UnwindOrRetry, IdleCheck, ParkEnds, queues, PolTypeOK
    <3>2. b = blk[w] /\ status[b] # "Executed"
      BY <2>2, <3>0, <3>1 DEF RegisterAbort, PolTypeOK
    <3>3. txn[w] \in Txns /\ blk[w] \in Txns
      BY <3>1, BlockerIndex DEF RegisterAbort, Goto
    <3>4. status'[b] # "Executed"
      BY <3>1, <3>2, <3>3 DEF RegisterAbort, CoreInv, SchedTypeOK
    <3> QED BY <3>4
  <2>3. CASE status[b] # "Executed"
    <3>1. Base(w)
      <4>1. ASSUME Data(w) PROVE FALSE
        <5>1. DataStep(w) BY <4>1 DEF Data
        <5>2. status' = status BY <5>1, DataTargets
        <5> QED BY <2>3, <5>2
      <4>2. ASSUME RegisterAbort(w) PROVE FALSE
        <5>1. txn[w] \in Txns BY <4>2, BlockerIndex DEF RegisterAbort, Goto
        <5> QED BY <2>3, <4>2, <5>1 DEF RegisterAbort, CoreInv, SchedTypeOK
      <4> QED BY <1>3, <2>3, <4>1, <4>2 DEF PolStep, PolControl, PopReady, ScanWork, Defer, CompleteExecution,
             NotifyValidated, NotifyDone, UnwindOrRetry, IdleCheck, ParkEnds, vars, schedVars, sharedVars, statusVars
    <3>2. pc[w] = "setExecuted" /\ txn[w] = b
      BY <2>3, <3>1, ExecutedBy DEF Base, ControlStep
    <3>3. stage'[w] = "finishing" /\ own'[w] = b
      BY <3>1, <3>2 DEF Base, At, PolTypeOK
    <3> QED BY <3>3
  <2> QED BY <2>1, <2>2, <2>3
<1> QED BY <1>2, <1>3 DEF PolNext

(* Every step keeps what a sleeping worker could miss to be announced.     *)
LEMMA SleeperStep ==
  ASSUME CoreInv, MemoryShape, PolTypeOK, StageInv, SleeperMissesNothing, [PolNext]_<<vars, polVars>>
  PROVE  SleeperMissesNothing'
<1> USE DEF At, Wake
<1>1. CASE UNCHANGED <<ready, validation_idx, execution_idx, done_marker, stage>>
  BY <1>1 DEF SleeperMissesNothing, Scannable
<1>2. CASE UNCHANGED <<vars, polVars>> \/ PolReturn \/ PolFinished \/ PolCancel
  BY <1>1, <1>2 DEF PolReturn, PolFinished, PolCancel, polVars, queues, vars, schedVars, counters, Return,
     Finished, CancelBlock, Cancel
<1>3. ASSUME NEW w \in Workers, PolStep(w) PROVE SleeperMissesNothing'
  <2> SUFFICES ASSUME NEW v \in Workers, stage'[v] = "parked"
               PROVE  /\ ready' = <<>>
                      /\ Scannable' => \E u \in Workers : stage'[u] \in {"finishing", "validating"}
                      /\ done_marker' => \E u \in Workers : stage'[u] = "checked"
    BY DEF SleeperMissesNothing
  <2>0. \A u \in Workers : WorkerStage(u) /\ WorkerTask(u)
    BY DEF StageInv, CoreInv, TaskInv
  <2>1. CASE IdleCheck(w) /\ v = w
    BY <2>1 DEF IdleCheck, Scannable, queues, vars, schedVars, counters, PolTypeOK
  <2>2. CASE ~ (IdleCheck(w) /\ v = w)
    <3>1. stage[v] = "parked"
      <4>1. CASE Base(w)
        BY <2>0, <4>1 DEF Base, PolTypeOK
      <4>2. CASE ~ Base(w)
        BY <1>3, <2>2, <4>2 DEF PolStep, PolControl, Data, PopReady, ScanWork, Defer, CompleteExecution,
           NotifyValidated, NotifyDone, UnwindOrRetry, IdleCheck, ParkEnds, RegisterAbort, PolTypeOK
      <4> QED BY <4>1, <4>2
    <3>2. /\ ready = <<>>
          /\ Scannable => \E u \in Workers : stage[u] \in {"finishing", "validating"}
          /\ done_marker => \E u \in Workers : stage[u] = "checked"
      BY <3>1 DEF SleeperMissesNothing
    <3>3. /\ ~ CompleteExecution(w) /\ ~ NotifyValidated(w)
          /\ NotifyDone(w) => ~ done_marker
          /\ RegisterAbort(w) => ready' = ready
      BY <3>1 DEF CompleteExecution, NotifyValidated, NotifyDone, RegisterAbort, PolTypeOK
    <3>4. ready' = ready
      BY <1>3, <3>2, <3>3 DEF PolStep, PolControl, Base, Data, PopReady, ScanWork, Defer,
         NotifyDone, UnwindOrRetry, IdleCheck, ParkEnds, queues
    <3>5. ASSUME NEW u \in Workers, stage[u] \in {"finishing", "validating"} PROVE stage'[u] = stage[u]
      <4>1. ~ (u = w /\ NotifyDone(w)) BY <3>5 DEF NotifyDone
      <4> QED BY <1>3, <3>3, <3>5, <4>1, AnnouncementKept
    <3>6. ASSUME NEW u \in Workers, stage[u] = "checked", done_marker PROVE stage'[u] = "checked"
      BY <1>3, <3>3, <3>6, AnnouncementKept
    <3>7. CASE Base(w)
      <4>0. SchedulerStep(w) BY <3>7 DEF Base, ControlStep
      <4>1. done_marker' => \E u \in Workers : stage'[u] = "checked"
        <5>1. CASE done_marker' = done_marker BY <3>2, <3>6, <5>1
        <5>2. CASE done_marker' # done_marker
          <6>1. pc[w] = "cdStore" /\ pc'[w] = "loop" BY <4>0, <5>2, IndexFrame
          <6>2. stage'[w] = "checked" BY <3>7, <6>1 DEF Base, PolTypeOK
          <6> QED BY <6>2
        <5> QED BY <5>1, <5>2
      <4>2. CASE pc[w] = "storeMin"
        <5>1. stage[w] \in {"finishing", "validating"}
          BY <2>0, <4>2 DEF WorkerStage, WorkerTask, AbortPCs, CoreInv, SchedTypeOK
        <5>2. stage'[w] \in {"finishing", "validating"} BY <3>5, <5>1
        <5> QED BY <3>2, <3>4, <4>1, <5>2
      <4>3. CASE pc[w] # "storeMin"
        <5>1. /\ execution_idx \in Nat /\ validation_idx \in Nat /\ validation_idx' \in Nat
              /\ ~ (validation_idx' < validation_idx)
              /\ execution_idx' = execution_idx \/ execution_idx' = execution_idx + 1
          <6>1. [SchedNext]_schedVars BY <4>0 DEF SchedNext
          <6>2. SchedTypeOK' BY <6>1, TypeStep DEF CoreInv
          <6> QED BY <4>0, <4>3, <6>2, IndexFrame DEF CoreInv, SchedTypeOK
        <5>2. Scannable' => Scannable
          BY <5>1, BlockSizeAssumption DEF Scannable
        <5> QED BY <3>2, <3>4, <3>5, <4>1, <5>2
      <4> QED BY <4>2, <4>3
    <3>8. CASE ~ Base(w)
      <4>1. UNCHANGED <<validation_idx, execution_idx, done_marker>>
        <5>1. CASE Data(w)
          <6>1. DataStep(w) BY <5>1 DEF Data
          <6> QED BY <6>1, DataTargets
        <5>2. CASE ~ Data(w)
          BY <1>3, <3>8, <5>2 DEF PolStep, PolControl, PopReady, ScanWork, Defer, CompleteExecution,
             NotifyValidated, NotifyDone, UnwindOrRetry, IdleCheck, ParkEnds, RegisterAbort,
             vars, schedVars, sharedVars, counters
        <5> QED BY <5>1, <5>2
      <4>2. Scannable' <=> Scannable BY <4>1 DEF Scannable
      <4> QED BY <3>2, <3>4, <3>5, <3>6, <4>1, <4>2
    <3> QED BY <3>7, <3>8
  <2> QED BY <2>1, <2>2
<1> QED BY <1>2, <1>3 DEF PolNext

(* Every step of the policy kernel keeps its invariant, whatever is in the *)
(* memory.                                                                 *)
LEMMA PolInvStep ==
  ASSUME CoreInv, MemoryShape, PolInv, [PolNext]_<<vars, polVars>>
  PROVE  PolInv'
<1> USE DEF PolInv
<1>1. PolTypeOK' /\ StageInv' /\ QueueInv' /\ GateInv'
  BY PolTypeStep, StageStep, QueueStep, GateStep
<1>2. AbortsReleased' /\ SleeperMissesNothing'
  BY AbortsStep, SleeperStep
<1> QED BY <1>1, <1>2

(***************************************************************************)
(* The theorems                                                            *)
(***************************************************************************)
\* What holds throughout the execution of a block under a kernel policy.
PolicyKernelInv == CoreInv /\ MemInv /\ ValidationInv /\ ReplayInv /\ PolInv

(* It holds when the block starts.                                         *)
LEMMA InitPolicy == PolInit => PolicyKernelInv
<1> SUFFICES ASSUME PolInit PROVE PolicyKernelInv
  OBVIOUS
<1>0. Init /\ SchedInit /\ policy \in Policies
  BY DEF PolInit, Init
<1>1. IndInv /\ MemInv /\ ValidationInv /\ ReplayInv
  BY <1>0, InitIndInv, InitMemInv, InitValidationInv, InitReplayInv
<1>2. <<>> \in Seq(Txns) /\ Range(<<>>) = {} /\ IsInjective(<<>>)
  BY DEF Range, IsInjective
<1>3. PolTypeOK
  BY <1>0, <1>2 DEF PolInit, PolTypeOK
<1>4. StageInv
  BY <1>0 DEF PolInit, SchedInit, StageInv, WorkerStage, AbortPCs
<1>5. QueueInv
  <2>1. ready = <<>> /\ deferred = <<>> /\ \A b \in Txns : abortDeps[b] = <<>>
    BY DEF PolInit
  <2>2. QueuesApart BY <1>2, <2>1 DEF QueuesApart
  <2>3. Queued = {} BY <1>2, <2>1, QueuedMember
  <2>4. num_active_tasks = Cardinality(Holders) + 0
    <3>1. Cardinality(Holders) \in Nat BY <1>3, QueuedFinite
    <3> QED BY <1>1, <3>1 DEF IndInv, TaskAccounting
  <2>5. Cardinality(Queued) = 0 BY <2>3, FS_EmptySet
  <2> QED BY <1>1, <2>2, <2>3, <2>4, <2>5 DEF QueueInv, IndInv
<1>6. GateInv
  <2>1. completed = {} /\ frontier = 0 /\ Range(deferred) = {} /\ execution_idx = 0
        /\ indegree = [t \in Txns |-> Cardinality(Predecessors[t])]
    BY <1>0, <1>2 DEF PolInit, SchedInit
  <2>2. \A t \in Txns : Predecessors[t] \ completed = Predecessors[t]
    BY <2>1
  <2>3. indegree = [t \in Txns |-> Cardinality(Predecessors[t] \ completed)]
    BY <2>1, <2>2
  <2> QED BY <2>1, <2>3, TxnIndices, BlockSizeAssumption DEF GateInv
<1>7. AbortsReleased /\ SleeperMissesNothing
  BY DEF PolInit, AbortsReleased, SleeperMissesNothing
<1> QED BY <1>1, <1>3, <1>4, <1>5, <1>6, <1>7 DEF PolicyKernelInv, PolInv, IndInv

(* Every step keeps it, and is a step of the serial block or none.         *)
LEMMA PolicyKernelStep ==
  ASSUME PolicyKernelInv, [PolNext]_<<vars, polVars>>
  PROVE  PolicyKernelInv' /\ [Serial!Next]_<<storage, result>>
<1> USE DEF PolicyKernelInv
<1>1. CoreInv' /\ MemInv' /\ ValidationInv' /\ ReplayInv' /\ [Serial!Next]_<<storage, result>>
  BY KernelInvStep DEF PolInv
<1>2. MemoryShape BY DEF MemInv
<1>3. PolInv' BY <1>2, PolInvStep
<1> QED BY <1>1, <1>3

(* The invariant holds throughout the execution of the block.              *)
LEMMA PolicyInvariant == PolSpec => []PolicyKernelInv
<1>1. PolicyKernelInv /\ [PolNext]_<<vars, polVars>> => PolicyKernelInv'
  BY PolicyKernelStep
<1> QED BY <1>1, InitPolicy, PTL DEF PolSpec

(* A queued transaction has exactly one place, and the places hold nothing *)
(* else: there are as many of the one as of the other.                     *)
LEMMA PlacesOfQueued ==
  ASSUME PolTypeOK, QueuesApart
  PROVE  /\ Cardinality(Places) = Cardinality(Queued)
         /\ \A p \in Places : Queue(p[1])[p[2]] \in Queued
         /\ \A t \in Queued : \E p \in Places : {r \in Places : Queue(r[1])[r[2]] = t} = {p}
<1> DEFINE at(p) == Queue(p[1])[p[2]]
           f == [p \in Places |-> at(p)]
<1>1. /\ \A q \in Txns : Queue(q) = abortDeps[q]
      /\ Queue(BlockSize) = ready /\ Queue(BlockSize + 1) = deferred
  BY TxnIndices, BlockSizeAssumption DEF Queue
<1>2. \A q \in 0 .. BlockSize + 1 : q \in Txns \/ q = BlockSize \/ q = BlockSize + 1
  BY BlockSizeAssumption DEF Txns
<1>3. \A q \in Txns : q \in 0 .. BlockSize + 1 /\ q # BlockSize /\ q # BlockSize + 1
  BY BlockSizeAssumption DEF Txns
<1>4. BlockSize \in 0 .. BlockSize + 1 /\ BlockSize + 1 \in 0 .. BlockSize + 1 /\ BlockSize # BlockSize + 1
  BY BlockSizeAssumption
<1>5. \A p : p \in Places <=> \E q \in 0 .. BlockSize + 1 : \E i \in DOMAIN Queue(q) : p = <<q, i>>
  BY DEF Places
<1>6. \A x : x \in Queued <=> \E q \in 0 .. BlockSize + 1 : x \in Range(Queue(q))
  BY <1>1, <1>2, <1>3, <1>4, QueuedMember
<1>7. \A q \in 0 .. BlockSize + 1 : IsInjective(Queue(q))
  BY <1>1, <1>2 DEF QueuesApart
<1>8. \A q, r \in 0 .. BlockSize + 1 : q # r => Range(Queue(q)) \cap Range(Queue(r)) = {}
  BY <1>1, <1>2 DEF QueuesApart
<1>9. \A q : \A i \in DOMAIN Queue(q) : Queue(q)[i] \in Range(Queue(q))
  BY DEF Range
<1>10. \A q : \A x \in Range(Queue(q)) : \E i \in DOMAIN Queue(q) : Queue(q)[i] = x
  BY DEF Range
<1>11. \A p \in Places : at(p) \in Queued
  <2> TAKE p \in Places
  <2>1. PICK q \in 0 .. BlockSize + 1 : \E i \in DOMAIN Queue(q) : p = <<q, i>> BY <1>5
  <2>a. PICK i \in DOMAIN Queue(q) : p = <<q, i>> BY <2>1
  <2>2. at(p) = Queue(q)[i] BY <2>a
  <2> QED BY <1>6, <1>9, <2>2
<1>12. ASSUME NEW p \in Places, NEW r \in Places, at(p) = at(r) PROVE p = r
  <2>1. PICK q \in 0 .. BlockSize + 1 : \E i \in DOMAIN Queue(q) : p = <<q, i>> BY <1>5
  <2>a. PICK i \in DOMAIN Queue(q) : p = <<q, i>> BY <2>1
  <2>2. PICK s \in 0 .. BlockSize + 1 : \E j \in DOMAIN Queue(s) : r = <<s, j>> BY <1>5
  <2>b. PICK j \in DOMAIN Queue(s) : r = <<s, j>> BY <2>2
  <2>3. at(p) = Queue(q)[i] /\ at(r) = Queue(s)[j] BY <2>a, <2>b
  <2>4. q = s BY <1>8, <1>9, <1>12, <2>3
  <2>5. i = j BY <1>7, <1>12, <2>3, <2>4 DEF IsInjective
  <2> QED BY <2>a, <2>b, <2>4, <2>5
<1>13. ASSUME NEW t \in Queued PROVE \E p \in Places : at(p) = t
  <2>1. PICK q \in 0 .. BlockSize + 1 : t \in Range(Queue(q)) BY <1>6
  <2>2. PICK i \in DOMAIN Queue(q) : Queue(q)[i] = t BY <1>10, <2>1
  <2>3. <<q, i>> \in Places BY <1>5
  <2>4. at(<<q, i>>) = t BY <2>2
  <2> QED BY <2>3, <2>4
<1>14. \A t \in Queued : \E p \in Places : {r \in Places : at(r) = t} = {p}
  <2> TAKE t \in Queued
  <2>1. PICK p \in Places : at(p) = t BY <1>13
  <2>2. {r \in Places : at(r) = t} = {p} BY <1>12, <2>1
  <2> QED BY <2>2
<1>15. Cardinality(Places) = Cardinality(Queued)
  <2> HIDE DEF at
  <2>1. f \in [Places -> Queued] BY <1>11
  <2>2. f \in Injection(Places, Queued) BY <2>1, <1>12 DEF Injection, IsInjective
  <2>3. f \in Surjection(Places, Queued) BY <2>1, <1>13 DEF Surjection
  <2>4. IsFiniteSet(Queued) BY QueuedFinite
  <2> HIDE DEF f
  <2> QED BY <2>2, <2>3, <2>4, FS_Injection
<1> QED BY <1>11, <1>14, <1>15

(* A transaction is with a worker, in a queue, executed or not yet         *)
(* reached, and never two of these.                                        *)
LEMMA PlaceOf ==
  ASSUME PolicyKernelInv, NEW t \in Txns, t < execution_idx
  PROVE  /\ status[t] = "Executed" => ~ HasOwner(t) /\ t \notin Queued
         /\ status[t] # "Executed" => (HasOwner(t) <=> t \notin Queued)
<1> USE DEF PolicyKernelInv, PolInv
<1>0. /\ t \in Queued => Unowned(t)
      /\ t \notin Queued /\ status[t] = "Ready" => HasOwner(t)
      /\ status[t] \notin {"Ready", "Executed"} => HasOwner(t)
  BY DEF QueueInv, CoreInv, OwnerInv, ClaimedStatus, DispatchedBut
<1>1. ASSUME HasOwner(t) PROVE status[t] # "Executed"
  <2>1. PICK w \in Workers : Owner(w, t) BY <1>1 DEF HasOwner
  <2>2. OwnedStatus(w) BY DEF CoreInv, OwnerInv
  <2>3. t < BlockSize BY TxnIndices
  <2> QED BY <2>1, <2>2, <2>3 DEF Owner, OwnedStatus
<1> QED BY <1>0, <1>1 DEF Unowned

(* num_active_tasks counts the tasks of the workers and the places in the  *)
(* queues, so CheckDone never takes a block with a deferred or aborted     *)
(* transaction for a finished one.                                         *)
THEOREM ReservationsCorrect == PolSpec => []ReservationsKept
<1>1. PolicyKernelInv => ReservationsKept
  BY PlacesOfQueued DEF PolicyKernelInv, PolInv, QueueInv, ReservationsKept
<1> QED BY <1>1, PolicyInvariant, PTL

(* Nothing that was deferred or aborted is dispatched twice or forgotten.  *)
THEOREM OnePlaceCorrect == PolSpec => []OnePlace
<1>1. PolicyKernelInv => OnePlace
  <2> SUFFICES ASSUME PolicyKernelInv, NEW t \in Txns, t < execution_idx
               PROVE  Cardinality({w \in Workers : Owner(w, t)})
                        + Cardinality({p \in Places : Queue(p[1])[p[2]] = t})
                        = IF status[t] = "Executed" THEN 0 ELSE 1
    BY DEF OnePlace
  <2> DEFINE owners == {w \in Workers : Owner(w, t)}
             places == {p \in Places : Queue(p[1])[p[2]] = t}
  <2>1. HasOwner(t) => \E w \in Workers : owners = {w}
    <3>1. ASSUME NEW w \in Workers, Owner(w, t) PROVE owners = {w}
      BY <3>1 DEF PolicyKernelInv, CoreInv, OwnerInv, UniqueOwner
    <3> QED BY <3>1 DEF HasOwner
  <2>2. ~ HasOwner(t) => owners = {} BY DEF HasOwner
  <2>3. /\ t \in Queued => \E p \in Places : places = {p}
        /\ t \notin Queued => places = {}
    <3>1. /\ \A p \in Places : Queue(p[1])[p[2]] \in Queued
          /\ \A x \in Queued : \E p \in Places : {r \in Places : Queue(r[1])[r[2]] = x} = {p}
      BY PlacesOfQueued DEF PolicyKernelInv, PolInv, QueueInv
    <3> QED BY <3>1
  <2> HIDE DEF owners, places
  <2>4. HasOwner(t) => Cardinality(owners) = 1 BY <2>1, FS_Singleton
  <2>5. ~ HasOwner(t) => Cardinality(owners) = 0 BY <2>2, FS_EmptySet
  <2>6. t \in Queued => Cardinality(places) = 1 BY <2>3, FS_Singleton
  <2>7. t \notin Queued => Cardinality(places) = 0 BY <2>3, FS_EmptySet
  <2>8. Cardinality(owners) + Cardinality(places) = IF status[t] = "Executed" THEN 0 ELSE 1
    BY <2>4, <2>5, <2>6, <2>7, PlaceOf
  <2> QED BY <2>8 DEF owners, places
<1> QED BY <1>1, PolicyInvariant, PTL

(* registerAbort racing finishExecution strands nobody: a transaction that *)
(* waits for a blocker that has finished is about to be released.          *)
THEOREM ReleaseCorrect == PolSpec => []AbortsReleased
BY PolicyInvariant, PTL DEF PolicyKernelInv, PolInv

(* idleWait loses no wake-up.                                              *)
THEOREM SleepCorrect == PolSpec => []SleeperMissesNothing
BY PolicyInvariant, PTL DEF PolicyKernelInv, PolInv

(* The gate holds back and lets through exactly what it should, however    *)
(* often the predecessors run again.                                       *)
THEOREM GateCorrect == PolSpec => []GateExact
<1>1. PolicyKernelInv => GateExact
  <2> SUFFICES ASSUME PolicyKernelInv, NEW t \in Txns
               PROVE  /\ t \in Range(deferred) => ~ (Obstacles(t) \subseteq completed)
                      /\ status[t] # "Ready" => Obstacles(t) \subseteq completed
    BY DEF GateExact
  <2> USE DEF PolicyKernelInv, PolInv
  <2>1. t \in Range(deferred) => ~ (Obstacles(t) \subseteq completed)
    BY DEF GateInv
  <2>2. ASSUME status[t] # "Ready" PROVE Obstacles(t) \subseteq completed
    <3>1. t < execution_idx
      <4>1. t \in Nat /\ execution_idx \in Nat BY TxnIndices DEF CoreInv, SchedTypeOK
      <4>2. ~ (t >= execution_idx) BY <2>2 DEF CoreInv, OwnerInv, ClaimedStatus
      <4> QED BY <4>1, <4>2
    <3>2. t \notin Range(deferred)
      BY <2>2 DEF QueueInv, Queued, Unowned
    <3>3. ASSUME NEW w \in Workers, AtGate(w, t) PROVE FALSE
      <4>1. pc[w] = "incarnate" /\ obs[w] = t BY <3>3 DEF AtGate, StageInv, WorkerStage
      <4> QED BY <2>2, <4>1, TxnIndices DEF CoreInv, OwnerInv, OwnedStatus
    <3> QED BY <3>1, <3>2, <3>3 DEF GateInv
  <2> QED BY <2>1, <2>2
<1> QED BY <1>1, PolicyInvariant, PTL

(* Whatever the policy, the block implements the serial one: it returns    *)
(* once, with the serial result in the storage or, cancelled, with the     *)
(* storage untouched, and never with "scheduler did not complete".         *)
THEOREM PolicySerializable == PolSpec => ImplementsSerial
<1>1. PolInit => Serial!Init
  BY DEF PolInit, Init, Serial!Init
<1>2. PolicyKernelInv /\ [PolNext]_<<vars, polVars>> => [Serial!Next]_<<storage, result>>
  BY PolicyKernelStep
<1> QED BY <1>1, <1>2, PolicyInvariant, PTL DEF PolSpec, ImplementsSerial, Serial!Spec
=============================================================================
