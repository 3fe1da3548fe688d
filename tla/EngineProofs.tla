---------------------------- MODULE EngineProofs ----------------------------
(***************************************************************************)
(* The Block-STM engine keeps the invariant of the policy kernel, though   *)
(* its callbacks are cut short; its gates hold, it reports the cause of a  *)
(* failure, and it implements the serial block, results included: for      *)
(* every block, every set of policies and gates, every answer of the       *)
(* policy and every finite set of workers.                                 *)
(***************************************************************************)
EXTENDS EngineInv, PolicyProofs

(***************************************************************************)
(* The kernel under the callback                                           *)
(***************************************************************************)
\* The engine leaves the kernel alone, cancels it, or has an attempt recorded.
Calm(w) ==
  /\ UNCHANGED schedVars \/ Cancel \/ \E isNew \in BOOLEAN : Recorded(w, isNew)
  /\ UNCHANGED polVars

(* Such a step moves nobody but a worker that records.                     *)
LEMMA CalmFrame ==
  ASSUME CoreInv, NEW w \in Workers, Calm(w)
  PROVE  /\ [SchedNext]_schedVars
         /\ UNCHANGED <<status, incarnation, execution_idx, validation_idx, done_marker, obs, kind, txn, polVars>>
         /\ \A v \in Workers : \/ pc'[v] = pc[v]
                               \/ v = w /\ pc[w] = "exec" /\ pc'[w] = "setExecuted"
<1> USE DEF Calm, CoreInv, SchedTypeOK, schedVars, counters, statusVars, waitVars, taskVars, sharedVars
<1>1. CASE UNCHANGED schedVars BY <1>1
<1>2. CASE Cancel BY <1>2 DEF Cancel, SchedNext
<1>3. ASSUME NEW isNew \in BOOLEAN, Recorded(w, isNew)
      PROVE  /\ SchedNext
             /\ UNCHANGED <<status, incarnation, execution_idx, validation_idx, done_marker, obs, kind, txn>>
             /\ \A v \in Workers : \/ pc'[v] = pc[v]
                                   \/ v = w /\ pc[w] = "exec" /\ pc'[w] = "setExecuted"
  <2>1. SchedNext BY <1>3 DEF SchedNext, MemoryStep
  <2> QED BY <1>3, <2>1 DEF Recorded, Goto
<1> QED BY <1>1, <1>2, <1>3

(* The kernel's invariant does not depend on what is recorded.             *)
LEMMA CalmStep ==
  ASSUME CoreInv, PolInv, NEW w \in Workers, Calm(w)
  PROVE  CoreInv' /\ PolInv'
<1> USE DEF PolInv
<1>0. /\ [SchedNext]_schedVars
      /\ UNCHANGED <<status, execution_idx, validation_idx, done_marker, obs, kind, polVars>>
      /\ \A v \in Workers : \/ pc'[v] = pc[v]
                            \/ v = w /\ pc[w] = "exec" /\ pc'[w] = "setExecuted"
  BY CalmFrame
<1>1. /\ UNCHANGED <<policy, ready, deferred, completed, indegree, frontier, abortDeps, stage, own>>
      /\ UNCHANGED <<policy, gateVars, deferred, execution_idx>>
  BY <1>0 DEF polVars, queues, gateVars
<1>2. CoreInv'
  BY <1>0, NoReservationLeft, CoreInvStep
<1>3. PolTypeOK'
  BY <1>1 DEF PolTypeOK
<1>4. StageInv'
  <2> SUFFICES ASSUME NEW v \in Workers PROVE WorkerStage(v)'
    BY DEF StageInv
  <2>1. WorkerStage(v) /\ EstimateRead' = EstimateRead /\ kind'[v] = kind[v] /\ obs'[v] = obs[v]
        /\ own'[v] = own[v] /\ stage'[v] = stage[v]
    BY <1>0, <1>1 DEF StageInv, EstimateRead
  <2>2. CASE pc'[v] = pc[v]
    BY <2>1, <2>2, StageKept
  <2>3. CASE pc[v] = "exec" /\ pc'[v] = "setExecuted"
    BY <2>1, <2>3 DEF WorkerStage, FinishPCs, AbortPCs
  <2> QED BY <1>0, <2>2, <2>3
<1>5. QueueInv'
  BY <1>0, <1>1, FrozenQueue
<1>6. GateInv'
  <2>1. \A v \in Workers, t \in Txns : AtGate(v, t) => AtGate(v, t)'
    BY <1>0, <1>1 DEF AtGate
  <2> QED BY <1>1, <2>1, GateKept
<1>7. AbortsReleased'
  BY <1>0, <1>1 DEF AbortsReleased, CompletionToCome
<1>8. SleeperMissesNothing'
  BY <1>0, <1>1 DEF SleeperMissesNothing, Scannable
<1> QED BY <1>2, <1>3, <1>4, <1>5, <1>6, <1>7, <1>8

(* Replacing one version tree by one of transactions of the block keeps    *)
(* the shape of the memory.                                                *)
LEMMA TreeShape ==
  ASSUME MemoryShape, NEW w \in Workers, NEW k \in Keys, NEW D, DOMAIN D \subseteq Txns,
         data' = [data EXCEPT ![k] = D],
         applied' = [applied EXCEPT ![w] = @ \cup {k}],
         UNCHANGED <<lastWritten, reads>>
  PROVE  MemoryShape'
<1>1. DOMAIN data' = Keys /\ \A j \in Keys : data'[j] = IF j = k THEN D ELSE data[j]
  BY DEF MemoryShape
<1>2. data' = [j \in Keys |-> data'[j]] /\ \A j \in Keys : DOMAIN data'[j] \subseteq Txns
  BY <1>1 DEF MemoryShape
<1>3. applied' \in [Workers -> SUBSET Keys]
  BY DEF MemoryShape
<1> QED BY <1>1, <1>2, <1>3 DEF MemoryShape

(* Recording an attempt keeps it, whatever its write set.                  *)
LEMMA RecordShape ==
  ASSUME CoreInv, MemoryShape, NEW w \in Workers, pc[w] = "exec", NEW ws,
         \/ \E k \in Keys : WriteKey(w, ws, k) \/ RemoveKey(w, ws, k)
         \/ Publish(w, ws)
  PROVE  MemoryShape'
<1>0. txn[w] \in Txns
  BY DEF CoreInv, TaskInv, WorkerTask
<1>1. ASSUME NEW k \in Keys, WriteKey(w, ws, k) PROVE MemoryShape'
  <2> DEFINE D == Write(data[k], ws[k], txn[w], inc[w])
  <2>1. DOMAIN D \subseteq Txns BY <1>0 DEF Write, SetEntry, MemoryShape
  <2>2. /\ data' = [data EXCEPT ![k] = D] /\ applied' = [applied EXCEPT ![w] = @ \cup {k}]
        /\ UNCHANGED <<lastWritten, reads>>
    BY <1>1 DEF WriteKey
  <2> HIDE DEF D
  <2> QED BY <2>1, <2>2, TreeShape
<1>2. ASSUME NEW k \in Keys, RemoveKey(w, ws, k) PROVE MemoryShape'
  <2> DEFINE D == DeleteEntry(data[k], txn[w])
  <2>1. DOMAIN D \subseteq Txns BY DEF DeleteEntry, MemoryShape
  <2>2. /\ data' = [data EXCEPT ![k] = D] /\ applied' = [applied EXCEPT ![w] = @ \cup {k}]
        /\ UNCHANGED <<lastWritten, reads>>
    BY <1>2 DEF RemoveKey
  <2> HIDE DEF D
  <2> QED BY <2>1, <2>2, TreeShape
<1>3. CASE Publish(w, ws)
  <2>1. DOMAIN ws \subseteq Keys
    BY <1>3 DEF Publish, MemoryShape
  <2>2. lastWritten' \in [Txns -> SUBSET Keys] /\ applied' \in [Workers -> SUBSET Keys]
    BY <1>3, <2>1 DEF Publish, MemoryShape
  <2>3. data' = data /\ reads' = [v \in Workers |-> reads'[v]]
    BY <1>3 DEF Publish, MemoryShape
  <2> QED BY <2>2, <2>3 DEF MemoryShape
<1> QED BY <1>1, <1>2, <1>3

(* So does every step of the policy kernel.                                *)
LEMMA ShapeStep ==
  ASSUME CoreInv, MemoryShape, PolTypeOK, StageInv, QueueInv, [PolNext]_<<vars, polVars>>
  PROVE  MemoryShape'
<1>1. ASSUME UNCHANGED <<memory, views>> PROVE MemoryShape'
  BY <1>1 DEF MemoryShape, memory, views
<1>2. ASSUME NEW w \in Workers, DataStep(w) PROVE MemoryShape'
  <2>1. CASE Get(w)
    BY <2>1 DEF Get, MemoryShape, memory
  <2>2. ASSUME NEW k \in Keys, ApplyWriteSet(w, k) \/ RemoveUnwritten(w, k) PROVE MemoryShape'
    BY <2>2, RecordShape DEF ApplyWriteSet, RemoveUnwritten, Returned
  <2>3. CASE Record(w)
    BY <2>3, RecordShape DEF Record, Returned
  <2>4. ASSUME NEW k \in Keys, MarkEstimate(w, k) PROVE MemoryShape'
    <3> DEFINE D == WriteEstimate(data[k], txn[w])
    <3>0. txn[w] \in Txns
      BY <2>4 DEF MarkEstimate, CoreInv, TaskInv, WorkerTask
    <3>1. DOMAIN D \subseteq Txns BY <3>0 DEF WriteEstimate, SetEntry, MemoryShape
    <3>2. /\ data' = [data EXCEPT ![k] = D] /\ applied' = [applied EXCEPT ![w] = @ \cup {k}]
          /\ UNCHANGED <<lastWritten, reads>>
      BY <2>4 DEF MarkEstimate
    <3> HIDE DEF D
    <3> QED BY <3>1, <3>2, TreeShape
  <2>5. CASE LoadReadSet(w) \/ (\E d \in unchecked[w] : CheckRead(w, d)) \/ ReadSetValid(w)
    BY <2>5 DEF LoadReadSet, CheckRead, ReadSetValid, MemoryShape, memory
  <2>6. CASE AllMarked(w)
    BY <2>6 DEF AllMarked, MemoryShape, memory
  <2> QED BY <1>2, <2>1, <2>2, <2>3, <2>4, <2>5, <2>6 DEF DataStep
<1>3. CASE [Next]_vars
  <2>1. CASE UNCHANGED vars \/ Return \/ CancelBlock \/ Finished
    BY <1>1, <2>1 DEF vars, Return, CancelBlock, Finished
  <2>2. ASSUME NEW w \in Workers, ControlStep(w) PROVE MemoryShape'
    BY <1>1, <2>2 DEF ControlStep
  <2> QED BY <1>2, <1>3, <2>1, <2>2 DEF Next, WorkerStep
<1>4. ASSUME NEW w \in Workers, Quiet(w) PROVE MemoryShape'
  BY <1>1, <1>4 DEF Quiet
<1>5. ASSUME NEW w \in Workers, GivesUp(w) PROVE MemoryShape'
  BY <1>5 DEF GivesUp, MemoryShape, memory
<1> QED BY <1>3, <1>4, <1>5, FrozenStep

\* What the engine keeps of the invariant of the policy kernel.
KernelInv == CoreInv /\ MemoryShape /\ PolInv

(* A step of the engine is one of the policy kernel, or a calm one.        *)
LEMMA EngineStep ==
  ASSUME KernelInv, [EngNext]_<<kernelVars, engVars>>
  PROVE  \/ [PolNext]_<<vars, polVars>>
         \/ \E w \in Workers : Calm(w) /\ MemoryShape'
<1> USE DEF KernelInv
<1>0. PICK w0 \in Workers : TRUE
  BY SomeWorkerAssumption
<1>1. CASE UNCHANGED kernelVars
  BY <1>1 DEF kernelVars
<1>2. CASE UNCHANGED <<kernelVars, engVars>> \/ EngineFinished \/ EngineReturn \/ \E lane \in LaneAnswers : Start(lane)
  BY <1>1, <1>2 DEF EngineFinished, EngineReturn, Start
<1>3. CASE KernelReturn
  BY <1>3 DEF KernelReturn, PolNext
<1>4. CASE EndContext
  <2>1. UNCHANGED polVars /\ MemoryShape'
    BY <1>4 DEF EndContext, MemoryShape, memory, views
  <2>2. UNCHANGED schedVars \/ Cancel
    BY <1>4 DEF EndContext, Cancel, schedVars, CoreInv, SchedTypeOK
  <2> QED BY <1>0, <2>1, <2>2 DEF Calm
<1>5. ASSUME NEW w \in Workers, WorkerRuns(w)
      PROVE  [PolNext]_<<vars, polVars>> \/ (Calm(w) /\ MemoryShape')
  <2>0. UNCHANGED kernelVars => UNCHANGED <<vars, polVars>>
    BY DEF kernelVars
  <2>1. ASSUME NEW lane \in LaneAnswers, LeaveGate(w) \/ EnterGate(w, lane) PROVE UNCHANGED kernelVars
    BY <2>1 DEF LeaveGate, EnterGate
  <2>2. CASE CancelExecution(w)
    <3>1. UNCHANGED polVars /\ MemoryShape'
      BY <2>2 DEF CancelExecution, MemoryShape, memory, views
    <3>2. UNCHANGED schedVars \/ Cancel
      BY <2>2 DEF CancelExecution, Cancel, schedVars, CoreInv, SchedTypeOK
    <3> QED BY <3>1, <3>2 DEF Calm
  <2>3. ASSUME NEW ans \in Answers, RunRead(w, ans) PROVE PolNext
    <3>1. Get(w) /\ pc[w] = "exec" /\ UNCHANGED polVars
      BY <2>3 DEF RunRead, Get
    <3>2. UNCHANGED <<policy, queues, own>> /\ stage' = [stage EXCEPT ![w] = stage[w]]
      BY <3>1 DEF polVars, PolInv, PolTypeOK
    <3>3. Data(w)
      BY <3>1, <3>2 DEF Data, DataStep, At
    <3> QED BY <3>2, <3>3 DEF PolNext, PolStep
  <2>4. ASSUME NEW cut \in BOOLEAN, NEW ans \in Answers, RunEnd(w, cut, ans) PROVE UNCHANGED kernelVars
    BY <2>4 DEF RunEnd
  <2>5. CASE KernelRecord(w)
    <3> DEFINE ws == ViewWrites(w)
    <3>1. /\ pc[w] = "exec" /\ UNCHANGED polVars
          /\ \/ \E k \in Keys : WriteKey(w, ws, k) \/ RemoveKey(w, ws, k)
             \/ Publish(w, ws)
      BY <2>5 DEF KernelRecord
    <3> HIDE DEF ws
    <3>2. MemoryShape' BY <3>1, RecordShape
    <3>3. UNCHANGED schedVars \/ \E isNew \in BOOLEAN : Recorded(w, isNew)
      BY <3>1 DEF WriteKey, RemoveKey, Publish
    <3> QED BY <3>1, <3>2, <3>3 DEF Calm
  <2>6. CASE Abandon(w) \/ KernelStep(w)
    BY <2>6 DEF Abandon, KernelStep, PolNext, PolStep
  <2>7. CASE OpenGate(w)
    BY <2>0, <2>7 DEF OpenGate
  <2> QED BY <1>5, <2>0, <2>1, <2>2, <2>3, <2>4, <2>5, <2>6, <2>7 DEF WorkerRuns, LaneAnswers
<1> QED BY <1>2, <1>3, <1>4, <1>5 DEF EngNext, CallerRuns

(* The engine keeps the kernel's invariant.                                *)
LEMMA KernelInvKept ==
  ASSUME KernelInv, [EngNext]_<<kernelVars, engVars>>
  PROVE  KernelInv'
<1> USE DEF KernelInv
<1>1. CASE [PolNext]_<<vars, polVars>>
  <2>1. PolTypeOK /\ StageInv /\ QueueInv BY DEF PolInv
  <2>2. CoreInv'
    <3>1. CASE [Next]_vars
      <4>1. [SchedNext]_schedVars BY <3>1, SimulationStep
      <4> QED BY <2>1, <4>1, NoReservationLeft, CoreInvStep
    <3> QED BY <1>1, <2>1, <3>1, FrozenStep, GivesUpStep
  <2> QED BY <1>1, <2>1, <2>2, PolInvStep, ShapeStep
<1>2. ASSUME NEW w \in Workers, Calm(w), MemoryShape' PROVE KernelInv'
  BY <1>2, CalmStep
<1> QED BY <1>1, <1>2, EngineStep

(* What the kernel's own steps leave alone: the context, the result, the   *)
(* other workers, and the transaction of a worker in the callback.         *)
LEMMA KernelFrame ==
  ASSUME KernelInv, NEW w \in Workers, KernelStep(w)
  PROVE  /\ UNCHANGED <<cancelled, storage, result>>
         /\ \A v \in Workers : v # w => pc'[v] = pc[v] /\ txn'[v] = txn[v]
         /\ pc[w] = "exec" => pc'[w] = "exec" /\ txn'[w] = txn[w]
         /\ pc[w] \in {"depend", "suspend", "wait"} =>
              pc'[w] \in {"exec", "depend", "suspend", "wait"} /\ txn'[w] = txn[w]
<1> USE DEF KernelInv
<1>0. /\ pc \in [Workers -> PCs] /\ txn \in [Workers -> Nat]
      /\ WorkerStage(w)
  BY DEF CoreInv, SchedTypeOK, PolInv, StageInv
<1>1. CASE Base(w)
  <2>1. SchedulerStep(w) /\ UNCHANGED <<storage, result>>
    BY <1>1 DEF Base, ControlStep, outcome
  <2>2. pc[w] # "exec" BY <2>1, ControlSource
  <2>3. cancelled' = cancelled BY <2>1, ControlMoves
  <2>4. pc[w] \in {"depend", "suspend", "wait"} => pc'[w] \in {"exec", "suspend", "wait"} /\ txn'[w] = txn[w]
    BY <2>1, ControlMoves
  <2>5. \A v \in Workers : v # w => pc'[v] = pc[v] /\ txn'[v] = txn[v]
    BY <2>1, ControlFrame
  <2> QED BY <2>1, <2>2, <2>3, <2>4, <2>5
<1>2. CASE pc[w] # "exec" /\ Data(w)
  <2>1. DataStep(w) BY <1>2 DEF Data
  <2> QED BY <1>2, <2>1, DataTargets
<1>3. CASE PopReady(w) \/ ScanWork(w) \/ Defer(w)
  <2>1. /\ pc[w] \in {"loop", "loadE", "incarnate"} /\ UNCHANGED <<cancelled, storage, result, txn>>
        /\ \A v \in Workers : v # w => pc'[v] = pc[v]
    BY <1>0, <1>3 DEF PopReady, ScanWork, Defer, Goto, sharedVars, taskVars, outcome
  <2> QED BY <2>1
<1>4. CASE CompleteExecution(w) \/ NotifyValidated(w) \/ NotifyDone(w) \/ IdleCheck(w) \/ ParkEnds(w)
  <2>1. UNCHANGED vars
    BY <1>4 DEF CompleteExecution, NotifyValidated, NotifyDone, IdleCheck, ParkEnds
  <2> QED BY <2>1 DEF vars, schedVars, outcome
<1>5. CASE UnwindOrRetry(w)
  <2>1. /\ pc[w] = "depend" /\ UNCHANGED <<cancelled, storage, result, txn>>
        /\ \A v \in Workers : v # w => pc'[v] = pc[v]
        /\ pc'[w] \in {"exec", "depend"}
    BY <1>0, <1>5 DEF UnwindOrRetry, Goto, sharedVars, schedVars, taskVars, outcome
  <2> QED BY <2>1
<1> QED BY <1>1, <1>2, <1>3, <1>4, <1>5 DEF KernelStep, PolControl

(* The engine's own steps leave the kernel's workers where they are.       *)
LEMMA WorkerFrame ==
  ASSUME KernelInv, NEW w \in Workers, WorkerRuns(w), NEW v \in Workers, v # w
  PROVE  pc'[v] = pc[v] /\ txn'[v] = txn[v]
<1> USE DEF KernelInv
<1>0. pc \in [Workers -> PCs] /\ txn \in [Workers -> Nat]
  BY DEF CoreInv, SchedTypeOK
<1>1. ASSUME UNCHANGED kernelVars PROVE UNCHANGED <<pc, txn>>
  BY <1>1 DEF kernelVars, vars, schedVars
<1>2. ASSUME NEW lane \in LaneAnswers, EnterGate(w, lane) \/ LeaveGate(w) PROVE UNCHANGED <<pc, txn>>
  <2>1. UNCHANGED kernelVars BY <1>2 DEF EnterGate, LeaveGate
  <2> QED BY <1>1, <2>1
<1>3. ASSUME NEW cut \in BOOLEAN, NEW ans \in Answers, RunEnd(w, cut, ans) PROVE UNCHANGED <<pc, txn>>
  <2>1. UNCHANGED kernelVars BY <1>3 DEF RunEnd
  <2> QED BY <1>1, <2>1
<1>4. CASE CancelExecution(w)
  BY <1>4 DEF CancelExecution
<1>5. ASSUME NEW ans \in Answers, RunRead(w, ans) PROVE pc'[v] = pc[v] /\ txn'[v] = txn[v]
  BY <1>0, <1>5 DEF RunRead, Get, MeetEstimate, Goto, taskVars, schedVars
<1>6. CASE KernelRecord(w)
  BY <1>0, <1>6 DEF KernelRecord, WriteKey, RemoveKey, Publish, Recorded, Goto, schedVars
<1>7. CASE Abandon(w)
  BY <1>0, <1>7 DEF Abandon, RegisterAbort, Goto, SetTask
<1>8. CASE KernelStep(w)
  BY <1>8, KernelFrame
<1>9. CASE OpenGate(w)
  BY <1>1, <1>9 DEF OpenGate
<1> QED BY <1>2, <1>3, <1>4, <1>5, <1>6, <1>7, <1>8, <1>9 DEF WorkerRuns, LaneAnswers

(***************************************************************************)
(* The callback                                                            *)
(***************************************************************************)
(* The gate looks at exactly what an attempt waits for.                    *)
LEMMA OpenExact ==
  ASSUME EngTypeOK, PolTypeOK, NEW t \in Txns, NEW done, done \subseteq Txns
  PROVE  /\ Open(t, done) <=> GateObstacles(t) \subseteq done
         /\ gate = "summary" => (Open(t, done) <=> Barriers[t] < Frontier(done))
<1>1. ValidGate(policy)
  BY PolicyAssumption DEF PolTypeOK
<1>2. Barriers[t] \in Int /\ Barriers[t] < t /\ t < BlockSize
  BY <1>1, TxnIndices DEF ValidGate, Barriers
<1> DEFINE f == Frontier(done)
<1>3. f \in 0 .. BlockSize /\ f \notin done /\ 0 .. f - 1 \subseteq done
  BY AdvanceExact DEF Frontier, Advance
<1> HIDE DEF f
<1>4. Barriers[t] < f <=> 0 .. Barriers[t] \subseteq done
  <2>1. ASSUME Barriers[t] < f PROVE 0 .. Barriers[t] \subseteq done
    BY <1>2, <1>3, <2>1, BlockSizeAssumption
  <2>2. ASSUME ~ (Barriers[t] < f) PROVE ~ (0 .. Barriers[t] \subseteq done)
    BY <1>2, <1>3, <2>2, BlockSizeAssumption
  <2> QED BY <2>1, <2>2
<1> QED BY <1>4 DEF Open, GateObstacles, EngTypeOK, f

(* What Complete does to the other workers, and to its own.                *)
LEMMA CompleteSteps ==
  ASSUME NEW w \in Workers, NEW t, Complete(w, t), NEW v \in Workers
  PROVE  /\ v = w => step'[v] = "returned"
         /\ v # w => step'[v] = step[v] \/ (step[v] = "blocked" /\ step'[v] = "woken")
         /\ step' = [u \in Workers |-> step'[u]]
BY DEF Complete

(* The steps of a worker on the other places of the callback.              *)
LEMMA OtherSteps ==
  ASSUME EngTypeOK, NEW w \in Workers, WorkerRuns(w), NEW v \in Workers, v # w
  PROVE  step'[v] = step[v] \/ (step[v] = "blocked" /\ step'[v] = "woken")
<1> USE DEF EngTypeOK, StepTo
<1>1. ASSUME NEW lane \in LaneAnswers, EnterGate(w, lane) PROVE step'[v] = step[v]
  BY <1>1 DEF EnterGate, Begin, LaneAnswers
<1>2. CASE LeaveGate(w) \/ CancelExecution(w) \/ KernelRecord(w) \/ Abandon(w)
  BY <1>2 DEF LeaveGate, CancelExecution, KernelRecord, Abandon
<1>3. ASSUME NEW ans \in Answers, RunRead(w, ans) PROVE step'[v] = step[v]
  BY <1>3 DEF RunRead
<1>4. ASSUME NEW cut \in BOOLEAN, NEW ans \in Answers, RunEnd(w, cut, ans) PROVE step'[v] = step[v]
  BY <1>4 DEF RunEnd
<1>5. CASE KernelStep(w)
  BY <1>5 DEF KernelStep, engVars
<1>6. CASE OpenGate(w)
  <2>1. Complete(w, txn[w]) BY <1>6 DEF OpenGate
  <2> QED BY <2>1, CompleteSteps
<1> QED BY <1>1, <1>2, <1>3, <1>4, <1>5, <1>6 DEF WorkerRuns

(* The steps of the caller, and of nobody, on the callback.                *)
LEMMA CallerFrame ==
  ASSUME \/ UNCHANGED <<kernelVars, engVars>> \/ CallerRuns \/ EndContext \/ EngineFinished
  PROVE  UNCHANGED <<gate, opened, step, slots, firstErr, pc, txn, policy>>
<1> USE DEF gateState, errors, call, engVars
<1>1. ASSUME UNCHANGED kernelVars PROVE UNCHANGED <<pc, txn, policy>>
  BY <1>1 DEF kernelVars, vars, schedVars, polVars
<1>2. CASE UNCHANGED <<kernelVars, engVars>> \/ EngineFinished
  BY <1>1, <1>2 DEF EngineFinished
<1>3. ASSUME NEW lane \in LaneAnswers, Start(lane)
      PROVE  UNCHANGED <<gate, opened, step, slots, firstErr, pc, txn, policy>>
  BY <1>1, <1>3 DEF Start
<1>4. CASE KernelReturn
  BY <1>4 DEF KernelReturn, PolReturn, Return, polVars, schedVars
<1>5. CASE EngineReturn
  BY <1>1, <1>5 DEF EngineReturn
<1>6. CASE EndContext
  BY <1>6 DEF EndContext, polVars
<1> QED BY <1>2, <1>3, <1>4, <1>5, <1>6 DEF CallerRuns

(* Every step keeps the types of the engine's state.                       *)
LEMMA EngTypeStep ==
  ASSUME KernelInv, EngTypeOK, CallbackInv, [EngNext]_<<kernelVars, engVars>>
  PROVE  EngTypeOK'
<1> USE DEF EngTypeOK, gateState, errors, call, engVars, StepTo
<1>1. CASE UNCHANGED <<kernelVars, engVars>> \/ EngineFinished
  BY <1>1 DEF EngineFinished
<1>2. ASSUME NEW lane \in LaneAnswers, Start(lane) PROVE EngTypeOK'
  BY <1>2 DEF Start
<1>3. CASE KernelReturn \/ EngineReturn \/ EndContext
  BY <1>3 DEF KernelReturn, EngineReturn, EndContext
<1>4. ASSUME NEW w \in Workers, WorkerRuns(w) PROVE EngTypeOK'
  <2>1. ASSUME NEW lane \in LaneAnswers, EnterGate(w, lane) PROVE EngTypeOK'
    <3>1. CASE Open(txn[w], opened)
      BY <2>1, <3>1 DEF EnterGate, Begin, LaneAnswers
    <3>2. CASE ~ Open(txn[w], opened)
      BY <2>1, <3>2 DEF EnterGate
    <3> QED BY <3>1, <3>2
  <2>2. CASE LeaveGate(w) \/ CancelExecution(w) \/ KernelRecord(w) \/ Abandon(w)
    BY <2>2 DEF LeaveGate, CancelExecution, KernelRecord, Abandon
  <2>3. ASSUME NEW ans \in Answers, RunRead(w, ans) PROVE EngTypeOK'
    BY <2>3 DEF RunRead
  <2>4. ASSUME NEW cut \in BOOLEAN, NEW ans \in Answers, RunEnd(w, cut, ans) PROVE EngTypeOK'
    <3>1. txn[w] \in Txns
      BY <2>4 DEF RunEnd, KernelInv, CoreInv, TaskInv, WorkerTask
    <3>2. CASE policyErr' BY <2>4, <3>2 DEF RunEnd
    <3>3. CASE ~ policyErr'
      <4> DEFINE r == [ready |-> TRUE, cancelled |-> cut, vals |-> Values(w)]
      <4>1. /\ step' = [step EXCEPT ![w] = "stored"] /\ slots' = [slots EXCEPT ![txn[w]] = r]
            /\ UNCHANGED <<gate, opened, ended>> /\ policyErr' \in BOOLEAN
        BY <2>4, <3>3 DEF RunEnd, Store
      <4>2. r.ready = TRUE /\ r.cancelled = cut OBVIOUS
      <4> HIDE DEF r
      <4>3. /\ slots' = [t \in Txns |-> slots'[t]]
            /\ \A t \in Txns : slots'[t].ready \in BOOLEAN /\ slots'[t].cancelled \in BOOLEAN
        BY <3>1, <4>1, <4>2
      <4> QED BY <4>1, <4>3
    <3> QED BY <3>2, <3>3
  <2>5. CASE KernelStep(w)
    BY <2>5 DEF KernelStep
  <2>6. CASE OpenGate(w)
    <3>1. Complete(w, txn[w]) /\ step[w] = "stored" /\ UNCHANGED <<gate, slots, policyErr, ended>>
      BY <2>6 DEF OpenGate
    <3>2. txn[w] \in Txns
      BY <3>1 DEF CallbackInv, InCallback, KernelInv, CoreInv, TaskInv, WorkerTask
    <3>3. opened' \subseteq Txns BY <3>1, <3>2 DEF Complete
    <3>4. step' \in [Workers -> {"none", "blocked", "woken", "run", "reading", "stored", "returned", "failing", "cut"}]
      BY <3>1, CompleteSteps
    <3> QED BY <3>1, <3>3, <3>4
  <2> QED BY <1>4, <2>1, <2>2, <2>3, <2>4, <2>5, <2>6 DEF WorkerRuns
<1> QED BY <1>1, <1>2, <1>3, <1>4 DEF EngNext, CallerRuns

(* A worker stays in the callback while its transaction executes.          *)
LEMMA CallbackStep ==
  ASSUME KernelInv, EngTypeOK, CallbackInv, [EngNext]_<<kernelVars, engVars>>
  PROVE  CallbackInv'
<1> USE DEF EngTypeOK, StepTo
<1>0. pc \in [Workers -> PCs] /\ \A v \in Workers : InCallback(v)
  BY DEF KernelInv, CoreInv, SchedTypeOK, CallbackInv
<1>1. CASE UNCHANGED <<kernelVars, engVars>> \/ CallerRuns \/ EndContext \/ EngineFinished
  <2>1. UNCHANGED <<step, pc>> BY <1>1, CallerFrame
  <2> QED BY <1>0, <2>1 DEF CallbackInv, InCallback
<1>2. ASSUME NEW w \in Workers, WorkerRuns(w) PROVE CallbackInv'
  <2>1. ASSUME NEW v \in Workers, v # w PROVE InCallback(v)'
    BY <1>0, <1>2, <2>1, WorkerFrame, OtherSteps DEF InCallback
  <2>2. InCallback(w)'
    <3>1. ASSUME UNCHANGED kernelVars PROVE pc' = pc
      BY <3>1 DEF kernelVars, vars, schedVars
    <3>2. ASSUME NEW lane \in LaneAnswers, EnterGate(w, lane) PROVE InCallback(w)'
      <4>1. pc'[w] = "exec" BY <3>1, <3>2 DEF EnterGate
      <4> QED BY <4>1 DEF InCallback
    <3>3. CASE LeaveGate(w)
      <4>1. pc'[w] = "exec" BY <1>0, <3>1, <3>3 DEF LeaveGate, InCallback
      <4> QED BY <4>1 DEF InCallback
    <3>4. CASE CancelExecution(w)
      <4>1. pc'[w] = "exec" BY <1>0, <3>4 DEF CancelExecution, InCallback
      <4> QED BY <4>1 DEF InCallback
    <3>5. ASSUME NEW ans \in Answers, RunRead(w, ans) PROVE InCallback(w)'
      <4>1. pc'[w] \in {"exec", "depend"}
        BY <1>0, <3>5 DEF RunRead, Get, MeetEstimate, Goto, schedVars
      <4>2. step'[w] = IF pc'[w] = "depend" THEN "reading" ELSE "run"
        BY <3>5 DEF RunRead
      <4> QED BY <4>1, <4>2 DEF InCallback
    <3>6. ASSUME NEW cut \in BOOLEAN, NEW ans \in Answers, RunEnd(w, cut, ans) PROVE InCallback(w)'
      <4>1. pc'[w] = "exec" BY <3>1, <3>6 DEF RunEnd
      <4> QED BY <4>1 DEF InCallback
    <3>7. CASE KernelRecord(w)
      <4>1. pc'[w] \in {"exec", "setExecuted"} /\ step[w] \in {"cut", "returned"}
        BY <1>0, <3>7 DEF KernelRecord, WriteKey, RemoveKey, Publish, Recorded, Goto, schedVars
      <4>2. step'[w] = IF pc'[w] = "exec" THEN step[w] ELSE "none"
        BY <3>7 DEF KernelRecord
      <4> QED BY <4>1, <4>2 DEF InCallback
    <3>8. CASE Abandon(w)
      <4>1. step'[w] = "none" BY <3>8 DEF Abandon
      <4> QED BY <4>1 DEF InCallback
    <3>9. CASE KernelStep(w)
      <4>1. step' = step BY <3>9 DEF KernelStep, engVars
      <4> QED BY <1>0, <3>9, <4>1, KernelFrame DEF InCallback
    <3>10. CASE OpenGate(w)
      <4>1. pc'[w] = "exec" BY <1>0, <3>1, <3>10 DEF OpenGate, InCallback
      <4> QED BY <4>1 DEF InCallback
    <3> QED BY <1>2, <3>2, <3>3, <3>4, <3>5, <3>6, <3>7, <3>8, <3>9, <3>10 DEF WorkerRuns
  <2> QED BY <2>1, <2>2 DEF CallbackInv
<1> QED BY <1>1, <1>2 DEF EngNext

(***************************************************************************)
(* The cause of a failure                                                  *)
(***************************************************************************)
(* A result that the loop over the slots finds cancelled is one.           *)
LEMMA SlotsVerdictCause ==
  ASSUME SlotsVerdict = "context"
  PROVE  \E t \in Txns : slots[t].cancelled
<1> DEFINE wrong == {t \in Txns : ~ slots[t].ready \/ slots[t].cancelled}
<1>1. wrong # {} /\ slots[Min(wrong)].ready
  BY DEF SlotsVerdict
<1>2. PICK m \in wrong : \A y \in wrong : m <= y
  <2>1. wrong \in SUBSET Nat BY TxnIndices
  <2> HIDE DEF wrong
  <2> QED BY <1>1, <2>1, LeastExists
<1>3. Min(wrong) \in wrong
  <2>1. \E x \in wrong : \A y \in wrong : x <= y BY <1>2
  <2> HIDE DEF wrong
  <2> QED BY <2>1 DEF Min
<1> QED BY <1>1, <1>3

(* Every step of a worker keeps the causes in order.                       *)
LEMMA WorkerCause ==
  ASSUME KernelInv, EngTypeOK, CallbackInv, CauseInv, NEW w \in Workers, WorkerRuns(w)
  PROVE  CauseInv'
<1> USE DEF CauseInv, CauseReported, EngTypeOK, StepTo, gateState, errors, call, engVars
<1>0. \A v \in Workers : v # w => (step'[v] \in {"failing", "cut"} <=> step[v] \in {"failing", "cut"})
  BY OtherSteps
<1>1. ASSUME UNCHANGED kernelVars PROVE UNCHANGED <<cancelled, result>>
  BY <1>1 DEF kernelVars, vars, schedVars, outcome
<1>2. ASSUME NEW lane \in LaneAnswers, EnterGate(w, lane) PROVE CauseInv'
  <2>1. UNCHANGED <<cancelled, result, slots, ended, answer>>
    BY <1>1, <1>2 DEF EnterGate
  <2>2. \/ firstErr' \in {"unsupported", "policy"} /\ firstErr = ""
        \/ firstErr' = firstErr /\ firstErr # ""
        \/ firstErr' = firstErr /\ step'[w] \notin {"failing", "cut"}
    <3>1. CASE Open(txn[w], opened)
      BY <1>2, <3>1 DEF EnterGate, Begin, LaneAnswers, SetError
    <3>2. CASE ~ Open(txn[w], opened)
      BY <1>2, <3>2 DEF EnterGate
    <3> QED BY <3>1, <3>2
  <2> QED BY <1>0, <2>1, <2>2
<1>3. CASE LeaveGate(w)
  <2>1. UNCHANGED <<cancelled, result, slots, ended, answer>> /\ cancelled
    BY <1>1, <1>3 DEF LeaveGate
  <2>2. firstErr' = IF firstErr = "" THEN "context" ELSE firstErr
    BY <1>3 DEF LeaveGate, SetError
  <2> QED BY <1>0, <2>1, <2>2
<1>4. CASE CancelExecution(w)
  <2>1. UNCHANGED <<result, slots, ended, answer, firstErr>> /\ cancelled' = TRUE /\ step[w] = "failing"
    BY <1>4 DEF CancelExecution, outcome
  <2> QED BY <1>0, <2>1
<1>5. ASSUME NEW ans \in Answers, RunRead(w, ans) PROVE CauseInv'
  <2>1. UNCHANGED <<cancelled, result, slots, ended, answer, firstErr>>
    BY <1>5 DEF RunRead, Get, MeetEstimate, sharedVars, schedVars, outcome
  <2>2. step'[w] \notin {"failing", "cut"}
    BY <1>5 DEF RunRead
  <2> QED BY <1>0, <2>1, <2>2
<1>6. ASSUME NEW cut \in BOOLEAN, NEW ans \in Answers, RunEnd(w, cut, ans) PROVE CauseInv'
  <2>1. UNCHANGED <<cancelled, result, ended, answer>>
    BY <1>1, <1>6 DEF RunEnd
  <2>2. CASE policyErr'
    <3>1. slots' = slots /\ firstErr' = IF firstErr = "" THEN "policy" ELSE firstErr
      BY <1>6, <2>2 DEF RunEnd, SetError
    <3> QED BY <1>0, <2>1, <3>1
  <2>3. CASE ~ policyErr'
    <3> DEFINE r == [ready |-> TRUE, cancelled |-> cut, vals |-> Values(w)]
    <3>1. /\ step'[w] = "stored" /\ slots' = [slots EXCEPT ![txn[w]] = r]
          /\ firstErr' = firstErr /\ (cut => cancelled)
      BY <1>6, <2>3 DEF RunEnd, Store
    <3>2. r.cancelled = cut OBVIOUS
    <3> HIDE DEF r
    <3>3. \A t \in Txns : slots'[t].cancelled => cancelled
      BY <3>1, <3>2
    <3> QED BY <1>0, <2>1, <3>1, <3>3
  <2> QED BY <2>2, <2>3
<1>7. CASE KernelRecord(w)
  <2>1. UNCHANGED <<cancelled, result, slots, ended, answer, firstErr>>
    BY <1>7 DEF KernelRecord, WriteKey, RemoveKey, Publish, Recorded, sharedVars, schedVars, outcome
  <2>2. step'[w] = "none" \/ step'[w] = step[w]
    BY <1>7 DEF KernelRecord
  <2> QED BY <1>0, <2>1, <2>2
<1>8. CASE Abandon(w)
  <2>1. UNCHANGED <<cancelled, result, slots, ended, answer, firstErr>> /\ step'[w] = "none"
    BY <1>8 DEF Abandon, RegisterAbort, outcome
  <2> QED BY <1>0, <2>1
<1>9. CASE KernelStep(w)
  <2>1. UNCHANGED <<cancelled, result>> BY <1>9, KernelFrame
  <2>2. UNCHANGED <<step, slots, ended, answer, firstErr>> BY <1>9 DEF KernelStep
  <2> QED BY <2>1, <2>2
<1>10. CASE OpenGate(w)
  <2>1. UNCHANGED <<cancelled, result, slots, ended, answer, firstErr>> /\ Complete(w, txn[w])
    BY <1>1, <1>10 DEF OpenGate
  <2>2. step'[w] = "returned" BY <2>1, CompleteSteps
  <2> QED BY <1>0, <2>1, <2>2
<1> QED BY <1>2, <1>3, <1>4, <1>5, <1>6, <1>7, <1>8, <1>9, <1>10 DEF WorkerRuns

(* And so does every other step.                                           *)
LEMMA CauseStep ==
  ASSUME KernelInv, EngTypeOK, CallbackInv, CauseInv, [EngNext]_<<kernelVars, engVars>>
  PROVE  CauseInv'
<1> USE DEF CauseInv, CauseReported, EngTypeOK, gateState, errors, call, engVars
<1>1. ASSUME UNCHANGED kernelVars PROVE UNCHANGED <<cancelled, result>>
  BY <1>1 DEF kernelVars, vars, schedVars, outcome
<1>2. CASE UNCHANGED <<kernelVars, engVars>> \/ EngineFinished
  <2>1. UNCHANGED <<cancelled, result, step, slots, ended, answer, firstErr>>
    BY <1>1, <1>2 DEF EngineFinished
  <2> QED BY <2>1
<1>3. ASSUME NEW lane \in LaneAnswers, Start(lane) PROVE CauseInv'
  <2>1. UNCHANGED <<cancelled, result, step, slots, ended, firstErr>>
    BY <1>1, <1>3 DEF Start
  <2>2. answer' = "context" => ended
    BY <1>3 DEF Start, LaneAnswers
  <2> QED BY <2>1, <2>2
<1>4. CASE KernelReturn
  <2>1. /\ UNCHANGED <<cancelled, step, slots, ended, answer, firstErr>>
        /\ result' = IF done_marker THEN "ok" ELSE IF cancelled THEN "cancelled" ELSE "incomplete"
    BY <1>4 DEF KernelReturn, PolReturn, Return, schedVars
  <2> QED BY <2>1
<1>5. CASE EngineReturn
  <2>1. UNCHANGED <<cancelled, result, step, slots, ended, firstErr>>
    BY <1>1, <1>5 DEF EngineReturn
  <2>2. ASSUME answer' = "context" PROVE ended
    <3>1. CASE firstErr # ""
      BY <1>5, <2>2, <3>1 DEF EngineReturn
    <3>2. CASE firstErr = "" /\ result # "ok"
      BY <1>5, <2>2, <3>2 DEF EngineReturn
    <3>3. CASE firstErr = "" /\ result = "ok"
      <4>1. SlotsVerdict = "context" BY <1>5, <2>2, <3>3 DEF EngineReturn
      <4> QED BY <3>3, <4>1, SlotsVerdictCause
    <3> QED BY <3>1, <3>2, <3>3
  <2> QED BY <2>1, <2>2
<1>6. CASE EndContext
  BY <1>6 DEF EndContext, outcome
<1> QED BY <1>2, <1>3, <1>4, <1>5, <1>6, WorkerCause DEF EngNext, CallerRuns

(***************************************************************************)
(* The gate                                                                *)
(***************************************************************************)
\* Worker w is on the right side of the gate.
RightSide(w) ==
  /\ step[w] \in {"run", "reading", "stored", "returned"} => GateObstacles(txn[w]) \subseteq opened
  /\ step[w] = "blocked" => ~ (GateObstacles(txn[w]) \subseteq opened)

(* With the results of what was opened in the slots this is GateHolds.     *)
LEMMA GateSides == ASSUME SlotInv PROVE GateHolds <=> \A w \in Workers : RightSide(w)
BY DEF SlotInv, GateHolds, RightSide

(* The kind of gate, its plan and the transaction of a worker in the       *)
(* callback do not change.                                                 *)
LEMMA GateFrame ==
  ASSUME KernelInv, EngTypeOK, CallbackInv, NEW w \in Workers, WorkerRuns(w)
  PROVE  /\ UNCHANGED <<gate, policy>>
         /\ \A t : GateObstacles(t)' = GateObstacles(t)
         /\ \A v \in Workers : step'[v] # "none" => txn'[v] = txn[v]
<1> USE DEF EngTypeOK, StepTo, gateState, errors, call, engVars
<1>0. ASSUME UNCHANGED kernelVars PROVE UNCHANGED <<policy, txn>>
  BY <1>0 DEF kernelVars, vars, schedVars, polVars
<1> DEFINE G == UNCHANGED <<gate, policy>> /\ (step'[w] # "none" => txn'[w] = txn[w])
<1>1. ASSUME NEW lane \in LaneAnswers, EnterGate(w, lane) PROVE G
  BY <1>0, <1>1 DEF EnterGate
<1>2. ASSUME LeaveGate(w) PROVE G
  BY <1>0, <1>2 DEF LeaveGate
<1>3. ASSUME CancelExecution(w) PROVE G
  BY <1>3 DEF CancelExecution, polVars
<1>4. ASSUME NEW ans \in Answers, RunRead(w, ans) PROVE G
  BY <1>4 DEF RunRead, Get, MeetEstimate, taskVars, schedVars, polVars
<1>5. ASSUME NEW cut \in BOOLEAN, NEW ans \in Answers, RunEnd(w, cut, ans) PROVE G
  BY <1>0, <1>5 DEF RunEnd
<1>6. ASSUME KernelRecord(w) PROVE G
  BY <1>6 DEF KernelRecord, WriteKey, RemoveKey, Publish, Recorded, schedVars, polVars
<1>7. ASSUME Abandon(w) PROVE G
  BY <1>7 DEF Abandon
<1>8. ASSUME KernelStep(w) PROVE G
  <2>1. UNCHANGED <<gate, policy, step>> BY <1>8 DEF KernelStep
  <2>2. step[w] # "none" => pc[w] \in {"exec", "depend", "suspend", "wait"}
    BY DEF CallbackInv, InCallback
  <2> QED BY <1>8, <2>1, <2>2, KernelFrame
<1>9. ASSUME OpenGate(w) PROVE G
  BY <1>0, <1>9 DEF OpenGate
<1>10. G
  BY <1>1, <1>2, <1>3, <1>4, <1>5, <1>6, <1>7, <1>8, <1>9 DEF WorkerRuns
<1>11. \A v \in Workers : v # w => txn'[v] = txn[v]
  BY WorkerFrame
<1> QED BY <1>10, <1>11 DEF GateObstacles, Predecessors, Barriers

(* Complete wakes whoever has nothing left to wait for.                    *)
LEMMA CompleteWakes ==
  ASSUME KernelInv, EngTypeOK, CallbackInv, NEW w \in Workers, NEW t \in Txns, Complete(w, t),
         NEW v \in Workers, step[v] = "blocked", step'[v] = "blocked", RightSide(v)
  PROVE  ~ (GateObstacles(txn[v]) \subseteq opened')
<1> DEFINE done == opened \cup {t}
<1>1. /\ opened' = done /\ done \subseteq Txns /\ opened \subseteq Txns
      /\ ~ (IF gate = "explicit" THEN Open(txn[v], done) ELSE Frontier(done) # Frontier(opened))
  BY DEF Complete, EngTypeOK
<1>2. txn[v] \in Txns /\ PolTypeOK
  BY DEF KernelInv, CoreInv, TaskInv, WorkerTask, CallbackInv, InCallback, PolInv
<1> HIDE DEF done
<1>3. CASE gate = "explicit"
  BY <1>1, <1>2, <1>3, OpenExact
<1>4. CASE gate = "summary"
  <2>1. ~ Open(txn[v], opened)
    BY <1>1, <1>2, OpenExact DEF RightSide
  <2>2. ~ (Barriers[txn[v]] < Frontier(opened))
    BY <1>1, <1>2, <1>4, <2>1, OpenExact
  <2>3. ~ (Barriers[txn[v]] < Frontier(done))
    BY <1>1, <1>4, <2>2
  <2> QED BY <1>1, <1>2, <1>4, <2>3, OpenExact
<1>5. CASE gate = "none"
  BY <1>5 DEF RightSide, GateObstacles
<1> QED BY <1>3, <1>4, <1>5 DEF EngTypeOK

(* Every step keeps the workers on their side of the gate, and the slots   *)
(* of what was opened.                                                     *)
LEMMA SidesStep ==
  ASSUME KernelInv, EngTypeOK, CallbackInv, SlotInv, \A v \in Workers : RightSide(v),
         [EngNext]_<<kernelVars, engVars>>
  PROVE  SlotInv' /\ \A v \in Workers : RightSide(v)'
<1> USE DEF EngTypeOK, StepTo, gateState, errors, call, engVars
<1>1. CASE UNCHANGED <<kernelVars, engVars>> \/ CallerRuns \/ EndContext \/ EngineFinished
  <2>1. UNCHANGED <<gate, opened, step, slots, txn, policy>> BY <1>1, CallerFrame
  <2> QED BY <2>1 DEF SlotInv, RightSide, GateObstacles, Predecessors, Barriers
<1>2. ASSUME NEW w \in Workers, WorkerRuns(w) PROVE SlotInv' /\ \A v \in Workers : RightSide(v)'
  <2>0. /\ \A t : GateObstacles(t)' = GateObstacles(t)
        /\ \A v \in Workers : step'[v] # "none" => txn'[v] = txn[v]
    BY <1>2, GateFrame
  <2>1. \A v \in Workers : v # w => step'[v] = step[v] \/ (step[v] = "blocked" /\ step'[v] = "woken")
    BY <1>2, OtherSteps
  <2>2. ASSUME opened' = opened, RightSide(w)' PROVE \A v \in Workers : RightSide(v)'
    <3>1. ASSUME NEW v \in Workers, v # w PROVE RightSide(v)'
      BY <2>0, <2>1, <2>2, <3>1 DEF RightSide
    <3> QED BY <2>2, <3>1
  <2>3. ASSUME UNCHANGED <<opened, slots>>, RightSide(w)', step'[w] = "stored" => step[w] = "stored"
        PROVE  SlotInv' /\ \A v \in Workers : RightSide(v)'
    <3>1. SlotInv' BY <2>0, <2>3, <2>1 DEF SlotInv
    <3> QED BY <2>3, <2>2, <3>1
  <2>4. ASSUME NEW lane \in LaneAnswers, EnterGate(w, lane) PROVE UNCHANGED <<opened, slots>> /\ RightSide(w)' /\ step'[w] # "stored"
    <3>1. UNCHANGED <<opened, slots>> /\ pc[w] = "exec" BY <2>4 DEF EnterGate
    <3>2. txn[w] \in Txns /\ PolTypeOK
      BY <3>1 DEF KernelInv, CoreInv, TaskInv, WorkerTask, PolInv
    <3>3. Open(txn[w], opened) <=> GateObstacles(txn[w]) \subseteq opened
      BY <3>2, OpenExact
    <3>4. CASE Open(txn[w], opened)
      <4>1. step'[w] \in {"run", "failing"}
        BY <2>4, <3>4 DEF EnterGate, Begin, LaneAnswers
      <4> QED BY <2>0, <3>1, <3>3, <3>4, <4>1 DEF RightSide
    <3>5. CASE ~ Open(txn[w], opened)
      <4>1. step'[w] = "blocked"
        BY <2>4, <3>5 DEF EnterGate
      <4> QED BY <2>0, <3>1, <3>3, <3>5, <4>1 DEF RightSide
    <3> QED BY <3>4, <3>5
  <2>5. CASE LeaveGate(w) \/ CancelExecution(w) \/ Abandon(w)
    <3>1. UNCHANGED <<opened, slots>> /\ step'[w] \in {"failing", "cut", "none"}
      BY <2>5 DEF LeaveGate, CancelExecution, Abandon
    <3> QED BY <2>3, <3>1 DEF RightSide
  <2>6. ASSUME NEW ans \in Answers, RunRead(w, ans) PROVE UNCHANGED <<opened, slots>> /\ RightSide(w)' /\ step'[w] # "stored"
    <3>1. /\ UNCHANGED <<opened, slots>> /\ step[w] \in {"run", "reading"}
          /\ step'[w] \in {"run", "reading"}
      BY <2>6 DEF RunRead
    <3> QED BY <2>0, <3>1 DEF RightSide
  <2>7. CASE KernelRecord(w)
    <3>1. UNCHANGED <<opened, slots>> /\ step'[w] \in {"none", step[w]} /\ step[w] # "stored"
      BY <2>7 DEF KernelRecord
    <3>2. RightSide(w)' BY <2>0, <3>1 DEF RightSide
    <3> QED BY <2>3, <3>1, <3>2
  <2>8. CASE KernelStep(w)
    <3>1. UNCHANGED <<opened, slots, step>> BY <2>8 DEF KernelStep
    <3>2. RightSide(w)' BY <2>0, <3>1 DEF RightSide
    <3> QED BY <2>3, <3>1, <3>2
  <2>9. ASSUME NEW cut \in BOOLEAN, NEW ans \in Answers, RunEnd(w, cut, ans)
        PROVE  SlotInv' /\ \A v \in Workers : RightSide(v)'
    <3>1. CASE policyErr'
      <4>1. UNCHANGED <<opened, slots>> /\ step'[w] = "failing"
        BY <2>9, <3>1 DEF RunEnd
      <4> QED BY <2>3, <4>1 DEF RightSide
    <3>2. CASE ~ policyErr'
      <4> DEFINE r == [ready |-> TRUE, cancelled |-> cut, vals |-> Values(w)]
      <4>1. /\ step'[w] = "stored" /\ slots' = [slots EXCEPT ![txn[w]] = r] /\ opened' = opened
            /\ pc[w] = "exec" /\ step[w] = "run"
        BY <2>9, <3>2 DEF RunEnd, Store
      <4>2. r.ready = TRUE OBVIOUS
      <4> HIDE DEF r
      <4>3. txn[w] \in Txns
        BY <4>1 DEF KernelInv, CoreInv, TaskInv, WorkerTask
      <4>4. slots'[txn[w]].ready /\ \A t \in Txns : slots[t].ready => slots'[t].ready
        BY <4>1, <4>2, <4>3
      <4>5. \A v \in Workers : step[v] = "stored" => txn[v] \in Txns
        BY DEF CallbackInv, InCallback, KernelInv, CoreInv, TaskInv, WorkerTask
      <4>6. SlotInv'
        BY <2>0, <2>1, <4>1, <4>4, <4>5 DEF SlotInv
      <4>7. RightSide(w)' BY <2>0, <4>1 DEF RightSide
      <4> QED BY <2>2, <4>1, <4>6, <4>7
    <3> QED BY <3>1, <3>2
  <2>10. CASE OpenGate(w)
    <3>1. Complete(w, txn[w]) /\ slots' = slots /\ step[w] = "stored"
      BY <2>10 DEF OpenGate
    <3>2. txn[w] \in Txns
      BY <3>1 DEF CallbackInv, InCallback, KernelInv, CoreInv, TaskInv, WorkerTask
    <3>3. opened' = opened \cup {txn[w]} /\ step'[w] = "returned"
      BY <3>1, CompleteSteps DEF Complete
    <3>4. SlotInv'
      BY <2>0, <2>1, <3>1, <3>3 DEF SlotInv
    <3>5. ASSUME NEW v \in Workers PROVE RightSide(v)'
      <4>1. CASE v = w
        BY <2>0, <3>1, <3>3, <4>1 DEF RightSide
      <4>2. CASE v # w /\ step'[v] = "blocked"
        <5>1. step[v] = "blocked" BY <2>1, <4>2
        <5>2. ~ (GateObstacles(txn[v]) \subseteq opened')
          BY <3>1, <3>2, <4>2, <5>1, CompleteWakes
        <5> QED BY <2>0, <4>2, <5>2 DEF RightSide
      <4>3. CASE v # w /\ step'[v] # "blocked"
        BY <2>0, <2>1, <3>3, <4>3 DEF RightSide
      <4> QED BY <4>1, <4>2, <4>3
    <3> QED BY <3>4, <3>5
  <2> QED BY <1>2, <2>3, <2>4, <2>5, <2>6, <2>7, <2>8, <2>9, <2>10 DEF WorkerRuns
<1> QED BY <1>1, <1>2 DEF EngNext

(***************************************************************************)
(* The attempts and their slots                                            *)
(***************************************************************************)
(* The steps of the frozen scheduler never go to the abort of a            *)
(* transaction, and abort one there only.                                  *)
LEMMA ControlAborts ==
  ASSUME CoreInv, NEW w \in Workers, SchedulerStep(w)
  PROVE  /\ pc'[w] # "tryAbort"
         /\ \A t \in Txns : status'[t] = "Aborting" => status[t] = "Aborting" \/ (pc[w] = "tryAbort" /\ txn[w] = t)
<1> USE DEF CoreInv, SchedTypeOK, TaskInv, WorkerTask, Goto, sharedVars, statusVars, counters
<1>1. CASE RunLoop(w) \/ LoadValidationIdx(w) \/ LoadExecutionIdx(w)
  BY <1>1 DEF RunLoop, LoadValidationIdx, LoadExecutionIdx
<1>2. CASE ValidateCheck(w) \/ ValidateIncr(w) \/ ValidateFetch(w)
  BY <1>2 DEF ValidateCheck, ValidateIncr, ValidateFetch
<1>3. CASE ValidateStatus(w)
  BY <1>3 DEF ValidateStatus
<1>4. CASE ExecuteCheck(w) \/ ExecuteIncr(w) \/ ExecuteAdd(w)
  BY <1>4 DEF ExecuteCheck, ExecuteIncr, ExecuteAdd
<1>5. CASE TryIncarnate(w)
  BY <1>5 DEF TryIncarnate
<1>6. CASE DecrActive(w) \/ CheckDoneCount(w) \/ CheckDoneStore(w)
  BY <1>6 DEF DecrActive, CheckDoneCount, CheckDoneStore
<1>7. CASE CheckDoneLoads(w)
  BY <1>7 DEF CheckDoneLoads
<1>8. CASE LockDependency(w) \/ WakeUp(w) \/ SwapDependents(w)
  BY <1>8 DEF LockDependency, WakeUp, SwapDependents
<1>9. CASE Suspend(w) \/ SetExecuted(w) \/ \E d \in deps[w] : Resume(w, d)
  BY <1>9 DEF Suspend, SetExecuted, Resume
<1>10. CASE AfterResume(w)
  BY <1>10 DEF AfterResume
<1>11. CASE StoreMin(w) \/ CountDecrease(w) \/ RetryAborted(w)
  BY <1>11 DEF StoreMin, CountDecrease, RetryAborted
<1>12. CASE TryValidationAbort(w)
  BY <1>12 DEF TryValidationAbort
<1>13. CASE SetReadyStatus(w)
  BY <1>13 DEF SetReadyStatus
<1> QED BY <1>1, <1>2, <1>3, <1>4, <1>5, <1>6, <1>7, <1>8, <1>9, <1>10, <1>11, <1>12, <1>13 DEF SchedulerStep

(* The kernel's own steps on the views of the workers and on the status of *)
(* a transaction.                                                          *)
LEMMA KernelViews ==
  ASSUME KernelInv, NEW w \in Workers, KernelStep(w), DOMAIN unchecked = Workers, WorkerAborts(w)
  PROVE  /\ UNCHANGED <<reads, lastRead>>
         /\ DOMAIN unchecked' = Workers
         /\ \A v \in Workers : v # w => unchecked'[v] = unchecked[v]
         /\ unchecked'[w] # {} => /\ pc'[w] = "validate" /\ txn'[w] = txn[w] /\ txn[w] \in Txns
                                  /\ unchecked[w] # {} \/ lastRead[txn[w]] # {}
         /\ pc'[w] = "tryAbort" => txn'[w] = txn[w] /\ (pc[w] = "tryAbort" \/ unchecked[w] # {})
<1> USE DEF KernelInv, WorkerAborts
<1>0. /\ pc \in [Workers -> PCs] /\ txn \in [Workers -> Nat]
      /\ WorkerTask(w)
  BY DEF CoreInv, SchedTypeOK, TaskInv
<1>1. ASSUME UNCHANGED <<memory, views>>, pc[w] # "validate",
             pc'[w] = "tryAbort" => pc[w] = "tryAbort" /\ txn'[w] = txn[w]
      PROVE  /\ UNCHANGED <<reads, lastRead, unchecked>> /\ unchecked'[w] = {}
             /\ pc'[w] = "tryAbort" => txn'[w] = txn[w] /\ pc[w] = "tryAbort"
  BY <1>1 DEF memory, views
<1>2. CASE Base(w)
  <2>1. SchedulerStep(w) /\ UNCHANGED <<memory, views>>
    BY <1>2 DEF Base, ControlStep
  <2>2. pc[w] # "validate" BY <2>1, ControlSource
  <2>3. pc'[w] # "tryAbort" BY <2>1, ControlAborts
  <2> QED BY <1>1, <2>1, <2>2, <2>3
<1>3. CASE PopReady(w) \/ ScanWork(w) \/ Defer(w) \/ UnwindOrRetry(w)
  <2>1. /\ UNCHANGED <<memory, views>> /\ pc[w] # "validate" /\ pc'[w] # "tryAbort"
    BY <1>0, <1>3 DEF PopReady, ScanWork, Defer, UnwindOrRetry, Goto, schedVars
  <2> QED BY <1>1, <2>1
<1>4. CASE CompleteExecution(w) \/ NotifyValidated(w) \/ NotifyDone(w) \/ IdleCheck(w) \/ ParkEnds(w)
  <2>1. UNCHANGED <<reads, lastRead, unchecked, pc, txn>>
    BY <1>4 DEF CompleteExecution, NotifyValidated, NotifyDone, IdleCheck, ParkEnds, vars, schedVars, memory, views
  <2>2. pc[w] = "validate" => txn[w] \in Txns
    BY <1>0 DEF WorkerTask
  <2> QED BY <2>1, <2>2
<1>5. CASE pc[w] # "exec" /\ Data(w)
  <2>1. DataStep(w) /\ pc[w] # "exec" BY <1>5 DEF Data
  <2>2. \/ \E k \in Keys : MarkEstimate(w, k)
        \/ LoadReadSet(w) \/ (\E d \in unchecked[w] : CheckRead(w, d)) \/ ReadSetValid(w)
        \/ AllMarked(w)
    BY <2>1 DEF DataStep, Get, ApplyWriteSet, RemoveUnwritten, Record, Returned
  <2>3. ASSUME NEW k \in Keys, MarkEstimate(w, k)
        PROVE  UNCHANGED <<reads, lastRead, unchecked, pc, txn>> /\ pc[w] = "convert"
    BY <2>3 DEF MarkEstimate, schedVars
  <2>4. CASE LoadReadSet(w)
    <3>1. /\ UNCHANGED <<reads, lastRead, pc, txn>> /\ pc[w] = "validate"
          /\ unchecked' = [unchecked EXCEPT ![w] = lastRead[txn[w]]]
      BY <2>4 DEF LoadReadSet, schedVars, memory
    <3>2. txn[w] \in Txns BY <1>0, <3>1 DEF WorkerTask
    <3> QED BY <3>1, <3>2
  <2>5. ASSUME NEW d \in unchecked[w], CheckRead(w, d)
        PROVE  /\ UNCHANGED <<reads, lastRead, txn>> /\ pc[w] = "validate"
               /\ \/ unchecked' = [unchecked EXCEPT ![w] = @ \ {d}] /\ pc' = pc
                  \/ unchecked' = [unchecked EXCEPT ![w] = {}]
    BY <2>5 DEF CheckRead, Verdict, Validated, schedVars, memory, taskVars
  <2>6. CASE ReadSetValid(w)
    <3>1. /\ UNCHANGED <<reads, lastRead, txn>> /\ pc' = [pc EXCEPT ![w] = "decr"]
          /\ unchecked' = [unchecked EXCEPT ![w] = {}]
      BY <2>6 DEF ReadSetValid, Verdict, Validated, Goto, memory, taskVars
    <3> QED BY <1>0, <3>1
  <2>7. CASE AllMarked(w)
    <3>1. /\ UNCHANGED <<reads, lastRead, txn, unchecked>> /\ pc' = [pc EXCEPT ![w] = "setReady"] /\ pc[w] = "convert"
      BY <2>7 DEF AllMarked, Converted, Goto, memory, taskVars
    <3> QED BY <1>0, <3>1
  <2>8. pc[w] = "validate" => txn[w] \in Txns BY <1>0 DEF WorkerTask
  <2> QED BY <2>2, <2>3, <2>4, <2>5, <2>6, <2>7, <2>8
<1> QED BY <1>2, <1>3, <1>4, <1>5 DEF KernelStep, PolControl

(* And on the places of the workers that matter here.                      *)
LEMMA KernelPlaces ==
  ASSUME KernelInv, NEW w \in Workers, KernelStep(w)
  PROVE  /\ pc'[w] = "setExecuted" => pc[w] = "setExecuted" /\ txn'[w] = txn[w]
         /\ pc[w] = "setExecuted" => status'[txn[w]] = "Executed" \/ (pc'[w] = "setExecuted" /\ txn'[w] = txn[w])
         /\ pc[w] = "stopped" => pc'[w] = "stopped"
         /\ pc'[w] = "stopped" => pc[w] = "stopped" \/ done_marker' \/ cancelled'
         /\ done_marker => done_marker'
         /\ \A t \in Txns : status'[t] = "Aborting" => status[t] = "Aborting" \/ (pc[w] = "tryAbort" /\ txn[w] = t)
         /\ \A t \in Txns : status'[t] = "Executed" => status[t] = "Executed" \/ (pc[w] = "setExecuted" /\ txn[w] = t)
         /\ \A t \in Txns : status[t] = "Executed" => status'[t] \in {"Executed", "Aborting"}
<1> USE DEF KernelInv
<1>0. pc \in [Workers -> PCs]
  BY DEF CoreInv, SchedTypeOK
<1>1. CASE Base(w)
  <2>1. SchedulerStep(w)
    BY <1>1 DEF Base, ControlStep
  <2>2. pc[w] # "stopped" BY <2>1, ControlSource
  <2>3. StatusStep
    <3>1. SchedNext BY <2>1 DEF SchedNext
    <3> QED BY <3>1, StatusEdgeStep DEF CoreInv
  <2>4. \A t \in Txns : status[t] = "Executed" => status'[t] \in {"Executed", "Aborting"}
    BY <2>3 DEF StatusStep, StatusEdges
  <2> QED BY <2>1, <2>2, <2>4, ControlMoves, ControlAborts
<1>2. CASE PopReady(w) \/ ScanWork(w) \/ Defer(w) \/ UnwindOrRetry(w)
  <2>1. /\ pc[w] \in {"loop", "loadE", "incarnate", "depend"}
        /\ pc'[w] \in {"loop", "incarnate", "nvCheck", "neCheck", "exec", "depend"}
        /\ UNCHANGED <<status, done_marker>>
    BY <1>0, <1>2 DEF PopReady, ScanWork, Defer, UnwindOrRetry, Goto, schedVars, sharedVars, statusVars
  <2> QED BY <2>1
<1>3. CASE CompleteExecution(w) \/ NotifyValidated(w) \/ NotifyDone(w) \/ IdleCheck(w) \/ ParkEnds(w)
  <2>1. UNCHANGED <<pc, txn, status, done_marker>>
    BY <1>3 DEF CompleteExecution, NotifyValidated, NotifyDone, IdleCheck, ParkEnds, vars, schedVars, statusVars
  <2> QED BY <2>1
<1>4. CASE pc[w] # "exec" /\ Data(w)
  <2>1. DataStep(w) BY <1>4 DEF Data
  <2> QED BY <1>4, <2>1, DataTargets
<1> QED BY <1>1, <1>2, <1>3, <1>4 DEF KernelStep, PolControl

(* What the steps of the callback do to the kernel.                        *)
LEMMA ReadFrame ==
  ASSUME KernelInv, EngTypeOK, NEW w \in Workers, NEW ans \in Answers, RunRead(w, ans)
  PROVE  /\ pc[w] = "exec" /\ WantedKey(w) \in Keys /\ step[w] \in {"run", "reading"}
         /\ step[w] = "run" => ~ cancelled
         /\ UNCHANGED <<lastRead, unchecked, status, txn, slots, firstErr, cancelled, done_marker, storage, result, answer>>
         /\ \A v \in Workers : v # w => reads'[v] = reads[v]
         /\ pc'[w] \in {"exec", "depend"} /\ step'[w] \in {"run", "reading"}
<1> USE DEF KernelInv, EngTypeOK
<1>0. pc \in [Workers -> PCs] /\ reads = [v \in Workers |-> reads[v]]
  BY DEF CoreInv, SchedTypeOK, MemoryShape
<1>1. Get(w) /\ step[w] \in {"run", "reading"} /\ UNCHANGED <<slots, firstErr, answer>> /\ step'[w] \in {"run", "reading"}
      /\ (step[w] = "run" => ~ cancelled)
  BY DEF RunRead, call, StepTo
<1>2. /\ pc[w] = "exec" /\ WantedKey(w) \in Keys
      /\ UNCHANGED <<lastRead, unchecked, storage, result>>
      /\ \/ UNCHANGED schedVars /\ \E e : reads' = [reads EXCEPT ![w] = e]
         \/ reads' = reads /\ \E b : MeetEstimate(w, b)
  BY <1>1 DEF Get, memory, outcome
<1>3. UNCHANGED <<status, txn, cancelled, done_marker>> /\ pc'[w] \in {"exec", "depend"}
  BY <1>0, <1>2 DEF schedVars, statusVars, MeetEstimate, Goto, sharedVars, taskVars
<1> QED BY <1>0, <1>1, <1>2, <1>3

LEMMA RecordFrame ==
  ASSUME KernelInv, EngTypeOK, NEW w \in Workers, KernelRecord(w)
  PROVE  /\ pc[w] = "exec" /\ step[w] \in {"cut", "returned"}
         /\ UNCHANGED <<slots, firstErr, status, txn, unchecked, cancelled, done_marker, storage, result, answer>>
         /\ \/ UNCHANGED <<reads, lastRead, pc, step>>
            \/ /\ pc'[w] = "setExecuted" /\ step'[w] = "none" /\ reads' = [reads EXCEPT ![w] = <<>>]
               /\ lastRead' = [lastRead EXCEPT ![txn[w]] =
                    {[key |-> reads[w][i].key, version |-> reads[w][i].version] : i \in DOMAIN reads[w]}]
<1> USE DEF KernelInv, EngTypeOK
<1>0. pc \in [Workers -> PCs]
  BY DEF CoreInv, SchedTypeOK
<1> DEFINE ws == ViewWrites(w)
<1>1. /\ pc[w] = "exec" /\ step[w] \in {"cut", "returned"} /\ UNCHANGED <<slots, firstErr, answer>>
      /\ (\E k \in Keys : WriteKey(w, ws, k) \/ RemoveKey(w, ws, k)) \/ Publish(w, ws)
      /\ step' = [step EXCEPT ![w] = IF pc'[w] = "exec" THEN step[w] ELSE "none"]
  BY DEF KernelRecord, errors, call, StepTo
<1> HIDE DEF ws
<1>2. ASSUME NEW k \in Keys, WriteKey(w, ws, k) \/ RemoveKey(w, ws, k)
      PROVE  /\ UNCHANGED <<status, txn, unchecked, cancelled, done_marker, storage, result>>
             /\ UNCHANGED <<reads, lastRead, pc, step>>
  <2>1. UNCHANGED <<status, txn, unchecked, cancelled, done_marker, storage, result, reads, lastRead, pc>>
    BY <1>2 DEF WriteKey, RemoveKey, schedVars, statusVars, outcome
  <2> QED BY <1>1, <2>1
<1>3. CASE Publish(w, ws)
  <2>1. /\ UNCHANGED <<status, txn, unchecked, cancelled, done_marker, storage, result>>
        /\ pc'[w] = "setExecuted" /\ reads' = [reads EXCEPT ![w] = <<>>]
        /\ lastRead' = [lastRead EXCEPT ![txn[w]] =
             {[key |-> reads[w][i].key, version |-> reads[w][i].version] : i \in DOMAIN reads[w]}]
    BY <1>0, <1>3 DEF Publish, Recorded, Goto, sharedVars, statusVars, outcome
  <2>2. step'[w] = "none" BY <1>1, <2>1
  <2> QED BY <1>1, <2>1, <2>2
<1> QED BY <1>1, <1>2, <1>3

LEMMA AbandonFrame ==
  ASSUME KernelInv, EngTypeOK, NEW w \in Workers, Abandon(w)
  PROVE  /\ GivesUp(w) /\ step'[w] = "none" /\ reads' = [reads EXCEPT ![w] = <<>>]
         /\ UNCHANGED <<lastRead, unchecked, slots, firstErr, cancelled, done_marker, storage, result, answer>>
<1>1. /\ RegisterAbort(w) /\ step'[w] = "none" /\ UNCHANGED <<slots, firstErr, answer>>
  BY DEF Abandon, StepTo, EngTypeOK, errors, call
<1>2. GivesUp(w)
  BY <1>1 DEF RegisterAbort, GivesUp, Goto
<1> QED BY <1>1, <1>2 DEF GivesUp, memory, outcome

(* The steps that touch the kernel not at all, or its context only.        *)
LEMMA IdleFrame ==
  ASSUME EngTypeOK, NEW w \in Workers,
         \/ \E lane \in LaneAnswers : EnterGate(w, lane)
         \/ LeaveGate(w) \/ CancelExecution(w) \/ OpenGate(w)
         \/ \E cut \in BOOLEAN, ans \in Answers : RunEnd(w, cut, ans)
  PROVE  /\ UNCHANGED <<reads, lastRead, unchecked, status, txn, pc, done_marker, storage, result, answer>>
         /\ cancelled => cancelled'
<1> USE DEF EngTypeOK, call
<1>1. ASSUME UNCHANGED kernelVars
      PROVE  UNCHANGED <<reads, lastRead, unchecked, status, txn, pc, done_marker, storage, result, cancelled>>
  BY <1>1 DEF kernelVars, vars, schedVars, statusVars, memory, views, outcome
<1>2. ASSUME NEW lane \in LaneAnswers, EnterGate(w, lane) \/ LeaveGate(w) PROVE UNCHANGED <<kernelVars, answer>>
  BY <1>2 DEF EnterGate, LeaveGate
<1>3. ASSUME NEW cut \in BOOLEAN, NEW ans \in Answers, RunEnd(w, cut, ans) PROVE UNCHANGED <<kernelVars, answer>>
  BY <1>3 DEF RunEnd
<1>4. CASE CancelExecution(w)
  BY <1>4 DEF CancelExecution, statusVars, memory, views, outcome
<1>5. "optimistic" \in LaneAnswers BY DEF LaneAnswers
<1>6. CASE OpenGate(w)
  BY <1>1, <1>6 DEF OpenGate
<1> QED BY <1>1, <1>2, <1>3, <1>4, <1>5, <1>6

(* What a worker does to the views of the others.                          *)
LEMMA ViewFrame ==
  ASSUME KernelInv, EngTypeOK, AttemptInv, NEW w \in Workers, WorkerRuns(w)
  PROVE  /\ DOMAIN unchecked' = Workers /\ DOMAIN lastRead' = Txns
         /\ \A v \in Workers : v # w => reads'[v] = reads[v] /\ unchecked'[v] = unchecked[v]
<1>0. /\ DOMAIN unchecked = Workers /\ DOMAIN lastRead = Txns /\ WorkerAborts(w)
      /\ reads = [v \in Workers |-> reads[v]]
  BY DEF AttemptInv, KernelInv, MemoryShape
<1>1. CASE \/ \E lane \in LaneAnswers : EnterGate(w, lane)
           \/ LeaveGate(w) \/ CancelExecution(w) \/ OpenGate(w)
           \/ \E cut \in BOOLEAN, ans \in Answers : RunEnd(w, cut, ans)
  BY <1>0, <1>1, IdleFrame
<1>2. ASSUME NEW ans \in Answers, RunRead(w, ans)
      PROVE  UNCHANGED <<lastRead, unchecked>> /\ \A v \in Workers : v # w => reads'[v] = reads[v]
  BY <1>2, ReadFrame
<1>3. CASE KernelRecord(w)
  BY <1>0, <1>3, RecordFrame
<1>4. CASE Abandon(w)
  BY <1>0, <1>4, AbandonFrame
<1>5. CASE KernelStep(w)
  BY <1>0, <1>5, KernelViews
<1> QED BY <1>0, <1>1, <1>2, <1>3, <1>4, <1>5 DEF WorkerRuns

(* A worker in the callback has its transaction for itself, and that has   *)
(* no result in the memory yet.                                            *)
LEMMA CallbackOwns ==
  ASSUME KernelInv, CallbackInv, NEW w \in Workers, step[w] # "none"
  PROVE  /\ txn[w] \in Txns /\ status[txn[w]] # "Executed" /\ ~ HasRun(txn[w])
         /\ \A v \in Workers : v # w /\ txn[v] = txn[w] => step[v] = "none" /\ pc[v] # "setExecuted"
<1>0. /\ \A v \in Workers : InCallback(v) /\ WorkerTask(v) /\ OwnedStatus(v)
      /\ \A t \in Txns : \A u, v \in Workers : Owner(u, t) /\ Owner(v, t) => u = v
  BY DEF KernelInv, CallbackInv, CoreInv, TaskInv, OwnerInv, UniqueOwner
<1>1. pc[w] \in {"exec", "depend", "suspend", "wait"} /\ kind[w] = "execution" /\ txn[w] \in Txns
  BY <1>0 DEF InCallback, WorkerTask
<1>2. status[txn[w]] # "Executed"
  BY <1>0, <1>1 DEF OwnedStatus
<1>3. ASSUME NEW v \in Workers, v # w, txn[v] = txn[w] PROVE step[v] = "none" /\ pc[v] # "setExecuted"
  <2>1. ~ Owner(v, txn[w]) BY <1>0, <1>1, <1>3 DEF Owner
  <2> QED BY <1>0, <1>3, <2>1 DEF InCallback, WorkerTask, Owner
<1>4. ~ HasRun(txn[w])
  BY <1>1, <1>2, <1>3 DEF HasRun
<1> QED BY <1>1, <1>2, <1>3, <1>4

(* The end of an attempt stores its result, or fails.                      *)
LEMMA RunEndFrame ==
  ASSUME KernelInv, EngTypeOK, NEW w \in Workers, NEW cut \in BOOLEAN, NEW ans \in Answers, RunEnd(w, cut, ans)
  PROVE  /\ pc[w] = "exec" /\ step[w] = "run"
         /\ IF cut THEN cancelled ELSE WantedKey(w) = NoKey
         /\ \/ slots' = slots /\ step'[w] = "failing" /\ firstErr' = IF firstErr = "" THEN "policy" ELSE firstErr
            \/ /\ \E r : /\ r.ready = TRUE /\ r.cancelled = cut /\ r.vals = Values(w)
                         /\ slots' = [slots EXCEPT ![txn[w]] = r]
               /\ step'[w] = "stored" /\ firstErr' = firstErr
<1>1. pc[w] = "exec" /\ step[w] = "run" /\ IF cut THEN cancelled ELSE WantedKey(w) = NoKey
  BY DEF RunEnd
<1>2. CASE policyErr'
  BY <1>1, <1>2 DEF RunEnd, SetError, StepTo, EngTypeOK
<1>3. CASE ~ policyErr'
  <2> DEFINE r == [ready |-> TRUE, cancelled |-> cut, vals |-> Values(w)]
  <2>1. step'[w] = "stored" /\ slots' = [slots EXCEPT ![txn[w]] = r] /\ firstErr' = firstErr
    BY <1>3 DEF RunEnd, Store, StepTo, EngTypeOK
  <2>2. r.ready = TRUE /\ r.cancelled = cut /\ r.vals = Values(w) OBVIOUS
  <2> HIDE DEF r
  <2> QED BY <1>1, <2>1, <2>2
<1> QED BY <1>2, <1>3

(* Nobody else writes a slot, and an error stays.                          *)
LEMMA SlotFrame ==
  ASSUME EngTypeOK, EndInv, NEW w \in Workers, WorkerRuns(w),
         ~ \E cut \in BOOLEAN, ans \in Answers : RunEnd(w, cut, ans)
  PROVE  /\ slots' = slots
         /\ firstErr' = firstErr \/ (firstErr = "" /\ firstErr' \in {"context", "policy", "unsupported"})
<1> USE DEF EngTypeOK, StepTo, gateState, errors, call, engVars
<1>1. ASSUME NEW lane \in LaneAnswers, EnterGate(w, lane)
      PROVE  /\ slots' = slots
             /\ firstErr' = firstErr \/ (firstErr = "" /\ firstErr' \in {"context", "policy", "unsupported"})
  <2>1. CASE Open(txn[w], opened)
    BY <1>1, <2>1 DEF EnterGate, Begin, LaneAnswers, SetError
  <2>2. CASE ~ Open(txn[w], opened)
    BY <1>1, <2>2 DEF EnterGate
  <2> QED BY <2>1, <2>2
<1>2. CASE LeaveGate(w)
  BY <1>2 DEF LeaveGate, SetError
<1>3. CASE CancelExecution(w) \/ OpenGate(w) \/ KernelRecord(w) \/ Abandon(w) \/ KernelStep(w)
  BY <1>3 DEF CancelExecution, OpenGate, KernelRecord, Abandon, KernelStep
<1>4. ASSUME NEW ans \in Answers, RunRead(w, ans) PROVE slots' = slots /\ firstErr' = firstErr
  BY <1>4 DEF RunRead
<1> QED BY <1>1, <1>2, <1>3, <1>4 DEF WorkerRuns

\* The slots of the transactions in the callback, except one's own, are kept.
LEMMA SlotsApart ==
  ASSUME KernelInv, EngInv, AttemptInv, NEW w \in Workers, WorkerRuns(w), NEW t \in Txns,
         HasRun(t) \/ \E v \in Workers : v # w /\ txn[v] = t /\ step[v] # "none"
  PROVE  slots'[t] = slots[t]
<1>1. ASSUME NEW cut \in BOOLEAN, NEW ans \in Answers, RunEnd(w, cut, ans) PROVE slots'[t] = slots[t]
  <2>0. EngTypeOK /\ CallbackInv BY DEF EngInv
  <2>1. /\ step[w] = "run"
        /\ slots' = slots \/ \E r : slots' = [slots EXCEPT ![txn[w]] = r]
    <3>1. /\ step[w] = "run"
          /\ \/ slots' = slots /\ step'[w] = "failing" /\ firstErr' = IF firstErr = "" THEN "policy" ELSE firstErr
             \/ /\ \E r : /\ r.ready = TRUE /\ r.cancelled = cut /\ r.vals = Values(w)
                          /\ slots' = [slots EXCEPT ![txn[w]] = r]
                /\ step'[w] = "stored" /\ firstErr' = firstErr
      BY <1>1, <2>0, RunEndFrame
    <3> QED BY <3>1, Zenon
  <2>2. txn[w] # t
    BY <2>0, <2>1, CallbackOwns
  <2> QED BY <2>0, <2>1, <2>2 DEF EngTypeOK
<1> QED BY <1>1, SlotFrame DEF EngInv, AttemptInv

(* Every step keeps what a worker has read at each place of the callback.  *)
LEMMA OtherReads ==
  ASSUME KernelInv, EngInv, AttemptInv, NEW w \in Workers, WorkerRuns(w), NEW v \in Workers, v # w
  PROVE  CallbackReads(v)'
<1>1. CallbackReads(v) /\ reads'[v] = reads[v] /\ txn'[v] = txn[v]
  BY ViewFrame, WorkerFrame DEF AttemptInv, EngInv
<1>2. step'[v] = step[v] \/ (step[v] = "blocked" /\ step'[v] = "woken")
  BY OtherSteps DEF EngInv
<1>3. Values(v)' = Values(v) /\ WantedKey(v)' = WantedKey(v)
  BY <1>1 DEF Values, WantedKey
<1>4. step[v] # "none" => slots'[txn[v]] = slots[txn[v]]
  BY CallbackOwns, SlotsApart DEF EngInv
<1> QED BY <1>1, <1>2, <1>3, <1>4 DEF CallbackReads, ReadsNothing

LEMMA OwnReads ==
  ASSUME KernelInv, EngInv, AttemptInv, NEW w \in Workers, WorkerRuns(w)
  PROVE  CallbackReads(w)'
<1> USE DEF EngInv
<1>0. /\ CallbackReads(w) /\ EngTypeOK /\ CallbackInv /\ CauseInv
      /\ reads = [v \in Workers |-> reads[v]]
  BY DEF AttemptInv, KernelInv, MemoryShape
<1>1. ASSUME NEW lane \in LaneAnswers, EnterGate(w, lane) PROVE CallbackReads(w)'
  <2>1. UNCHANGED <<reads, txn>> BY <1>1, IdleFrame
  <2>2. reads[w] = <<>> BY <1>0, <1>1 DEF EnterGate, CallbackReads
  <2>3. step'[w] \in {"blocked", "run", "failing"}
    <3>1. CASE Open(txn[w], opened)
      BY <1>0, <1>1, <3>1 DEF EnterGate, Begin, LaneAnswers, EngTypeOK, StepTo
    <3>2. CASE ~ Open(txn[w], opened)
      BY <1>0, <1>1, <3>2 DEF EnterGate, EngTypeOK, StepTo
    <3> QED BY <3>1, <3>2
  <2> QED BY <2>1, <2>2, <2>3 DEF CallbackReads, ReadsNothing
<1>2. CASE LeaveGate(w) \/ CancelExecution(w)
  <2>1. UNCHANGED <<reads, txn>> BY <1>0, <1>2, IdleFrame
  <2>2. step'[w] \in {"failing", "cut"}
    BY <1>0, <1>2 DEF LeaveGate, CancelExecution, EngTypeOK, StepTo
  <2> QED BY <1>0, <2>1, <2>2 DEF CallbackReads, ReadsNothing
<1>3. ASSUME NEW ans \in Answers, RunRead(w, ans) PROVE CallbackReads(w)'
  <2>1. /\ WantedKey(w) \in Keys /\ step[w] \in {"run", "reading"} /\ (step[w] = "run" => ~ cancelled)
        /\ UNCHANGED <<txn, slots>> /\ step'[w] \in {"run", "reading"}
    BY <1>0, <1>3, ReadFrame
  <2>2. ~ ReadsNothing(txn[w])
    <3>1. CASE reads[w] = <<>>
      <4>1. Values(w) = <<>> BY <3>1 DEF Values
      <4> QED BY <2>1, <4>1 DEF WantedKey, ReadsNothing
    <3>2. CASE reads[w] # <<>> BY <1>0, <3>2 DEF CallbackReads
    <3> QED BY <3>1, <3>2
  <2>3. txn[w] \in Txns BY <1>0, <2>1, CallbackOwns
  <2>4. ~ slots[txn[w]].cancelled
    BY <1>0, <2>1, <2>3 DEF CallbackReads, CauseInv
  <2> QED BY <2>1, <2>2, <2>4 DEF CallbackReads, ReadsNothing
<1>4. ASSUME NEW cut \in BOOLEAN, NEW ans \in Answers, RunEnd(w, cut, ans) PROVE CallbackReads(w)'
  <2>1. UNCHANGED <<reads, txn>> BY <1>0, <1>4, IdleFrame
  <2>2. Values(w)' = Values(w) /\ WantedKey(w)' = WantedKey(w)
    BY <2>1 DEF Values, WantedKey
  <2>3. step[w] = "run" /\ (IF cut THEN cancelled ELSE WantedKey(w) = NoKey)
        /\ \/ step'[w] = "failing"
           \/ step'[w] = "stored" /\ \E r : /\ r.ready = TRUE /\ r.cancelled = cut /\ r.vals = Values(w)
                                            /\ slots' = [slots EXCEPT ![txn[w]] = r]
    BY <1>0, <1>4, RunEndFrame
  <2>4. txn[w] \in Txns BY <1>0, <2>3, CallbackOwns
  <2>5. step'[w] = "stored" => /\ slots'[txn[w]].ready /\ slots'[txn[w]].vals = Values(w)
                               /\ slots'[txn[w]].cancelled = cut
    BY <1>0, <2>3, <2>4 DEF EngTypeOK
  <2> QED BY <1>0, <2>1, <2>2, <2>3, <2>5 DEF CallbackReads, ReadsNothing
<1>5. CASE KernelRecord(w)
  <2>1. /\ step[w] \in {"cut", "returned"} /\ UNCHANGED <<slots, txn>>
        /\ \/ UNCHANGED <<reads, step>>
           \/ step'[w] = "none" /\ reads' = [reads EXCEPT ![w] = <<>>]
    BY <1>0, <1>5, RecordFrame
  <2>2. CASE UNCHANGED <<reads, step>>
    <3>1. Values(w)' = Values(w) /\ WantedKey(w)' = WantedKey(w)
      BY <2>1, <2>2 DEF Values, WantedKey
    <3> QED BY <1>0, <2>1, <2>2, <3>1 DEF CallbackReads, ReadsNothing
  <2>3. CASE step'[w] = "none" /\ reads'[w] = <<>>
    BY <2>3 DEF CallbackReads
  <2> QED BY <1>0, <2>1, <2>2, <2>3
<1>6. CASE Abandon(w)
  <2>1. step'[w] = "none" /\ reads'[w] = <<>> BY <1>0, <1>6, AbandonFrame
  <2> QED BY <2>1 DEF CallbackReads
<1>7. CASE KernelStep(w)
  <2>1. UNCHANGED <<step, slots>> BY <1>7 DEF KernelStep, engVars
  <2>2. reads' = reads BY <1>7, KernelViews DEF AttemptInv
  <2>3. CASE step[w] = "none"
    BY <1>0, <2>1, <2>2, <2>3 DEF CallbackReads
  <2>4. CASE step[w] # "none"
    <3>1. txn'[w] = txn[w] BY <1>0, <1>7, <2>4, KernelFrame DEF CallbackInv, InCallback
    <3>2. Values(w)' = Values(w) /\ WantedKey(w)' = WantedKey(w)
      BY <2>2, <3>1 DEF Values, WantedKey
    <3> QED BY <1>0, <2>1, <2>2, <3>1, <3>2 DEF CallbackReads, ReadsNothing
  <2> QED BY <2>3, <2>4
<1>8. CASE OpenGate(w)
  <2>1. UNCHANGED <<reads, txn>> BY <1>0, <1>8, IdleFrame
  <2>2. Values(w)' = Values(w) /\ WantedKey(w)' = WantedKey(w)
    BY <2>1 DEF Values, WantedKey
  <2>3. step[w] = "stored" /\ slots' = slots /\ step'[w] = "returned"
    BY <1>8, CompleteSteps DEF OpenGate
  <2> QED BY <1>0, <2>1, <2>2, <2>3 DEF CallbackReads, ReadsNothing
<1> QED BY <1>1, <1>2, <1>3, <1>4, <1>5, <1>6, <1>7, <1>8 DEF WorkerRuns

LEMMA AttemptsAborted ==
  ASSUME KernelInv, EngInv, AttemptInv, NEW w \in Workers, WorkerRuns(w), NEW v \in Workers
  PROVE  WorkerAborts(v)'
<1>0. EngTypeOK /\ WorkerAborts(v) /\ WorkerAborts(w) /\ DOMAIN unchecked = Workers
  BY DEF EngInv, AttemptInv
<1>1. CASE v # w
  <2>1. unchecked'[v] = unchecked[v] /\ pc'[v] = pc[v] /\ txn'[v] = txn[v]
    BY <1>0, <1>1, ViewFrame, WorkerFrame
  <2> QED BY <1>0, <2>1 DEF WorkerAborts, ReadsNothing
<1>2. WorkerAborts(w)'
  <2>1. CASE \/ \E lane \in LaneAnswers : EnterGate(w, lane)
             \/ LeaveGate(w) \/ CancelExecution(w) \/ OpenGate(w)
             \/ \E cut \in BOOLEAN, ans \in Answers : RunEnd(w, cut, ans)
    <3>1. UNCHANGED <<unchecked, pc, txn>> BY <1>0, <2>1, IdleFrame
    <3> QED BY <1>0, <3>1 DEF WorkerAborts, ReadsNothing
  <2>2. ASSUME unchecked' = unchecked, pc[w] # "validate", pc'[w] # "tryAbort" PROVE WorkerAborts(w)'
    BY <1>0, <2>2 DEF WorkerAborts
  <2>3. ASSUME NEW ans \in Answers, RunRead(w, ans) PROVE WorkerAborts(w)'
    <3>1. unchecked' = unchecked /\ pc[w] # "validate" /\ pc'[w] # "tryAbort" BY <1>0, <2>3, ReadFrame
    <3> QED BY <2>2, <3>1
  <2>4. CASE KernelRecord(w)
    <3>1. unchecked' = unchecked /\ pc[w] # "validate" /\ pc'[w] # "tryAbort" BY <1>0, <2>4, RecordFrame
    <3> QED BY <2>2, <3>1
  <2>5. CASE Abandon(w)
    <3>1. GivesUp(w) /\ unchecked' = unchecked BY <1>0, <2>5, AbandonFrame
    <3>2. pc[w] # "validate" /\ pc'[w] # "tryAbort" BY <3>1, GivesUpFrame DEF KernelInv
    <3> QED BY <2>2, <3>1, <3>2
  <2>6. CASE KernelStep(w)
    <3>1. /\ unchecked'[w] # {} => /\ pc'[w] = "validate" /\ txn'[w] = txn[w] /\ txn[w] \in Txns
                                   /\ unchecked[w] # {} \/ lastRead[txn[w]] # {}
          /\ pc'[w] = "tryAbort" => txn'[w] = txn[w] /\ (pc[w] = "tryAbort" \/ unchecked[w] # {})
      BY <1>0, <2>6, KernelViews
    <3>2. \A t \in Txns : lastRead[t] # {} => ~ ReadsNothing(t)
      BY DEF AttemptInv, SlotRuns, RunsOnce
    <3>3. unchecked'[w] # {} => ~ ReadsNothing(txn[w]) BY <1>0, <3>1, <3>2 DEF WorkerAborts
    <3>4. pc'[w] = "tryAbort" => ~ ReadsNothing(txn[w]) BY <1>0, <3>1 DEF WorkerAborts
    <3> QED BY <3>1, <3>3, <3>4 DEF WorkerAborts, ReadsNothing
  <2> QED BY <2>1, <2>3, <2>4, <2>5, <2>6 DEF WorkerRuns
<1> QED BY <1>1, <1>2

(* Only the end of a recording gives a transaction a run in the memory.    *)
LEMMA NewRun ==
  ASSUME KernelInv, EngInv, AttemptInv, NEW w \in Workers, WorkerRuns(w), NEW t \in Txns, ~ HasRun(t), HasRun(t)'
  PROVE  KernelRecord(w) /\ txn[w] = t
<1>0. EngTypeOK BY DEF EngInv
<1> DEFINE Q == /\ status'[t] = "Executed" => status[t] = "Executed" \/ (pc[w] = "setExecuted" /\ txn[w] = t)
                /\ pc'[w] = "setExecuted" /\ txn'[w] = t => pc[w] = "setExecuted" /\ txn[w] = t
<1>1. ASSUME Q PROVE FALSE
  <2>1. PICK v \in Workers : pc'[v] = "setExecuted" /\ txn'[v] = t
    BY <1>1 DEF HasRun
  <2>2. v # w BY <1>1, <2>1 DEF HasRun
  <2>3. pc'[v] = pc[v] /\ txn'[v] = txn[v] BY <2>2, WorkerFrame
  <2> QED BY <2>1, <2>3 DEF HasRun
<1>2. CASE \/ \E lane \in LaneAnswers : EnterGate(w, lane)
           \/ LeaveGate(w) \/ CancelExecution(w) \/ OpenGate(w)
           \/ \E cut \in BOOLEAN, ans \in Answers : RunEnd(w, cut, ans)
  <2>1. UNCHANGED <<status, pc, txn>> BY <1>0, <1>2, IdleFrame
  <2> QED BY <1>1, <2>1
<1>3. ASSUME NEW ans \in Answers, RunRead(w, ans) PROVE FALSE
  <2>1. UNCHANGED <<status, txn>> /\ pc'[w] # "setExecuted" BY <1>0, <1>3, ReadFrame
  <2> QED BY <1>1, <2>1
<1>4. ASSUME Abandon(w) PROVE FALSE
  <2>1. GivesUp(w) BY <1>0, <1>4, AbandonFrame
  <2>2. /\ txn[w] \in Txns /\ status'[txn[w]] = "Ready" /\ pc'[w] = "loop"
        /\ \A u \in Txns : u # txn[w] => status'[u] = status[u]
    BY <2>1, GivesUpFrame DEF KernelInv
  <2> QED BY <1>1, <2>2
<1>5. ASSUME KernelStep(w) PROVE FALSE
  <2>1. Q BY <1>5, KernelPlaces
  <2> QED BY <1>1, <2>1
<1>6. ASSUME KernelRecord(w) PROVE txn[w] = t
  <2>1. UNCHANGED <<status, txn>> /\ pc[w] = "exec" BY <1>0, <1>6, RecordFrame
  <2>2. ~ Q BY <1>1
  <2> QED BY <2>1, <2>2
<1> QED BY <1>2, <1>3, <1>4, <1>5, <1>6 DEF WorkerRuns

(* What reads nothing stays where it is: with its result, or on its way to *)
(* be executed for good.                                                   *)
LEMMA OnceKept ==
  ASSUME KernelInv, EngInv, AttemptInv, NEW w \in Workers, WorkerRuns(w), NEW t \in Txns, ReadsNothing(t)
  PROVE  /\ lastRead'[t] = {} /\ status'[t] # "Aborting"
         /\ OnItsWay(t) => OnItsWay(t)'
<1>0. /\ EngTypeOK /\ WorkerAborts(w) /\ CallbackReads(w) /\ lastRead[t] = {} /\ status[t] # "Aborting"
      /\ DOMAIN lastRead = Txns /\ DOMAIN unchecked = Workers /\ InCallback(w)
  BY DEF EngInv, AttemptInv, SlotRuns, RunsOnce, CallbackInv
<1> DEFINE Mine == txn[w] = t /\ (step[w] \in {"stored", "returned"} \/ pc[w] = "setExecuted")
           Kept == \/ status'[t] = "Executed"
                   \/ txn'[w] = t /\ (step'[w] \in {"stored", "returned"} \/ pc'[w] = "setExecuted")
           Q == /\ lastRead'[t] = {} /\ status'[t] # "Aborting"
                /\ status[t] = "Executed" => status'[t] = "Executed"
                /\ Mine => Kept
<1>1. SUFFICES Q
  <2>1. ASSUME NEW v \in Workers, v # w
        PROVE  /\ pc'[v] = pc[v] /\ txn'[v] = txn[v]
               /\ step[v] \in {"stored", "returned"} => step'[v] \in {"stored", "returned"}
    BY <1>0, <2>1, WorkerFrame, OtherSteps
  <2> QED BY <2>1 DEF OnItsWay
<1>2. CASE \/ \E lane \in LaneAnswers : EnterGate(w, lane)
           \/ LeaveGate(w) \/ CancelExecution(w) \/ OpenGate(w)
           \/ \E cut \in BOOLEAN, ans \in Answers : RunEnd(w, cut, ans)
  <2>1. UNCHANGED <<status, pc, txn, lastRead>> BY <1>0, <1>2, IdleFrame
  <2>2. step[w] \in {"stored", "returned"} => step'[w] = "returned"
    <3>1. CASE OpenGate(w) BY <3>1, CompleteSteps DEF OpenGate
    <3>2. CASE ~ OpenGate(w) BY <1>2, <3>2 DEF EnterGate, LeaveGate, CancelExecution, RunEnd
    <3> QED BY <3>1, <3>2
  <2> QED BY <1>0, <2>1, <2>2
<1>3. ASSUME NEW ans \in Answers, RunRead(w, ans) PROVE Q
  BY <1>0, <1>3, ReadFrame
<1>4. CASE KernelRecord(w)
  <2>1. /\ pc[w] = "exec" /\ UNCHANGED <<status, txn>>
        /\ \/ UNCHANGED <<lastRead, pc, step>>
           \/ /\ pc'[w] = "setExecuted"
              /\ lastRead' = [lastRead EXCEPT ![txn[w]] =
                   {[key |-> reads[w][i].key, version |-> reads[w][i].version] : i \in DOMAIN reads[w]}]
    BY <1>0, <1>4, RecordFrame
  <2>2. lastRead'[t] = {}
    <3>1. CASE lastRead' = lastRead BY <1>0, <3>1
    <3>2. CASE lastRead' # lastRead /\ txn[w] = t
      <4>1. reads[w] = <<>> BY <1>0, <3>2 DEF CallbackReads
      <4> QED BY <1>0, <2>1, <3>2, <4>1
    <3>3. CASE lastRead' # lastRead /\ txn[w] # t
      BY <1>0, <2>1, <3>3
    <3> QED BY <3>1, <3>2, <3>3
  <2> QED BY <1>0, <2>1, <2>2
<1>5. CASE Abandon(w)
  <2>1. GivesUp(w) /\ lastRead' = lastRead BY <1>0, <1>5, AbandonFrame
  <2>2. /\ txn[w] \in Txns /\ status[txn[w]] = "Executing" /\ status'[txn[w]] = "Ready" /\ pc[w] = "depend"
        /\ \A u \in Txns : u # txn[w] => status'[u] = status[u]
    BY <2>1, GivesUpFrame DEF KernelInv
  <2> QED BY <1>0, <2>1, <2>2 DEF InCallback
<1>6. CASE KernelStep(w)
  <2>1. step' = step BY <1>6 DEF KernelStep, engVars
  <2>2. lastRead' = lastRead BY <1>0, <1>6, KernelViews
  <2>3. status'[t] # "Aborting" BY <1>0, <1>6, KernelPlaces DEF WorkerAborts
  <2>4. status[t] = "Executed" => status'[t] = "Executed" BY <1>6, <2>3, KernelPlaces
  <2>5. Mine => Kept
    <3>1. CASE step[w] \in {"stored", "returned"}
      BY <1>0, <1>6, <2>1, <3>1, KernelFrame DEF InCallback
    <3>2. CASE pc[w] = "setExecuted"
      BY <1>6, <3>2, KernelPlaces
    <3> QED BY <3>1, <3>2
  <2> QED BY <1>0, <2>2, <2>3, <2>4, <2>5
<1> QED BY <1>2, <1>3, <1>4, <1>5, <1>6 DEF WorkerRuns

LEMMA SlotRunsStep ==
  ASSUME KernelInv, EngInv, AttemptInv, NEW w \in Workers, WorkerRuns(w), NEW t \in Txns
  PROVE  SlotRuns(t)'
<1>0. EngTypeOK /\ CallbackInv /\ CauseInv /\ SlotRuns(t) /\ CallbackReads(w)
  BY DEF EngInv, AttemptInv
<1>1. firstErr # "" => firstErr' # ""
  <2>1. ASSUME NEW cut \in BOOLEAN, NEW ans \in Answers, RunEnd(w, cut, ans), firstErr # ""
        PROVE  firstErr' # ""
    BY <1>0, <2>1, RunEndFrame
  <2> QED BY <1>0, <2>1, SlotFrame DEF AttemptInv
<1>2. \/ slots'[t] = slots[t]
      \/ /\ txn[w] = t /\ txn'[w] = t /\ step'[w] = "stored" /\ slots'[t].ready = TRUE
  <2>1. ASSUME NEW cut \in BOOLEAN, NEW ans \in Answers, RunEnd(w, cut, ans)
        PROVE  \/ slots'[t] = slots[t]
               \/ /\ txn[w] = t /\ txn'[w] = t /\ step'[w] = "stored" /\ slots'[t].ready = TRUE
    <3>1. txn' = txn BY <1>0, <2>1, IdleFrame
    <3>2. CASE slots' = slots BY <3>2
    <3>3. CASE slots' # slots
      <4>1. step'[w] = "stored"
            /\ \E r : /\ r.ready = TRUE /\ r.cancelled = cut /\ r.vals = Values(w)
                      /\ slots' = [slots EXCEPT ![txn[w]] = r]
        BY <1>0, <2>1, <3>3, RunEndFrame
      <4> QED BY <1>0, <3>1, <4>1 DEF EngTypeOK
    <3> QED BY <3>2, <3>3
  <2> QED BY <1>0, <2>1, SlotFrame DEF AttemptInv
<1>3. ASSUME ReadsNothing(t)' PROVE RunsOnce(t)'
  <2>1. ReadsNothing(t) BY <1>3 DEF ReadsNothing
  <2>2. lastRead'[t] = {} /\ status'[t] # "Aborting" /\ (OnItsWay(t) => OnItsWay(t)')
    BY <2>1, OnceKept
  <2>3. slots'[t].ready => OnItsWay(t)'
    <3>1. CASE slots'[t] = slots[t]
      BY <1>0, <2>1, <2>2, <3>1 DEF SlotRuns, RunsOnce
    <3>2. CASE txn'[w] = t /\ step'[w] = "stored"
      BY <3>2 DEF OnItsWay
    <3> QED BY <1>2, <3>1, <3>2
  <2> QED BY <2>2, <2>3 DEF RunsOnce
<1>4. slots'[t].cancelled => slots'[t].ready
  BY <1>0, <1>2 DEF SlotRuns
<1>5. ASSUME HasRun(t)' PROVE slots'[t].ready \/ firstErr' # ""
  <2>1. CASE HasRun(t)
    <3>1. slots'[t] = slots[t] BY <2>1, SlotsApart
    <3> QED BY <1>0, <1>1, <2>1, <3>1 DEF SlotRuns
  <2>2. CASE ~ HasRun(t)
    <3>1. KernelRecord(w) /\ txn[w] = t BY <1>5, <2>2, NewRun
    <3>2. step[w] \in {"cut", "returned"} /\ slots' = slots BY <1>0, <3>1, RecordFrame
    <3> QED BY <1>0, <1>1, <3>1, <3>2 DEF CallbackReads, CauseInv
  <2> QED BY <2>1, <2>2
<1> QED BY <1>3, <1>4, <1>5 DEF SlotRuns

(* What the caller and the context do to the kernel and the attempts.      *)
LEMMA CallerViews ==
  ASSUME \/ UNCHANGED <<kernelVars, engVars>> \/ CallerRuns \/ EndContext \/ EngineFinished
  PROVE  /\ UNCHANGED <<reads, lastRead, unchecked, status, txn, pc, step, slots, firstErr, done_marker>>
         /\ cancelled => cancelled'
<1>0. UNCHANGED <<txn, pc, step, slots, firstErr>> BY CallerFrame
<1>1. ASSUME UNCHANGED kernelVars PROVE UNCHANGED <<reads, lastRead, unchecked, status, done_marker, cancelled>>
  BY <1>1 DEF kernelVars, vars, schedVars, statusVars, memory, views
<1>2. CASE UNCHANGED <<kernelVars, engVars>> \/ EngineFinished \/ EngineReturn
  <2>1. UNCHANGED kernelVars BY <1>2 DEF EngineFinished, EngineReturn
  <2> QED BY <1>0, <1>1, <2>1
<1>3. ASSUME NEW lane \in LaneAnswers, Start(lane) PROVE UNCHANGED kernelVars
  BY <1>3 DEF Start
<1>4. CASE KernelReturn
  BY <1>0, <1>4 DEF KernelReturn, PolReturn, Return, schedVars, statusVars, memory, views
<1>5. CASE EndContext
  BY <1>0, <1>5 DEF EndContext, statusVars, memory, views
<1> QED BY <1>0, <1>1, <1>2, <1>3, <1>4, <1>5 DEF CallerRuns

LEMMA EndStep ==
  ASSUME KernelInv, EngInv, AttemptInv, [EngNext]_<<kernelVars, engVars>>
  PROVE  EndInv'
<1>0. EndInv /\ EngTypeOK /\ CallbackInv /\ \A w \in Workers : InCallback(w)
  BY DEF EngInv, AttemptInv, CallbackInv
<1>1. CASE UNCHANGED <<kernelVars, engVars>> \/ CallerRuns \/ EndContext \/ EngineFinished
  <2>1. UNCHANGED <<pc, done_marker, firstErr>> /\ (cancelled => cancelled')
    BY <1>1, CallerViews
  <2>2. \A w \in Workers : pc'[w] = "stopped" => done_marker' \/ cancelled'
    BY <1>0, <2>1 DEF EndInv
  <2>3. /\ result' # "running" => AllStopped'
        /\ result' = "ok" => done_marker'
        /\ result' # "incomplete"
    <3>1. CASE result' = result BY <1>0, <2>1, <3>1 DEF EndInv, AllStopped
    <3>2. CASE KernelReturn
      <4>1. /\ AllStopped
            /\ result' = IF done_marker THEN "ok" ELSE IF cancelled THEN "cancelled" ELSE "incomplete"
        BY <3>2 DEF KernelReturn, PolReturn, Return
      <4>2. done_marker \/ cancelled
        BY <1>0, <4>1, SomeWorkerAssumption DEF EndInv, AllStopped
      <4> QED BY <2>1, <4>1, <4>2 DEF AllStopped
    <3>3. UNCHANGED kernelVars => result' = result BY DEF kernelVars, vars, outcome
    <3>4. ASSUME NEW lane \in LaneAnswers, Start(lane) PROVE UNCHANGED kernelVars
      BY <3>4 DEF Start
    <3>5. CASE EndContext BY <3>1, <3>5 DEF EndContext, outcome
    <3> QED BY <1>1, <3>1, <3>2, <3>3, <3>4, <3>5 DEF CallerRuns, EngineFinished, EngineReturn
  <2> QED BY <1>0, <2>1, <2>2, <2>3 DEF EndInv
<1>2. ASSUME NEW w \in Workers, WorkerRuns(w) PROVE EndInv'
  <2>1. firstErr' \in {"", "context", "policy", "unsupported"}
    <3>1. ASSUME NEW cut \in BOOLEAN, NEW ans \in Answers, RunEnd(w, cut, ans)
          PROVE  firstErr' \in {"", "context", "policy", "unsupported"}
      BY <1>0, <3>1, RunEndFrame DEF EndInv
    <3> QED BY <1>0, <1>2, <3>1, SlotFrame DEF EndInv
  <2> DEFINE Q == /\ result' = result /\ (done_marker => done_marker') /\ (cancelled => cancelled')
                  /\ pc[w] = "stopped" => pc'[w] = "stopped"
                  /\ pc'[w] = "stopped" => pc[w] = "stopped" \/ done_marker' \/ cancelled'
  <2>2. Q
    <3>1. CASE \/ \E lane \in LaneAnswers : EnterGate(w, lane)
               \/ LeaveGate(w) \/ CancelExecution(w) \/ OpenGate(w)
               \/ \E cut \in BOOLEAN, ans \in Answers : RunEnd(w, cut, ans)
      BY <1>0, <3>1, IdleFrame
    <3>2. ASSUME NEW ans \in Answers, RunRead(w, ans) PROVE Q
      BY <1>0, <3>2, ReadFrame
    <3>3. CASE KernelRecord(w)
      BY <1>0, <3>3, RecordFrame
    <3>4. CASE Abandon(w)
      <4>1. GivesUp(w) /\ UNCHANGED <<cancelled, done_marker, result>> BY <1>0, <3>4, AbandonFrame
      <4>2. pc[w] = "depend" /\ pc'[w] = "loop" BY <4>1, GivesUpFrame DEF KernelInv
      <4> QED BY <4>1, <4>2
    <3>5. CASE KernelStep(w)
      BY <3>5, KernelFrame, KernelPlaces
    <3> QED BY <1>2, <3>1, <3>2, <3>3, <3>4, <3>5 DEF WorkerRuns
  <2> HIDE DEF Q
  <2>3. \A v \in Workers : v # w => pc'[v] = pc[v] BY <1>2, WorkerFrame
  <2>4. \A v \in Workers : /\ pc[v] = "stopped" => pc'[v] = "stopped"
                           /\ pc'[v] = "stopped" => pc[v] = "stopped" \/ done_marker' \/ cancelled'
    BY <2>2, <2>3 DEF Q
  <2>5. AllStopped => AllStopped' BY <2>4 DEF AllStopped
  <2> QED BY <1>0, <2>1, <2>2, <2>4, <2>5 DEF EndInv, Q
<1> QED BY <1>1, <1>2 DEF EngNext

(* Every step keeps the attempts and their slots in order.                 *)
LEMMA AttemptStep ==
  ASSUME KernelInv, EngInv, AttemptInv, [EngNext]_<<kernelVars, engVars>>
  PROVE  AttemptInv'
<1>0. EndInv' BY EndStep
<1>1. CASE UNCHANGED <<kernelVars, engVars>> \/ CallerRuns \/ EndContext \/ EngineFinished
  <2>1. UNCHANGED <<reads, lastRead, unchecked, status, txn, pc, step, slots, firstErr>>
    BY <1>1, CallerViews
  <2>2. ASSUME NEW w \in Workers PROVE CallbackReads(w)' /\ WorkerAborts(w)'
    <3>1. CallbackReads(w) /\ WorkerAborts(w) BY DEF AttemptInv
    <3>2. Values(w)' = Values(w) /\ WantedKey(w)' = WantedKey(w) BY <2>1 DEF Values, WantedKey
    <3>3. CallbackReads(w)' BY <2>1, <3>1, <3>2 DEF CallbackReads, ReadsNothing
    <3> QED BY <2>1, <3>1, <3>3 DEF WorkerAborts, ReadsNothing
  <2>3. ASSUME NEW t \in Txns PROVE SlotRuns(t)'
    <3>1. SlotRuns(t) BY DEF AttemptInv
    <3>2. (OnItsWay(t) <=> OnItsWay(t)') /\ (HasRun(t) <=> HasRun(t)') BY <2>1 DEF OnItsWay, HasRun
    <3> QED BY <2>1, <3>1, <3>2 DEF SlotRuns, RunsOnce, ReadsNothing
  <2>4. DOMAIN unchecked' = Workers /\ DOMAIN lastRead' = Txns BY <2>1 DEF AttemptInv
  <2> QED BY <1>0, <2>2, <2>3, <2>4 DEF AttemptInv
<1>2. ASSUME NEW w \in Workers, WorkerRuns(w) PROVE AttemptInv'
  <2>1. DOMAIN unchecked' = Workers /\ DOMAIN lastRead' = Txns BY <1>2, ViewFrame DEF EngInv
  <2>2. \A v \in Workers : CallbackReads(v)' BY <1>2, OwnReads, OtherReads
  <2>3. \A v \in Workers : WorkerAborts(v)' BY <1>2, AttemptsAborted
  <2>4. \A t \in Txns : SlotRuns(t)' BY <1>2, SlotRunsStep
  <2> QED BY <1>0, <2>1, <2>2, <2>3, <2>4 DEF AttemptInv
<1> QED BY <1>1, <1>2 DEF EngNext

(***************************************************************************)
(* Clean blocks                                                            *)
(***************************************************************************)
(* A block that is not clean never becomes so again: the result of an      *)
(* attempt that was cut short is only replaced by one that is cut short.   *)
LEMMA UncleanStep ==
  ASSUME KernelInv, EngInv, AttemptInv, [EngNext]_<<kernelVars, engVars>>, ~ Clean
  PROVE  ~ Clean'
<1>0. EngTypeOK /\ CallbackInv BY DEF EngInv
<1>1. CASE UNCHANGED <<kernelVars, engVars>> \/ CallerRuns \/ EndContext \/ EngineFinished
  <2>1. UNCHANGED <<slots, firstErr>> BY <1>1, CallerViews
  <2> QED BY <2>1 DEF Clean
<1>2. ASSUME NEW w \in Workers, NEW cut \in BOOLEAN, NEW ans \in Answers, RunEnd(w, cut, ans) PROVE ~ Clean'
  <2>1. /\ pc[w] = "exec" /\ step[w] = "run" /\ (IF cut THEN cancelled ELSE WantedKey(w) = NoKey)
        /\ firstErr # "" => firstErr' # ""
        /\ slots' # slots => \E r : /\ r.ready = TRUE /\ r.cancelled = cut /\ r.vals = Values(w)
                                    /\ slots' = [slots EXCEPT ![txn[w]] = r]
    BY <1>0, <1>2, RunEndFrame
  <2>2. txn[w] \in Txns /\ status[txn[w]] # "Executed"
        /\ \A v \in Workers : v # w /\ txn[v] = txn[w] => step[v] = "none" /\ pc[v] # "setExecuted"
    BY <1>0, <2>1, CallbackOwns
  <2>3. ASSUME slots[txn[w]].cancelled PROVE cut
    <3> SUFFICES ASSUME ~ cut PROVE FALSE OBVIOUS
    <3>1. CallbackReads(w) /\ SlotRuns(txn[w]) BY <2>2 DEF AttemptInv
    <3>2. reads[w] = <<>> BY <2>1, <2>3, <3>1 DEF CallbackReads
    <3>3. Values(w) = <<>> BY <3>2 DEF Values
    <3>4. ReadsNothing(txn[w]) BY <2>1, <3>3, NoKeyAssumption DEF WantedKey, ReadsNothing
    <3>5. OnItsWay(txn[w]) BY <2>3, <3>1, <3>4 DEF SlotRuns, RunsOnce
    <3> QED BY <2>1, <2>2, <3>5 DEF OnItsWay
  <2>4. ASSUME NEW t \in Txns, slots[t].cancelled PROVE slots'[t].cancelled
    <3>1. CASE slots' = slots BY <2>4, <3>1
    <3>2. CASE slots' # slots /\ t # txn[w] BY <1>0, <2>1, <2>4, <3>2 DEF EngTypeOK
    <3>3. CASE slots' # slots /\ t = txn[w] BY <1>0, <2>1, <2>3, <2>4, <3>3 DEF EngTypeOK
    <3> QED BY <3>1, <3>2, <3>3
  <2> QED BY <2>1, <2>4 DEF Clean
<1>3. ASSUME NEW w \in Workers, WorkerRuns(w), ~ \E cut \in BOOLEAN, ans \in Answers : RunEnd(w, cut, ans)
      PROVE  ~ Clean'
  <2>1. slots' = slots /\ (firstErr # "" => firstErr' # "")
    BY <1>0, <1>3, SlotFrame DEF AttemptInv
  <2> QED BY <2>1 DEF Clean
<1> QED BY <1>1, <1>2, <1>3 DEF EngNext

\* The kernel's context is cancelled, be the block finished or not.
CancelOnly ==
  /\ cancelled' = TRUE
  /\ UNCHANGED <<counters, num_active_tasks, done_marker, statusVars, waitVars, pc, kind, txn,
                 inc, obs, wroteNew, memory, views, outcome, polVars>>

(* In a clean block every step is one of the policy kernel, or a           *)
(* cancellation: an attempt is recorded with the writes of its program.    *)
LEMMA CleanStep ==
  ASSUME KernelInv, EngInv, AttemptInv, Clean, [EngNext]_<<kernelVars, engVars>>
  PROVE  [PolNext]_<<vars, polVars>> \/ CancelOnly
<1>0. EngTypeOK /\ CauseInv BY DEF EngInv
<1>1. CASE UNCHANGED kernelVars
  BY <1>1 DEF kernelVars
<1>2. CASE UNCHANGED <<kernelVars, engVars>> \/ EngineFinished \/ EngineReturn \/ \E lane \in LaneAnswers : Start(lane)
  BY <1>1, <1>2 DEF EngineFinished, EngineReturn, Start
<1>3. CASE KernelReturn
  BY <1>3 DEF KernelReturn, PolNext
<1>4. CASE EndContext
  BY <1>4 DEF EndContext, CancelOnly
<1>5. ASSUME NEW w \in Workers, WorkerRuns(w) PROVE [PolNext]_<<vars, polVars>> \/ CancelOnly
  <2>1. ASSUME NEW lane \in LaneAnswers, LeaveGate(w) \/ EnterGate(w, lane) PROVE UNCHANGED kernelVars
    BY <2>1 DEF LeaveGate, EnterGate
  <2>2. ASSUME NEW cut \in BOOLEAN, NEW ans \in Answers, RunEnd(w, cut, ans) PROVE UNCHANGED kernelVars
    BY <2>2 DEF RunEnd
  <2>3. CASE CancelExecution(w)
    BY <2>3 DEF CancelExecution, CancelOnly
  <2>4. ASSUME UNCHANGED polVars, DataStep(w), pc[w] = "exec" PROVE PolNext
    <3>1. UNCHANGED <<policy, queues, own>> /\ stage' = [stage EXCEPT ![w] = stage[w]]
      BY <2>4 DEF polVars, KernelInv, PolInv, PolTypeOK
    <3>2. Data(w)
      BY <2>4, <3>1 DEF Data, At
    <3> QED BY <3>1, <3>2 DEF PolNext, PolStep
  <2>5. ASSUME NEW ans \in Answers, RunRead(w, ans) PROVE PolNext
    <3>1. Get(w) /\ pc[w] = "exec" /\ UNCHANGED polVars
      BY <2>5 DEF RunRead, Get
    <3> QED BY <2>4, <3>1 DEF DataStep
  <2>6. CASE KernelRecord(w)
    <3>1. pc[w] = "exec" /\ step[w] \in {"cut", "returned"} /\ UNCHANGED polVars
      BY <2>6 DEF KernelRecord
    <3>2. step[w] = "returned" /\ CallbackReads(w) BY <1>0, <3>1 DEF CauseInv, Clean, AttemptInv
    <3>3. txn[w] \in Txns BY <3>1 DEF KernelInv, CoreInv, TaskInv, WorkerTask
    <3>4. Returned(w) /\ ViewWrites(w) = Written(w)
      BY <3>1, <3>2, <3>3 DEF CallbackReads, Clean, Returned, ViewWrites
    <3>5. \/ \E k \in Keys : WriteKey(w, Written(w), k) \/ RemoveKey(w, Written(w), k)
          \/ Publish(w, Written(w))
      BY <2>6, <3>4 DEF KernelRecord
    <3>6. DataStep(w)
      BY <3>4, <3>5 DEF DataStep, ApplyWriteSet, RemoveUnwritten, Record
    <3> QED BY <2>4, <3>1, <3>6
  <2>7. CASE Abandon(w) \/ KernelStep(w)
    BY <2>7 DEF Abandon, KernelStep, PolNext, PolStep
  <2>8. CASE OpenGate(w)
    BY <1>1, <2>8 DEF OpenGate
  <2> QED BY <1>1, <1>5, <2>1, <2>2, <2>3, <2>5, <2>6, <2>7, <2>8 DEF WorkerRuns, LaneAnswers
<1> QED BY <1>2, <1>3, <1>4, <1>5 DEF EngNext, CallerRuns

(* A cancellation is nothing to the memory and to the runs.                *)
LEMMA CancelKept ==
  ASSUME MemInv, ValidationInv, ReplayInv, CancelOnly
  PROVE  /\ MemInv' /\ ValidationInv' /\ ReplayInv' /\ UNCHANGED <<storage, result>>
         /\ \A t \in Txns : HasRun(t)' => HasRun(t) /\ \A rs : RunOf(t, rs) => RunOf(t, rs)'
<1> USE DEF CancelOnly, counters, statusVars, memory, views, outcome
<1>1. ASSUME NEW v \in Workers
      PROVE  Written(v)' = Written(v) /\ WantedKey(v)' = WantedKey(v)
  BY DEF Written, WantedKey, Values
<1>2. MemInv'
  <2>1. ASSUME NEW v \in Workers PROVE WorkerEntries(v)'
    BY <1>1 DEF MemInv, WorkerEntries, Executes, Returned, AsWritten, AsEstimated, AsRecorded
  <2> QED BY <2>1 DEF MemInv, MemoryShape, StatusEntries, AsWritten, AsEstimated
<1>3. ValidationInv'
  <2>1. ASSUME NEW v \in Workers PROVE WorkerViews(v)'
    BY <1>1 DEF ValidationInv, WorkerViews, Returned
  <2>2. StaleCovered'
    BY DEF ValidationInv, StaleCovered, Covered, WillCheck, LowersFor, ReadStillCurrent
  <2>3. ReadShape'
    BY DEF ValidationInv, ReadShape
  <2> QED BY <2>1, <2>2, <2>3 DEF ValidationInv
<1>4. ASSUME NEW r PROVE Faithful(r) <=> Faithful(r)'
  BY DEF Faithful, Settled, Executes, HasVersion
<1>5. ASSUME NEW t \in Txns PROVE /\ HasRun(t)' <=> HasRun(t)
                                  /\ \A rs : RunOf(t, rs) => RunOf(t, rs)'
  <2>1. HasRun(t)' <=> HasRun(t) BY DEF HasRun
  <2>2. ASSUME NEW rs, RunOf(t, rs) PROVE RunOf(t, rs)'
    <3>1. \A r \in Records(rs) : r.key \in Keys /\ Faithful(r)'
      BY <1>4, <2>2 DEF RunOf
    <3> QED BY <2>2, <3>1 DEF RunOf, IsSequence, InOrder, Records, ValuesOf
  <2> QED BY <2>1, <2>2
<1>6. ReplayInv'
  <2>1. ASSUME NEW v \in Workers PROVE WorkerRun(v)'
    <3>1. \A r \in Records(reads[v]) : Faithful(r)'
      BY <1>4 DEF ReplayInv, WorkerRun
    <3>2. InOrder(txn[v], reads[v])' /\ Records(reads[v])' = Records(reads[v])
      BY DEF ReplayInv, WorkerRun, InOrder, Records
    <3> QED BY <1>1, <3>1, <3>2 DEF ReplayInv, WorkerRun, Returned
  <2>2. \A t \in Txns : HasRun(t)' => \E rs : RunOf(t, rs)'
    BY <1>5 DEF ReplayInv
  <2> QED BY <2>1, <2>2 DEF ReplayInv, AllStopped
<1> QED BY <1>2, <1>3, <1>5, <1>6

(* The slot of a transaction with a run in the memory is not written.      *)
LEMMA RunSlotKept ==
  ASSUME KernelInv, EngInv, AttemptInv, [EngNext]_<<kernelVars, engVars>>, NEW t \in Txns, HasRun(t)
  PROVE  slots'[t] = slots[t]
<1>1. CASE UNCHANGED <<kernelVars, engVars>> \/ CallerRuns \/ EndContext \/ EngineFinished
  BY <1>1, CallerViews
<1>2. ASSUME NEW w \in Workers, WorkerRuns(w) PROVE slots'[t] = slots[t]
  BY <1>2, SlotsApart
<1> QED BY <1>1, <1>2 DEF EngNext

(* In a clean block the slots follow the memory: a slot is written before  *)
(* its run is recorded, with what the run has read, and not while the run  *)
(* is in the memory.                                                       *)
LEMMA SlotsFollow ==
  ASSUME KernelInv, EngInv, AttemptInv, MemInv, ValidationInv, ReplayInv, SlotsFaithful, Clean,
         [EngNext]_<<kernelVars, engVars>>
  PROVE  SlotsFaithful'
<1> SUFFICES ASSUME NEW t \in Txns, HasRun(t)' PROVE \E rs : RunOf(t, rs)' /\ slots'[t].vals = ValuesOf(rs)'
  BY DEF SlotsFaithful
<1>0. EngTypeOK /\ CauseInv /\ CoreInv /\ MemoryShape /\ PolTypeOK /\ StageInv /\ QueueInv
  BY DEF EngInv, KernelInv, PolInv
<1>1. ASSUME HasRun(t), \A rs : RunOf(t, rs) => RunOf(t, rs)'
      PROVE  \E rs : RunOf(t, rs)' /\ slots'[t].vals = ValuesOf(rs)'
  <2>1. PICK rs : RunOf(t, rs) /\ slots[t].vals = ValuesOf(rs)
    BY <1>1 DEF SlotsFaithful
  <2>2. slots'[t] = slots[t] BY <1>1, RunSlotKept
  <2>3. RunOf(t, rs)' BY <1>1, <2>1
  <2> QED BY <2>1, <2>2, <2>3 DEF ValuesOf
<1>2. CASE CancelOnly
  BY <1>1, <1>2, CancelKept
<1>3. CASE [PolNext]_<<vars, polVars>>
  <2>1. CASE [Next]_vars /\ HasRun(t)
    <3>1. \A rs : RunOf(t, rs) => RunOf(t, rs)' BY <1>0, <2>1, RunKept
    <3> QED BY <1>1, <2>1, <3>1
  <2>2. CASE [Next]_vars /\ ~ HasRun(t)
    <3>1. PICK w \in Workers : Record(w) /\ txn[w] = t BY <1>0, <2>2, RunStarts
    <3>2. pc[w] = "exec" /\ pc'[w] = "setExecuted"
      BY <1>0, <3>1 DEF Record, Returned, Publish, Recorded, Goto, CoreInv, SchedTypeOK
    <3>3. PICK u \in Workers : WorkerRuns(u)
      <4>1. ~ (UNCHANGED <<kernelVars, engVars>> \/ CallerRuns \/ EndContext \/ EngineFinished)
        BY <3>2, CallerViews
      <4> QED BY <4>1 DEF EngNext
    <3>4. KernelRecord(u) /\ txn[u] = t BY <2>2, <3>3, NewRun
    <3>5. u = w BY <3>2, <3>3, WorkerFrame
    <3>6. step[w] = "returned" /\ slots' = slots /\ CallbackReads(w)
      BY <1>0, <3>4, <3>5, RecordFrame DEF CauseInv, Clean, AttemptInv
    <3>7. slots'[t].vals = Values(w)
      BY <3>1, <3>6 DEF CallbackReads
    <3>8. PICK rs : rs = reads[w] OBVIOUS
    <3>9. ValuesOf(rs) = Values(w) BY <3>8 DEF ValuesOf, Values
    <3>10. RunOf(t, rs)' BY <1>0, <3>1, <3>8, RecordRun
    <3>11. \E s : RunOf(t, s)' /\ slots'[t].vals = ValuesOf(s)
      BY <3>7, <3>9, <3>10
    <3> QED BY <3>11 DEF ValuesOf
  <2>3. ASSUME NEW w \in Workers, Quiet(w) PROVE \E rs : RunOf(t, rs)' /\ slots'[t].vals = ValuesOf(rs)'
    BY <1>0, <1>1, <2>3, QuietRun
  <2>4. ASSUME NEW w \in Workers, GivesUp(w) PROVE \E rs : RunOf(t, rs)' /\ slots'[t].vals = ValuesOf(rs)'
    BY <1>0, <1>1, <2>4, GivesUpRun
  <2> QED BY <1>0, <1>3, <2>1, <2>2, <2>3, <2>4, FrozenStep
<1> QED BY <1>2, <1>3, CleanStep

(* An answer that publishes the block is one of a clean block.             *)
LEMMA AnswerStep ==
  ASSUME KernelInv, EngInv, AttemptInv, answer = "ok" => Clean /\ result = "ok", [EngNext]_<<kernelVars, engVars>>
  PROVE  answer' = "ok" => Clean' /\ result' = "ok"
<1> USE DEF gateState, errors, call, engVars
<1>1. ASSUME UNCHANGED <<kernelVars, slots, firstErr>> PROVE result' = result /\ (Clean' <=> Clean)
  BY <1>1 DEF kernelVars, vars, outcome, Clean
<1>2. CASE UNCHANGED <<kernelVars, engVars>> \/ EngineFinished
  <2>1. UNCHANGED <<kernelVars, slots, firstErr, answer>> BY <1>2 DEF EngineFinished
  <2> QED BY <1>1, <2>1
<1>3. ASSUME NEW lane \in LaneAnswers, Start(lane) PROVE answer' # "ok"
  BY <1>3 DEF Start, LaneAnswers
<1>4. CASE answer = "running" /\ KernelReturn
  BY <1>4 DEF KernelReturn
<1>5. CASE EndContext
  BY <1>5 DEF EndContext
<1>6. CASE EngineReturn
  <2>1. UNCHANGED <<kernelVars, slots, firstErr>> BY <1>6 DEF EngineReturn
  <2>2. ASSUME answer' = "ok" PROVE Clean /\ result = "ok"
    <3>1. firstErr = "" BY <1>6, <2>2 DEF EngineReturn, AttemptInv, EndInv
    <3>2. result = "ok"
      BY <1>6, <2>2, <3>1 DEF EngineReturn
    <3>3. SlotsVerdict = "ok"
      BY <1>6, <2>2, <3>1, <3>2 DEF EngineReturn
    <3>4. {t \in Txns : ~ slots[t].ready \/ slots[t].cancelled} = {}
      BY <3>3 DEF SlotsVerdict
    <3> QED BY <3>1, <3>2, <3>4 DEF Clean
  <2> QED BY <1>1, <2>1, <2>2
<1>7. ASSUME NEW w \in Workers, WorkerRuns(w) PROVE answer' # "ok"
  <2>0. answer = "running" /\ EngTypeOK BY <1>7 DEF WorkerRuns, EngInv
  <2>1. CASE \/ \E lane \in LaneAnswers : EnterGate(w, lane)
             \/ LeaveGate(w) \/ CancelExecution(w) \/ OpenGate(w)
             \/ \E cut \in BOOLEAN, ans \in Answers : RunEnd(w, cut, ans)
    BY <2>0, <2>1, IdleFrame
  <2>2. ASSUME NEW ans \in Answers, RunRead(w, ans) PROVE answer' = answer
    BY <2>0, <2>2, ReadFrame
  <2>3. CASE KernelRecord(w) \/ Abandon(w) \/ KernelStep(w)
    BY <2>0, <2>3 DEF KernelRecord, Abandon, KernelStep
  <2> QED BY <1>7, <2>0, <2>1, <2>2, <2>3 DEF WorkerRuns
<1> QED BY <1>2, <1>3, <1>4, <1>5, <1>6, <1>7 DEF EngNext, CallerRuns

(* Every step of the engine keeps what holds of clean blocks.              *)
LEMMA CleanKept ==
  ASSUME KernelInv, EngInv, AttemptInv, CleanInv, [EngNext]_<<kernelVars, engVars>>
  PROVE  CleanInv'
<1>1. answer' = "ok" => Clean' /\ result' = "ok"
  BY AnswerStep DEF CleanInv
<1>2. ASSUME Clean'
      PROVE  /\ MemInv' /\ ValidationInv' /\ ReplayInv' /\ SlotsFaithful'
             /\ result' = "ok" => storage' = Serial!SerialState[BlockSize]
  <2>1. Clean BY <1>2, UncleanStep
  <2>2. /\ MemInv /\ ValidationInv /\ ReplayInv /\ SlotsFaithful
        /\ result = "ok" => storage = Serial!SerialState[BlockSize]
    BY <2>1 DEF CleanInv
  <2>3. SlotsFaithful' BY <2>1, <2>2, SlotsFollow
  <2>4. CASE CancelOnly
    BY <2>2, <2>3, <2>4, CancelKept
  <2>5. CASE [PolNext]_<<vars, polVars>>
    <3>1. CoreInv /\ PolTypeOK /\ StageInv /\ QueueInv BY DEF KernelInv, PolInv
    <3>2. MemInv' /\ ValidationInv' /\ ReplayInv' /\ [Serial!Next]_<<storage, result>>
      BY <2>2, <2>5, <3>1, KernelInvStep
    <3>3. result' = "ok" => storage' = Serial!SerialState[BlockSize]
      BY <2>2, <3>2 DEF Serial!Next, Serial!Commit, Serial!GiveUp
    <3> QED BY <2>3, <3>2, <3>3
  <2> QED BY <2>1, <2>4, <2>5, CleanStep
<1>3. (Clean => /\ MemInv /\ ValidationInv /\ ReplayInv /\ SlotsFaithful
                /\ result = "ok" => storage = Serial!SerialState[BlockSize])'
  BY <1>2
<1> QED BY <1>1, <1>3 DEF CleanInv

(* When the kernel is done, the slots of a clean block hold the serial     *)
(* results.                                                                *)
LEMMA SlotsAreSerial ==
  ASSUME KernelInv, AttemptInv, CleanInv, Clean, result = "ok", NEW t \in Txns
  PROVE  slots[t].vals = Serial!SerialReads(t, Serial!SerialState[t])
<1>0. CoreInv /\ MemInv /\ ValidationInv /\ ReplayInv /\ SlotsFaithful /\ Quiescent
  BY DEF KernelInv, CleanInv, CoreInv, DoneInv, DoneIsQuiescent, AttemptInv, EndInv
<1>1. HasRun(t) BY <1>0 DEF Quiescent, HasRun
<1>2. PICK rs : RunOf(t, rs) /\ slots[t].vals = ValuesOf(rs) BY <1>0, <1>1 DEF SlotsFaithful
<1>3. \A r \in Records(rs) : StillReads(data[r.key], t, r.version) BY <1>0, <1>2, RunCurrent
<1>4. \A r \in Records(rs) : r.key \in Keys /\ Faithful(r) BY <1>2 DEF RunOf
<1>5. \A r \in Records(rs) : r.value = Visible(r.key, t) BY <1>0, <1>3, <1>4, CurrentValue
<1>6. \A k \in Keys : Serial!SerialState[t][k] = Visible(k, t)
  <2>1. t \in 0 .. BlockSize BY BlockSizeAssumption DEF Txns
  <2> QED BY <1>0, <2>1, VisibleIsSerial
<1> DEFINE s == Serial!SerialState[t]
<1>7. \A r \in Records(rs) : r.key \in Keys /\ r.value = s[r.key] BY <1>4, <1>5, <1>6
<1>8. IsSequence(rs) /\ InOrder(t, rs) /\ NextRead(t, ValuesOf(rs)) \notin Keys
  BY <1>2, NoKeyAssumption DEF RunOf
<1> HIDE DEF s
<1>9. Serial!SerialReads(t, s) = ValuesOf(rs) BY <1>7, <1>8, RunIsSerial
<1> QED BY <1>2, <1>9 DEF s

(* No slot is found without a result.                                      *)
LEMMA NoResultMissing ==
  ASSUME KernelInv, AttemptInv, firstErr = "", result = "ok"
  PROVE  SlotsVerdict \in {"ok", "context"}
<1>1. Quiescent BY DEF KernelInv, CoreInv, DoneInv, DoneIsQuiescent, AttemptInv, EndInv
<1>2. \A t \in Txns : slots[t].ready BY <1>1 DEF Quiescent, AttemptInv, SlotRuns, HasRun
<1> DEFINE wrong == {t \in Txns : ~ slots[t].ready \/ slots[t].cancelled}
<1>3. ASSUME wrong # {} PROVE Min(wrong) \in wrong
  <2>1. wrong \in SUBSET Nat BY TxnIndices
  <2> HIDE DEF wrong
  <2>2. \E x \in wrong : \A y \in wrong : x <= y BY <1>3, <2>1, LeastExists
  <2> QED BY <2>2 DEF Min
<1> QED BY <1>2, <1>3 DEF SlotsVerdict

(* A step of the engine is one of the serial block, or none.               *)
LEMMA OracleStep ==
  ASSUME KernelInv, EngInv, AttemptInv, CleanInv, CleanInv', [EngNext]_<<kernelVars, engVars>>
  PROVE  [Oracle!Next]_<<published, Outcome>>
<1> USE DEF gateState, errors, call, engVars
<1>0. Oracle!SerialState = Serial!SerialState
  BY DEF Oracle!SerialState, Serial!SerialState, Oracle!SerialReads, Serial!SerialReads,
         Oracle!ApplyWrites, Serial!ApplyWrites
<1>1. ASSUME UNCHANGED <<published, answer>> PROVE [Oracle!Next]_<<published, Outcome>>
  BY <1>1 DEF Outcome
<1>2. CASE UNCHANGED <<kernelVars, engVars>> \/ EngineFinished \/ EndContext \/ KernelReturn
  BY <1>1, <1>2 DEF EngineFinished, EndContext, KernelReturn
<1>3. ASSUME NEW lane \in LaneAnswers, Start(lane) PROVE [Oracle!Next]_<<published, Outcome>>
  <2>1. answer = "calling" /\ answer' \in {"context", "unsupported", "policy", "running"} /\ UNCHANGED published
    BY <1>3 DEF Start, LaneAnswers
  <2>2. Outcome = "running" /\ Outcome' \in {"running", "cancelled"}
    BY <2>1 DEF Outcome
  <2> QED BY <2>1, <2>2 DEF Oracle!Next, Oracle!GiveUp
<1>4. CASE EngineReturn
  <2>0. answer = "running" /\ result # "running" /\ published' = IF answer' = "ok" THEN storage ELSE published
    BY <1>4 DEF EngineReturn
  <2>1. Outcome = "running" BY <2>0 DEF Outcome
  <2>2. CASE answer' = "ok"
    <3>1. UNCHANGED kernelVars BY <1>4 DEF EngineReturn
    <3>2. storage' = storage BY <3>1 DEF kernelVars, vars, outcome
    <3>3. storage = Serial!SerialState[BlockSize]
      BY <2>2, <3>2 DEF CleanInv
    <3>4. Outcome' = "ok" BY <2>2 DEF Outcome
    <3> QED BY <1>0, <2>0, <2>1, <2>2, <3>3, <3>4 DEF Oracle!Next, Oracle!Commit
  <2>3. CASE answer' # "ok"
    <3>1. answer' \in {"context", "policy", "unsupported"}
      <4>1. CASE firstErr # ""
        BY <1>4, <4>1 DEF EngineReturn, AttemptInv, EndInv
      <4>2. CASE firstErr = "" /\ result # "ok"
        <5>1. result = "cancelled" BY <2>0, <4>2 DEF EngInv, CauseInv, AttemptInv, EndInv
        <5> QED BY <1>4, <4>2, <5>1 DEF EngineReturn
      <4>3. CASE firstErr = "" /\ result = "ok"
        <5>1. SlotsVerdict \in {"ok", "context"} BY <4>3, NoResultMissing
        <5>2. answer' \in {"policy", SlotsVerdict} BY <1>4, <4>3 DEF EngineReturn, EngInv, EngTypeOK
        <5> QED BY <2>3, <5>1, <5>2
      <4> QED BY <4>1, <4>2, <4>3
    <3>2. Outcome' = "cancelled" BY <3>1 DEF Outcome
    <3> QED BY <2>0, <2>1, <2>3, <3>2 DEF Oracle!Next, Oracle!GiveUp
  <2> QED BY <2>2, <2>3
<1>5. ASSUME NEW w \in Workers, WorkerRuns(w) PROVE UNCHANGED <<published, answer>>
  <2>1. ASSUME NEW lane \in LaneAnswers, EnterGate(w, lane) PROVE UNCHANGED <<published, answer>>
    BY <2>1 DEF EnterGate
  <2>2. ASSUME NEW ans \in Answers, RunRead(w, ans) PROVE UNCHANGED <<published, answer>>
    BY <2>2 DEF RunRead
  <2>3. ASSUME NEW cut \in BOOLEAN, NEW ans \in Answers, RunEnd(w, cut, ans) PROVE UNCHANGED <<published, answer>>
    BY <2>3 DEF RunEnd
  <2>4. CASE LeaveGate(w) \/ CancelExecution(w) \/ OpenGate(w) \/ KernelRecord(w) \/ Abandon(w) \/ KernelStep(w)
    BY <2>4 DEF LeaveGate, CancelExecution, OpenGate, KernelRecord, Abandon, KernelStep
  <2> QED BY <1>5, <2>1, <2>2, <2>3, <2>4 DEF WorkerRuns
<1> QED BY <1>1, <1>2, <1>3, <1>4, <1>5 DEF EngNext, CallerRuns

(***************************************************************************)
(* The theorems                                                            *)
(***************************************************************************)
(* The invariant holds throughout the execution of a block by the engine.  *)
LEMMA EngineInvariant == EngSpec => [](KernelInv /\ EngInv)
<1>1. EngInit => KernelInv /\ EngInv
  <2> SUFFICES ASSUME EngInit PROVE KernelInv /\ EngInv
    OBVIOUS
  <2>1. KernelInv
    BY InitPolicy DEF EngInit, PolicyKernelInv, MemInv, KernelInv
  <2>2. cancelled = FALSE /\ result = "running"
    BY DEF EngInit, PolInit, Init, SchedInit
  <2>3. gate \in {"none", "explicit", "summary"}
    BY GatesAssumption DEF EngInit
  <2>4. EngTypeOK
    BY <2>3 DEF EngInit, EngTypeOK, NoResult
  <2>5. CallbackInv /\ SlotInv /\ GateHolds
    BY DEF EngInit, CallbackInv, InCallback, SlotInv, GateHolds
  <2>6. CauseInv
    BY <2>2 DEF EngInit, CauseInv, CauseReported, NoResult
  <2> QED BY <2>1, <2>4, <2>5, <2>6 DEF EngInv
<1>2. KernelInv /\ EngInv /\ [EngNext]_<<kernelVars, engVars>> => KernelInv' /\ EngInv'
  <2> SUFFICES ASSUME KernelInv, EngInv, [EngNext]_<<kernelVars, engVars>> PROVE KernelInv' /\ EngInv'
    OBVIOUS
  <2> USE DEF EngInv
  <2>1. KernelInv' BY KernelInvKept
  <2>2. EngTypeOK' /\ CallbackInv' BY EngTypeStep, CallbackStep
  <2>3. CauseInv' BY CauseStep
  <2>4. \A w \in Workers : RightSide(w) BY GateSides
  <2>5. SlotInv' /\ \A w \in Workers : RightSide(w)' BY <2>4, SidesStep
  <2>6. GateHolds' BY <2>5 DEF SlotInv, GateHolds, RightSide
  <2> QED BY <2>1, <2>2, <2>3, <2>5, <2>6
<1> QED BY <1>1, <1>2, PTL DEF EngSpec

(* The caller is told of a cancellation only if its own context ended.     *)
THEOREM CauseCorrect == EngSpec => []CauseReported
BY EngineInvariant, PTL DEF EngInv, CauseInv

(* The gate in the callback lets an attempt through exactly when all that  *)
(* its transaction waits for has a result, and lets nobody sleep longer.   *)
THEOREM CallbackGateCorrect == EngSpec => []GateHolds
BY EngineInvariant, PTL DEF EngInv

(* Cut and failing callbacks do not confuse the kernel: it declares the    *)
(* block done only when nothing is left to do.                             *)
THEOREM EngineCompletion == EngSpec => []DoneIsQuiescent
<1>1. KernelInv => DoneIsQuiescent
  BY DEF KernelInv, CoreInv, DoneInv
<1> QED BY <1>1, EngineInvariant, PTL

(* Nor do they lose a reservation, or a transaction.                       *)
THEOREM EngineReservations == EngSpec => [](ReservationsKept /\ AbortsReleased /\ SleeperMissesNothing)
<1>1. KernelInv => ReservationsKept /\ AbortsReleased /\ SleeperMissesNothing
  BY PlacesOfQueued DEF KernelInv, PolInv, QueueInv, ReservationsKept
<1> QED BY <1>1, EngineInvariant, PTL

(* So do what is known of the attempts, and of a block none has spoilt.    *)
LEMMA AttemptInvariant == EngSpec => [](KernelInv /\ EngInv /\ AttemptInv /\ CleanInv)
<1>1. EngInit => AttemptInv /\ CleanInv
  <2> SUFFICES ASSUME EngInit PROVE AttemptInv /\ CleanInv
    OBVIOUS
  <2>0. Init /\ PolicyKernelInv BY InitPolicy DEF EngInit, PolInit
  <2>1. /\ step = [w \in Workers |-> "none"] /\ slots = [t \in Txns |-> NoResult]
        /\ firstErr = "" /\ answer = "calling"
    BY DEF EngInit
  <2>2. /\ pc = [w \in Workers |-> "loop"] /\ status = [t \in Txns |-> "Ready"] /\ result = "running"
        /\ reads = [w \in Workers |-> <<>>] /\ unchecked = [w \in Workers |-> {}]
        /\ lastRead = [t \in Txns |-> {}]
    BY <2>0 DEF Init, SchedInit
  <2>3. \A t \in Txns : ~ slots[t].cancelled /\ ~ slots[t].ready
    BY <2>1 DEF NoResult
  <2>4. \A t \in Txns : ~ HasRun(t) BY <2>2 DEF HasRun
  <2>5. ASSUME NEW w \in Workers PROVE CallbackReads(w) /\ WorkerAborts(w)
    BY <2>1, <2>2 DEF CallbackReads, WorkerAborts
  <2>6. ASSUME NEW t \in Txns PROVE SlotRuns(t)
    BY <2>2, <2>3, <2>4 DEF SlotRuns, RunsOnce
  <2>7. EndInv BY <2>1, <2>2 DEF EndInv
  <2>8. AttemptInv BY <2>2, <2>5, <2>6, <2>7 DEF AttemptInv
  <2>9. MemInv /\ ValidationInv /\ ReplayInv BY <2>0 DEF PolicyKernelInv
  <2>10. SlotsFaithful BY <2>4 DEF SlotsFaithful
  <2> QED BY <2>1, <2>2, <2>8, <2>9, <2>10 DEF CleanInv
<1>2. KernelInv /\ EngInv /\ AttemptInv /\ CleanInv /\ [EngNext]_<<kernelVars, engVars>> => AttemptInv' /\ CleanInv'
  BY AttemptStep, CleanKept
<1> QED BY <1>1, <1>2, EngineInvariant, PTL DEF EngSpec

(* The engine implements the serial block: the caller's state gets the     *)
(* serial result as a whole or stays as it was.                            *)
THEOREM EngineSerializable == EngSpec => EngineImplements
<1>1. EngInit => Oracle!Init
  BY DEF EngInit, Oracle!Init, Outcome
<1>2. /\ KernelInv /\ EngInv /\ AttemptInv /\ CleanInv
      /\ (KernelInv /\ EngInv /\ AttemptInv /\ CleanInv)'
      /\ [EngNext]_<<kernelVars, engVars>>
      => [Oracle!Next]_<<published, Outcome>>
  BY OracleStep
<1> QED BY <1>1, <1>2, AttemptInvariant, PTL DEF EngSpec, EngineImplements, Oracle!Spec

(* In a published block every transaction reports what it reads in the     *)
(* serial order.                                                           *)
THEOREM ResultsCorrect == EngSpec => []ResultsAreSerial
<1>1. KernelInv /\ AttemptInv /\ CleanInv => ResultsAreSerial
  <2> SUFFICES ASSUME KernelInv, AttemptInv, CleanInv, answer = "ok", NEW t \in Txns
               PROVE  slots[t].vals = Oracle!SerialReads(t, Oracle!SerialState[t])
    BY DEF ResultsAreSerial
  <2>1. Clean /\ result = "ok" BY DEF CleanInv
  <2>2. slots[t].vals = Serial!SerialReads(t, Serial!SerialState[t]) BY <2>1, SlotsAreSerial
  <2>3. Oracle!SerialReads(t, Oracle!SerialState[t]) = Serial!SerialReads(t, Serial!SerialState[t])
    BY DEF Oracle!SerialState, Serial!SerialState, Oracle!SerialReads, Serial!SerialReads,
           Oracle!ApplyWrites, Serial!ApplyWrites
  <2> QED BY <2>2, <2>3
<1> QED BY <1>1, AttemptInvariant, PTL
=============================================================================
