------------------------------ MODULE Scheduler ------------------------------
(***************************************************************************)
(* The collaborative scheduler of the block-stm kernel (src/scheduler.go,  *)
(* src/status.go, src/condvar.go) and the worker loop that drives it       *)
(* (src/executor.go).                                                      *)
(*                                                                         *)
(* Every access to an atomic variable and every critical section of a      *)
(* mutex is one step, so the workers interleave as goroutines do.  What a  *)
(* transaction reads and writes is left open here: while it runs a         *)
(* transaction may wait for any lower one, it may or may not write a new   *)
(* location, and its read set may or may not validate.  Module BlockSTM    *)
(* fills this in with the multi-version memory.                            *)
(***************************************************************************)
EXTENDS Integers, FiniteSets

CONSTANTS BlockSize,   \* number of transactions of the block
          Workers,     \* the executor goroutines
          NoWorker     \* the nil *Condvar of a StatusEntry

ASSUME BlockSizeAssumption == BlockSize \in Nat
ASSUME WorkersAssumption == IsFiniteSet(Workers) /\ NoWorker \notin Workers

VARIABLES
  execution_idx,      \* next transaction to try and execute
  validation_idx,     \* next transaction to try and validate
  decrease_cnt,       \* how often validation_idx was decreased
  num_active_tasks,   \* ongoing validation and execution tasks
  done_marker,        \* set once, when the block is complete
  status,             \* StatusEntry.status, per transaction
  incarnation,        \* StatusEntry.incarnation
  cond,               \* StatusEntry.cond: the worker whose Condvar it is
  dependents,         \* TxDependency.dependents, per transaction
  cancelled,          \* ctx.Done() is closed
  pc,                 \* per worker: the step it takes next
  kind,               \* per worker: kind of the task it holds
  txn, inc,           \* per worker: the version it works on
  obs,                \* per worker: the value its last atomic load saw
  blk,                \* per worker: the transaction it waits for
  wroteNew,           \* per worker: result of MVMemory.Record
  deps,               \* per worker: dependents still to be resumed
  notified            \* per worker: its Condvar has been notified

counters == <<execution_idx, validation_idx, decrease_cnt>>
statusVars == <<status, incarnation>>
waitVars == <<cond, dependents, notified, blk, deps>>
schedVars == <<counters, num_active_tasks, done_marker, statusVars, waitVars,
               cancelled, pc, kind, txn, inc, obs, wroteNew>>

Txns == 0 .. BlockSize - 1
Statuses == {"Ready", "Executing", "Executed", "Aborting", "Suspended"}

----------------------------------------------------------------------------
(* NewScheduler, and the workers as ExecuteBlock starts them.              *)

SchedInit ==
  /\ execution_idx = 0
  /\ validation_idx = 0
  /\ decrease_cnt = 0
  /\ num_active_tasks = 0
  /\ done_marker = FALSE
  /\ status = [t \in Txns |-> "Ready"]
  /\ incarnation = [t \in Txns |-> 0]
  /\ cond = [t \in Txns |-> NoWorker]
  /\ dependents = [t \in Txns |-> {}]
  /\ cancelled = FALSE
  /\ pc = [w \in Workers |-> "loop"]
  /\ kind = [w \in Workers |-> "none"]
  /\ txn = [w \in Workers |-> 0]
  /\ inc = [w \in Workers |-> 0]
  /\ obs = [w \in Workers |-> 0]
  /\ blk = [w \in Workers |-> 0]
  /\ wroteNew = [w \in Workers |-> FALSE]
  /\ deps = [w \in Workers |-> {}]
  /\ notified = [w \in Workers |-> FALSE]

Goto(w, from, to) == pc[w] = from /\ pc' = [pc EXCEPT ![w] = to]

\* The task register `version, kind` of Executor.Run.
SetTask(w, k, t, i) ==
  /\ kind' = [kind EXCEPT ![w] = k]
  /\ txn' = [txn EXCEPT ![w] = t]
  /\ inc' = [inc EXCEPT ![w] = i]

\* Loads leave the loaded value in obs; 0 when it is dead.
Observe(w, v) == obs' = [obs EXCEPT ![w] = v]

taskVars == <<kind, txn, inc, wroteNew>>
sharedVars == <<counters, num_active_tasks, done_marker, statusVars, cancelled>>

----------------------------------------------------------------------------
(* Executor.Run: the loop head.  Without a task the worker looks at the    *)
(* context and asks for the next task; with one it executes or validates.  *)

RunLoop(w) ==
  /\ pc[w] = "loop"
  /\ pc' = [pc EXCEPT ![w] =
       IF done_marker THEN "stopped"
       ELSE IF kind[w] = "execution" THEN "exec"
       ELSE IF kind[w] = "validation" THEN "validate"
       ELSE IF cancelled THEN "stopped" ELSE "loadV"]
  /\ UNCHANGED <<sharedVars, waitVars, taskVars, obs>>

(* NextTask: two loads decide between validation and execution.            *)
LoadValidationIdx(w) ==
  /\ Goto(w, "loadV", "loadE")
  /\ Observe(w, validation_idx)
  /\ UNCHANGED <<sharedVars, waitVars, taskVars>>

LoadExecutionIdx(w) ==
  /\ Goto(w, "loadE", IF obs[w] < execution_idx THEN "nvCheck" ELSE "neCheck")
  /\ Observe(w, 0)
  /\ UNCHANGED <<sharedVars, waitVars, taskVars>>

(* NextVersionToValidate                                                   *)
ValidateCheck(w) ==
  /\ Goto(w, "nvCheck", IF validation_idx >= BlockSize THEN "cdCount" ELSE "nvIncr")
  /\ UNCHANGED <<sharedVars, waitVars, taskVars, obs>>

ValidateIncr(w) ==
  /\ Goto(w, "nvIncr", "nvFetch")
  /\ num_active_tasks' = num_active_tasks + 1
  /\ UNCHANGED <<counters, done_marker, statusVars, cancelled, waitVars, taskVars, obs>>

ValidateFetch(w) ==
  /\ Goto(w, "nvFetch", "nvStatus")
  /\ Observe(w, validation_idx)
  /\ validation_idx' = validation_idx + 1
  /\ UNCHANGED <<execution_idx, decrease_cnt, num_active_tasks, done_marker,
                 statusVars, cancelled, waitVars, taskVars>>

\* Mutant: returns an invalid version without DecrAtomic.
ValidateStatusKeepsTask(w) ==
  /\ IF obs[w] < BlockSize /\ status[obs[w]] = "Executed"
       THEN SetTask(w, "validation", obs[w], incarnation[obs[w]])
       ELSE UNCHANGED <<kind, txn, inc>>
  /\ Goto(w, "nvStatus", "loop")
  /\ Observe(w, 0)
  /\ UNCHANGED <<sharedVars, waitVars, wroteNew>>

ValidateStatus(w) ==
  /\ IF obs[w] < BlockSize /\ status[obs[w]] = "Executed"
       THEN /\ Goto(w, "nvStatus", "loop")
            /\ SetTask(w, "validation", obs[w], incarnation[obs[w]])
       ELSE /\ Goto(w, "nvStatus", "decr")
            /\ UNCHANGED <<kind, txn, inc>>
  /\ Observe(w, 0)
  /\ UNCHANGED <<sharedVars, waitVars, wroteNew>>

(* NextVersionToExecute                                                    *)
ExecuteCheck(w) ==
  /\ Goto(w, "neCheck", IF execution_idx >= BlockSize THEN "cdCount" ELSE "neIncr")
  /\ UNCHANGED <<sharedVars, waitVars, taskVars, obs>>

ExecuteIncr(w) ==
  /\ Goto(w, "neIncr", "neAdd")
  /\ num_active_tasks' = num_active_tasks + 1
  /\ UNCHANGED <<counters, done_marker, statusVars, cancelled, waitVars, taskVars, obs>>

ExecuteAdd(w) ==
  /\ Goto(w, "neAdd", "incarnate")
  /\ Observe(w, execution_idx)
  /\ execution_idx' = execution_idx + 1
  /\ UNCHANGED <<validation_idx, decrease_cnt, num_active_tasks, done_marker,
                 statusVars, cancelled, waitVars, taskVars>>

(* TryIncarnate and StatusEntry.TrySetExecuting, of the index in obs.      *)
TryIncarnate(w) ==
  /\ IF obs[w] < BlockSize /\ status[obs[w]] = "Ready"
       THEN /\ Goto(w, "incarnate", "loop")
            /\ status' = [status EXCEPT ![obs[w]] = "Executing"]
            /\ SetTask(w, "execution", obs[w], incarnation[obs[w]])
       ELSE /\ Goto(w, "incarnate", "decr")
            /\ UNCHANGED <<status, kind, txn, inc>>
  /\ Observe(w, 0)
  /\ UNCHANGED <<counters, num_active_tasks, done_marker, incarnation, cancelled,
                 waitVars, wroteNew>>

(* DecrAtomic(&num_active_tasks), always with an invalid version returned. *)
DecrActive(w) ==
  /\ Goto(w, "decr", "loop")
  /\ num_active_tasks' = num_active_tasks - 1
  /\ SetTask(w, "none", 0, 0)
  /\ wroteNew' = [wroteNew EXCEPT ![w] = FALSE]
  /\ UNCHANGED <<counters, done_marker, statusVars, cancelled, waitVars, obs>>

----------------------------------------------------------------------------
(* CheckDone: five loads, each of which may turn it back, then the store.  *)

CheckDoneCount(w) ==
  /\ Goto(w, "cdCount", "cdExec")
  /\ Observe(w, decrease_cnt)
  /\ UNCHANGED <<sharedVars, waitVars, taskVars>>

\* Mutant: does not load decrease_cnt again.
CheckDoneNoRecount(w) ==
  /\ \/ Goto(w, "cdExec", IF execution_idx >= BlockSize THEN "cdVal" ELSE "loop")
     \/ Goto(w, "cdVal", IF validation_idx >= BlockSize THEN "cdActive" ELSE "loop")
     \/ Goto(w, "cdActive", IF num_active_tasks = 0 THEN "cdStore" ELSE "loop")
  /\ Observe(w, IF pc'[w] \in {"loop", "cdStore"} THEN 0 ELSE obs[w])
  /\ UNCHANGED <<sharedVars, waitVars, taskVars>>

CheckDoneLoads(w) ==
  /\ \/ Goto(w, "cdExec", IF execution_idx >= BlockSize THEN "cdVal" ELSE "loop")
     \/ Goto(w, "cdVal", IF validation_idx >= BlockSize THEN "cdActive" ELSE "loop")
     \/ Goto(w, "cdActive", IF num_active_tasks = 0 THEN "cdRecount" ELSE "loop")
     \/ Goto(w, "cdRecount", IF obs[w] = decrease_cnt THEN "cdStore" ELSE "loop")
  /\ Observe(w, IF pc'[w] \in {"loop", "cdStore"} THEN 0 ELSE obs[w])
  /\ UNCHANGED <<sharedVars, waitVars, taskVars>>

CheckDoneStore(w) ==
  /\ Goto(w, "cdStore", "loop")
  /\ done_marker' = TRUE
  /\ UNCHANGED <<counters, num_active_tasks, statusVars, cancelled, waitVars, taskVars, obs>>

----------------------------------------------------------------------------
(* WaitForDependency(txn[w], b): the reader met an ESTIMATE of b.  Between *)
(* the two steps it holds the lock of b's dependents.                      *)

Locked(b) == \E u \in Workers : pc[u] = "suspend" /\ blk[u] = b

MeetEstimate(w, b) ==
  /\ Goto(w, "exec", "depend")
  /\ b < txn[w]
  /\ blk' = [blk EXCEPT ![w] = b]
  /\ UNCHANGED <<sharedVars, cond, dependents, notified, deps, taskVars, obs>>

\* Mutant: does not look at the blocker's status again under the lock.
LockDependencyNoRecheck(w) ==
  /\ Goto(w, "depend", "suspend")
  /\ ~ Locked(blk[w])
  /\ UNCHANGED <<sharedVars, waitVars, taskVars, obs>>

LockDependency(w) ==
  /\ Goto(w, "depend", IF status[blk[w]] = "Executed" THEN "exec" ELSE "suspend")
  /\ ~ Locked(blk[w])
  /\ blk' = IF status[blk[w]] = "Executed" THEN [blk EXCEPT ![w] = 0] ELSE blk
  /\ UNCHANGED <<sharedVars, cond, dependents, notified, deps, taskVars, obs>>

\* Mutant: registers the transaction before its Condvar is set.
SuspendNoCond(w) ==
  /\ Goto(w, "suspend", "wait")
  /\ status' = [status EXCEPT ![txn[w]] = "Suspended"]
  /\ dependents' = [dependents EXCEPT ![blk[w]] = @ \cup {txn[w]}]
  /\ UNCHANGED <<counters, num_active_tasks, done_marker, incarnation, cancelled,
                 cond, notified, blk, deps, taskVars, obs>>

Suspend(w) ==
  /\ Goto(w, "suspend", "wait")
  /\ status' = [status EXCEPT ![txn[w]] = "Suspended"]
  /\ cond' = [cond EXCEPT ![txn[w]] = w]
  /\ notified' = [notified EXCEPT ![w] = FALSE]
  /\ dependents' = [dependents EXCEPT ![blk[w]] = @ \cup {txn[w]}]
  /\ UNCHANGED <<counters, num_active_tasks, done_marker, incarnation, cancelled,
                 blk, deps, taskVars, obs>>

(* Condvar.Wait: the transaction goes on where it was and reads again.     *)
WakeUp(w) ==
  /\ notified[w]
  /\ Goto(w, "wait", "exec")
  /\ notified' = [notified EXCEPT ![w] = FALSE]
  /\ blk' = [blk EXCEPT ![w] = 0]
  /\ UNCHANGED <<sharedVars, cond, dependents, deps, taskVars, obs>>

----------------------------------------------------------------------------
(* TryExecute after the callback: Record returned isNew, FinishExecution.  *)

Recorded(w, isNew) ==
  /\ Goto(w, "exec", "setExecuted")
  /\ wroteNew' = [wroteNew EXCEPT ![w] = isNew]
  /\ UNCHANGED <<sharedVars, waitVars, kind, txn, inc, obs>>

SetExecuted(w) ==
  /\ Goto(w, "setExecuted", "swap")
  /\ status' = [status EXCEPT ![txn[w]] = "Executed"]
  /\ UNCHANGED <<counters, num_active_tasks, done_marker, incarnation, cancelled,
                 waitVars, taskVars, obs>>

\* Mutant: copies the dependents and leaves them registered.
CopyDependents(w) ==
  /\ Goto(w, "swap", "resume")
  /\ ~ Locked(txn[w])
  /\ deps' = [deps EXCEPT ![w] = dependents[txn[w]]]
  /\ UNCHANGED <<sharedVars, cond, dependents, notified, blk, taskVars, obs>>

SwapDependents(w) ==
  /\ Goto(w, "swap", "resume")
  /\ ~ Locked(txn[w])
  /\ deps' = [deps EXCEPT ![w] = dependents[txn[w]]]
  /\ dependents' = [dependents EXCEPT ![txn[w]] = {}]
  /\ UNCHANGED <<sharedVars, cond, notified, blk, taskVars, obs>>

\* Mutant: forgets Condvar.Notify.
ResumeNoNotify(w, d) ==
  /\ pc[w] = "resume"
  /\ d \in deps[w]
  /\ status' = [status EXCEPT ![d] = "Executing"]
  /\ cond' = [cond EXCEPT ![d] = NoWorker]
  /\ deps' = [deps EXCEPT ![w] = @ \ {d}]
  /\ UNCHANGED <<counters, num_active_tasks, done_marker, incarnation, cancelled,
                 dependents, notified, blk, pc, taskVars, obs>>

(* ResumeDependencies: StatusEntry.Resume dereferences cond, so a nil one  *)
(* would be a panic: there is no step then, and ResumeFindsWaiter fails.   *)
Resume(w, d) ==
  /\ pc[w] = "resume"
  /\ d \in deps[w]
  /\ cond[d] \in Workers
  /\ status' = [status EXCEPT ![d] = "Executing"]
  /\ notified' = [notified EXCEPT ![cond[d]] = TRUE]
  /\ cond' = [cond EXCEPT ![d] = NoWorker]
  /\ deps' = [deps EXCEPT ![w] = @ \ {d}]
  /\ UNCHANGED <<counters, num_active_tasks, done_marker, incarnation, cancelled,
                 dependents, blk, pc, taskVars, obs>>

\* Mutant: compares validation_idx with the next transaction.
AfterResumeLate(w) ==
  /\ deps[w] = {}
  /\ IF validation_idx > txn[w] + 1
       THEN IF wroteNew[w]
              THEN Goto(w, "resume", "storeMin") /\ UNCHANGED kind
              ELSE /\ Goto(w, "resume", "loop")
                   /\ kind' = [kind EXCEPT ![w] = "validation"]
       ELSE Goto(w, "resume", "decr") /\ UNCHANGED kind
  /\ UNCHANGED <<sharedVars, waitVars, txn, inc, wroteNew, obs>>

(* The rest of FinishExecution: hand the version back as a validation task *)
(* of its own, lower validation_idx, or let the running validation find it *)
AfterResume(w) ==
  /\ deps[w] = {}
  /\ IF validation_idx > txn[w]
       THEN IF wroteNew[w]
              THEN Goto(w, "resume", "storeMin") /\ UNCHANGED kind
              ELSE /\ Goto(w, "resume", "loop")
                   /\ kind' = [kind EXCEPT ![w] = "validation"]
       ELSE Goto(w, "resume", "decr") /\ UNCHANGED kind
  /\ UNCHANGED <<sharedVars, waitVars, txn, inc, wroteNew, obs>>

(* DecreaseValidationIdx: StoreMin, then decrease_cnt.  The target is the  *)
(* transaction itself after an execution, the next one after an abort.     *)
DecreaseTarget(w) == IF kind[w] = "execution" THEN txn[w] ELSE txn[w] + 1

StoreMin(w) ==
  /\ Goto(w, "storeMin", "count")
  /\ validation_idx' = IF DecreaseTarget(w) < validation_idx
                         THEN DecreaseTarget(w) ELSE validation_idx
  /\ UNCHANGED <<execution_idx, decrease_cnt, num_active_tasks, done_marker,
                 statusVars, cancelled, waitVars, taskVars, obs>>

CountDecrease(w) ==
  /\ Goto(w, "count", IF kind[w] = "execution" THEN "decr" ELSE "retry")
  /\ decrease_cnt' = decrease_cnt + 1
  /\ UNCHANGED <<execution_idx, validation_idx, num_active_tasks, done_marker,
                 statusVars, cancelled, waitVars, taskVars, obs>>

----------------------------------------------------------------------------
(* NeedsReexecution: ValidateReadSet answered; TryValidationAbort; the     *)
(* writes of the aborted incarnation became ESTIMATEs; FinishValidation.   *)

Validated(w, valid) ==
  /\ Goto(w, "validate", IF valid THEN "decr" ELSE "tryAbort")
  /\ UNCHANGED <<sharedVars, waitVars, taskVars, obs>>

\* Mutant: looks at the incarnation only.
AbortAnyStatus(w) ==
  /\ IF incarnation[txn[w]] = inc[w]
       THEN /\ Goto(w, "tryAbort", "convert")
            /\ status' = [status EXCEPT ![txn[w]] = "Aborting"]
       ELSE Goto(w, "tryAbort", "decr") /\ UNCHANGED status
  /\ UNCHANGED <<counters, num_active_tasks, done_marker, incarnation, cancelled,
                 waitVars, taskVars, obs>>

TryValidationAbort(w) ==
  /\ IF incarnation[txn[w]] = inc[w] /\ status[txn[w]] = "Executed"
       THEN /\ Goto(w, "tryAbort", "convert")
            /\ status' = [status EXCEPT ![txn[w]] = "Aborting"]
       ELSE Goto(w, "tryAbort", "decr") /\ UNCHANGED status
  /\ UNCHANGED <<counters, num_active_tasks, done_marker, incarnation, cancelled,
                 waitVars, taskVars, obs>>

Converted(w) ==
  /\ Goto(w, "convert", "setReady")
  /\ UNCHANGED <<sharedVars, waitVars, taskVars, obs>>

SetReadyStatus(w) ==
  /\ Goto(w, "setReady", "storeMin")
  /\ status' = [status EXCEPT ![txn[w]] = "Ready"]
  /\ incarnation' = [incarnation EXCEPT ![txn[w]] = @ + 1]
  /\ UNCHANGED <<counters, num_active_tasks, done_marker, cancelled, waitVars, taskVars, obs>>

\* Mutant: leaves the aborted transaction to NextVersionToExecute.
RetryNever(w) ==
  /\ Goto(w, "retry", "decr")
  /\ UNCHANGED <<sharedVars, waitVars, taskVars, obs>>

RetryAborted(w) ==
  /\ Goto(w, "retry", IF execution_idx > txn[w] THEN "incarnate" ELSE "decr")
  /\ Observe(w, IF execution_idx > txn[w] THEN txn[w] ELSE 0)
  /\ UNCHANGED <<sharedVars, waitVars, taskVars>>

----------------------------------------------------------------------------
(* The caller's context is cancelled, at any time.                         *)
Cancel ==
  /\ ~ cancelled
  /\ cancelled' = TRUE
  /\ UNCHANGED <<counters, num_active_tasks, done_marker, statusVars, waitVars,
                 pc, kind, txn, inc, obs, wroteNew>>

\* The steps of a worker that touch the scheduler only.
SchedulerStep(w) ==
  \/ RunLoop(w) \/ LoadValidationIdx(w) \/ LoadExecutionIdx(w)
  \/ ValidateCheck(w) \/ ValidateIncr(w) \/ ValidateFetch(w) \/ ValidateStatus(w)
  \/ ExecuteCheck(w) \/ ExecuteIncr(w) \/ ExecuteAdd(w) \/ TryIncarnate(w)
  \/ DecrActive(w)
  \/ CheckDoneCount(w) \/ CheckDoneLoads(w) \/ CheckDoneStore(w)
  \/ LockDependency(w) \/ Suspend(w) \/ WakeUp(w)
  \/ SetExecuted(w) \/ SwapDependents(w) \/ (\E d \in deps[w] : Resume(w, d))
  \/ AfterResume(w) \/ StoreMin(w) \/ CountDecrease(w)
  \/ TryValidationAbort(w) \/ SetReadyStatus(w) \/ RetryAborted(w)

\* What the transaction and the multi-version memory decide.
MemoryStep(w) ==
  \/ \E b \in Txns : MeetEstimate(w, b)
  \/ \E isNew \in BOOLEAN : Recorded(w, isNew)
  \/ \E valid \in BOOLEAN : Validated(w, valid)
  \/ Converted(w)

\* All goroutines have returned: wg.Wait() lets the caller go on.
AllStopped == \A w \in Workers : pc[w] = "stopped"

SchedNext ==
  \/ Cancel
  \/ \E w \in Workers : SchedulerStep(w) \/ MemoryStep(w)

SchedSpec == SchedInit /\ [][SchedNext]_schedVars

----------------------------------------------------------------------------
(* Properties                                                              *)

PCs == {"loop", "stopped", "loadV", "loadE", "nvCheck", "nvIncr", "nvFetch",
        "nvStatus", "neCheck", "neIncr", "neAdd", "incarnate", "decr",
        "cdCount", "cdExec", "cdVal", "cdActive", "cdRecount", "cdStore",
        "exec", "depend", "suspend", "wait", "setExecuted", "swap", "resume",
        "storeMin", "count", "validate", "tryAbort", "convert", "setReady", "retry"}

\* Type invariant of the scheduler, its status entries and its workers.
SchedTypeOK ==
  /\ execution_idx \in Nat /\ validation_idx \in Nat
  /\ decrease_cnt \in Nat /\ num_active_tasks \in Int
  /\ done_marker \in BOOLEAN /\ cancelled \in BOOLEAN
  /\ status \in [Txns -> Statuses]
  /\ incarnation \in [Txns -> Nat]
  /\ cond \in [Txns -> Workers \cup {NoWorker}]
  /\ dependents \in [Txns -> SUBSET Txns]
  /\ pc \in [Workers -> PCs]
  /\ kind \in [Workers -> {"none", "execution", "validation"}]
  /\ txn \in [Workers -> Nat]
  /\ inc \in [Workers -> Nat]
  /\ obs \in [Workers -> Nat]
  /\ blk \in [Workers -> Nat]
  /\ wroteNew \in [Workers -> BOOLEAN]
  /\ deps \in [Workers -> SUBSET Txns]
  /\ notified \in [Workers -> BOOLEAN]

\* A worker holds a task reservation from the increment in NextVersionTo... to
\* the decrement that goes with an invalid version.
ReservedPCs == {"nvFetch", "nvStatus", "neAdd", "incarnate", "decr"}
Holds(w) == kind[w] # "none" \/ pc[w] \in ReservedPCs
Holders == {w \in Workers : Holds(w)}

(* num_active_tasks is the number of reservations the workers hold, for    *)
(* every interleaving of the increments and decrements that scheduler.go   *)
(* spreads over seven functions ("Invariant `num_active_tasks`").  So it   *)
(* never wraps below zero, and zero in CheckDone means nobody has a task.  *)
TaskAccounting == num_active_tasks = Cardinality(Holders)

\* The worker that executes transaction t, is to execute it next, or aborts it.
Owner(w, t) ==
  \/ kind[w] = "execution" /\ txn[w] = t
       /\ pc[w] \in {"loop", "exec", "depend", "suspend", "wait", "setExecuted"}
  \/ kind[w] = "validation" /\ txn[w] = t
       /\ pc[w] \in {"convert", "setReady", "storeMin", "count", "retry"}
  \/ pc[w] = "incarnate" /\ obs[w] = t

(* Every transaction that execution_idx has passed and that is not         *)
(* EXECUTED is in the hands of exactly one worker, one that will finish    *)
(* it: no incarnation runs twice at a time and no aborted or skipped       *)
(* transaction is forgotten, whatever validations abort it meanwhile.      *)
OneOwner ==
  \A t \in Txns :
    /\ \A u, w \in Workers : Owner(u, t) /\ Owner(w, t) => u = w
    /\ t < execution_idx => (status[t] = "Executed" <=> \A w \in Workers : ~ Owner(w, t))

(* FinishExecution resumes only transactions that are SUSPENDED with a     *)
(* Condvar set, the precondition StatusEntry.Resume states in a comment    *)
(* and does not check (a nil cond would crash the worker).                 *)
ResumeFindsWaiter ==
  \A w \in Workers : \A d \in deps[w] :
    /\ status[d] = "Suspended"
    /\ \E u \in Workers : cond[d] = u /\ pc[u] = "wait" /\ txn[u] = d /\ ~ notified[u]

\* b's FinishExecution is still to swap its dependents out.
SwapToCome(b) == status[b] = "Executed" => \E u \in Workers : pc[u] = "swap" /\ txn[u] = b

(* A worker that sleeps in Condvar.Wait has been notified, or it is        *)
(* registered with a lower transaction whose FinishExecution is still to   *)
(* swap the dependents out, or the worker that swapped them is about to    *)
(* resume it: WaitForDependency racing FinishExecution loses no wake-up.   *)
NoLostWakeup ==
  \A w \in Workers : pc[w] = "wait" =>
    \/ notified[w]
    \/ blk[w] < txn[w] /\ txn[w] \in dependents[blk[w]] /\ SwapToCome(blk[w])
    \/ \E u \in Workers : txn[w] \in deps[u]

\* Nothing is left to do, and no worker can find anything to do again.
Quiescent ==
  /\ execution_idx >= BlockSize
  /\ validation_idx >= BlockSize
  /\ \A t \in Txns : status[t] = "Executed"
  /\ \A w \in Workers :
       /\ kind[w] = "none"
       /\ pc[w] \in {"nvStatus", "incarnate"} => obs[w] >= BlockSize

(* CheckDone is right: its five separate loads, between which other        *)
(* workers lower validation_idx, abort and re-execute, let it set          *)
(* done_marker only when every transaction is EXECUTED, nobody holds a     *)
(* task and none can be created any more.                                  *)
DoneIsQuiescent == done_marker => Quiescent

(* The state diagram in the comment of StatusEntry: whoever moves a        *)
(* status, it moves along an edge of it, and the incarnation grows exactly *)
(* when an aborted transaction becomes ready again.                        *)
StatusEdges ==
  {<<"Ready", "Executing">>, <<"Executing", "Executed">>, <<"Executing", "Suspended">>,
   <<"Executed", "Aborting">>, <<"Aborting", "Ready">>, <<"Suspended", "Executing">>}

StatusStep ==
  \A t \in Txns :
    /\ status'[t] # status[t] => <<status[t], status'[t]>> \in StatusEdges
    /\ incarnation'[t] = IF status[t] = "Aborting" /\ status'[t] = "Ready"
                           THEN incarnation[t] + 1 ELSE incarnation[t]

StatusDiagram == [][StatusStep]_schedVars
=============================================================================
