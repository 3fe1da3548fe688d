---------------------------- MODULE SchedulerInv ----------------------------
(***************************************************************************)
(* The inductive invariant from which module BlockSTMProofs derives the    *)
(* safety properties of module Scheduler.  Its parts say, for every worker *)
(* and every step it may be at, what it holds and what it has excluded.    *)
(***************************************************************************)
EXTENDS Scheduler

\* The kind of task that goes with each step, and the version in the register.
WorkerTask(w) ==
  /\ pc[w] \in {"loadV", "loadE", "nvCheck", "nvIncr", "nvFetch", "nvStatus",
                "neCheck", "neIncr", "neAdd", "cdCount", "cdExec", "cdVal",
                "cdActive", "cdRecount", "cdStore"} => kind[w] = "none"
  /\ pc[w] \in {"exec", "depend", "suspend", "wait", "setExecuted", "swap", "resume"}
       => kind[w] = "execution"
  /\ pc[w] \in {"validate", "tryAbort", "convert", "setReady", "retry"}
       => kind[w] = "validation"
  /\ pc[w] \in {"storeMin", "count"} => kind[w] # "none"
  /\ pc[w] = "incarnate" => kind[w] # "execution" /\ obs[w] < execution_idx
  /\ pc[w] = "incarnate" /\ kind[w] = "validation" => obs[w] = txn[w]
  /\ kind[w] # "none" => txn[w] \in Txns /\ txn[w] < execution_idx
  /\ pc[w] \in {"depend", "suspend", "wait"} => blk[w] < txn[w]
  /\ deps[w] # {} => pc[w] = "resume"

TaskInv == \A w \in Workers : WorkerTask(w)

\* The status of a transaction, seen from its owner, and from execution_idx.
OwnedStatus(w) ==
  /\ kind[w] = "execution" /\ pc[w] \in {"loop", "exec", "depend", "suspend", "setExecuted"}
       => status[txn[w]] = "Executing"
  /\ pc[w] = "wait" => status[txn[w]] = IF notified[w] THEN "Executing" ELSE "Suspended"
  /\ pc[w] \in {"convert", "setReady"} => status[txn[w]] = "Aborting"
  /\ kind[w] = "validation" /\ pc[w] \in {"storeMin", "count", "retry"}
       => status[txn[w]] = "Ready"
  /\ pc[w] = "incarnate" /\ obs[w] < BlockSize => status[obs[w]] = "Ready"

UniqueOwner ==
  \A t \in Txns : \A u, w \in Workers : Owner(u, t) /\ Owner(w, t) => u = w

HasOwner(t) == \E w \in Workers : Owner(w, t)

ClaimedStatus ==
  \A t \in Txns :
    /\ t >= execution_idx => status[t] = "Ready"
    /\ status[t] \notin {"Ready", "Executed"} => HasOwner(t)

OwnerInv == UniqueOwner /\ ClaimedStatus /\ \A w \in Workers : OwnedStatus(w)

\* A transaction that is ready again is with a worker, except those of Q.
DispatchedBut(Q) ==
  \A t \in Txns \ Q :
    t < execution_idx /\ status[t] = "Ready" => HasOwner(t)

\* What CheckDone takes num_active_tasks = 0 to mean.
IdleIsDone ==
  num_active_tasks = 0 =>
    Holders = {} /\ \A t \in Txns : t < execution_idx => status[t] = "Executed"

\* Worker u sleeps on its Condvar, which transaction d's status entry names.
Sleeps(u, d) == cond[d] = u /\ pc[u] = "wait" /\ txn[u] = d /\ ~ notified[u]

\* Whoever is registered or about to be resumed sleeps, and is there only once.
WaitInv ==
  /\ \A w \in Workers, d \in Txns : d \in deps[w] => \E u \in Workers : Sleeps(u, d)
  /\ \A b, d \in Txns : d \in dependents[b] => \E u \in Workers : Sleeps(u, d) /\ blk[u] = b
  /\ \A w \in Workers, b, d \in Txns : d \in deps[w] => d \notin dependents[b]
  /\ \A u, w \in Workers : \A d \in Txns : d \in deps[u] /\ d \in deps[w] => u = w

\* A reader that holds the lock of blk's dependents, or sleeps, is not too late
\* for the swap of the dependents, or has been swapped out already.
WillWake(w) ==
  /\ pc[w] = "suspend" => SwapToCome(blk[w])
  /\ pc[w] = "wait" /\ ~ notified[w] =>
       \/ txn[w] \in dependents[blk[w]] /\ SwapToCome(blk[w])
       \/ \E u \in Workers : txn[w] \in deps[u]

WakeInv == \A w \in Workers : WillWake(w)

\* What the loads of CheckDone have established so far.
DoneInv ==
  /\ \A w \in Workers :
       /\ pc[w] \in {"cdVal", "cdActive", "cdRecount"} => execution_idx >= BlockSize
       /\ pc[w] \in {"cdExec", "cdVal", "cdActive", "cdRecount"} => obs[w] <= decrease_cnt
       /\ pc[w] = "cdActive" =>
            \/ obs[w] < decrease_cnt
            \/ validation_idx >= BlockSize
            \/ \E u \in Workers : pc[u] = "count"
       /\ pc[w] = "cdRecount" => obs[w] < decrease_cnt \/ Quiescent
       /\ pc[w] = "cdStore" => Quiescent
  /\ DoneIsQuiescent

(* The part of the inductive invariant that the kernels built around the   *)
(* frozen scheduler share, and the inductive invariant of the scheduler.   *)
CoreInv == SchedTypeOK /\ TaskInv /\ OwnerInv /\ WaitInv /\ WakeInv /\ DoneInv

IndInv == CoreInv /\ TaskAccounting /\ DispatchedBut({})
=============================================================================
