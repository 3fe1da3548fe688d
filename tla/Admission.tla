----------------------------- MODULE Admission -----------------------------
(***************************************************************************)
(* The admission-limited kernel (src/speculation.go): the block executor   *)
(* of module BlockSTM with a window that admits at most Limit transactions *)
(* beyond a prefix of transactions that count as validated.                *)
(*                                                                         *)
(* The code wraps the functions of the frozen scheduler in a mutex, so its *)
(* steps are the steps of BlockSTM.  What is added is who holds the mutex, *)
(* the window it protects, and the worker's place in the wrapping code.    *)
(* Taking the mutex is one step with the first access under it, and        *)
(* releasing it one step with the last.                                    *)
(***************************************************************************)
EXTENDS BlockSTM

CONSTANT Limit   \* effectiveLimit, below the block size

ASSUME LimitAssumption == Limit \in 1 .. BlockSize - 1

VARIABLES
  mu,          \* admissionScheduler.mu: the worker that holds it, or NoWorker
  stable,      \* admissionWindow.stable
  passed,      \* admissionWindow.passed, per transaction
  epoch,       \* admissionWindow.epoch, per transaction
  generation,  \* admissionWindow.generation
  peak,        \* admissionWindow.peak
  stage,       \* per worker: its place in the wrapping code
  claim        \* per worker: version and token of the validation it runs

window == <<stable, passed, epoch, generation, peak>>
admVars == <<mu, window, stage, claim>>

NoClaim == [txn |-> 0, inc |-> 0, token |-> 0]

AdmInit ==
  /\ Init
  /\ mu = NoWorker
  /\ stable = 0
  /\ passed = [t \in Txns |-> FALSE]
  /\ epoch = [t \in Txns |-> 0]
  /\ generation = 0
  /\ peak = 0
  /\ stage = [w \in Workers |-> "none"]
  /\ claim = [w \in Workers |-> NoClaim]

----------------------------------------------------------------------------
(* The window                                                              *)

\* Mutant: admits one too many.
AllowsOneMore(next) == next - stable <= Limit

Allows(next) == next - stable < Limit

InvalidateFrom(first) ==
  /\ generation' = generation + 1
  /\ epoch' = [t \in Txns |-> IF first <= t /\ t < execution_idx THEN generation + 1 ELSE epoch[t]]
  /\ passed' = [t \in Txns |-> passed[t] /\ ~ (first <= t /\ t < execution_idx)]
  /\ UNCHANGED <<stable, peak>>

\* The prefix the code's loop reaches from s over transactions that have passed.
Advance(s, flags) == Min({i \in s .. BlockSize : i = BlockSize \/ ~ flags[i]})

\* Mutant: replaces the channel without closing the old one.
WokenNever == stage

(* notifyLocked closes the channel that the stalled workers wait on.       *)
Woken == [u \in Workers |-> IF stage[u] = "stalled" THEN "woken" ELSE stage[u]]

----------------------------------------------------------------------------
(* nextTask, execution: the check of BlockSize and the window are under    *)
(* the mutex, CheckDone is not.                                            *)
Admit(w) ==
  /\ mu = NoWorker
  /\ ControlStep(w)
  /\ pc[w] = "neCheck"
  /\ execution_idx < BlockSize => Allows(execution_idx)
  /\ IF execution_idx < BlockSize
       THEN /\ mu' = w
            /\ peak' = IF execution_idx + 1 - stable > peak THEN execution_idx + 1 - stable ELSE peak
       ELSE UNCHANGED <<mu, peak>>
  /\ UNCHANGED <<stable, passed, epoch, generation, stage, claim>>

\* Leaves NextVersionToExecute without a task: what the frozen kernel never does.
Retreat(w) ==
  /\ Goto(w, "neCheck", "loop")
  /\ UNCHANGED <<sharedVars, waitVars, taskVars, obs>>

Stall(w) ==
  /\ mu = NoWorker
  /\ execution_idx < BlockSize /\ ~ Allows(execution_idx)
  /\ Retreat(w)
  /\ stage' = [stage EXCEPT ![w] = "stalled"]
  /\ UNCHANGED <<memory, views, outcome, mu, window, claim>>

(* run, in the select on the wake channel and the context.                 *)
StallEnds(w) ==
  /\ stage[w] = "woken"
  /\ stage' = [stage EXCEPT ![w] = "none"]
  /\ UNCHANGED <<vars, mu, window, claim>>

StallCancelled(w) ==
  /\ stage[w] \in {"stalled", "woken"} /\ pc[w] = "loop"
  /\ cancelled
  /\ ControlStep(w)
  /\ stage' = [stage EXCEPT ![w] = "none"]
  /\ UNCHANGED <<mu, window, claim>>

----------------------------------------------------------------------------
(* finishExecution takes the mutex and looks at validation_idx before it   *)
(* calls FinishExecution.                                                  *)
LockFinish(w) ==
  /\ pc[w] = "setExecuted"
  /\ mu = NoWorker
  /\ mu' = w
  /\ IF wroteNew[w] /\ validation_idx > txn[w] THEN InvalidateFrom(txn[w]) ELSE UNCHANGED window
  /\ UNCHANGED <<vars, stage, claim>>

(* needsReexecution: the token, taken before the read set is validated.    *)
ValidationToken(w) ==
  /\ pc[w] = "validate"
  /\ stage[w] = "none"
  /\ mu = NoWorker
  /\ claim' = [claim EXCEPT ![w] = [txn |-> txn[w], inc |-> inc[w], token |-> epoch[txn[w]]]]
  /\ stage' = [stage EXCEPT ![w] = "token"]
  /\ UNCHANGED <<vars, mu, window>>

(* The steps inside the callback, Record and ValidateReadSet are those of  *)
(* BlockSTM.  The verdict is kept for finishValidation.                    *)
Data(w) ==
  /\ DataStep(w)
  /\ pc[w] = "validate" => stage[w] = "token"
  /\ IF pc[w] = "validate" /\ pc'[w] # "validate"
       THEN /\ stage' = [stage EXCEPT ![w] = IF pc'[w] = "decr" THEN "valid" ELSE "none"]
            /\ claim' = IF pc'[w] = "decr" THEN claim ELSE [claim EXCEPT ![w] = NoClaim]
       ELSE UNCHANGED <<stage, claim>>
  /\ UNCHANGED <<mu, window>>

(* finishValidation of an aborted incarnation, before FinishValidation.    *)
AnnounceAbort(w) ==
  /\ pc[w] = "setReady"
  /\ stage[w] = "none"
  /\ mu = NoWorker
  /\ InvalidateFrom(txn[w])
  /\ stage' = [Woken EXCEPT ![w] = "announced"]
  /\ UNCHANGED <<vars, mu, claim>>

\* Mutant: advances the window without notifyLocked.
PassSilently(w) ==
  /\ stage[w] = "valid" /\ pc[w] = "loop"
  /\ mu = NoWorker
  /\ LET c == claim[w]
         accepted == /\ status[c.txn] = "Executed" /\ incarnation[c.txn] = c.inc
                     /\ epoch[c.txn] = c.token
     IN /\ passed' = IF accepted THEN [passed EXCEPT ![c.txn] = TRUE] ELSE passed
        /\ stable' = IF accepted THEN Advance(stable, passed') ELSE stable
  /\ stage' = [stage EXCEPT ![w] = "none"]
  /\ claim' = [claim EXCEPT ![w] = NoClaim]
  /\ UNCHANGED <<vars, mu, epoch, generation, peak>>

(* finishValidation of a valid incarnation, after FinishValidation: pass.  *)
Pass(w) ==
  /\ stage[w] = "valid" /\ pc[w] = "loop"
  /\ mu = NoWorker
  /\ LET c == claim[w]
         accepted == /\ status[c.txn] = "Executed" /\ incarnation[c.txn] = c.inc
                     /\ epoch[c.txn] = c.token
     IN /\ passed' = IF accepted THEN [passed EXCEPT ![c.txn] = TRUE] ELSE passed
        /\ stable' = IF accepted THEN Advance(stable, passed') ELSE stable
  /\ stage' = [(IF stable' # stable THEN Woken ELSE stage) EXCEPT ![w] = "none"]
  /\ claim' = [claim EXCEPT ![w] = NoClaim]
  /\ UNCHANGED <<vars, mu, epoch, generation, peak>>

----------------------------------------------------------------------------
(* Every other step of the frozen scheduler: those before which the        *)
(* wrapping code has something to do wait for it, and the step that leaves *)
(* a wrapped function releases the mutex; finishExecution notifies then.   *)
Base(w) ==
  /\ ControlStep(w)
  /\ pc[w] # "neCheck"
  /\ pc[w] = "loop" => stage[w] = "none"
  /\ pc[w] = "nvCheck" => mu = NoWorker
  /\ pc[w] = "setExecuted" => mu = w
  /\ pc[w] = "setReady" => stage[w] = "announced"
  /\ LET leaves == mu = w /\ pc'[w] \in {"loop", "incarnate"}
     IN /\ mu' = IF leaves THEN NoWorker ELSE IF pc[w] = "nvCheck" THEN w ELSE mu
        /\ stage' = IF leaves /\ kind[w] = "execution" THEN Woken
                    ELSE IF pc[w] = "setReady" THEN [stage EXCEPT ![w] = "none"] ELSE stage
  /\ UNCHANGED <<window, claim>>

AdmStep(w) ==
  \/ Base(w) \/ Data(w) \/ Admit(w)
  \/ Stall(w) \/ StallEnds(w) \/ StallCancelled(w)
  \/ LockFinish(w) \/ ValidationToken(w) \/ AnnounceAbort(w) \/ Pass(w)

AdmReturn == Return /\ UNCHANGED admVars
AdmCancel == CancelBlock /\ UNCHANGED admVars
AdmFinished == Finished /\ UNCHANGED admVars

AdmNext == AdmReturn \/ AdmCancel \/ AdmFinished \/ \E w \in Workers : AdmStep(w)

(* A goroutine that can go on time and again does go on: sync.Mutex hands  *)
(* itself to a waiter that was passed over (its starvation mode).          *)
AdmFairness == WF_<<vars, admVars>>(AdmReturn) /\ \A w \in Workers : SF_<<vars, admVars>>(AdmStep(w))

AdmSpec == AdmInit /\ [][AdmNext]_<<vars, admVars>> /\ AdmFairness

----------------------------------------------------------------------------
(* Properties                                                              *)

\* Type invariant of the window and the wrapping code.
AdmTypeOK ==
  /\ mu \in Workers \cup {NoWorker}
  /\ stable \in 0 .. BlockSize
  /\ passed \in [Txns -> BOOLEAN]
  /\ epoch \in [Txns -> Nat] /\ generation \in Nat /\ peak \in Nat
  /\ stage \in [Workers -> {"none", "stalled", "woken", "token", "valid", "announced"}]
  /\ claim \in [Workers -> [txn : Nat, inc : Nat, token : Nat]]

(* The limiter's promise: at most Limit admitted transactions lie beyond   *)
(* the stable prefix, though the window is checked in one critical section *)
(* and moved in others, and the telemetry of the peak agrees.              *)
WindowBound == execution_idx - stable <= Limit /\ peak <= Limit

(* No notification is lost: a worker sleeps on the current wake channel    *)
(* only as long as the window is full, whatever passed between its look at *)
(* the window and its select.                                              *)
StalledIsFull == \A w \in Workers : stage[w] = "stalled" => execution_idx - stable = Limit

(* The inductive form of the two: a worker between the admission and the   *)
(* increment of execution_idx holds the mutex, and its slot is still free. *)
WindowInv ==
  /\ AdmTypeOK /\ WindowBound /\ StalledIsFull
  /\ \A w \in Workers : pc[w] \in {"neIncr", "neAdd"} => mu = w /\ Allows(execution_idx)

(* configs/README.md: "A transaction occupies one slot until it enters the *)
(* continuous stable validated frontier, including dependency deferral,    *)
(* suspension and every incarnation": no incarnation of a transaction      *)
(* below the frontier is executing, suspended or aborted.                  *)
IncarnationsHoldSlots == \A t \in Txns : t < stable => status[t] = "Executed"
=============================================================================
