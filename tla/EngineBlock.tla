----------------------------- MODULE EngineBlock -----------------------------
(***************************************************************************)
(* The Block-STM engine (src/internal/engine/blockstm/engine.go): it runs  *)
(* the programs of a block as the callback of the policy kernel (module    *)
(* PolicyScheduler) on a private copy of the state, keeps the result of    *)
(* the last attempt of every transaction in a slot, and publishes the copy *)
(* if no attempt failed.  With index_order dispatch the dependency plan is *)
(* enforced by a gate at the start of the callback (dependency.go).        *)
(*                                                                         *)
(* The kernel's context is cancelled with the caller's, or by the first    *)
(* attempt that fails.  The policy is external and answers freely; what it *)
(* is asked between two looks at Dispatcher.Err, or at a channel, is one   *)
(* step.  Attempt counters and durations are telemetry.                    *)
(***************************************************************************)
EXTENDS PolicyScheduler

CONSTANT Gates   \* kinds of gate in the callback

\* None, newExplicitDependencyGate, or newSummaryDependencyGate.
ASSUME GatesAssumption == Gates \subseteq {"none", "explicit", "summary"}

VARIABLES
  gate,        \* the kind of gate of this block; "none" with ready_queue dispatch
  opened,      \* transactions for which Complete was called
  step,        \* per worker: its place in the callback
  slots,       \* resultSlot of every transaction
  policyErr,   \* Dispatcher.err is set
  firstErr,    \* executionErrors.err, "" for none
  ended,       \* the caller's context has ended; cancelled is the kernel's
  published,   \* the caller's state; storage is the kernel's copy
  answer       \* what ExecuteBlock returns: "ok" or the kind of the error

gateState == <<gate, opened>>
errors == <<policyErr, firstErr>>
call == <<ended, published, answer>>
engVars == <<gateState, step, slots, errors, call>>
kernelVars == <<vars, polVars>>

NoResult == [ready |-> FALSE, cancelled |-> FALSE, vals |-> <<>>]

EngInit ==
  /\ PolInit
  /\ gate \in IF Gate = "index_order" THEN Gates ELSE {"none"}
  /\ opened = {}
  /\ step = [w \in Workers |-> "none"]
  /\ slots = [t \in Txns |-> NoResult]
  /\ policyErr = FALSE
  /\ firstErr = ""
  /\ ended = FALSE
  /\ published = InitStorage
  /\ answer = "calling"

StepTo(w, s) == step' = [step EXCEPT ![w] = s]

----------------------------------------------------------------------------
(* The gate: explicitDependencyGate waits for the done channels of the     *)
(* predecessors, summaryDependencyGate for the frontier.                   *)

Frontier(done) == Min({i \in 0 .. BlockSize : i \notin done})

\* Mutant: the barrier itself need not have completed.
OpenEarly(t, done) ==
  CASE gate = "none" -> TRUE
    [] gate = "explicit" -> Predecessors[t] \subseteq done
    [] gate = "summary" -> Barriers[t] <= Frontier(done)

Open(t, done) ==
  CASE gate = "none" -> TRUE
    [] gate = "explicit" -> Predecessors[t] \subseteq done
    [] gate = "summary" -> Barriers[t] < Frontier(done)

(* Complete(t), called by worker w: closing the done channel of t lets the *)
(* workers go on that wait for nothing else, closing the wake channel all  *)
(* workers that wait for the frontier.                                     *)
Complete(w, t) ==
  LET done == opened \cup {t}
      woken(u) == /\ step[u] = "blocked"
                  /\ IF gate = "explicit" THEN Open(txn[u], done)
                     ELSE Frontier(done) # Frontier(opened)
  IN /\ opened' = done
     /\ step' = [u \in Workers |-> IF u = w THEN "returned"
                                   ELSE IF woken(u) THEN "woken" ELSE step[u]]

----------------------------------------------------------------------------
(* The callback txExecutor.                                                *)

\* Mutant: the last error wins.
SetLastError(e) == firstErr' = e

\* executionErrors.set
SetError(e) == firstErr' = IF firstErr = "" THEN e ELSE firstErr

\* The policy on a point of the callback: a valid answer, one that the dispatcher
\* refuses, or, when it is asked for a lane, one that the engine does not support.
Answers == {"valid", "refused"}
LaneAnswers == {"optimistic", "serial", "invalid", "refused"}

(* From the gate to the runtime: the policy is told of the attempt and     *)
(* asked for its lane.                                                     *)
Begin(w, lane) ==
  LET refused == policyErr \/ lane \in {"invalid", "refused"}
  IN /\ policyErr' = refused
     /\ CASE lane \in {"serial", "invalid"} -> SetError("unsupported") /\ StepTo(w, "failing")
          [] lane = "refused" \/ (lane = "optimistic" /\ policyErr) -> SetError("policy") /\ StepTo(w, "failing")
          [] lane = "optimistic" /\ ~ policyErr -> StepTo(w, "run") /\ UNCHANGED firstErr

(* controller.Wait: the first look, and another one whenever the channel   *)
(* was closed.                                                             *)
EnterGate(w, lane) ==
  /\ pc[w] = "exec" /\ step[w] \in {"none", "woken"}
  /\ IF Open(txn[w], opened) THEN Begin(w, lane)
     ELSE lane = "optimistic" /\ StepTo(w, "blocked") /\ UNCHANGED errors
  /\ UNCHANGED <<kernelVars, gateState, slots, call>>

\* Mutant: waits for the channel, and looks at the context afterwards.
LeaveGateWoken(w) ==
  /\ step[w] = "woken"
  /\ cancelled
  /\ SetError("context")
  /\ StepTo(w, "failing")
  /\ UNCHANGED <<kernelVars, gateState, slots, policyErr, call>>

(* A wait that the context ends, although the channel may be closed too.   *)
LeaveGate(w) ==
  /\ step[w] \in {"blocked", "woken"}
  /\ cancelled
  /\ SetError("context")
  /\ StepTo(w, "failing")
  /\ UNCHANGED <<kernelVars, gateState, slots, policyErr, call>>

(* cancel(), after an error was set; the attempt returns without writes.   *)
CancelExecution(w) ==
  /\ step[w] = "failing"
  /\ cancelled' = TRUE
  /\ StepTo(w, "cut")
  /\ UNCHANGED <<counters, num_active_tasks, done_marker, statusVars, waitVars, pc, kind, txn,
                 inc, obs, wroteNew, memory, views, outcome, polVars, gateState, slots, errors, call>>

(* The runtime looks at the context before every instruction, but not      *)
(* while Get waits for an ESTIMATE.                                        *)
RunRead(w, ans) ==
  /\ step[w] \in {"run", "reading"}
  /\ step[w] = "run" => ~ cancelled
  /\ step[w] = "reading" => ans = "valid"
  /\ Get(w)
  /\ policyErr' = (policyErr \/ ans = "refused")
  /\ StepTo(w, IF pc'[w] = "depend" THEN "reading" ELSE "run")
  /\ UNCHANGED <<polVars, gateState, slots, firstErr, call>>

\* Mutant: keeps the result of the first attempt.
StoreOnce(t, r) == slots' = IF slots[t].ready THEN slots ELSE [slots EXCEPT ![t] = r]

\* Mutant: keeps no result of an attempt that was cancelled.
StoreFinished(t, r) == slots' = IF r.cancelled THEN slots ELSE [slots EXCEPT ![t] = r]

\* resultSlot.store
Store(t, r) == slots' = [slots EXCEPT ![t] = r]

(* The end of the callback: the program has run to its end, or the runtime *)
(* found the context cancelled; the policy is asked, the result is stored, *)
(* and in a step of its own the gate is opened for the successors.         *)
RunEnd(w, cut, ans) ==
  /\ pc[w] = "exec" /\ step[w] = "run"
  /\ IF cut THEN cancelled ELSE WantedKey(w) = NoKey
  /\ policyErr' = (policyErr \/ ans = "refused")
  /\ IF policyErr'
       THEN SetError("policy") /\ StepTo(w, "failing") /\ UNCHANGED slots
       ELSE /\ Store(txn[w], [ready |-> TRUE, cancelled |-> cut, vals |-> Values(w)])
            /\ StepTo(w, "stored")
            /\ UNCHANGED firstErr
  /\ UNCHANGED <<kernelVars, gateState, call>>

OpenGate(w) ==
  /\ step[w] = "stored"
  /\ Complete(w, txn[w])
  /\ UNCHANGED <<kernelVars, gate, slots, errors, call>>

----------------------------------------------------------------------------
(* The kernel around the callback.                                         *)

\* What CommitTo put into the view: the writes of a finished program.
ViewWrites(w) ==
  IF step[w] = "returned" /\ ~ slots[txn[w]].cancelled THEN Written(w) ELSE <<>>

KernelRecord(w) ==
  /\ pc[w] = "exec" /\ step[w] \in {"cut", "returned"}
  /\ \/ \E k \in Keys : WriteKey(w, ViewWrites(w), k) \/ RemoveKey(w, ViewWrites(w), k)
     \/ Publish(w, ViewWrites(w))
  /\ StepTo(w, IF pc'[w] = "exec" THEN step[w] ELSE "none")
  /\ UNCHANGED <<polVars, gateState, slots, errors, call>>

(* An attempt that read an ESTIMATE unwinds through the callback, which    *)
(* keeps no result of it.                                                  *)
Abandon(w) ==
  /\ RegisterAbort(w)
  /\ StepTo(w, "none")
  /\ UNCHANGED <<policy, gateState, slots, errors, call>>

KernelStep(w) ==
  /\ PolControl(w) \/ (pc[w] # "exec" /\ Data(w))
  /\ UNCHANGED <<policy, engVars>>

----------------------------------------------------------------------------
(* ExecuteBlock before and after the kernel.                               *)

Start(lane) ==
  /\ answer = "calling"
  /\ answer' = CASE ended -> "context"
                 [] ~ ended /\ lane \in {"serial", "invalid"} -> "unsupported"
                 [] ~ ended /\ lane = "refused" -> "policy"
                 [] ~ ended /\ lane = "optimistic" -> "running"
  /\ policyErr' = (~ ended /\ lane \in {"invalid", "refused"})
  /\ UNCHANGED <<kernelVars, gateState, step, slots, firstErr, ended, published>>

KernelReturn ==
  /\ PolReturn
  /\ UNCHANGED engVars

\* The loop over the slots ends at the first without a result or with a cancelled one.
SlotsVerdict ==
  LET wrong == {t \in Txns : ~ slots[t].ready \/ slots[t].cancelled}
  IN IF wrong = {} THEN "ok" ELSE IF slots[Min(wrong)].ready THEN "context" ELSE "missing"

EngineReturn ==
  /\ answer = "running" /\ result # "running"
  /\ answer' = CASE firstErr # "" -> firstErr
                 [] firstErr = "" /\ result # "ok" -> IF result = "cancelled" THEN "context" ELSE result
                 [] firstErr = "" /\ result = "ok" /\ policyErr -> "policy"
                 [] firstErr = "" /\ result = "ok" /\ ~ policyErr -> SlotsVerdict
  /\ published' = IF answer' = "ok" THEN storage ELSE published
  /\ UNCHANGED <<kernelVars, gateState, step, slots, errors, ended>>

EndContext ==
  /\ ~ ended /\ answer \in {"calling", "running"}
  /\ ended' = TRUE
  /\ cancelled' = TRUE
  /\ UNCHANGED <<counters, num_active_tasks, done_marker, statusVars, waitVars, pc, kind, txn,
                 inc, obs, wroteNew, memory, views, outcome, polVars,
                 gateState, step, slots, errors, published, answer>>

EngineFinished == answer \notin {"calling", "running"} /\ UNCHANGED <<kernelVars, engVars>>

WorkerRuns(w) ==
  /\ answer = "running"
  /\ \/ \E lane \in LaneAnswers : EnterGate(w, lane)
     \/ LeaveGate(w) \/ CancelExecution(w)
     \/ \E ans \in Answers : RunRead(w, ans)
     \/ \E cut \in BOOLEAN, ans \in Answers : RunEnd(w, cut, ans)
     \/ OpenGate(w)
     \/ KernelRecord(w) \/ Abandon(w) \/ KernelStep(w)

CallerRuns == (\E lane \in LaneAnswers : Start(lane)) \/ (answer = "running" /\ KernelReturn) \/ EngineReturn

EngNext == CallerRuns \/ EndContext \/ EngineFinished \/ \E w \in Workers : WorkerRuns(w)

(* Every goroutine that can go on is scheduled eventually.  The caller can *)
(* only before the workers start and after they have returned.             *)
EngFairness == \A w \in Workers : WF_<<kernelVars, engVars>>(CallerRuns \/ WorkerRuns(w))

EngSpec == EngInit /\ [][EngNext]_<<kernelVars, engVars>> /\ EngFairness

----------------------------------------------------------------------------
(* Properties                                                              *)

\* The result as module SerialBlock has it: every error gives the block up.
Outcome ==
  CASE answer \in {"calling", "running"} -> "running"
    [] answer = "ok" -> "ok"
    [] answer \in {"context", "policy", "unsupported"} -> "cancelled"
    [] OTHER -> answer

Oracle == INSTANCE SerialBlock WITH storage <- published, result <- Outcome

(* The engine implements the serial block that the serial engine computes: *)
(* whatever attempts failed, were cut short by a cancellation or abandoned *)
(* while the kernel went on, the caller's state gets the serial result or  *)
(* stays as it was, and no transaction is found without a result.          *)
EngineImplements == Oracle!Spec

(* The slots hold the results of the attempts that the kernel committed:   *)
(* in a published block every transaction reports what it reads in the     *)
(* serial order, though the slot is written before the attempt is recorded *)
(* and validated, and earlier attempts wrote it too.                       *)
ResultsAreSerial ==
  answer = "ok" =>
    \A t \in Txns : slots[t].vals = Oracle!SerialReads(t, Oracle!SerialState[t])

(* The caller is told of a cancellation only if its own context ended: an  *)
(* attempt that fails cancels the kernel's context after its error is set, *)
(* and the waits that this ends do not hide the cause.                     *)
CauseReported == answer = "context" => ended

\* What an attempt of t waits for in the gate.
GateObstacles(t) ==
  CASE gate = "none" -> {}
    [] gate = "explicit" -> Predecessors[t]
    [] gate = "summary" -> 0 .. Barriers[t]

(* An attempt that the gate let through has all that its transaction waits *)
(* for behind it, and its results in the slots; a worker is only asleep at *)
(* the gate while something is missing.                                    *)
GateHolds ==
  \A w \in Workers :
    /\ step[w] \in {"run", "reading", "stored", "returned"} =>
         \A t \in GateObstacles(txn[w]) : t \in opened /\ slots[t].ready
    /\ step[w] = "blocked" => ~ (GateObstacles(txn[w]) \subseteq opened)

(* ExecuteBlock returns: no worker waits at the gate, on an estimate or    *)
(* for work for ever, neither when a predecessor fails nor when it is      *)
(* abandoned and runs again.                                               *)
EngineReturns == <>(answer \notin {"calling", "running"})
=============================================================================
