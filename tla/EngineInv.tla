------------------------------ MODULE EngineInv ------------------------------
(***************************************************************************)
(* The inductive invariant of the Block-STM engine: where a worker is in   *)
(* the kernel at each place of the callback, what the slots say of the     *)
(* gate, who is to blame for a cancellation, and what a block that no      *)
(* attempt has spoilt has in common with one of the policy kernel.         *)
(***************************************************************************)
EXTENDS EngineBlock, PolicyInv

EngTypeOK ==
  /\ gate \in {"none", "explicit", "summary"}
  /\ opened \subseteq Txns
  /\ step \in [Workers -> {"none", "blocked", "woken", "run", "reading", "stored", "returned", "failing", "cut"}]
  /\ slots = [t \in Txns |-> slots[t]]
  /\ \A t \in Txns : slots[t].ready \in BOOLEAN /\ slots[t].cancelled \in BOOLEAN
  /\ policyErr \in BOOLEAN /\ ended \in BOOLEAN

\* A worker in the callback executes a transaction; Get may have it wait.
InCallback(w) ==
  /\ step[w] # "none" => pc[w] \in {"exec", "depend", "suspend", "wait"}
  /\ step[w] \notin {"none", "reading"} => pc[w] = "exec"

CallbackInv == \A w \in Workers : InCallback(w)

\* What Complete was called for, or is about to be, has a result.
SlotInv ==
  /\ \A t \in opened : slots[t].ready
  /\ \A w \in Workers : step[w] = "stored" => slots[txn[w]].ready

(* Every trace of a cancellation has a cause: the caller's context, or the *)
(* error that was set before the kernel's context was cancelled.           *)
CauseInv ==
  /\ cancelled => ended \/ firstErr # ""
  /\ firstErr = "context" => ended
  /\ \A w \in Workers : step[w] \in {"failing", "cut"} => firstErr # ""
  /\ \A t \in Txns : slots[t].cancelled => cancelled
  /\ result \in {"running", "ok", "incomplete"} \/ (result = "cancelled" /\ cancelled)
  /\ CauseReported

EngInv == EngTypeOK /\ CallbackInv /\ SlotInv /\ CauseInv /\ GateHolds

----------------------------------------------------------------------------
(* The attempts and their slots.                                           *)

\* The program of t reads nothing: its one attempt is never repeated.
ReadsNothing(t) == NextRead(t, <<>>) \notin Keys

\* What a worker has read at each place of the callback.  An attempt that begins
\* after a result was cancelled comes no further than its first look at the context.
CallbackReads(w) ==
  /\ step[w] \in {"none", "blocked", "woken"} => reads[w] = <<>>
  /\ reads[w] # <<>> \/ step[w] = "reading" => ~ ReadsNothing(txn[w])
  /\ step[w] \in {"run", "reading"} /\ slots[txn[w]].cancelled => step[w] = "run" /\ reads[w] = <<>>
  /\ step[w] \in {"stored", "returned"} =>
       /\ slots[txn[w]].ready /\ slots[txn[w]].vals = Values(w)
       /\ slots[txn[w]].cancelled \/ WantedKey(w) = NoKey

\* Only what has read something fails a validation.
WorkerAborts(w) ==
  /\ unchecked[w] # {} => pc[w] = "validate" /\ ~ ReadsNothing(txn[w])
  /\ pc[w] = "tryAbort" => ~ ReadsNothing(txn[w])

\* Transaction t is executed, or a worker is about to record the result in its slot.
OnItsWay(t) ==
  \/ status[t] = "Executed"
  \/ \E w \in Workers : txn[w] = t /\ (step[w] \in {"stored", "returned"} \/ pc[w] = "setExecuted")

RunsOnce(t) ==
  /\ lastRead[t] = {} /\ status[t] # "Aborting"
  /\ slots[t].ready => OnItsWay(t)

SlotRuns(t) ==
  /\ ReadsNothing(t) => RunsOnce(t)
  /\ slots[t].cancelled => slots[t].ready
  /\ HasRun(t) => slots[t].ready \/ firstErr # ""

\* How the workers, the kernel and the engine end.
EndInv ==
  /\ \A w \in Workers : pc[w] = "stopped" => done_marker \/ cancelled
  /\ result # "running" => AllStopped
  /\ result = "ok" => done_marker
  /\ result # "incomplete"
  /\ firstErr \in {"", "context", "policy", "unsupported"}

AttemptInv ==
  /\ DOMAIN unchecked = Workers /\ DOMAIN lastRead = Txns
  /\ \A w \in Workers : CallbackReads(w) /\ WorkerAborts(w)
  /\ \A t \in Txns : SlotRuns(t)
  /\ EndInv

\* No attempt has failed, and no result of one that was cut short is in a slot.
Clean == firstErr = "" /\ \A t \in Txns : ~ slots[t].cancelled

\* The slot of a transaction holds the run that its entries in the memory are of.
SlotsFaithful == \A t \in Txns : HasRun(t) => \E rs : RunOf(t, rs) /\ slots[t].vals = ValuesOf(rs)

(* As long as the block is clean the kernel under the engine is the policy *)
(* kernel; a block that is not clean is never published.                   *)
CleanInv ==
  /\ Clean => /\ MemInv /\ ValidationInv /\ ReplayInv /\ SlotsFaithful
              /\ result = "ok" => storage = Serial!SerialState[BlockSize]
  /\ answer = "ok" => Clean /\ result = "ok"
=============================================================================
