------------------------------ MODULE PolicyInv ------------------------------
(***************************************************************************)
(* The inductive invariant of the policy kernel: where a worker is in the  *)
(* frozen code at each place of the wrapping code, who is in the queues,   *)
(* and what the gate has let through.                                      *)
(***************************************************************************)
EXTENDS PolicyScheduler, BlockSTMInv

PolTypeOK ==
  /\ policy \in Policies
  /\ ready \in Seq(Txns) /\ deferred \in Seq(Txns)
  /\ abortDeps \in [Txns -> Seq(Txns)]
  /\ completed \subseteq Txns
  /\ stage \in [Workers -> {"none", "gate", "finishing", "validating", "checked", "unwinding",
                            "idle", "parked", "woken"}]
  /\ own \in [Workers -> Nat]

\* The steps after the status of an execution, or the verdict on a read set, is known.
FinishPCs == {"swap", "resume", "storeMin", "count", "decr", "loop"}
AbortPCs == {"tryAbort", "convert", "setReady", "storeMin", "count", "retry"}

WorkerStage(w) ==
  /\ stage[w] = "gate" => pc[w] = "incarnate" /\ kind[w] = "none" /\ obs[w] \in Txns
  /\ stage[w] = "finishing" => pc[w] \in FinishPCs /\ own[w] \in Txns
  /\ stage[w] = "validating" => pc[w] \in AbortPCs \cup {"incarnate", "decr", "loop"}
  /\ stage[w] = "unwinding" => pc[w] = "depend" /\ EstimateRead = "abort_and_reschedule"
  /\ stage[w] \in {"checked", "idle", "parked", "woken"} => pc[w] = "loop"
  /\ pc[w] \in {"swap", "resume"} => stage[w] = "finishing"
  /\ pc[w] \in AbortPCs /\ kind[w] = "validation" => stage[w] = "validating"
  /\ pc[w] \in {"storeMin", "count"} /\ kind[w] = "execution" => stage[w] = "finishing"

StageInv == \A w \in Workers : WorkerStage(w)

(* The queues: no transaction is in two places, and one that is in some    *)
(* place is ready and with no worker.                                      *)
Queued == Range(ready) \cup Range(deferred) \cup UNION {Range(abortDeps[b]) : b \in Txns}

QueuesApart ==
  /\ IsInjective(ready) /\ IsInjective(deferred)
  /\ Range(ready) \cap Range(deferred) = {}
  /\ \A b \in Txns : /\ IsInjective(abortDeps[b])
                     /\ Range(abortDeps[b]) \cap (Range(ready) \cup Range(deferred)) = {}
  /\ \A b, c \in Txns : b # c => Range(abortDeps[b]) \cap Range(abortDeps[c]) = {}

Unowned(t) == t < execution_idx /\ status[t] = "Ready" /\ ~ HasOwner(t)

QueueInv ==
  /\ QueuesApart
  /\ \A t \in Queued : Unowned(t)
  /\ DispatchedBut(Queued)
  /\ num_active_tasks = Cardinality(Holders) + Cardinality(Queued)

\* Worker w has fetched t and stands at the gate with it.
AtGate(w, t) == stage[w] = "gate" /\ obs[w] = t

(* The gate: its counters are exact, and what is neither before it nor     *)
(* held back by it was let through.                                        *)
GateInv ==
  /\ Gate = "predecessors" => indegree = [t \in Txns |-> Cardinality(Predecessors[t] \ completed)]
  /\ Gate = "barriers" =>
       frontier \in 0 .. BlockSize /\ frontier \notin completed /\ 0 .. frontier - 1 \subseteq completed
  /\ \A t \in Range(deferred) : ~ (Obstacles(t) \subseteq completed)
  /\ \A t \in Txns : t < execution_idx =>
       \/ t \in Range(deferred)
       \/ \E w \in Workers : AtGate(w, t)
       \/ Obstacles(t) \subseteq completed

PolInv ==
  PolTypeOK /\ StageInv /\ QueueInv /\ GateInv /\ AbortsReleased /\ SleeperMissesNothing
=============================================================================
