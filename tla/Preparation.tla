---------------------------- MODULE Preparation ----------------------------
(***************************************************************************)
(* What the Block-STM engine does with a block before it calls the kernel  *)
(* (prepareDependency and the builders in                                  *)
(* src/internal/engine/blockstm/dependency.go, called from ExecuteBlock in *)
(* src/internal/engine/blockstm/engine.go): resolve the controls, scan the *)
(* programs for the keys they name, build the representation the plan asks *)
(* for, and hand the policy to the kernel.                                 *)
(*                                                                         *)
(* A program is the set of its instructions <<op, key>>: the scan ignores  *)
(* order and repetition.  Every pass of a loop over the transactions is a  *)
(* step, so that the context may end between two of them.                  *)
(***************************************************************************)
EXTENDS DependencyPlan, FiniteSetsExt

CONSTANTS BlockSize, Keys, Inputs

ASSUME PreparationAssumption == BlockSize \in Nat

Txns == 0 .. BlockSize - 1

\* A slice that was not built is none of those that are.
ASSUME NilAssumption == Nil \notin [Txns -> SUBSET Txns] /\ Nil \notin [Txns -> Int]

VARIABLES
  config,         \* the controls of the run
  block,          \* transaction -> program
  phase,          \* resolve, scan, build, ready, rejected or cancelled
  next,           \* the transaction the current loop is at
  reads, writes,  \* staticAccessSet of the transactions scanned so far
  lastWriter,     \* key -> the last writer seen by the builder, -1 for none
  readers, writers,   \* key -> those seen by the indexed builder
  predecessors, barriers,   \* the representation, Nil unless it is built
  estimates,      \* transaction -> locations marked before the block starts
  ended           \* the context has ended

accessVars == <<reads, writes>>
indexVars == <<lastWriter, readers, writers>>
artifactVars == <<predecessors, barriers>>
prepVars == <<config, block, phase, next, accessVars, indexVars, artifactVars, estimates, ended>>

Plan == Resolved(config)
Kernel == KernelPlan(config, Plan)

PrepInit ==
  /\ \E input \in Inputs : config = input.config /\ block = input.block
  /\ phase = "resolve"
  /\ next = 0
  /\ reads = [t \in Txns |-> {}]
  /\ writes = [t \in Txns |-> {}]
  /\ lastWriter = [k \in Keys |-> -1]
  /\ readers = [k \in Keys |-> {}]
  /\ writers = [k \in Keys |-> {}]
  /\ predecessors = Nil
  /\ barriers = Nil
  /\ estimates = [t \in Txns |-> {}]
  /\ ended = FALSE

(* ExecuteBlock resolves both plans; runtime information needs no scan.    *)
Resolve ==
  /\ phase = "resolve"
  /\ phase' = CASE ~ DependencyAccepted(config) \/ ~ KernelAccepted(config, Plan) -> "rejected"
                [] DependencyAccepted(config) /\ KernelAccepted(config, Plan) ->
                     IF ended THEN "cancelled"
                     ELSE IF Plan.source = "runtime_observed" THEN "ready" ELSE "scan"
  /\ UNCHANGED <<config, block, next, accessVars, indexVars, artifactVars, estimates, ended>>

\* The loops look at the context at every 256th transaction only.
CheckPeriod == 256

Interrupted(t) == t % CheckPeriod = 0 /\ ended

\* The scan also does at the first instruction of every program.
ScanInterrupted(t) == (t % CheckPeriod = 0 \/ block[t] # {}) /\ ended

Named(program, ops) == {k \in Keys : \E op \in ops : <<op, k>> \in program}

(* analyzeStaticPrograms.                                                  *)
Scan ==
  /\ phase = "scan" /\ next < BlockSize
  /\ ~ ScanInterrupted(next)
  /\ reads' = [reads EXCEPT ![next] = Named(block[next], {"read"})]
  /\ writes' = [writes EXCEPT ![next] = Named(block[next], {"write", "delete"})]
  /\ next' = next + 1
  /\ UNCHANGED <<config, block, phase, indexVars, artifactVars, estimates, ended>>

(* buildDependencyRepresentation allocates what the plan asks for.         *)
ByPredecessors == Plan.representation \in {"raw_last_writer", "full_conflict_graph"}

Scanned ==
  /\ phase = "scan" /\ next = BlockSize
  /\ phase' = "build"
  /\ next' = IF Plan.representation = "version_only" THEN BlockSize ELSE 0
  /\ predecessors' = IF ByPredecessors THEN [t \in Txns |-> {}] ELSE Nil
  /\ barriers' = IF Plan.representation = "max_raw_predecessor" THEN [t \in Txns |-> -1] ELSE Nil
  /\ UNCHANGED <<config, block, accessVars, indexVars, estimates, ended>>

----------------------------------------------------------------------------
(* The builders, one pass for transaction t.                               *)

LastWriters(t) == {lastWriter[k] : k \in reads[t]} \ {-1}

\* Mutant: keeps the first writer of a key.
RecordFirstWriter(t) ==
  lastWriter' = [k \in Keys |-> IF k \in writes[t] /\ lastWriter[k] = -1 THEN t ELSE lastWriter[k]]

RecordWriter(t) == lastWriter' = [k \in Keys |-> IF k \in writes[t] THEN t ELSE lastWriter[k]]

BuildRAW(t) ==
  /\ Plan.representation = "raw_last_writer"
  /\ predecessors' = [predecessors EXCEPT ![t] = LastWriters(t)]
  /\ RecordWriter(t)
  /\ UNCHANGED <<barriers, readers, writers>>

BuildSummary(t) ==
  /\ Plan.representation = "max_raw_predecessor"
  /\ barriers' = [barriers EXCEPT ![t] = Max({-1} \cup LastWriters(t))]
  /\ RecordWriter(t)
  /\ UNCHANGED <<predecessors, readers, writers>>

\* Mutant: leaves the earlier readers of a written key out.
SeenWithoutReaders(t) ==
  UNION ({writers[k] : k \in reads[t]} \cup {writers[k] : k \in writes[t]})

\* What the indexed builder finds under the keys of t.
Seen(t) ==
  UNION ({writers[k] : k \in reads[t]} \cup {readers[k] \cup writers[k] : k \in writes[t]})

BuildIndexed(t) ==
  /\ Plan.representation = "full_conflict_graph" /\ Plan.builder = "indexed_by_key"
  /\ predecessors' = [predecessors EXCEPT ![t] = Seen(t)]
  /\ readers' = [k \in Keys |-> IF k \in reads[t] THEN readers[k] \cup {t} ELSE readers[k]]
  /\ writers' = [k \in Keys |-> IF k \in writes[t] THEN writers[k] \cup {t} ELSE writers[k]]
  /\ UNCHANGED <<barriers, lastWriter>>

Conflict(e, t) ==
  \/ writes[e] \cap reads[t] # {}
  \/ writes[e] \cap writes[t] # {}
  \/ reads[e] \cap writes[t] # {}

BuildQuadratic(t) ==
  /\ Plan.representation = "full_conflict_graph" /\ Plan.builder = "quadratic_reference"
  /\ predecessors' = [predecessors EXCEPT ![t] = {e \in 0 .. t - 1 : Conflict(e, t)}]
  /\ UNCHANGED <<barriers, indexVars>>

\* The quadratic builder looks at the context in its inner loop.
BuildInterrupted(t) ==
  IF Plan.builder = "quadratic_reference" THEN t > 0 /\ ended ELSE Interrupted(t)

Build ==
  /\ phase = "build" /\ next < BlockSize
  /\ ~ BuildInterrupted(next)
  /\ BuildRAW(next) \/ BuildSummary(next) \/ BuildIndexed(next) \/ BuildQuadratic(next)
  /\ next' = next + 1
  /\ UNCHANGED <<config, block, phase, accessVars, estimates, ended>>

(* buildWriteEstimates, and the end of prepareDependency.                  *)
Prepared ==
  /\ phase = "build" /\ next = BlockSize
  /\ IF Plan.injection = "write_estimates"
       THEN IF ended /\ BlockSize > 0
              THEN phase' = "cancelled" /\ UNCHANGED estimates
              ELSE phase' = "ready" /\ estimates' = writes
       ELSE phase' = "ready" /\ UNCHANGED estimates
  /\ UNCHANGED <<config, block, next, accessVars, indexVars, artifactVars, ended>>

Interrupt ==
  /\ next < BlockSize
  /\ \/ phase = "scan" /\ ScanInterrupted(next)
     \/ phase = "build" /\ BuildInterrupted(next)
  /\ phase' = "cancelled"
  /\ UNCHANGED <<config, block, next, accessVars, indexVars, artifactVars, estimates, ended>>

\* The caller ends the context.
EndContext ==
  /\ ~ ended
  /\ ended' = TRUE
  /\ UNCHANGED <<config, block, phase, next, accessVars, indexVars, artifactVars, estimates>>

Settled ==
  /\ phase \in {"ready", "rejected", "cancelled"}
  /\ UNCHANGED prepVars

PrepNext == Resolve \/ Scan \/ Scanned \/ Build \/ Prepared \/ Interrupt \/ EndContext \/ Settled

PrepSpec == PrepInit /\ [][PrepNext]_prepVars

----------------------------------------------------------------------------
(* The KernelPolicy that prepareDependency fills in.                       *)
Policy ==
  LET queued == Plan.wait # "none" /\ Kernel.dispatch = "ready_queue"
      frontier == Plan.wait = "contiguous_frontier_wait"
  IN [estimateRead |-> Kernel.estimateRead,
      idleWait |-> Kernel.idleWait,
      dispatch |-> IF queued THEN "ready_queue" ELSE "",
      predecessors |-> IF queued /\ ~ frontier THEN predecessors ELSE Nil,
      barriers |-> IF queued /\ frontier THEN barriers ELSE Nil]

----------------------------------------------------------------------------
(* Properties                                                              *)

(* The engine and the kernel check the controls separately.  Whatever the  *)
(* engine accepts the kernel accepts too, and it then runs the policies    *)
(* that the plan reports, which records and comparisons rely on ("every    *)
(* run record names the behaviour that actually executed").                *)
RunsAsReported ==
  phase = "ready" =>
    /\ PolicyAccepted(Policy, Txns)
    /\ LET n == Normalize(Policy)
       IN /\ n.estimateRead = Kernel.estimateRead
          /\ n.idleWait = Kernel.idleWait
          /\ n.dispatch = Kernel.dispatch

\* The program of t names k in one of the operations.
Touches(t, ops, k) == \E op \in ops : <<op, k>> \in block[t]

\* The last transaction before t whose program may write k, -1 for none.
Provider(t, k) == Max({-1} \cup {e \in 0 .. t - 1 : Touches(e, {"write", "delete"}, k)})

\* The transactions below t whose programs do not commute with that of t.
Conflicting(t) ==
  {e \in 0 .. t - 1 : \E k \in Keys :
     \/ Touches(e, {"write", "delete"}, k) /\ Touches(t, {"read", "write", "delete"}, k)
     \/ Touches(e, {"read"}, k) /\ Touches(t, {"write", "delete"}, k)}

\* The keys that the program of t may read.
MayRead(t) == {k \in Keys : Touches(t, {"read"}, k)}

\* The passes over the transactions that the builder has made.
Built == IF phase = "build" THEN 0 .. next - 1 ELSE IF phase = "ready" THEN Txns ELSE {}

(* Every builder computes its relation, whatever order keys are written    *)
(* and read in: the direct providers, the greatest of them, and all        *)
(* conflicts; the indexed builder is "correctness-equivalent" to the       *)
(* quadratic reference.                                                    *)
GraphExact ==
  \A t \in Built :
    LET direct == {Provider(t, k) : k \in MayRead(t)} \ {-1}
    IN /\ Plan.representation = "raw_last_writer" => predecessors[t] = direct
       /\ Plan.representation = "max_raw_predecessor" => barriers[t] = Max({-1} \cup direct)
       /\ Plan.representation = "full_conflict_graph" => predecessors[t] = Conflicting(t)

(* A plan that waits covers its reads: once the gate lets a transaction    *)
(* go, every key its program names was written by the last transaction     *)
(* below it that may write it, or by none; and nothing waits upwards.  An  *)
(* interrupted preparation never reaches the kernel with less.             *)
WaitCoversReads ==
  phase = "ready" /\ Plan.wait # "none" =>
    \A t \in Txns :
      LET obstacles == IF Plan.wait = "contiguous_frontier_wait" THEN 0 .. barriers[t] ELSE predecessors[t]
      IN /\ \A k \in MayRead(t) : Provider(t, k) \in obstacles \cup {-1}
         /\ obstacles \subseteq 0 .. t - 1
=============================================================================
