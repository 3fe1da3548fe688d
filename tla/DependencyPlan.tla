--------------------------- MODULE DependencyPlan ---------------------------
(***************************************************************************)
(* How the engine resolves the controls of a run into a plan               *)
(* (src/internal/engine/engine.go) and what the kernel accepts             *)
(* (KernelPolicy.Normalize and validateGate in src/execpolicy.go).  A      *)
(* control that the configuration omits is "".                             *)
(***************************************************************************)
EXTENDS Integers

CONSTANT Nil   \* a slice that was not built

Modes == {"mvcc_runtime", "declared_dag", "summary", "full_graph"}
Sources == {"runtime_observed", "static_program"}
Representations == {"version_only", "raw_last_writer", "max_raw_predecessor", "full_conflict_graph"}
Builders == {"none", "indexed_by_key", "quadratic_reference"}
WaitPolicies ==
  {"none", "direct_predecessor_wait", "contiguous_frontier_wait", "all_predecessors_wait"}
Injections == {"disabled", "write_estimates"}
EstimateReads == {"suspend_in_place", "abort_and_reschedule", "suspend_yield_worker"}
IdleWaits == {"gosched", "park"}
Dispatches == {"index_order", "ready_queue"}

OrDefault(value, default) == IF value = "" THEN default ELSE value

LegacyRepresentation(mode) ==
  CASE mode = "declared_dag" -> "raw_last_writer"
    [] mode = "summary" -> "max_raw_predecessor"
    [] mode = "full_graph" -> "full_conflict_graph"
    [] OTHER -> "version_only"

LegacyWait(mode) ==
  CASE mode = "declared_dag" -> "direct_predecessor_wait"
    [] mode = "summary" -> "contiguous_frontier_wait"
    [] mode = "full_graph" -> "all_predecessors_wait"
    [] OTHER -> "none"

LegacyInjection(mode) == IF mode = "mvcc_runtime" THEN "disabled" ELSE "write_estimates"

DefaultBuilder(representation) ==
  CASE representation = "version_only" -> "none"
    [] representation = "full_conflict_graph" -> "quadratic_reference"
    [] OTHER -> "indexed_by_key"

\* validateRepresentationBuilder
BuilderFits(representation, builder) ==
  builder \in CASE representation = "version_only" -> {"none"}
                [] representation = "full_conflict_graph" -> {"indexed_by_key", "quadratic_reference"}
                [] OTHER -> {"indexed_by_key"}

\* The representation that a wait policy reads.
Wanted(wait) ==
  CASE wait = "direct_predecessor_wait" -> "raw_last_writer"
    [] wait = "contiguous_frontier_wait" -> "max_raw_predecessor"
    [] wait = "all_predecessors_wait" -> "full_conflict_graph"

\* validateDependencyConsumers
ConsumersFit(p) ==
  /\ p.source = "runtime_observed" => p.wait = "none" /\ p.injection = "disabled"
  /\ p.wait # "none" => p.representation = Wanted(p.wait)

(* EffectiveDependencyControl: the plan for a configuration, and whether   *)
(* it is returned or an error.                                             *)
Resolved(c) ==
  LET mode == OrDefault(c.mode, "mvcc_runtime")
      representation == OrDefault(c.representation, LegacyRepresentation(mode))
  IN [mode |-> mode,
      source |-> OrDefault(c.source, "runtime_observed"),
      representation |-> representation,
      builder |-> OrDefault(c.builder, DefaultBuilder(representation)),
      wait |-> OrDefault(c.wait, LegacyWait(mode)),
      injection |-> OrDefault(c.injection, LegacyInjection(mode))]

DependencyAccepted(c) ==
  LET p == Resolved(c)
  IN /\ p.mode \in Modes /\ p.source \in Sources
     /\ p.representation \in Representations /\ p.builder \in Builders
     /\ p.wait \in WaitPolicies /\ p.injection \in Injections
     /\ BuilderFits(p.representation, p.builder)
     /\ p.source = "runtime_observed" => p.representation = "version_only"
     /\ ConsumersFit(p)
     /\ p.mode # "mvcc_runtime" =>
          /\ c.source = "static_program"
          /\ p.representation = LegacyRepresentation(p.mode)
          /\ p.wait = LegacyWait(p.mode) /\ p.injection = LegacyInjection(p.mode)

(* EffectiveKernelControl, for a configuration and the plan resolved       *)
(* before.                                                                 *)
KernelPlan(c, p) ==
  [estimateRead |-> OrDefault(c.estimateRead, "abort_and_reschedule"),
   idleWait |-> OrDefault(c.idleWait, "park"),
   dispatch |-> OrDefault(c.dispatch, IF p.wait = "none" THEN "index_order" ELSE "ready_queue")]

\* Mutant: a ready queue with nothing to wait for is accepted.
KernelAcceptedLoosely(c, p) ==
  LET k == KernelPlan(c, p)
  IN /\ k.estimateRead \in EstimateReads /\ k.idleWait \in IdleWaits /\ k.dispatch \in Dispatches
     /\ k.estimateRead = "suspend_yield_worker" => k.idleWait = "park"

KernelAccepted(c, p) ==
  LET k == KernelPlan(c, p)
  IN /\ k.estimateRead \in EstimateReads /\ k.idleWait \in IdleWaits /\ k.dispatch \in Dispatches
     /\ k.dispatch = "ready_queue" => p.wait # "none"
     /\ k.estimateRead = "suspend_yield_worker" => k.idleWait = "park"

----------------------------------------------------------------------------
(* KernelPolicy.Normalize, on the policy that the kernel is called with,   *)
(* and validateGate.                                                       *)
Normalize(policy) ==
  LET read == OrDefault(policy.estimateRead, "suspend_in_place")
  IN [policy EXCEPT
        !.estimateRead = read,
        !.idleWait = OrDefault(@, IF read = "suspend_yield_worker" THEN "park" ELSE "gosched"),
        !.dispatch = OrDefault(@, "index_order")]

PolicyAccepted(policy, txns) ==
  LET n == Normalize(policy)
  IN /\ n.estimateRead \in EstimateReads /\ n.idleWait \in IdleWaits
     /\ n.estimateRead = "suspend_yield_worker" => n.idleWait = "park"
     /\ \/ n.dispatch = "index_order" /\ n.predecessors = Nil /\ n.barriers = Nil
        \/ /\ n.dispatch = "ready_queue"
           /\ (n.predecessors = Nil) # (n.barriers = Nil)
           /\ n.predecessors # Nil => \A t \in txns : n.predecessors[t] \subseteq 0 .. t - 1
           /\ n.barriers # Nil => \A t \in txns : n.barriers[t] < t
=============================================================================
