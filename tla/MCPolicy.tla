------------------------------ MODULE MCPolicy ------------------------------
(* Small blocks for the kernel under explicit policies.                    *)
EXTENDS PolicyScheduler

Storage0 == [k \in Keys |-> 0]
NoPredecessors == [t \in Txns |-> {}]
NoBarriers == [t \in Txns |-> -1]

\* Transaction 0 writes a, transaction 1 copies it to b, transaction 2 changes b.
\* Nothing tells of the write of a, so transaction 1 may run twice; that of b is
\* estimated, and the gate makes transaction 2 wait for transaction 1.
CopyRead(t, vals) ==
  IF Len(vals) > 0 THEN NoKey ELSE CASE t = 0 -> NoKey [] t = 1 -> "a" [] t = 2 -> "b"
CopyWrite(t, vals) ==
  CASE t = 0 -> "a" :> 1 [] t = 1 -> "b" :> vals[1] + 1 [] t = 2 -> "b" :> vals[1] + 5
CopyEstimates == 0 :> {} @@ 1 :> {"b"} @@ 2 :> {}
CopyPredecessors == 0 :> {} @@ 1 :> {} @@ 2 :> {1}
CopyBarriers == 0 :> -1 @@ 1 :> -1 @@ 2 :> 1

\* The default of the engine for a plan with a wait consumer, and another one.
CopyPolicies ==
  {[estimateRead |-> "abort_and_reschedule", idleWait |-> "park", gate |-> "predecessors",
    predecessors |-> CopyPredecessors, barriers |-> NoBarriers],
   [estimateRead |-> "suspend_in_place", idleWait |-> "park", gate |-> "barriers",
    predecessors |-> NoPredecessors, barriers |-> CopyBarriers]}

\* What the engine derives in the declared_dag mode for: transaction 0 writes x;
\* 1 reads x and writes k; 2 has a branch that would write k and does not take it;
\* 3 reads x and k; 4 reads k.  A predecessor is the last static writer of a key.
SkipRead(t, vals) ==
  CASE t \in {1, 3} /\ Len(vals) = 0 -> "x"
    [] t = 3 /\ Len(vals) = 1 -> "k"
    [] t = 4 /\ Len(vals) = 0 -> "k"
    [] OTHER -> NoKey
SkipWrite(t, vals) == CASE t = 0 -> "x" :> 1 [] t = 1 -> "k" :> 1 [] OTHER -> <<>>
SkipEstimates == 0 :> {"x"} @@ 1 :> {"k"} @@ 2 :> {"k"} @@ 3 :> {} @@ 4 :> {}
SkipPredecessors == 0 :> {} @@ 1 :> {0} @@ 2 :> {} @@ 3 :> {0, 2} @@ 4 :> {2}
SkipPolicies ==
  {[estimateRead |-> "suspend_in_place", idleWait |-> "park", gate |-> "predecessors",
    predecessors |-> SkipPredecessors, barriers |-> NoBarriers]}

WorkerSymmetry == Permutations(Workers)

\* The block is not cancelled.
SpecRunsOn == PolInit /\ [][PolNext /\ ~ cancelled']_<<vars, polVars>>
=============================================================================
