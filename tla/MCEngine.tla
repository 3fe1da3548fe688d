------------------------------ MODULE MCEngine ------------------------------
(* A small block for the Block-STM engine.                                 *)
EXTENDS EngineBlock

Storage0 == [k \in Keys |-> 0]

\* Transaction 0 writes a and b, and a is announced: transaction 1, which reads a, meets
\* the estimate and is abandoned.  Transaction 2 waits for both at the gate, and with it
\* for an attempt of transaction 1 that comes after an abandoned one.  The gate is opened
\* before the writes are in the memory: the reader of b misses it and is executed again.
PairRead(t, vals) ==
  CASE t = 1 /\ Len(vals) = 0 -> "a"
    [] t = 2 /\ Len(vals) = 0 -> "b"
    [] OTHER -> NoKey
PairWrite(t, vals) == IF t = 0 THEN "a" :> 1 @@ "b" :> 2 ELSE <<>>
PairEstimates == 0 :> {"a"} @@ 1 :> {} @@ 2 :> {}

\* index_order dispatch with a gate in the callback.
EnginePolicies ==
  {[estimateRead |-> "abort_and_reschedule", idleWait |-> "gosched", gate |-> "index_order",
    predecessors |-> 0 :> {} @@ 1 :> {} @@ 2 :> {0, 1},
    barriers |-> 0 :> -1 @@ 1 :> -1 @@ 2 :> 1]}
=============================================================================
