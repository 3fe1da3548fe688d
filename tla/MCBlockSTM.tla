----------------------------- MODULE MCBlockSTM -----------------------------
(* Small blocks for the frozen kernel.                                     *)
EXTENDS BlockSTMInv, TLC

Storage0 == [k \in Keys |-> 0]

\* Transaction 0 increments a.  Transaction 1 read a too early when it reads 0: it
\* then writes b and c, otherwise another b and a deletion of a, so that its
\* incarnations add, rewrite and give up locations.  Transaction 2 reads b, then a
\* if b was written, and writes c.
BranchRead(t, vals) ==
  CASE t < 2 /\ Len(vals) = 0 -> "a"
    [] t = 2 /\ Len(vals) = 0 -> "b"
    [] t = 2 /\ Len(vals) = 1 /\ vals[1] # 0 -> "a"
    [] OTHER -> NoKey

BranchWrite(t, vals) ==
  CASE t = 0 -> "a" :> vals[1] + 1
    [] t = 1 -> IF vals[1] = 0 THEN "b" :> 5 @@ "c" :> 5 ELSE "b" :> 6 @@ "a" :> Nil
    [] t = 2 -> "c" :> vals[1] + Len(vals)

\* The estimates know the write of b and claim one of c that transaction 0 never makes.
BranchEstimates == 0 :> {"c"} @@ 1 :> {"b"} @@ 2 :> {}
=============================================================================
