----------------------------- MODULE MCAdmission -----------------------------
(* Small blocks for the admission-limited kernel.                          *)
EXTENDS Admission, TLC

Storage0 == [k \in Keys |-> 0]
NoEstimates == [t \in Txns |-> {}]

\* Transaction 0 writes x.  Transaction 1 writes k.  Transaction 2 reads k and writes
\* nothing.  The others do nothing.
ReaderRead(t, vals) == IF t = 2 /\ Len(vals) = 0 THEN "k" ELSE NoKey
ReaderWrite(t, vals) == CASE t = 0 -> "x" :> 1 [] t = 1 -> "k" :> 1 [] OTHER -> <<>>

\* Transaction 0 writes a, transaction 1 increments it, transaction 2 only reads it.
HotRead(t, vals) == IF t > 0 /\ Len(vals) = 0 THEN "a" ELSE NoKey
HotWrite(t, vals) ==
  CASE t = 0 -> "a" :> 1 [] t = 1 -> "a" :> vals[1] + 1 [] OTHER -> <<>>

WorkerSymmetry == Permutations(Workers)

\* The block is not cancelled.
SpecRunsOn == AdmInit /\ [][AdmNext /\ ~ cancelled']_<<vars, admVars>>
=============================================================================
