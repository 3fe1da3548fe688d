----------------------------- MODULE MCIterator -----------------------------
(* Three keys, each with any entry of a lower transaction.                 *)
EXTENDS MVIterator

Kinds == {"value", "deleted", "estimate"}

AnyEntry == {Absent} \cup {[kind |-> k, version |-> 1] : k \in Kinds}
SettledEntry == {Absent} \cup {[kind |-> k, version |-> 1] : k \in Kinds \ {"estimate"}}
=============================================================================
