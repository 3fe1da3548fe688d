------------------------------- MODULE MVData -------------------------------
(***************************************************************************)
(* Multi-version data (src/mvdata.go).  The versions of one key are a      *)
(* function from the transactions that have an entry to the entries: the   *)
(* inner B-tree, ordered by transaction index.  Every operation loads or   *)
(* replaces the root of a copy-on-write tree and is atomic (src/btree.go). *)
(***************************************************************************)
EXTENDS Integers, FiniteSetsExt

CONSTANT Nil   \* no value: deleted, or absent from storage

InvalidVersion == [index |-> -1, incarnation |-> 0]

Entry(i, v, e) == [incarnation |-> i, value |-> v, estimate |-> e]

\* The versions of one key with transaction t's entry set or removed.
SetEntry(versions, t, entry) ==
  [u \in DOMAIN versions \cup {t} |-> IF u = t THEN entry ELSE versions[u]]

DeleteEntry(versions, t) == [u \in DOMAIN versions \ {t} |-> versions[u]]

Write(versions, value, t, i) == SetEntry(versions, t, Entry(i, value, FALSE))
WriteEstimate(versions, t) == SetEntry(versions, t, Entry(0, Nil, TRUE))

Lower(versions, t) == {u \in DOMAIN versions : u < t}

\* seekClosestTxn: the entry of the closest transaction below t, if any.
Read(versions, t) ==
  IF Lower(versions, t) = {}
    THEN [value |-> Nil, version |-> InvalidVersion, estimate |-> FALSE]
    ELSE LET u == Max(Lower(versions, t))
         IN [value |-> versions[u].value,
             version |-> [index |-> u, incarnation |-> versions[u].incarnation],
             estimate |-> versions[u].estimate]

\* Mutant: the incarnation is not compared.
SameWriter(versions, t, version) ==
  LET r == Read(versions, t) IN ~ r.estimate /\ r.version.index = version.index

\* ValidateReadSet, for one read descriptor.
StillReads(versions, t, version) ==
  LET r == Read(versions, t) IN ~ r.estimate /\ r.version = version

\* SnapshotTo and SnapshotToStore, for one key: the highest entry goes to the
\* storage (nil deletes the key there), an estimate or no entry leaves it alone.
SnapshotKey(versions, stored) ==
  IF DOMAIN versions = {} THEN stored
  ELSE LET top == versions[Max(DOMAIN versions)]
       IN IF top.estimate THEN stored ELSE top.value
=============================================================================
