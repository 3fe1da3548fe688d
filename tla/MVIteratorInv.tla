---------------------------- MODULE MVIteratorInv ----------------------------
(***************************************************************************)
(* The inductive invariant of a range read: what the three iterators have  *)
(* left behind is what the caller has seen, as far as the recorded reads   *)
(* can tell.                                                               *)
(***************************************************************************)
EXTENDS MVIterator

Kinds == {"absent", "value", "deleted", "estimate"}
Own == {k \in Keys : writeSet[k] # "none"}

\* The descriptor has key k, with version v; the caller has seen key k with value v.
Recorded(k) == \E i \in DOMAIN reads : reads[i][1] = k
RecordedAs(k, v) == \E i \in DOMAIN reads : reads[i] = <<k, v>>
Sees(k, v) == \E i \in DOMAIN observed : observed[i] = <<k, v>>
Ordered(q) == \A i, j \in DOMAIN q : i < j => Beyond(q[j][1], q[i][1])

\* The inner merge, and all three iterators, have left key k behind.
Gone(k) == \A j \in prem \cup mrem : Beyond(j, k)
Passed(k) == Gone(k) /\ \A j \in wrem : Beyond(j, k)

\* The caller stands at key k, or has left it behind.
Arrived(k) == phase = "at" /\ Valid /\ k = Current[1]
Settled(k) == Passed(k) \/ Arrived(k)

\* The multi-version iterator has cached the entry it is at.
Resolved == phase \in {"inner", "outer", "at"}

\* The entry is the one that was read as version v, a value or a deletion.
Still(k, kind, v) == entry[k].kind = kind /\ entry[k].version = v

\* The caller has seen what key k holds, unless its entry is not the recorded one any more.
Faithful(k) ==
  /\ writeSet[k] = "set" => \A v : Sees(k, v) <=> v = "own"
  /\ writeSet[k] = "deleted" => \A v : ~ Sees(k, v)
  /\ writeSet[k] = "none" /\ ~ Recorded(k) => \A v : Sees(k, v) <=> k \in storage /\ v = 0
  /\ writeSet[k] = "none" => \A x \in Nat :
       /\ RecordedAs(k, x) /\ Still(k, "value", x) => \A v : Sees(k, v) <=> v = x
       /\ RecordedAs(k, x) /\ Still(k, "deleted", x) => \A v : ~ Sees(k, v)

\* The inner merge had nothing to deliver for key k.
Dead(k) ==
  /\ ~ Recorded(k) => k \notin storage
  /\ \A x \in Nat : RecordedAs(k, x) => ~ Still(k, "value", x)

Nobody(k) == \A v : ~ Sees(k, v)

----------------------------------------------------------------------------
IterTypeOK ==
  /\ ascending \in BOOLEAN /\ storage \subseteq Keys
  /\ writeSet \in [Keys -> {"none", "set", "deleted"}]
  /\ entry \in [Keys -> Entries] /\ changes \in Nat
  /\ phase \in {"closed", "resolve", "inner", "outer", "at", "done"}
  /\ prem \subseteq storage /\ mrem \subseteq Keys /\ wrem \subseteq Own
  /\ reads \in Seq(Keys \X Nat) /\ observed \in Seq(Keys \X (Nat \cup {"own"}))
  /\ stop \in 0 .. NKeys

\* Reads and observations come in order, and no recorded version is yet to be written.
RecordInv ==
  /\ Ordered(reads) /\ Ordered(observed)
  /\ \A k \in Keys : \A x \in Nat : RecordedAs(k, x) => x <= entry[k].version
  /\ \A k \in Keys : entry[k].version = 0 => entry[k].kind = "absent"

\* Where the three iterators are.
CursorInv ==
  /\ \A k \in storage \ prem : Gone(k)
  /\ \A k \in Own \ wrem : Passed(k)
  /\ \A k \in Keys : Recorded(k) => Gone(k) \/ (Resolved /\ k \in mrem /\ k = First(mrem))
  /\ phase \in {"outer", "at"} => ~ InnerSkips
  /\ phase = "at" => ~ OuterSkips

\* The cached entry is the last one recorded.
ItemInv ==
  Resolved /\ mrem # {} =>
    /\ Len(reads) > 0 /\ reads[Len(reads)] = <<First(mrem), item.version>>
    /\ item.kind \in {"value", "deleted"}
    /\ \A kind \in {"value", "deleted"} : Still(First(mrem), kind, item.version) => kind = item.kind

\* What the caller has seen while the iterator is open.
ViewInv ==
  \A k \in Keys :
    /\ Settled(k) => Faithful(k)
    /\ ~ Settled(k) => Nobody(k)
    /\ Gone(k) /\ ~ Settled(k) /\ writeSet[k] = "none" => Dead(k)

OpenInv == CursorInv /\ ItemInv /\ ViewInv

ClosedInv == \A k \in Keys : (Within(k) => Faithful(k)) /\ (~ Within(k) => Nobody(k))

(* As long as nothing has changed the reads are what the memory holds, and *)
(* nothing that is present has been missed.                                *)
QuietInv ==
  changes = 0 =>
    /\ \A k \in Keys : \A x \in Nat : RecordedAs(k, x) => Still(k, "value", x) \/ Still(k, "deleted", x)
    /\ phase \notin {"closed", "done"} => \A k \in Present : k \in mrem \/ Recorded(k)
    /\ phase = "done" /\ Own = {} => \A k \in Keys :
         (k \in Present /\ Within(k) => Recorded(k)) /\ (Recorded(k) => Within(k))

IterInv ==
  /\ IterTypeOK /\ RecordInv /\ QuietInv
  /\ phase = "closed" => reads = <<>> /\ observed = <<>>
  /\ phase # "done" => stop = 0
  /\ phase \notin {"closed", "done"} => OpenInv
  /\ phase = "done" => ClosedInv
=============================================================================
