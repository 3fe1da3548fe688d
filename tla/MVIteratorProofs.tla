--------------------------- MODULE MVIteratorProofs ---------------------------
(***************************************************************************)
(* Proofs about range reads, for every range of keys, every state of the   *)
(* memory and every sequence of changes that lower transactions make to it *)
(* while the iterator is open and after it is closed.                      *)
(***************************************************************************)
EXTENDS MVIteratorInv, WellFoundedInduction, SequenceTheorems, TLAPS

(***************************************************************************)
(* The order of the iteration                                              *)
(***************************************************************************)
(* Beyond is a strict order of the keys, in both directions.               *)
LEMMA Order ==
  ASSUME NEW a \in Int, NEW b \in Int, NEW c \in Int
  PROVE  /\ ~ Beyond(a, a)
         /\ Beyond(a, b) => ~ Beyond(b, a) /\ a # b
         /\ a # b => Beyond(a, b) \/ Beyond(b, a)
         /\ Beyond(a, b) /\ Beyond(b, c) => Beyond(a, c)
BY DEF Beyond

LEMMA KeyTypes == Keys \subseteq Nat /\ Keys \subseteq Int /\ NKeys \in Nat /\ 0 \notin Keys
BY IteratorAssumption DEF Keys

(* A set of natural numbers that is not empty has a least element.         *)
LEMMA LeastExists ==
  ASSUME NEW T \in SUBSET Nat, T # {}
  PROVE  \E m \in T : \A y \in T : m <= y
<1>1. PICK m \in T : \A y \in T : ~ (<<y, m>> \in OpToRel(<, Nat))
  BY NatLessThanWellFounded, WFMin
<1>2. \A y \in T : ~ (y < m)
  BY <1>1 DEF OpToRel
<1> QED BY <1>2

(* An iterator that is not exhausted is at the first key it has left.      *)
LEMMA FirstIsFirst ==
  ASSUME NEW S \in SUBSET Keys, S # {}
  PROVE  /\ First(S) \in S
         /\ \A j \in S : j = First(S) \/ Beyond(j, First(S))
<1>1. \E k \in S : \A j \in S : ~ Beyond(k, j)
  <2>1. CASE ascending
    <3>1. PICK m \in S : \A y \in S : m <= y BY KeyTypes, LeastExists
    <3>2. \A y \in S : ~ (m > y) BY <3>1, KeyTypes
    <3> QED BY <2>1, <3>2 DEF Beyond
  <2>2. CASE ~ ascending
    <3> DEFINE T == {NKeys - k : k \in S}
    <3>0. \A k \in S : k \in Int /\ NKeys - k \in Nat BY KeyTypes DEF Keys
    <3>1. T \in SUBSET Nat /\ T # {} BY <3>0
    <3>2. PICK m \in T : \A y \in T : m <= y BY <3>1, LeastExists
    <3>3. PICK k \in S : m = NKeys - k BY <3>2
    <3>4. ASSUME NEW y \in S PROVE ~ (k < y)
      <4>1. NKeys - k <= NKeys - y BY <3>2, <3>3
      <4> QED BY <3>0, <4>1, KeyTypes
    <3> QED BY <2>2, <3>4 DEF Beyond
  <2> QED BY <2>1, <2>2
<1>2. First(S) \in S /\ \A j \in S : ~ Beyond(First(S), j) BY <1>1 DEF First
<1>3. ASSUME NEW j \in S PROVE j = First(S) \/ Beyond(j, First(S))
  <2>1. j \in Int /\ First(S) \in Int BY <1>2, KeyTypes
  <2>2. ~ Beyond(First(S), j) BY <1>2
  <2> QED BY <2>1, <2>2, Order
<1> QED BY <1>2, <1>3

(* The first key is the only one that no other comes before.               *)
LEMMA FirstUnique ==
  ASSUME NEW S \in SUBSET Keys, NEW c \in S, \A j \in S : j = c \/ Beyond(j, c)
  PROVE  First(S) = c
<1>1. First(S) \in S /\ (c = First(S) \/ Beyond(c, First(S))) BY FirstIsFirst
<1>2. First(S) = c \/ Beyond(First(S), c) BY <1>1
<1>3. c \in Int /\ First(S) \in Int BY <1>1, KeyTypes
<1> QED BY <1>1, <1>2, <1>3, Order

(* The key of a merge is the first of both iterators.                      *)
LEMMA MergeFacts ==
  ASSUME NEW parent \in SUBSET Keys, NEW cache \in SUBSET Keys, parent \cup cache # {},
         NEW c, c = MergedKey(parent, cache)
  PROVE  /\ c \in parent \cup cache /\ c \in Keys
         /\ \A j \in parent \cup cache : j = c \/ Beyond(j, c)
         /\ Leads(cache, parent) => c = First(cache) /\ c \in cache
         /\ ~ Leads(cache, parent) => c = First(parent) /\ c \in parent /\ c \notin cache
         /\ c \in parent => c = First(parent)
         /\ Leads(cache, parent) => (Shadows(cache, parent) <=> c \in parent)
<1>1. cache # {} => /\ First(cache) \in cache /\ First(cache) \in Int
                    /\ \A j \in cache : j = First(cache) \/ Beyond(j, First(cache))
  BY FirstIsFirst, KeyTypes
<1>2. parent # {} => /\ First(parent) \in parent /\ First(parent) \in Int
                     /\ \A j \in parent : j = First(parent) \/ Beyond(j, First(parent))
  BY FirstIsFirst, KeyTypes
<1>3. \A j \in parent \cup cache : j \in Int BY KeyTypes
<1>4. CASE Leads(cache, parent)
  <2>1. c = First(cache) /\ cache # {} BY <1>4 DEF MergedKey, Leads
  <2>2. parent # {} => First(parent) = c \/ Beyond(First(parent), c)
    <3>1. parent # {} => ~ Beyond(c, First(parent)) BY <1>4, <2>1 DEF Leads
    <3> QED BY <1>1, <1>2, <2>1, <3>1, Order
  <2>3. \A j \in parent : j = c \/ Beyond(j, c)
    <3> SUFFICES ASSUME NEW j \in parent PROVE j = c \/ Beyond(j, c)
      OBVIOUS
    <3>1. j \in Int /\ c \in Int /\ First(parent) \in Int BY <1>1, <1>2, <1>3, <2>1
    <3>2. j = First(parent) \/ Beyond(j, First(parent)) BY <1>2
    <3>3. First(parent) = c \/ Beyond(First(parent), c) BY <2>2
    <3> QED BY <3>1, <3>2, <3>3, Order
  <2>4. \A j \in parent \cup cache : j = c \/ Beyond(j, c) BY <1>1, <2>1, <2>3
  <2>5. c \in parent => c = First(parent) BY <2>3, FirstUnique
  <2>6. Shadows(cache, parent) <=> c \in parent BY <1>2, <2>1, <2>5 DEF Shadows
  <2> QED BY <1>1, <1>4, <2>1, <2>4, <2>5, <2>6
<1>5. CASE ~ Leads(cache, parent)
  <2>1. c = First(parent) /\ parent # {} /\ (cache # {} => Beyond(First(cache), c))
    BY <1>5 DEF MergedKey, Leads
  <2>2. \A j \in cache : Beyond(j, c)
    <3> SUFFICES ASSUME NEW j \in cache PROVE Beyond(j, c)
      OBVIOUS
    <3>1. j \in Int /\ c \in Int /\ First(cache) \in Int BY <1>1, <1>2, <1>3, <2>1
    <3>2. j = First(cache) \/ Beyond(j, First(cache)) BY <1>1
    <3> QED BY <2>1, <3>1, <3>2, Order
  <2>3. c \notin cache
    <3>1. c \in Int BY <1>2, <2>1
    <3> QED BY <2>2, <3>1, Order
  <2> QED BY <1>2, <1>5, <2>1, <2>2, <2>3
<1> QED BY <1>4, <1>5

(***************************************************************************)
(* The three iterators                                                     *)
(***************************************************************************)
LEMMA CursorTypes ==
  ASSUME IterTypeOK
  PROVE  prem \in SUBSET Keys /\ mrem \in SUBSET Keys /\ wrem \in SUBSET Keys /\ Own \subseteq Keys
BY DEF IterTypeOK, Own

(* The inner merge advances the iterators that are at its key.             *)
LEMMA AdvanceFacts ==
  ASSUME IterTypeOK, prem \cup mrem # {}, AdvanceInner, NEW c, c = MergedKey(prem, mrem)
  PROVE  /\ prem' = prem \ {c} /\ mrem' = mrem \ {c}
         /\ c \in mrem => phase' = "resolve"
         /\ c \notin mrem => phase' = "inner"
<1>1. prem \in SUBSET Keys /\ mrem \in SUBSET Keys BY CursorTypes
<1>2. /\ Leads(mrem, prem) => c = First(mrem) /\ c \in mrem
      /\ ~ Leads(mrem, prem) => c = First(prem) /\ c \in prem /\ c \notin mrem
      /\ c \in prem => c = First(prem)
      /\ Leads(mrem, prem) => (Shadows(mrem, prem) <=> c \in prem)
  BY <1>1, MergeFacts
<1>3. CASE Leads(mrem, prem)
  <2>1. mrem' = mrem \ {c} /\ phase' = "resolve" BY <1>2, <1>3 DEF AdvanceInner, Rest
  <2>2. prem' = prem \ {c}
    <3>1. CASE Shadows(mrem, prem) BY <1>2, <1>3, <3>1 DEF AdvanceInner, Rest
    <3>2. CASE ~ Shadows(mrem, prem)
      <4>1. prem' = prem BY <1>3, <3>2 DEF AdvanceInner
      <4> QED BY <1>2, <1>3, <3>2, <4>1
    <3> QED BY <3>1, <3>2
  <2> QED BY <1>2, <1>3, <2>1, <2>2
<1>4. CASE ~ Leads(mrem, prem)
  <2>1. prem' = prem \ {c} /\ mrem' = mrem /\ phase' = "inner" BY <1>2, <1>4 DEF AdvanceInner, Rest
  <2> QED BY <1>2, <1>4, <2>1
<1> QED BY <1>3, <1>4

(* The key that the caller stands at is the first of all three iterators.  *)
LEMMA TopFacts ==
  ASSUME IterTypeOK, Valid, NEW c, c = Current[1]
  PROVE  /\ c \in prem \cup mrem \cup wrem /\ c \in Keys
         /\ \A j \in prem \cup mrem \cup wrem : j = c \/ Beyond(j, c)
         /\ Leads(wrem, Inner) => c = First(wrem) /\ c \in wrem /\ Current = <<c, "own">>
         /\ ~ Leads(wrem, Inner) => c = MergedKey(prem, mrem) /\ c \in prem \cup mrem /\ c \notin wrem
         /\ Leads(wrem, Inner) => (Shadows(wrem, Inner) <=> c \in prem \cup mrem)
         /\ c \in prem \cup mrem => c = MergedKey(prem, mrem)
<1> DEFINE S == prem \cup mrem
           d == MergedKey(prem, mrem)
<1>1. prem \in SUBSET Keys /\ mrem \in SUBSET Keys /\ wrem \in SUBSET Keys BY CursorTypes
<1>2. S # {} => /\ Inner = {d} /\ d \in S /\ d \in Keys /\ \A j \in S : j = d \/ Beyond(j, d)
  <2>1. S # {} => Inner = {d} BY DEF Inner
  <2> QED BY <1>1, <2>1, MergeFacts
<1>3. S = {} => Inner = {} BY DEF Inner
<1>4. Inner \in SUBSET Keys BY <1>2, <1>3
<1>5. Inner \cup wrem # {} BY DEF Valid
<1>6. c = MergedKey(Inner, wrem)
  <2>1. CASE Leads(wrem, Inner) BY <2>1 DEF Current, MergedKey
  <2>2. CASE ~ Leads(wrem, Inner)
    <3>1. Inner # {} BY <1>5, <2>2 DEF Leads
    <3>2. Inner = {d} BY <1>2, <1>3, <3>1
    <3>3. First(Inner) = d BY <1>2, <1>3, <1>4, <3>1, <3>2, FirstIsFirst
    <3>4. c = d BY <2>2 DEF Current, MergedKey
    <3> QED BY <2>2, <3>3, <3>4 DEF MergedKey
  <2> QED BY <2>1, <2>2
<1>7. /\ c \in Inner \cup wrem /\ c \in Keys
      /\ \A j \in Inner \cup wrem : j = c \/ Beyond(j, c)
      /\ Leads(wrem, Inner) => c = First(wrem) /\ c \in wrem
      /\ ~ Leads(wrem, Inner) => c = First(Inner) /\ c \in Inner /\ c \notin wrem
      /\ Leads(wrem, Inner) => (Shadows(wrem, Inner) <=> c \in Inner)
  BY <1>1, <1>4, <1>5, <1>6, MergeFacts
<1>8. \A j \in S : j = c \/ Beyond(j, c)
  <2> SUFFICES ASSUME NEW j \in S PROVE j = c \/ Beyond(j, c)
    OBVIOUS
  <2>1. d \in Inner /\ (j = d \/ Beyond(j, d)) BY <1>2
  <2>2. d = c \/ Beyond(d, c) BY <1>7, <2>1
  <2>3. j \in Int /\ d \in Int /\ c \in Int BY <1>1, <1>2, <1>7, KeyTypes
  <2> QED BY <2>1, <2>2, <2>3, Order
<1>9. c \in Inner => c \in S /\ c = d BY <1>2, <1>3
<1>10. c \in S => c = d
  <2> SUFFICES ASSUME c \in S PROVE c = d
    OBVIOUS
  <2>1. d \in S /\ (c = d \/ Beyond(c, d)) BY <1>2
  <2>2. d = c \/ Beyond(d, c) BY <1>8, <2>1
  <2>3. c \in Int /\ d \in Int BY <1>2, <1>7, KeyTypes
  <2> QED BY <2>1, <2>2, <2>3, Order
<1>11. c \in S => c \in Inner BY <1>2, <1>10
<1>12. Leads(wrem, Inner) => Current = <<c, "own">> BY <1>7 DEF Current
<1> QED BY <1>7, <1>8, <1>9, <1>10, <1>11, <1>12

(***************************************************************************)
(* What the caller has seen                                                *)
(***************************************************************************)
(* A key that the inner merge had nothing for, and that the caller has not *)
(* seen, is seen faithfully.                                               *)
LEMMA DeadFaithful ==
  ASSUME NEW k, writeSet[k] = "none", Dead(k), Nobody(k)
  PROVE  Faithful(k)
BY DEF Dead, Nobody, Faithful

(* A step of the iterators alone leaves all this as it is.                 *)
LEMMA SameView ==
  ASSUME NEW k, UNCHANGED <<data, memory, reads, observed>>
  PROVE  /\ Faithful(k)' <=> Faithful(k)
         /\ Dead(k)' <=> Dead(k)
         /\ Nobody(k)' <=> Nobody(k)
         /\ Recorded(k)' <=> Recorded(k)
<1>1. UNCHANGED <<ascending, storage, writeSet, entry, changes, reads, observed>> BY DEF data, memory
<1>2. \A v : Sees(k, v)' <=> Sees(k, v) BY <1>1 DEF Sees
<1>3. \A v : RecordedAs(k, v)' <=> RecordedAs(k, v) BY <1>1 DEF RecordedAs
<1>4. Recorded(k)' <=> Recorded(k) BY <1>1 DEF Recorded
<1>5. \A kind, v : Still(k, kind, v)' <=> Still(k, kind, v) BY <1>1 DEF Still
<1>6. Nobody(k)' <=> Nobody(k) BY <1>2 DEF Nobody
<1>7. Dead(k)' <=> Dead(k) BY <1>1, <1>3, <1>4, <1>5 DEF Dead
<1>8. Faithful(k)' <=> Faithful(k) BY <1>1, <1>2, <1>3, <1>4, <1>5, Zenon DEF Faithful
<1> QED BY <1>4, <1>6, <1>7, <1>8

(* Iterators that deliver a key leave no other key behind.                 *)
LEMMA GoneStays ==
  ASSUME UNCHANGED ascending, NEW k,
         prem' \subseteq prem, mrem' \subseteq mrem, wrem' \subseteq wrem
  PROVE  (Gone(k) => Gone(k)') /\ (Passed(k) => Passed(k)')
<1>1. \A j : Beyond(j, k)' <=> Beyond(j, k) BY DEF Beyond
<1>2. Gone(k) => Gone(k)' BY <1>1 DEF Gone
<1>3. (\A j \in wrem : Beyond(j, k)) => (\A j \in wrem : Beyond(j, k))' BY <1>1
<1> QED BY <1>2, <1>3 DEF Passed

(* What comes to lie behind the inner merge, besides the key it delivered, *)
(* is no key of the storage and was not recorded.                          *)
LEMMA NewlyGone ==
  ASSUME IterTypeOK, CursorInv, NEW c, NEW k \in Keys, UNCHANGED ascending,
         prem \ {c} \subseteq prem', mrem \ {c} \subseteq mrem', k # c, Gone(k)', ~ Gone(k)
  PROVE  Dead(k)
<1>1. k \in Int BY KeyTypes
<1>2. \A j : Beyond(j, k)' <=> Beyond(j, k) BY DEF Beyond
<1>3. ~ Beyond(k, k) BY <1>1, Order
<1>4. k \notin prem' \cup mrem' BY <1>2, <1>3 DEF Gone
<1>5. k \notin prem /\ k \notin mrem BY <1>4
<1>6. k \notin storage BY <1>5 DEF CursorInv
<1>7. ~ Recorded(k) BY <1>5 DEF CursorInv
<1>8. \A x : ~ RecordedAs(k, x) BY <1>7 DEF Recorded, RecordedAs
<1> QED BY <1>6, <1>8 DEF Dead

(* The iterators go on from key c.                                         *)
LEMMA AdvanceView ==
  ASSUME IterTypeOK, CursorInv, ViewInv, UNCHANGED <<data, memory, reads, observed>>,
         NEW c \in Keys,
         prem' \subseteq prem, prem \ {c} \subseteq prem',
         mrem' \subseteq mrem, mrem \ {c} \subseteq mrem',
         wrem' \subseteq wrem, wrem \ {c} \subseteq wrem', phase' # "at",
         Passed(c)' => Faithful(c),
         Gone(c)' /\ ~ Passed(c)' /\ writeSet[c] = "none" => Dead(c),
         \A k \in Keys : Arrived(k) => k = c /\ Passed(c)'
  PROVE  ViewInv'
<1>0. UNCHANGED <<ascending, storage, writeSet>> BY DEF data
<1>1. Keys' = Keys BY DEF Keys
<1> SUFFICES ASSUME NEW k \in Keys
             PROVE  /\ Passed(k)' => Faithful(k)
                    /\ ~ Passed(k)' => Nobody(k)
                    /\ Gone(k)' /\ ~ Passed(k)' /\ writeSet[k] = "none" => Dead(k)
  <2>1. \A k \in Keys : Settled(k)' <=> Passed(k)' BY DEF Settled, Arrived
  <2>2. \A k \in Keys : (Faithful(k)' <=> Faithful(k)) /\ (Dead(k)' <=> Dead(k)) /\ (Nobody(k)' <=> Nobody(k))
    BY SameView
  <2> QED BY <1>0, <1>1, <2>1, <2>2 DEF ViewInv
<1>2. (Gone(k) => Gone(k)') /\ (Passed(k) => Passed(k)') BY <1>0, GoneStays
<1>3. k # c /\ Gone(k)' /\ ~ Gone(k) => Dead(k) BY <1>0, NewlyGone
<1>4. ~ Settled(k) => Nobody(k) BY DEF ViewInv
<1>5. Gone(k) /\ ~ Settled(k) /\ writeSet[k] = "none" => Dead(k) BY DEF ViewInv
<1>6. Settled(k) => Faithful(k) BY DEF ViewInv
<1>7. ~ Passed(k)' => ~ Settled(k) BY <1>2 DEF Settled
<1>8. ASSUME Passed(k)', k # c PROVE Faithful(k)
  <2>1. CASE Settled(k) BY <1>6, <2>1
  <2>2. CASE ~ Settled(k)
    <3>1. Gone(k)' /\ k \notin wrem'
      <4>1. k \in Int BY KeyTypes
      <4>2. \A j \in wrem' : Beyond(j, k)' BY <1>8 DEF Passed
      <4>3. \A j : Beyond(j, k)' <=> Beyond(j, k) BY <1>0 DEF Beyond
      <4>4. ~ Beyond(k, k) BY <4>1, Order
      <4> QED BY <1>8, <4>2, <4>3, <4>4 DEF Passed
    <3>2. k \notin wrem BY <1>8, <3>1
    <3>3. k \notin Own BY <2>2, <3>2 DEF CursorInv, Settled
    <3>4. writeSet[k] = "none" BY <3>3 DEF Own
    <3>5. Dead(k) BY <1>3, <1>5, <1>8, <2>2, <3>1, <3>4
    <3> QED BY <1>4, <2>2, <3>4, <3>5, DeadFaithful
  <2> QED BY <2>1, <2>2
<1>9. ASSUME Gone(k)', ~ Passed(k)', writeSet[k] = "none", k # c PROVE Dead(k)
  BY <1>3, <1>5, <1>7, <1>9
<1> QED BY <1>4, <1>7, <1>8, <1>9

(* And the places of the iterators after it.                               *)
LEMMA AdvanceCursor ==
  ASSUME IterTypeOK, CursorInv, UNCHANGED <<data, memory, reads, observed>>, NEW c \in Keys,
         prem' \subseteq prem, prem \ {c} \subseteq prem', c \in prem /\ c \notin prem' => Gone(c)',
         mrem' = mrem \ {c}, c \in mrem => c = First(mrem), Recorded(c) => Gone(c)',
         wrem' \subseteq wrem, wrem \ {c} \subseteq wrem', c \in wrem /\ c \notin wrem' => Passed(c)',
         Resolved /\ c \notin mrem => Resolved',
         phase' = "outer" => ~ InnerSkips', phase' # "at"
  PROVE  CursorInv'
<1>0. UNCHANGED <<ascending, storage, writeSet>> BY DEF data
<1>1. \A k : (Gone(k) => Gone(k)') /\ (Passed(k) => Passed(k)') BY <1>0, GoneStays
<1>2. ASSUME NEW k \in storage \ prem' PROVE Gone(k)'
  <2>1. CASE k \in prem BY <1>2, <2>1
  <2>2. CASE k \notin prem BY <1>1, <2>2 DEF CursorInv
  <2> QED BY <2>1, <2>2
<1>3. Own' = Own BY <1>0 DEF Own, Keys
<1>4. ASSUME NEW k \in Own \ wrem' PROVE Passed(k)'
  <2>1. CASE k \in wrem BY <1>4, <2>1
  <2>2. CASE k \notin wrem BY <1>1, <2>2 DEF CursorInv
  <2> QED BY <2>1, <2>2
<1>5. ASSUME NEW k \in Keys, Recorded(k)
      PROVE  Gone(k)' \/ (Resolved' /\ k \in mrem' /\ k = First(mrem)')
  <2>1. CASE k = c BY <1>5, <2>1
  <2>2. CASE k # c /\ Gone(k) BY <1>1, <2>2
  <2>3. CASE k # c /\ ~ Gone(k)
    <3>1. Resolved /\ k \in mrem /\ k = First(mrem) BY <1>5, <2>3 DEF CursorInv
    <3>2. CASE c \notin mrem
      <4>1. mrem' = mrem BY <3>2
      <4>2. First(mrem)' = First(mrem) BY <1>0, <4>1 DEF First, Beyond
      <4> QED BY <3>1, <3>2, <4>1, <4>2
    <3>3. CASE c \in mrem BY <2>3, <3>1, <3>3
    <3> QED BY <3>2, <3>3
  <2> QED BY <2>1, <2>2, <2>3
<1>6. \A k : Recorded(k)' <=> Recorded(k) BY SameView
<1> QED BY <1>0, <1>2, <1>3, <1>4, <1>5, <1>6 DEF CursorInv, Keys

(* A key is recorded once.                                                 *)
LEMMA RecordUnique ==
  ASSUME IterTypeOK, Ordered(reads), NEW k \in Keys, NEW x, NEW y, RecordedAs(k, x), RecordedAs(k, y)
  PROVE  x = y
<1>1. PICK i \in DOMAIN reads : reads[i] = <<k, x>> BY DEF RecordedAs
<1>2. PICK j \in DOMAIN reads : reads[j] = <<k, y>> BY DEF RecordedAs
<1>3. DOMAIN reads = 1 .. Len(reads) /\ Len(reads) \in Nat BY LenProperties DEF IterTypeOK
<1>4. ~ Beyond(k, k) BY KeyTypes, Order
<1>5. ~ (i < j) /\ ~ (j < i) BY <1>1, <1>2, <1>4 DEF Ordered
<1>6. i = j BY <1>3, <1>5
<1> QED BY <1>1, <1>2, <1>6

(* The entry that is cached is the one recorded.                           *)
LEMMA ItemRecorded ==
  ASSUME IterTypeOK, ItemInv, Resolved, mrem # {}
  PROVE  RecordedAs(First(mrem), item.version) /\ Recorded(First(mrem))
<1>1. Len(reads) > 0 /\ reads[Len(reads)] = <<First(mrem), item.version>> BY DEF ItemInv
<1>2. Len(reads) \in DOMAIN reads
  <2>1. DOMAIN reads = 1 .. Len(reads) /\ Len(reads) \in Nat BY LenProperties DEF IterTypeOK
  <2> QED BY <1>1, <2>1
<1> QED BY <1>1, <1>2 DEF RecordedAs, Recorded

LEMMA ItemStays ==
  ASSUME ItemInv, UNCHANGED <<data, memory, reads, observed, item>>,
         Resolved' /\ mrem' # {} => Resolved /\ mrem' = mrem
  PROVE  ItemInv'
<1>1. UNCHANGED <<ascending, entry, reads, item>> BY DEF data, memory
<1>2. mrem' = mrem => First(mrem)' = First(mrem) BY <1>1 DEF First, Beyond
<1> QED BY <1>1, <1>2 DEF ItemInv, Still

(* The inner merge steps over a deleted entry.                             *)
LEMMA SkipInnerKeeps ==
  ASSUME IterTypeOK, RecordInv, OpenInv, SkipInner
  PROVE  /\ OpenInv' /\ phase' = "resolve" /\ wrem' = wrem
         /\ prem' \subseteq prem /\ mrem' \subseteq mrem /\ \A k \in mrem \ mrem' : Recorded(k)
<1>0. PICK c : c = First(mrem) OBVIOUS
<1>1. /\ phase = "inner" /\ Leads(mrem, prem) /\ item.kind = "deleted" /\ AdvanceInner
      /\ UNCHANGED <<data, memory, reads, observed, wrem, item>>
  BY DEF SkipInner, InnerSkips
<1>2. mrem # {} BY <1>1 DEF Leads
<1>3. /\ c = MergedKey(prem, mrem) /\ c \in mrem /\ c \in Keys
      /\ \A j \in prem \cup mrem : j = c \/ Beyond(j, c)
  <2>1. prem \in SUBSET Keys /\ mrem \in SUBSET Keys BY CursorTypes
  <2>2. c = MergedKey(prem, mrem) BY <1>0, <1>1 DEF MergedKey
  <2> QED BY <1>0, <1>1, <1>2, <2>1, <2>2, MergeFacts
<1>4. prem' = prem \ {c} /\ mrem' = mrem \ {c} /\ phase' = "resolve" BY <1>1, <1>2, <1>3, AdvanceFacts
<1>5. \A j : Beyond(j, c)' <=> Beyond(j, c) BY <1>1 DEF Beyond, data
<1>6. Gone(c)' BY <1>3, <1>4, <1>5 DEF Gone
<1>7. ~ Gone(c)
  <2>1. ~ Beyond(c, c) BY <1>3, KeyTypes, Order
  <2> QED BY <1>3, <2>1 DEF Gone
<1>8. Resolved BY <1>1 DEF Resolved
<1>9. RecordedAs(c, item.version) /\ Recorded(c) BY <1>0, <1>2, <1>8, ItemRecorded DEF OpenInv
<1>10. Dead(c)
  <2> SUFFICES ASSUME NEW x \in Nat, RecordedAs(c, x), Still(c, "value", x) PROVE FALSE
    BY <1>9 DEF Dead
  <2>1. x = item.version BY <1>3, <1>9, RecordUnique DEF RecordInv
  <2>2. "value" = item.kind BY <1>0, <1>2, <1>8, <2>1 DEF OpenInv, ItemInv
  <2> QED BY <1>1, <2>2
<1>11. ~ Settled(c) BY <1>1, <1>7 DEF Settled, Passed, Arrived
<1>12. Passed(c)' => Faithful(c)
  <2> SUFFICES ASSUME Passed(c)' PROVE Faithful(c)
    OBVIOUS
  <2>1. c \notin wrem
    <3>1. ~ Beyond(c, c) BY <1>3, KeyTypes, Order
    <3> QED BY <1>1, <1>5, <3>1 DEF Passed
  <2>2. c \notin Own BY <1>7, <2>1 DEF OpenInv, CursorInv, Passed
  <2>3. writeSet[c] = "none" BY <1>3, <2>2 DEF Own
  <2>4. Nobody(c) BY <1>3, <1>11 DEF OpenInv, ViewInv
  <2> QED BY <1>10, <2>3, <2>4, DeadFaithful
<1>13. \A k \in Keys : ~ Arrived(k) BY <1>1 DEF Arrived
<1>14. ViewInv' BY <1>1, <1>3, <1>4, <1>10, <1>12, <1>13, AdvanceView DEF OpenInv
<1>15. CursorInv'
  <2>1. c \in mrem => c = First(mrem) BY <1>0
  <2> QED BY <1>1, <1>3, <1>4, <1>6, <2>1, AdvanceCursor DEF OpenInv
<1>16. ItemInv'
  <2>1. ~ Resolved' BY <1>4 DEF Resolved
  <2> QED BY <2>1 DEF ItemInv
<1> QED BY <1>1, <1>4, <1>9, <1>14, <1>15, <1>16 DEF OpenInv

(* The iterators that are at the first key of all three leave it.          *)
LEMMA LeaveTop ==
  ASSUME IterTypeOK, RecordInv, OpenInv, phase \in {"outer", "at"}, Valid, NEW c, c = Current[1],
         UNCHANGED <<data, memory, reads, observed, item>>,
         prem' = prem \ {c}, mrem' = mrem \ {c}, wrem' = wrem \ {c}, Faithful(c),
         c \in mrem => phase' = "resolve",
         c \in prem \ mrem => phase' = "inner",
         c \notin prem \cup mrem => phase' = "outer"
  PROVE  OpenInv' /\ \A k \in mrem \ mrem' : Recorded(k)
<1>1. /\ c \in prem \cup mrem \cup wrem /\ c \in Keys
      /\ \A j \in prem \cup mrem \cup wrem : j = c \/ Beyond(j, c)
  BY TopFacts
<1>2. \A j : Beyond(j, c)' <=> Beyond(j, c) BY DEF Beyond, data
<1>3. Gone(c)' BY <1>1, <1>2 DEF Gone
<1>4. Passed(c)' BY <1>1, <1>2, <1>3 DEF Passed
<1>5. phase' \in {"resolve", "inner", "outer"} OBVIOUS
<1>6. c \in mrem => c = First(mrem)
  <2>1. mrem \in SUBSET Keys BY CursorTypes
  <2> QED BY <1>1, <2>1, FirstUnique
<1>7. \A k \in Keys : Arrived(k) => k = c /\ Passed(c)' BY <1>4 DEF Arrived
<1>8. ViewInv' BY <1>1, <1>4, <1>5, <1>7, AdvanceView DEF OpenInv
<1>9. Resolved BY DEF Resolved
<1>10. c \notin mrem => Resolved' BY <1>5 DEF Resolved
<1>11. phase' = "outer" => ~ InnerSkips'
  <2> SUFFICES ASSUME phase' = "outer" PROVE ~ InnerSkips'
    OBVIOUS
  <2>1. c \notin prem \cup mrem OBVIOUS
  <2>2. prem' = prem /\ mrem' = mrem BY <2>1
  <2>3. UNCHANGED <<ascending, item>> BY DEF data
  <2>4. InnerSkips' <=> InnerSkips BY <2>2, <2>3 DEF InnerSkips, Leads, First, Beyond
  <2> QED BY <2>4 DEF OpenInv, CursorInv
<1>12. CursorInv'
  BY <1>1, <1>3, <1>4, <1>5, <1>6, <1>10, <1>11, AdvanceCursor DEF OpenInv
<1>13. ItemInv'
  <2>1. Resolved' /\ mrem' # {} => Resolved /\ mrem' = mrem BY <1>9 DEF Resolved
  <2> QED BY <2>1, ItemStays DEF OpenInv
<1>14. \A k \in mrem \ mrem' : Recorded(k)
  <2>1. mrem # {} => Recorded(First(mrem)) BY <1>9, ItemRecorded DEF OpenInv
  <2> QED BY <1>6, <2>1
<1> QED BY <1>8, <1>12, <1>13, <1>14 DEF OpenInv

(* How SkipOuter and Next leave their key.                                 *)
LEMMA LeaveFacts ==
  ASSUME IterTypeOK, phase \in {"outer", "at"}, Valid, NEW c, c = Current[1],
         wrem' = IF Leads(wrem, Inner) THEN Rest(wrem) ELSE wrem,
         IF Leads(wrem, Inner) /\ ~ Shadows(wrem, Inner)
           THEN phase' = "outer" /\ UNCHANGED <<prem, mrem>>
           ELSE AdvanceInner
  PROVE  /\ prem' = prem \ {c} /\ mrem' = mrem \ {c} /\ wrem' = wrem \ {c}
         /\ c \in mrem => phase' = "resolve"
         /\ c \in prem \ mrem => phase' = "inner"
         /\ c \notin prem \cup mrem => phase' = "outer"
<1>1. /\ Leads(wrem, Inner) => c = First(wrem) /\ c \in wrem
      /\ ~ Leads(wrem, Inner) => c = MergedKey(prem, mrem) /\ c \in prem \cup mrem /\ c \notin wrem
      /\ Leads(wrem, Inner) => (Shadows(wrem, Inner) <=> c \in prem \cup mrem)
      /\ c \in prem \cup mrem => c = MergedKey(prem, mrem)
  BY TopFacts
<1>2. wrem' = wrem \ {c}
  <2>1. CASE Leads(wrem, Inner) BY <1>1, <2>1 DEF Rest
  <2>2. CASE ~ Leads(wrem, Inner) BY <1>1, <2>2
  <2> QED BY <2>1, <2>2
<1>3. CASE c \in prem \cup mrem
  <2>1. AdvanceInner BY <1>1, <1>3
  <2>2. prem \cup mrem # {} /\ c = MergedKey(prem, mrem) BY <1>1, <1>3
  <2> QED BY <1>2, <1>3, <2>1, <2>2, AdvanceFacts
<1>4. CASE c \notin prem \cup mrem
  <2>1. phase' = "outer" /\ UNCHANGED <<prem, mrem>> BY <1>1, <1>4
  <2> QED BY <1>2, <1>4, <2>1
<1> QED BY <1>3, <1>4

(* The outer merge steps over a key that the transaction has deleted.      *)
LEMMA SkipOuterKeeps ==
  ASSUME IterTypeOK, RecordInv, OpenInv, SkipOuter
  PROVE  /\ OpenInv' /\ phase' \in {"resolve", "inner", "outer"} /\ prem' \subseteq prem
         /\ mrem' \subseteq mrem /\ wrem' \subseteq wrem /\ \A k \in mrem \ mrem' : Recorded(k)
<1>0. PICK c : c = Current[1] OBVIOUS
<1>1. /\ phase = "outer" /\ Leads(wrem, Inner) /\ writeSet[First(wrem)] = "deleted"
      /\ wrem' = Rest(wrem) /\ UNCHANGED <<data, memory, item, reads, observed>>
      /\ IF Shadows(wrem, Inner) THEN AdvanceInner ELSE UNCHANGED <<prem, mrem, phase>>
  BY DEF SkipOuter, OuterSkips
<1>2. Valid BY <1>1 DEF Valid, Leads
<1>3. /\ c = First(wrem) /\ c \in wrem /\ c \in Keys BY <1>0, <1>1, <1>2, TopFacts
<1>4. /\ prem' = prem \ {c} /\ mrem' = mrem \ {c} /\ wrem' = wrem \ {c}
      /\ c \in mrem => phase' = "resolve"
      /\ c \in prem \ mrem => phase' = "inner"
      /\ c \notin prem \cup mrem => phase' = "outer"
  BY <1>0, <1>1, <1>2, LeaveFacts
<1>5. Faithful(c)
  <2>1. ~ Beyond(c, c) BY <1>3, KeyTypes, Order
  <2>2. ~ Settled(c) BY <1>1, <1>3, <2>1 DEF Settled, Arrived, Passed
  <2>3. Nobody(c) BY <1>3, <2>2 DEF OpenInv, ViewInv
  <2> QED BY <1>1, <1>3, <2>3 DEF Faithful, Nobody
<1>6. OpenInv' /\ \A k \in mrem \ mrem' : Recorded(k) BY <1>0, <1>1, <1>2, <1>4, <1>5, LeaveTop
<1> QED BY <1>4, <1>6

(* The caller goes on to the next key.                                     *)
LEMMA NextKeeps ==
  ASSUME IterTypeOK, RecordInv, OpenInv, Next
  PROVE  /\ OpenInv' /\ phase' \in {"resolve", "inner", "outer"} /\ prem' \subseteq prem
         /\ mrem' \subseteq mrem /\ wrem' \subseteq wrem /\ \A k \in mrem \ mrem' : Recorded(k)
<1>0. PICK c : c = Current[1] OBVIOUS
<1>1. /\ phase = "at" /\ Valid /\ UNCHANGED <<data, memory, item, reads, observed>>
      /\ wrem' = IF Leads(wrem, Inner) THEN Rest(wrem) ELSE wrem
      /\ IF Leads(wrem, Inner) /\ ~ Shadows(wrem, Inner)
           THEN phase' = "outer" /\ UNCHANGED <<prem, mrem>>
           ELSE AdvanceInner
  BY DEF Next
<1>2. /\ prem' = prem \ {c} /\ mrem' = mrem \ {c} /\ wrem' = wrem \ {c}
      /\ c \in mrem => phase' = "resolve"
      /\ c \in prem \ mrem => phase' = "inner"
      /\ c \notin prem \cup mrem => phase' = "outer"
  BY <1>0, <1>1, LeaveFacts
<1>3. Faithful(c)
  <2>1. c \in Keys BY <1>0, <1>1, TopFacts
  <2>2. Settled(c) BY <1>0, <1>1 DEF Settled, Arrived
  <2> QED BY <2>1, <2>2 DEF OpenInv, ViewInv
<1>4. OpenInv' /\ \A k \in mrem \ mrem' : Recorded(k) BY <1>0, <1>1, <1>2, <1>3, LeaveTop
<1> QED BY <1>2, <1>4

(* What the caller sees at the key it arrives at.                          *)
LEMMA ArriveFacts ==
  ASSUME IterTypeOK, OpenInv, phase = "outer", ~ OuterSkips, Valid, NEW c, c = Current[1]
  PROVE  \/ writeSet[c] = "set" /\ Current = <<c, "own">>
         \/ /\ writeSet[c] = "none" /\ mrem # {} /\ c = First(mrem) /\ item.kind = "value"
            /\ Current = <<c, item.version>>
         \/ writeSet[c] = "none" /\ c \in storage /\ ~ Recorded(c) /\ Current = <<c, 0>>
<1>1. /\ c \in prem \cup mrem \cup wrem /\ c \in Keys
      /\ \A j \in prem \cup mrem \cup wrem : j = c \/ Beyond(j, c)
      /\ Leads(wrem, Inner) => c = First(wrem) /\ c \in wrem /\ Current = <<c, "own">>
      /\ ~ Leads(wrem, Inner) => c = MergedKey(prem, mrem) /\ c \in prem \cup mrem /\ c \notin wrem
  BY TopFacts
<1>2. writeSet[c] \in {"none", "set", "deleted"} BY <1>1 DEF IterTypeOK
<1>3. ~ Beyond(c, c) BY <1>1, KeyTypes, Order
<1>4. CASE Leads(wrem, Inner)
  <2>1. writeSet[c] # "deleted" BY <1>1, <1>4 DEF OuterSkips
  <2>2. writeSet[c] # "none" BY <1>1, <1>4 DEF IterTypeOK, Own
  <2> QED BY <1>1, <1>2, <1>4, <2>1, <2>2
<1>5. CASE ~ Leads(wrem, Inner)
  <2>1. ~ Gone(c) BY <1>1, <1>3, <1>5 DEF Gone
  <2>2. c \notin Own BY <1>1, <1>5, <2>1 DEF OpenInv, CursorInv, Passed
  <2>3. writeSet[c] = "none" BY <1>1, <2>2 DEF Own
  <2>4. prem \in SUBSET Keys /\ mrem \in SUBSET Keys BY CursorTypes
  <2>5. CASE Leads(mrem, prem)
    <3>1. mrem # {} /\ c = First(mrem) BY <1>1, <1>5, <2>5 DEF MergedKey, Leads
    <3>2. item.kind = "value"
      <4>1. item.kind # "deleted" BY <2>5 DEF OpenInv, CursorInv, InnerSkips
      <4>2. item.kind \in {"value", "deleted"} BY <3>1 DEF OpenInv, ItemInv, Resolved
      <4> QED BY <4>1, <4>2
    <3>3. Current = <<c, item.version>> BY <1>5, <2>5, <3>1 DEF Current
    <3> QED BY <2>3, <3>1, <3>2, <3>3
  <2>6. CASE ~ Leads(mrem, prem)
    <3>1. c = First(prem) /\ c \in prem /\ c \notin mrem BY <1>1, <1>5, <2>4, <2>6, MergeFacts
    <3>2. c \in storage BY <3>1 DEF IterTypeOK
    <3>3. ~ Recorded(c) BY <1>1, <2>1, <3>1 DEF OpenInv, CursorInv
    <3>4. Current = <<c, 0>> BY <1>5, <2>6, <3>1 DEF Current
    <3> QED BY <2>3, <3>2, <3>3, <3>4
  <2> QED BY <2>5, <2>6
<1> QED BY <1>4, <1>5

(* The elements of a sequence with one more, and their order.              *)
LEMMA AppendElements ==
  ASSUME NEW S, NEW q \in Seq(S), NEW e \in S, NEW r, r = Append(q, e)
  PROVE  /\ r \in Seq(S) /\ Len(r) = Len(q) + 1 /\ Len(q) \in Nat /\ r[Len(r)] = e
         /\ DOMAIN r = 1 .. Len(q) + 1 /\ DOMAIN q = 1 .. Len(q)
         /\ \A i \in DOMAIN q : i \in DOMAIN r /\ r[i] = q[i]
         /\ \A i \in DOMAIN r : i \in DOMAIN q \/ r[i] = e
         /\ \A i, j \in DOMAIN r : i < j => i \in DOMAIN q /\ (j \in DOMAIN q \/ r[j] = e)
<1>1. /\ r \in Seq(S) /\ Len(r) = Len(q) + 1 /\ r[Len(q) + 1] = e
      /\ \A i \in 1 .. Len(q) : r[i] = q[i]
  BY AppendProperties
<1>2. DOMAIN q = 1 .. Len(q) /\ Len(q) \in Nat BY LenProperties
<1>3. DOMAIN r = 1 .. Len(q) + 1 BY <1>1, <1>2, LenProperties
<1>4. PICK n \in Nat : n = Len(q) BY <1>2
<1>5. \A i \in 1 .. n : i \in 1 .. n + 1 OBVIOUS
<1>6. \A i \in 1 .. n + 1 : i \in 1 .. n \/ i = n + 1 OBVIOUS
<1>7. \A i, j \in 1 .. n + 1 : i < j => i \in 1 .. n OBVIOUS
<1> QED BY <1>1, <1>2, <1>3, <1>4, <1>5, <1>6, <1>7

LEMMA SamePlace ==
  ASSUME UNCHANGED <<ascending, prem, mrem, wrem>>, NEW k
  PROVE  (Gone(k)' <=> Gone(k)) /\ (Passed(k)' <=> Passed(k))
BY DEF Gone, Passed, Beyond

(* The key and the value the caller would see stay the same.               *)
LEMMA SameTop ==
  ASSUME UNCHANGED <<ascending, writeSet, prem, mrem, wrem, item>>
  PROVE  /\ Current' = Current /\ (Valid' <=> Valid) /\ (InnerSkips' <=> InnerSkips)
         /\ (OuterSkips' <=> OuterSkips) /\ First(mrem)' = First(mrem)
<1>1. Leads(mrem, prem)' <=> Leads(mrem, prem) BY DEF Leads, First, Beyond
<1>2. Inner' = Inner BY DEF Inner, MergedKey, Leads, First, Beyond
<1>3. Leads(wrem, Inner)' <=> Leads(wrem, Inner) BY <1>2 DEF Leads, First, Beyond
<1>4. First(wrem)' = First(wrem) /\ First(mrem)' = First(mrem) /\ First(prem)' = First(prem)
  BY DEF First, Beyond
<1>5. Current' = Current BY <1>1, <1>3, <1>4 DEF Current
<1>6. Valid' <=> Valid BY <1>2 DEF Valid
<1>7. InnerSkips' <=> InnerSkips BY <1>1 DEF InnerSkips
<1>8. OuterSkips' <=> OuterSkips BY <1>3, <1>4 DEF OuterSkips
<1> QED BY <1>4, <1>5, <1>6, <1>7, <1>8

(* The keys that are recorded or seen are known ones.                      *)
LEMMA ElementTypes ==
  ASSUME IterTypeOK
  PROVE  /\ \A i \in DOMAIN reads : reads[i][1] \in Keys /\ reads[i][2] \in Nat /\ reads[i] = <<reads[i][1], reads[i][2]>>
         /\ \A i \in DOMAIN observed : observed[i][1] \in Keys /\ observed[i] = <<observed[i][1], observed[i][2]>>
<1>1. \A i \in DOMAIN reads : reads[i] \in Keys \X Nat
  BY LenProperties, ElementOfSeq DEF IterTypeOK
<1>2. \A i \in DOMAIN observed : observed[i] \in Keys \X (Nat \cup {"own"})
  BY LenProperties, ElementOfSeq DEF IterTypeOK
<1> QED BY <1>1, <1>2

(* The caller arrives at the end of the range.                             *)
LEMMA ArriveEnd ==
  ASSUME IterTypeOK, OpenInv, Arrive, ~ Valid
  PROVE  OpenInv' /\ observed' = observed
<1>1. /\ phase = "outer" /\ ~ OuterSkips /\ phase' = "at" /\ observed' = observed
      /\ UNCHANGED <<data, memory, cursor, reads>>
  BY DEF Arrive
<1>2. UNCHANGED <<ascending, storage, writeSet, prem, mrem, wrem, item, entry, reads>>
  BY <1>1 DEF data, cursor, memory
<1>3. \A k : (Gone(k)' <=> Gone(k)) /\ (Passed(k)' <=> Passed(k)) BY <1>2, SamePlace
<1>4. ~ Valid' /\ ~ InnerSkips' /\ ~ OuterSkips'
  <2>1. InnerSkips' <=> InnerSkips BY <1>2 DEF InnerSkips, Leads, First, Beyond
  <2>2. wrem' = {} BY <1>2 DEF Valid
  <2>3. ~ InnerSkips BY <1>1 DEF OpenInv, CursorInv
  <2>4. prem \cup mrem = {} BY DEF Valid, Inner
  <2> QED BY <1>2, <2>1, <2>2, <2>3, <2>4 DEF OuterSkips, Leads, Valid, Inner
<1>5. Resolved /\ Resolved' BY <1>1 DEF Resolved
<1>6. \A k : /\ Faithful(k)' <=> Faithful(k)
             /\ Dead(k)' <=> Dead(k)
             /\ Nobody(k)' <=> Nobody(k)
             /\ Recorded(k)' <=> Recorded(k)
  BY <1>1, SameView
<1>7. \A k : (Settled(k)' <=> Passed(k)') /\ (Settled(k) <=> Passed(k)) BY <1>1, <1>4 DEF Settled, Arrived
<1>8. ViewInv' BY <1>2, <1>3, <1>6, <1>7 DEF OpenInv, ViewInv, Keys
<1>9. CursorInv'
  <2>1. First(mrem)' = First(mrem) BY <1>2 DEF First, Beyond
  <2>2. Own' = Own /\ Keys' = Keys BY <1>2 DEF Own, Keys
  <2> QED BY <1>2, <1>3, <1>4, <1>5, <1>6, <2>1, <2>2 DEF OpenInv, CursorInv
<1>10. ItemInv' BY <1>1, <1>2, <1>5, ItemStays DEF OpenInv
<1> QED BY <1>1, <1>8, <1>9, <1>10 DEF OpenInv

(* The caller arrives at a key, and sees what it holds.                    *)
LEMMA ArriveAt ==
  ASSUME IterTypeOK, RecordInv, OpenInv, Arrive, Valid
  PROVE  /\ OpenInv' /\ observed' \in Seq(Keys \X (Nat \cup {"own"})) /\ Ordered(observed)'
<1>0. PICK c : c = Current[1] OBVIOUS
<1>1. /\ phase = "outer" /\ ~ OuterSkips /\ phase' = "at" /\ observed' = Append(observed, Current)
      /\ UNCHANGED <<data, memory, cursor, reads>>
  BY DEF Arrive
<1>2. UNCHANGED <<ascending, storage, writeSet, prem, mrem, wrem, item, entry, reads>>
  BY <1>1 DEF data, cursor, memory
<1>3. \A k : (Gone(k)' <=> Gone(k)) /\ (Passed(k)' <=> Passed(k)) BY <1>2, SamePlace
<1>4. /\ c \in prem \cup mrem \cup wrem /\ c \in Keys
      /\ \A j \in prem \cup mrem \cup wrem : j = c \/ Beyond(j, c)
  BY <1>0, TopFacts
<1>5. \/ writeSet[c] = "set" /\ Current = <<c, "own">>
      \/ /\ writeSet[c] = "none" /\ mrem # {} /\ c = First(mrem) /\ item.kind = "value"
         /\ Current = <<c, item.version>>
      \/ writeSet[c] = "none" /\ c \in storage /\ ~ Recorded(c) /\ Current = <<c, 0>>
  BY <1>0, <1>1, ArriveFacts
<1>6. Resolved /\ Resolved' BY <1>1 DEF Resolved
<1>7. mrem # {} => RecordedAs(First(mrem), item.version) BY <1>6, ItemRecorded DEF OpenInv
<1>8. mrem # {} => item.version \in Nat
  <2>1. mrem # {} => \E i \in DOMAIN reads : reads[i] = <<First(mrem), item.version>> BY <1>7 DEF RecordedAs
  <2> QED BY <2>1, ElementTypes
<1>9. PICK x \in Nat \cup {"own"} : Current = <<c, x>> BY <1>5, <1>8
<1>10. Current \in Keys \X (Nat \cup {"own"}) BY <1>4, <1>9
<1>11. /\ observed' \in Seq(Keys \X (Nat \cup {"own"}))
       /\ \A i \in DOMAIN observed : i \in DOMAIN observed' /\ observed'[i] = observed[i]
       /\ \A i \in DOMAIN observed' : i \in DOMAIN observed \/ observed'[i] = <<c, x>>
       /\ \A i, j \in DOMAIN observed' : i < j => i \in DOMAIN observed /\ (j \in DOMAIN observed \/ observed'[j] = <<c, x>>)
       /\ Len(observed') \in DOMAIN observed' /\ observed'[Len(observed')] = <<c, x>>
  <2>1. observed \in Seq(Keys \X (Nat \cup {"own"})) BY DEF IterTypeOK
  <2>2. Len(observed) + 1 \in 1 .. Len(observed) + 1 BY <2>1, LenProperties
  <2> QED BY <1>1, <1>9, <1>10, <2>1, <2>2, AppendElements
<1>12. \A k, v : Sees(k, v)' <=> Sees(k, v) \/ <<k, v>> = <<c, x>> BY <1>11 DEF Sees
<1>13. ~ Beyond(c, c) BY <1>4, KeyTypes, Order
<1>14. ~ Passed(c) BY <1>4, <1>13 DEF Passed, Gone
<1>15. \A k : Settled(k) <=> Passed(k) BY <1>1 DEF Settled, Arrived
<1>16. Nobody(c) BY <1>4, <1>14, <1>15 DEF OpenInv, ViewInv
<1>17. \A v : Sees(c, v)' <=> v = x BY <1>12, <1>16 DEF Nobody
<1>18. \A k : k # c => \A v : Sees(k, v)' <=> Sees(k, v) BY <1>12
<1>19. \A k, v : RecordedAs(k, v)' <=> RecordedAs(k, v) BY <1>2 DEF RecordedAs
<1>20. \A k : Recorded(k)' <=> Recorded(k) BY <1>2 DEF Recorded
<1>21. \A k, kind, v : Still(k, kind, v)' <=> Still(k, kind, v) BY <1>2 DEF Still
<1>22. Current' = Current /\ Valid' /\ ~ InnerSkips' /\ ~ OuterSkips'
  BY <1>1, <1>2, SameTop DEF OpenInv, CursorInv
<1>23. \A k : Settled(k)' <=> Passed(k) \/ k = c BY <1>0, <1>1, <1>3, <1>22 DEF Settled, Arrived
<1>24. Faithful(c)'
  <2>1. CASE writeSet[c] = "set" /\ Current = <<c, "own">>
    <3>1. x = "own" BY <1>9, <2>1
    <3> QED BY <1>2, <1>17, <2>1, <3>1 DEF Faithful
  <2>2. CASE /\ writeSet[c] = "none" /\ mrem # {} /\ c = First(mrem) /\ item.kind = "value"
             /\ Current = <<c, item.version>>
    <3>1. x = item.version BY <1>9, <2>2
    <3>2. RecordedAs(c, x) BY <1>7, <2>2, <3>1
    <3>3. Recorded(c) BY <3>2 DEF Recorded, RecordedAs
    <3>4. \A y \in Nat : RecordedAs(c, y) => y = x BY <1>4, <3>2, RecordUnique DEF RecordInv
    <3>5. ~ Still(c, "deleted", x) BY <1>6, <2>2, <3>1 DEF OpenInv, ItemInv
    <3> QED BY <1>2, <1>17, <1>19, <1>20, <1>21, <2>2, <3>3, <3>4, <3>5 DEF Faithful
  <2>3. CASE writeSet[c] = "none" /\ c \in storage /\ ~ Recorded(c) /\ Current = <<c, 0>>
    <3>1. x = 0 BY <1>9, <2>3
    <3>2. \A y : ~ RecordedAs(c, y) BY <2>3 DEF Recorded, RecordedAs
    <3> QED BY <1>2, <1>17, <1>19, <1>20, <2>3, <3>1, <3>2 DEF Faithful
  <2> QED BY <1>5, <2>1, <2>2, <2>3
<1>25. ViewInv'
  <2>1. Keys' = Keys BY DEF Keys
  <2> SUFFICES ASSUME NEW k \in Keys
               PROVE  /\ Settled(k)' => Faithful(k)'
                      /\ ~ Settled(k)' => Nobody(k)'
                      /\ Gone(k)' /\ ~ Settled(k)' /\ writeSet'[k] = "none" => Dead(k)'
    BY <2>1 DEF ViewInv
  <2>2. CASE k = c BY <1>23, <1>24, <2>2
  <2>3. CASE k # c
    <3>1. \A v : Sees(k, v)' <=> Sees(k, v) BY <1>18, <2>3
    <3>2. Nobody(k)' <=> Nobody(k) BY <3>1 DEF Nobody
    <3>3. Dead(k)' <=> Dead(k) BY <1>2, <1>19, <1>20, <1>21 DEF Dead
    <3>4. Faithful(k)' <=> Faithful(k) BY <1>2, <1>19, <1>20, <1>21, <3>1, Zenon DEF Faithful
    <3>5. Settled(k)' <=> Settled(k) BY <1>15, <1>23, <2>3
    <3> QED BY <1>2, <1>3, <3>2, <3>3, <3>4, <3>5 DEF OpenInv, ViewInv
  <2> QED BY <2>2, <2>3
<1>26. CursorInv'
  <2>1. First(mrem)' = First(mrem) BY <1>2 DEF First, Beyond
  <2>2. Own' = Own /\ Keys' = Keys BY <1>2 DEF Own, Keys
  <2> QED BY <1>2, <1>3, <1>6, <1>20, <1>22, <2>1, <2>2 DEF OpenInv, CursorInv
<1>27. ItemInv'
  <2>1. First(mrem)' = First(mrem) BY <1>2 DEF First, Beyond
  <2> QED BY <1>2, <1>6, <1>21, <2>1 DEF OpenInv, ItemInv
<1>28. Ordered(observed)'
  <2> SUFFICES ASSUME NEW i \in DOMAIN observed', NEW j \in DOMAIN observed', i < j
               PROVE  Beyond(observed'[j][1], observed'[i][1])
    BY <1>2 DEF Ordered, Beyond
  <2>1. i \in DOMAIN observed /\ observed'[i] = observed[i] BY <1>11
  <2>2. CASE j \in DOMAIN observed BY <1>11, <2>1, <2>2 DEF RecordInv, Ordered
  <2>3. CASE j \notin DOMAIN observed
    <3>1. observed'[j] = <<c, x>> BY <1>11, <2>3
    <3>2. PICK k : k = observed[i][1] OBVIOUS
    <3>3. k \in Keys /\ Sees(k, observed[i][2]) BY <2>1, <3>2, ElementTypes DEF Sees
    <3>4. Passed(k) BY <1>15, <3>3 DEF OpenInv, ViewInv, Nobody
    <3>5. Beyond(c, k) BY <1>4, <3>4 DEF Passed, Gone
    <3> QED BY <2>1, <3>1, <3>2, <3>5
  <2> QED BY <2>2, <2>3
<1> QED BY <1>11, <1>25, <1>26, <1>27, <1>28 DEF OpenInv

(* A merge has found its key, or the memory is exhausted.                  *)
LEMMA PhaseOnly ==
  ASSUME IterTypeOK, OpenInv, UNCHANGED <<data, memory, cursor, reads, observed>>,
         phase # "at", phase' \in {"inner", "outer"}, Resolved \/ mrem = {},
         phase' = "outer" => ~ InnerSkips
  PROVE  OpenInv'
<1>1. UNCHANGED <<ascending, storage, writeSet, prem, mrem, wrem, item, entry, reads>>
  BY DEF data, cursor, memory
<1>2. \A k : (Gone(k)' <=> Gone(k)) /\ (Passed(k)' <=> Passed(k)) BY <1>1, SamePlace
<1>3. \A k : /\ Faithful(k)' <=> Faithful(k)
             /\ Dead(k)' <=> Dead(k)
             /\ Nobody(k)' <=> Nobody(k)
             /\ Recorded(k)' <=> Recorded(k)
  BY SameView
<1>4. \A k : (Settled(k)' <=> Passed(k)') /\ (Settled(k) <=> Passed(k)) BY DEF Settled, Arrived
<1>5. ViewInv' BY <1>1, <1>2, <1>3, <1>4 DEF OpenInv, ViewInv, Keys
<1>6. Resolved' BY DEF Resolved
<1>7. CursorInv'
  <2>1. First(mrem)' = First(mrem) BY <1>1 DEF First, Beyond
  <2>2. Own' = Own /\ Keys' = Keys BY <1>1 DEF Own, Keys
  <2>3. InnerSkips' <=> InnerSkips BY <1>1 DEF InnerSkips, Leads, First, Beyond
  <2> QED BY <1>1, <1>2, <1>3, <1>6, <2>1, <2>2, <2>3 DEF OpenInv, CursorInv
<1>8. ItemInv' BY <1>1, ItemStays DEF OpenInv
<1> QED BY <1>5, <1>7, <1>8 DEF OpenInv

(* The multi-version iterator passes over a key that has no entry.         *)
LEMMA ResolveAbsent ==
  ASSUME IterTypeOK, RecordInv, OpenInv, Resolve, mrem # {}, entry[First(mrem)].kind = "absent"
  PROVE  /\ OpenInv' /\ phase' = "resolve" /\ prem' = prem /\ wrem' = wrem /\ reads' = reads
         /\ mrem' \subseteq mrem /\ \A k \in mrem \ mrem' : entry[k].kind = "absent"
<1>0. PICK c : c = First(mrem) OBVIOUS
<1>1. /\ phase = "resolve" /\ phase' = "resolve" /\ mrem' = mrem \ {c}
      /\ UNCHANGED <<data, memory, reads, observed, prem, wrem, item>>
  BY <1>0 DEF Resolve, Rest
<1>2. c \in mrem /\ c \in Keys
  <2>1. mrem \in SUBSET Keys BY CursorTypes
  <2> QED BY <1>0, <2>1, FirstIsFirst
<1>3. ~ Beyond(c, c) BY <1>2, KeyTypes, Order
<1>4. ~ Gone(c) BY <1>2, <1>3 DEF Gone
<1>5. ~ Resolved BY <1>1 DEF Resolved
<1>6. ~ Recorded(c) BY <1>2, <1>4, <1>5 DEF OpenInv, CursorInv
<1>7. \A x : ~ RecordedAs(c, x) BY <1>6 DEF Recorded, RecordedAs
<1>8. \A j : Beyond(j, c)' <=> Beyond(j, c) BY <1>1 DEF Beyond, data
<1>9. Gone(c)' => Dead(c)
  <2> SUFFICES ASSUME Gone(c)' PROVE Dead(c)
    OBVIOUS
  <2>1. c \notin prem BY <1>1, <1>3, <1>8 DEF Gone
  <2>2. c \notin storage BY <1>4, <2>1 DEF OpenInv, CursorInv
  <2> QED BY <1>7, <2>2 DEF Dead
<1>10. Passed(c)' => Faithful(c)
  <2> SUFFICES ASSUME Passed(c)' PROVE Faithful(c)
    OBVIOUS
  <2>1. c \notin wrem BY <1>1, <1>3, <1>8 DEF Passed
  <2>2. c \notin Own BY <1>4, <2>1 DEF OpenInv, CursorInv, Passed
  <2>3. writeSet[c] = "none" BY <1>2, <2>2 DEF Own
  <2>4. ~ Settled(c) BY <1>1, <1>4 DEF Settled, Passed, Arrived
  <2>5. Nobody(c) BY <1>2, <2>4 DEF OpenInv, ViewInv
  <2>6. Dead(c) BY <1>9 DEF Passed
  <2> QED BY <2>3, <2>5, <2>6, DeadFaithful
<1>11. \A k \in Keys : ~ Arrived(k) BY <1>1 DEF Arrived
<1>12. ViewInv' BY <1>1, <1>2, <1>9, <1>10, <1>11, AdvanceView DEF OpenInv
<1>13. CursorInv' BY <1>0, <1>1, <1>2, <1>5, <1>6, AdvanceCursor DEF OpenInv
<1>14. ItemInv'
  <2>1. ~ Resolved' BY <1>1 DEF Resolved
  <2> QED BY <2>1 DEF ItemInv
<1> QED BY <1>0, <1>1, <1>12, <1>13, <1>14 DEF OpenInv

(* It caches the entry of a key, and records it.                           *)
LEMMA ResolveHit ==
  ASSUME IterTypeOK, RecordInv, OpenInv, Resolve, mrem # {}, NEW c, c = First(mrem), entry[c].kind # "absent"
  PROVE  /\ OpenInv' /\ UNCHANGED <<data, memory, observed, prem, mrem, wrem, stop>> /\ phase' = "inner"
         /\ reads' \in Seq(Keys \X Nat) /\ Ordered(reads)'
         /\ c \in Keys /\ entry[c].kind \in {"value", "deleted"}
         /\ \A k, x : RecordedAs(k, x)' <=> RecordedAs(k, x) \/ <<k, x>> = <<c, entry[c].version>>
         /\ \A k : Recorded(k)' <=> Recorded(k) \/ k = c
<1>0. PICK v : v = entry[c].version OBVIOUS
<1>1. /\ phase = "resolve" /\ phase' = "inner" /\ item' = entry[c] /\ entry[c].kind # "estimate"
      /\ reads' = Append(reads, <<c, v>>)
      /\ UNCHANGED <<data, memory, observed, prem, mrem, wrem, stop>>
  BY <1>0 DEF Resolve
<1>2. UNCHANGED <<ascending, storage, writeSet, prem, mrem, wrem, entry, observed>>
  BY <1>1 DEF data, memory
<1>3. c \in mrem /\ c \in Keys
  <2>1. mrem \in SUBSET Keys BY CursorTypes
  <2> QED BY <2>1, FirstIsFirst
<1>4. entry[c] \in Entries BY <1>3 DEF IterTypeOK
<1>5. entry[c].kind \in {"value", "deleted"} /\ v \in Nat BY <1>0, <1>1, <1>4 DEF Entries
<1>6. ~ Beyond(c, c) BY <1>3, KeyTypes, Order
<1>7. ~ Gone(c) BY <1>3, <1>6 DEF Gone
<1>8. ~ Resolved /\ Resolved' BY <1>1 DEF Resolved
<1>9. \A k \in Keys : Recorded(k) => Gone(k) BY <1>8 DEF OpenInv, CursorInv
<1>10. /\ reads' \in Seq(Keys \X Nat) /\ Len(reads') > 0 /\ reads'[Len(reads')] = <<c, v>>
       /\ \A i \in DOMAIN reads : i \in DOMAIN reads' /\ reads'[i] = reads[i]
       /\ \A i \in DOMAIN reads' : i \in DOMAIN reads \/ reads'[i] = <<c, v>>
       /\ \A i, j \in DOMAIN reads' : i < j => i \in DOMAIN reads /\ (j \in DOMAIN reads \/ reads'[j] = <<c, v>>)
       /\ Len(reads') \in DOMAIN reads'
  <2>1. reads \in Seq(Keys \X Nat) /\ <<c, v>> \in Keys \X Nat BY <1>3, <1>5 DEF IterTypeOK
  <2>2. /\ reads' \in Seq(Keys \X Nat) /\ Len(reads') = Len(reads) + 1 /\ Len(reads) \in Nat
        /\ reads'[Len(reads')] = <<c, v>> /\ DOMAIN reads' = 1 .. Len(reads) + 1
        /\ \A i \in DOMAIN reads : i \in DOMAIN reads' /\ reads'[i] = reads[i]
        /\ \A i \in DOMAIN reads' : i \in DOMAIN reads \/ reads'[i] = <<c, v>>
        /\ \A i, j \in DOMAIN reads' : i < j => i \in DOMAIN reads /\ (j \in DOMAIN reads \/ reads'[j] = <<c, v>>)
    BY <1>1, <2>1, AppendElements
  <2>3. Len(reads) + 1 > 0 /\ Len(reads) + 1 \in 1 .. Len(reads) + 1 BY <2>2
  <2> QED BY <2>2, <2>3
<1>11. \A k, x : RecordedAs(k, x)' <=> RecordedAs(k, x) \/ <<k, x>> = <<c, v>> BY <1>10 DEF RecordedAs
<1>12. \A k : Recorded(k)' <=> Recorded(k) \/ k = c
  <2> SUFFICES ASSUME NEW k PROVE Recorded(k)' <=> Recorded(k) \/ k = c
    OBVIOUS
  <2>1. ASSUME Recorded(k)' PROVE Recorded(k) \/ k = c
    <3>1. PICK i \in DOMAIN reads' : reads'[i][1] = k BY <2>1 DEF Recorded
    <3>2. CASE i \in DOMAIN reads BY <1>10, <3>1, <3>2 DEF Recorded
    <3>3. CASE reads'[i] = <<c, v>> BY <3>1, <3>3
    <3> QED BY <1>10, <3>2, <3>3
  <2>2. ASSUME Recorded(k) PROVE Recorded(k)'
    <3>1. PICK i \in DOMAIN reads : reads[i][1] = k BY <2>2 DEF Recorded
    <3> QED BY <1>10, <3>1 DEF Recorded
  <2>3. ASSUME k = c PROVE Recorded(k)'
    <3>1. reads'[Len(reads')][1] = c BY <1>10
    <3> QED BY <1>10, <2>3, <3>1 DEF Recorded
  <2> QED BY <2>1, <2>2, <2>3
<1>13. \A k : (Gone(k)' <=> Gone(k)) /\ (Passed(k)' <=> Passed(k)) BY <1>2, SamePlace
<1>14. \A k : (Settled(k)' <=> Passed(k)') /\ (Settled(k) <=> Passed(k)) BY <1>1 DEF Settled, Arrived
<1>15. \A k, x : Sees(k, x)' <=> Sees(k, x) BY <1>2 DEF Sees
<1>16. \A k, kind, x : Still(k, kind, x)' <=> Still(k, kind, x) BY <1>2 DEF Still
<1>17. \A k : Nobody(k)' <=> Nobody(k) BY <1>15 DEF Nobody
<1>18. ASSUME NEW k, k # c PROVE (Faithful(k)' <=> Faithful(k)) /\ (Dead(k)' <=> Dead(k))
  <2>1. Recorded(k)' <=> Recorded(k) BY <1>12, <1>18
  <2>2. \A x : RecordedAs(k, x)' <=> RecordedAs(k, x) BY <1>11, <1>18
  <2>3. Dead(k)' <=> Dead(k) BY <1>2, <1>16, <2>1, <2>2 DEF Dead
  <2>4. \A x : Sees(k, x)' <=> Sees(k, x) BY <1>15
  <2>5. \A kind, x : Still(k, kind, x)' <=> Still(k, kind, x) BY <1>16
  <2>6. Faithful(k)' <=> Faithful(k) BY <1>2, <2>1, <2>2, <2>4, <2>5, Zenon DEF Faithful
  <2> QED BY <2>3, <2>6
<1>19. ViewInv'
  <2>1. Keys' = Keys BY DEF Keys
  <2> SUFFICES ASSUME NEW k \in Keys
               PROVE  /\ Settled(k)' => Faithful(k)'
                      /\ ~ Settled(k)' => Nobody(k)'
                      /\ Gone(k)' /\ ~ Settled(k)' /\ writeSet'[k] = "none" => Dead(k)'
    BY <2>1 DEF ViewInv
  <2>2. ~ Settled(k)' => Nobody(k)' BY <1>13, <1>14, <1>17 DEF OpenInv, ViewInv
  <2>3. CASE k = c BY <1>7, <1>13, <1>14, <2>2, <2>3 DEF Passed
  <2>4. CASE k # c BY <1>2, <1>13, <1>14, <1>18, <2>2, <2>4 DEF OpenInv, ViewInv
  <2> QED BY <2>3, <2>4
<1>20. CursorInv'
  <2>1. First(mrem)' = First(mrem) BY <1>2 DEF First, Beyond
  <2>2. Own' = Own /\ Keys' = Keys BY <1>2 DEF Own, Keys
  <2>3. \A k \in Keys : Recorded(k)' => Gone(k)' \/ (Resolved' /\ k \in mrem' /\ k = First(mrem)')
    BY <1>2, <1>3, <1>8, <1>9, <1>12, <1>13, <2>1
  <2> QED BY <1>1, <1>2, <1>13, <2>2, <2>3 DEF OpenInv, CursorInv
<1>21. ItemInv'
  <2>1. First(mrem)' = c BY <1>2 DEF First, Beyond
  <2>2. item'.version = v /\ item'.kind = entry[c].kind BY <1>0, <1>1
  <2> QED BY <1>2, <1>5, <1>10, <2>1, <2>2 DEF ItemInv, Still
<1>22. Ordered(reads)'
  <2> SUFFICES ASSUME NEW i \in DOMAIN reads', NEW j \in DOMAIN reads', i < j
               PROVE  Beyond(reads'[j][1], reads'[i][1])
    BY <1>2 DEF Ordered, Beyond
  <2>1. i \in DOMAIN reads /\ reads'[i] = reads[i] BY <1>10
  <2>2. CASE j \in DOMAIN reads BY <1>10, <2>1, <2>2 DEF RecordInv, Ordered
  <2>3. CASE j \notin DOMAIN reads
    <3>1. reads'[j] = <<c, v>> BY <1>10, <2>3
    <3>2. PICK k : k = reads[i][1] OBVIOUS
    <3>3. k \in Keys /\ Recorded(k) BY <2>1, <3>2, ElementTypes DEF Recorded
    <3>4. Beyond(c, k) BY <1>3, <1>9, <3>3 DEF Gone
    <3> QED BY <2>1, <3>1, <3>2, <3>4
  <2> QED BY <2>2, <2>3
<1> QED BY <1>0, <1>1, <1>3, <1>5, <1>10, <1>11, <1>12, <1>19, <1>20, <1>21, <1>22 DEF OpenInv

(* The iterator is opened.                                                 *)
LEMMA OpenKeeps ==
  ASSUME IterTypeOK, RecordInv, Open, reads = <<>>, observed = <<>>
  PROVE  /\ OpenInv' /\ prem' \subseteq storage /\ mrem' \subseteq Keys /\ wrem' \subseteq Own
         /\ Present \subseteq mrem'
<1>1. /\ phase' = "resolve" /\ mrem' = Known /\ prem' = storage /\ wrem' = Own
      /\ UNCHANGED <<data, memory, reads, observed>>
  BY DEF Open, Own
<1>2. UNCHANGED <<ascending, storage, writeSet, entry>> /\ reads' = <<>> /\ observed' = <<>>
  BY <1>1 DEF data, memory
<1>3. DOMAIN reads' = {} /\ DOMAIN observed' = {} BY <1>2
<1>4. \A k, v : ~ Recorded(k)' /\ ~ RecordedAs(k, v)' /\ ~ Sees(k, v)'
  BY <1>3 DEF Recorded, RecordedAs, Sees
<1>5. \A k : Settled(k)' <=> Passed(k)' BY <1>1 DEF Settled, Arrived
<1>6. Own' = Own /\ Keys' = Keys BY <1>2 DEF Own, Keys
<1>7. ASSUME NEW k \in Keys
      PROVE  /\ Gone(k)' => k \notin storage
             /\ Passed(k)' => writeSet[k] = "none"
  <2>1. ~ Beyond(k, k)' BY KeyTypes, Order, <1>2 DEF Beyond
  <2>2. Gone(k)' => k \notin prem' BY <2>1 DEF Gone
  <2>3. Passed(k)' => k \notin wrem' BY <2>1 DEF Passed
  <2> QED BY <1>1, <2>2, <2>3 DEF Own
<1>8. ViewInv'
  <2> SUFFICES ASSUME NEW k \in Keys
               PROVE  /\ Passed(k)' => Faithful(k)'
                      /\ Nobody(k)'
                      /\ Gone(k)' => Dead(k)'
    BY <1>5, <1>6 DEF ViewInv
  <2>1. Nobody(k)' BY <1>4 DEF Nobody
  <2>2. Gone(k)' => Dead(k)' BY <1>2, <1>4, <1>7 DEF Dead
  <2>3. Passed(k)' => Gone(k)' BY DEF Passed
  <2>4. Passed(k)' => Faithful(k)' BY <1>2, <1>4, <1>7, <2>3 DEF Faithful
  <2> QED BY <2>1, <2>2, <2>4
<1>9. CursorInv' BY <1>1, <1>2, <1>4, <1>6 DEF CursorInv
<1>10. ItemInv'
  <2>1. ~ Resolved' BY <1>1 DEF Resolved
  <2> QED BY <2>1 DEF ItemInv
<1>11. Present \subseteq Known
  <2> SUFFICES ASSUME NEW k \in Present PROVE k \in Known
    OBVIOUS
  <2>1. k \in Keys /\ entry[k].version # 0 BY DEF Present, RecordInv
  <2>2. entry[k].version \in Nat BY <2>1 DEF IterTypeOK, Entries
  <2> QED BY <2>1, <2>2 DEF Known
<1> QED BY <1>1, <1>8, <1>9, <1>10, <1>11 DEF OpenInv, Known

(***************************************************************************)
(* The lower transactions                                                  *)
(***************************************************************************)
(* A change never brings back an entry that was read before: an entry with *)
(* a version that a read has recorded is the one it was.                   *)
LEMMA ChangeFacts ==
  ASSUME IterTypeOK, RecordInv, NEW k0 \in Keys, Change(k0)
  PROVE  /\ entry' \in [Keys -> Entries]
         /\ \A k \in Keys : entry'[k].version >= entry[k].version
         /\ \A k \in Keys : entry'[k].version = 0 => entry'[k].kind = "absent"
         /\ \A k \in Keys : \A kind \in {"value", "deleted"} : \A x \in Nat :
              x <= entry[k].version /\ Still(k, kind, x)' => Still(k, kind, x)
<1>0. entry \in [Keys -> Entries] BY DEF IterTypeOK
<1>1. entry[k0].kind \in Kinds /\ entry[k0].version \in Nat /\ entry[k0] \in Entries BY <1>0 DEF Entries, Kinds
<1>2. \A k \in Keys : entry[k].version \in Nat BY <1>0 DEF Entries
<1>3. entry[k0].version = 0 => entry[k0].kind = "absent" BY DEF RecordInv
<1> DEFINE New(e) == /\ entry' = [entry EXCEPT ![k0] = e]
                     /\ \/ e.kind \in {"value", "deleted"} /\ e.version = entry[k0].version + 1
                        \/ e.kind = "estimate" /\ e.version = entry[k0].version /\ entry[k0].version # 0
                        \/ e.kind = "absent" /\ e.version = entry[k0].version
<1>4. \E e \in Entries : New(e)
  <2>1. ASSUME NEW kind \in {"value", "deleted"},
               entry' = [entry EXCEPT ![k0] = [kind |-> kind, version |-> @.version + 1]]
        PROVE  \E e \in Entries : New(e)
    <3> DEFINE e == [kind |-> kind, version |-> entry[k0].version + 1]
    <3>1. e \in Entries BY <1>1 DEF Entries
    <3>2. entry' = [entry EXCEPT ![k0] = e] BY <2>1
    <3> QED BY <3>1, <3>2
  <2>2. ASSUME entry[k0].kind \in {"value", "deleted"}, entry' = [entry EXCEPT ![k0].kind = "estimate"]
        PROVE  \E e \in Entries : New(e)
    <3> DEFINE e == [kind |-> "estimate", version |-> entry[k0].version]
    <3>1. e \in Entries BY <1>1 DEF Entries
    <3>2. [entry[k0] EXCEPT !.kind = "estimate"] = e BY <1>1 DEF Entries
    <3>3. entry' = [entry EXCEPT ![k0] = e] BY <2>2, <3>2
    <3>4. entry[k0].version # 0 BY <1>3, <2>2
    <3> QED BY <3>1, <3>3, <3>4
  <2>3. ASSUME entry' = [entry EXCEPT ![k0].kind = "absent"]
        PROVE  \E e \in Entries : New(e)
    <3> DEFINE e == [kind |-> "absent", version |-> entry[k0].version]
    <3>1. e \in Entries BY <1>1 DEF Entries
    <3>2. [entry[k0] EXCEPT !.kind = "absent"] = e BY <1>1 DEF Entries
    <3>3. entry' = [entry EXCEPT ![k0] = e] BY <2>3, <3>2
    <3> QED BY <3>1, <3>3
  <2> QED BY <2>1, <2>2, <2>3 DEF Change
<1>5. PICK e \in Entries : New(e)
  BY <1>4
<1>6. entry'[k0] = e /\ \A k \in Keys : k # k0 => entry'[k] = entry[k] BY <1>0, <1>5
<1>7. entry' \in [Keys -> Entries] BY <1>0, <1>5
<1>8. e.version >= entry[k0].version /\ (e.version = 0 => e.kind = "absent") BY <1>1, <1>5
<1>9. \A k \in Keys : entry'[k].version >= entry[k].version BY <1>2, <1>6, <1>8
<1>10. \A k \in Keys : entry'[k].version = 0 => entry'[k].kind = "absent" BY <1>6, <1>8 DEF RecordInv
<1>11. ASSUME NEW k \in Keys, NEW kind \in {"value", "deleted"}, NEW x \in Nat,
              x <= entry[k].version, Still(k, kind, x)'
       PROVE  Still(k, kind, x)
  <2>1. entry'[k].kind = kind /\ entry'[k].version = x BY <1>11 DEF Still
  <2>2. CASE k # k0 BY <1>6, <2>1, <2>2 DEF Still
  <2>3. CASE k = k0
    <3>1. e.kind = kind /\ e.version = x BY <1>6, <2>1, <2>3
    <3>2. x = entry[k].version + 1 BY <1>5, <2>3, <3>1
    <3> QED BY <1>2, <1>11, <3>2
  <2> QED BY <2>2, <2>3
<1> QED BY <1>7, <1>9, <1>10, <1>11

(* What the caller has seen stays faithful.                                *)
LEMMA LowerView ==
  ASSUME IterTypeOK, RecordInv, NEW k0 \in Keys, Lower(k0), NEW k \in Keys
  PROVE  /\ Faithful(k) => Faithful(k)'
         /\ Dead(k) => Dead(k)'
         /\ Nobody(k)' <=> Nobody(k)
         /\ Recorded(k)' <=> Recorded(k)
<1>1. Change(k0) /\ UNCHANGED <<data, reads, observed>> BY DEF Lower
<1>2. UNCHANGED <<ascending, storage, writeSet, reads, observed>> BY <1>1 DEF data
<1>3. \A v : Sees(k, v)' <=> Sees(k, v) BY <1>2 DEF Sees
<1>4. \A v : RecordedAs(k, v)' <=> RecordedAs(k, v) BY <1>2 DEF RecordedAs
<1>5. Recorded(k)' <=> Recorded(k) BY <1>2 DEF Recorded
<1>6. \A x \in Nat : \A kind \in {"value", "deleted"} :
        RecordedAs(k, x) /\ Still(k, kind, x)' => Still(k, kind, x)
  <2>1. \A x \in Nat : RecordedAs(k, x) => x <= entry[k].version BY DEF RecordInv
  <2> QED BY <1>1, <2>1, ChangeFacts
<1>7. Dead(k) => Dead(k)' BY <1>2, <1>4, <1>5, <1>6 DEF Dead
<1>8. Faithful(k) => Faithful(k)'
  <2> SUFFICES ASSUME Faithful(k) PROVE Faithful(k)'
    OBVIOUS
  <2>1. (writeSet[k] = "set" => \A v : Sees(k, v) <=> v = "own")' BY <1>2, <1>3 DEF Faithful
  <2>2. (writeSet[k] = "deleted" => \A v : ~ Sees(k, v))' BY <1>2, <1>3 DEF Faithful
  <2>3. (writeSet[k] = "none" /\ ~ Recorded(k) => \A v : Sees(k, v) <=> k \in storage /\ v = 0)'
    BY <1>2, <1>3, <1>5 DEF Faithful
  <2>4. ASSUME NEW x \in Nat, writeSet[k] = "none"
        PROVE  /\ (RecordedAs(k, x) /\ Still(k, "value", x) => \A v : Sees(k, v) <=> v = x)'
               /\ (RecordedAs(k, x) /\ Still(k, "deleted", x) => \A v : ~ Sees(k, v))'
    BY <1>3, <1>4, <1>6, <2>4 DEF Faithful
  <2>5. writeSet'[k] = writeSet[k] BY <1>2
  <2> QED BY <2>1, <2>2, <2>3, <2>4, <2>5 DEF Faithful
<1>9. Nobody(k)' <=> Nobody(k) BY <1>3 DEF Nobody
<1> QED BY <1>5, <1>7, <1>8, <1>9

(* A change while the iterator is open.                                    *)
LEMMA LowerOpen ==
  ASSUME IterTypeOK, RecordInv, OpenInv, NEW k0 \in Keys, Lower(k0)
  PROVE  OpenInv'
<1>1. Change(k0) /\ UNCHANGED <<data, phase, cursor, reads, observed>> BY DEF Lower
<1>2. UNCHANGED <<ascending, storage, writeSet, phase, prem, mrem, wrem, item, reads, observed>>
  BY <1>1 DEF data, cursor
<1>3. \A k : (Gone(k)' <=> Gone(k)) /\ (Passed(k)' <=> Passed(k)) BY <1>2, SamePlace
<1>4. /\ Current' = Current /\ (Valid' <=> Valid) /\ (InnerSkips' <=> InnerSkips)
      /\ (OuterSkips' <=> OuterSkips) /\ First(mrem)' = First(mrem)
  BY <1>2, SameTop
<1>5. \A k : Settled(k)' <=> Settled(k) BY <1>2, <1>3, <1>4 DEF Settled, Arrived
<1>6. \A k \in Keys : /\ Faithful(k) => Faithful(k)'
                      /\ Dead(k) => Dead(k)'
                      /\ Nobody(k)' <=> Nobody(k)
                      /\ Recorded(k)' <=> Recorded(k)
  BY LowerView
<1>7. ViewInv' BY <1>2, <1>3, <1>5, <1>6 DEF OpenInv, ViewInv, Keys
<1>8. Resolved' <=> Resolved BY <1>2 DEF Resolved
<1>9. CursorInv'
  <2>1. Own' = Own /\ Keys' = Keys BY <1>2 DEF Own, Keys
  <2> QED BY <1>2, <1>3, <1>4, <1>6, <1>8, <2>1 DEF OpenInv, CursorInv
<1>10. ItemInv'
  <2> SUFFICES ASSUME Resolved, mrem # {}, NEW kind \in {"value", "deleted"}, Still(First(mrem), kind, item.version)'
               PROVE  kind = item.kind
    BY <1>2, <1>4, <1>8 DEF OpenInv, ItemInv
  <2>1. PICK c : c = First(mrem) OBVIOUS
  <2>2. c \in Keys
    <3>1. mrem \in SUBSET Keys BY CursorTypes
    <3> QED BY <2>1, <3>1, FirstIsFirst
  <2>3. RecordedAs(c, item.version) BY <2>1, ItemRecorded DEF OpenInv
  <2>4. item.version \in Nat
    <3>1. \E i \in DOMAIN reads : reads[i] = <<c, item.version>> BY <2>3 DEF RecordedAs
    <3> QED BY <3>1, ElementTypes
  <2>5. item.version <= entry[c].version BY <2>2, <2>3, <2>4 DEF RecordInv
  <2>6. Still(c, kind, item.version)' BY <1>2, <1>4, <2>1 DEF Still
  <2>7. Still(c, kind, item.version) BY <1>1, <1>2, <2>2, <2>4, <2>5, <2>6, ChangeFacts DEF Still
  <2> QED BY <2>1, <2>7 DEF OpenInv, ItemInv
<1> QED BY <1>7, <1>9, <1>10 DEF OpenInv

(* A change after the iterator is closed.                                  *)
LEMMA LowerClosed ==
  ASSUME IterTypeOK, RecordInv, ClosedInv, NEW k0 \in Keys, Lower(k0)
  PROVE  ClosedInv'
<1>1. UNCHANGED <<ascending, stop>> BY DEF Lower, data
<1>2. \A k : Within(k)' <=> Within(k) BY <1>1 DEF Within, Beyond
<1>3. \A k \in Keys : (Faithful(k) => Faithful(k)') /\ (Nobody(k)' <=> Nobody(k)) BY LowerView
<1> QED BY <1>2, <1>3 DEF ClosedInv, Keys

(***************************************************************************)
(* The iterator is closed                                                  *)
(***************************************************************************)
(* Only a last read beyond the stop key is dropped.                        *)
LEMMA TrimFacts ==
  ASSUME IterTypeOK, NEW c \in Keys, NEW r, r = Trimmed(c)
  PROVE  /\ r \in Seq(Keys \X Nat)
         /\ \A i \in DOMAIN r : i \in DOMAIN reads /\ r[i] = reads[i]
         /\ \A i \in DOMAIN reads : i \in DOMAIN r \/ Beyond(reads[i][1], c)
         /\ Len(reads) > 0 /\ Beyond(reads[Len(reads)][1], c) => \A i \in DOMAIN r : i < Len(reads)
<1>0. reads \in Seq(Keys \X Nat) BY DEF IterTypeOK
<1>1. DOMAIN reads = 1 .. Len(reads) /\ Len(reads) \in Nat BY <1>0, LenProperties
<1>2. PICK n \in Nat : n = Len(reads) BY <1>1
<1>3. CASE reads # <<>> /\ Beyond(reads[Len(reads)][1], c)
  <2>1. r = SubSeq(reads, 1, n - 1) BY <1>2, <1>3 DEF Trimmed
  <2>2. n > 0 BY <1>0, <1>1, <1>2, <1>3, EmptySeq
  <2>3. /\ r \in Seq(Keys \X Nat) /\ Len(r) = n - 1 /\ \A i \in 1 .. n - 1 : r[i] = reads[i]
    <3>1. 1 \in 1 .. n + 1 /\ n - 1 \in 1 - 1 .. n BY <2>2
    <3> QED BY <1>0, <1>2, <2>1, <2>2, SubSeqProperties
  <2>4. DOMAIN r = 1 .. n - 1 BY <2>3, LenProperties
  <2>5. \A i \in 1 .. n - 1 : i \in 1 .. n /\ i < n OBVIOUS
  <2>6. \A i \in 1 .. n : i \in 1 .. n - 1 \/ i = n OBVIOUS
  <2> QED BY <1>1, <1>2, <1>3, <2>3, <2>4, <2>5, <2>6
<1>4. CASE ~ (reads # <<>> /\ Beyond(reads[Len(reads)][1], c))
  <2>1. r = reads BY <1>4 DEF Trimmed
  <2>2. Len(reads) > 0 => reads # <<>> BY <1>0, EmptySeq
  <2> QED BY <1>0, <1>4, <2>1, <2>2
<1> QED BY <1>3, <1>4

(* The caller has seen everything.                                         *)
LEMMA CloseEnd ==
  ASSUME IterTypeOK, OpenInv, QuietInv, stop = 0, Close, ~ Valid
  PROVE  ClosedInv' /\ QuietInv' /\ reads' = reads /\ stop' = stop
<1>1. /\ phase = "at" /\ phase' = "done" /\ UNCHANGED <<data, memory, reads, observed, stop>>
  BY DEF Close
<1>2. UNCHANGED <<ascending, storage, writeSet, entry, changes>> BY <1>1 DEF data, memory
<1>3. prem = {} /\ mrem = {} /\ wrem = {} BY DEF Valid, Inner
<1>4. \A k : Settled(k) BY <1>3 DEF Settled, Passed, Gone
<1>5. \A k : /\ Faithful(k)' <=> Faithful(k)
             /\ Nobody(k)' <=> Nobody(k)
             /\ Recorded(k)' <=> Recorded(k)
  BY <1>1, SameView
<1>6. \A k : Within(k)' BY <1>1 DEF Within
<1>7. ClosedInv' BY <1>4, <1>5, <1>6 DEF ClosedInv, OpenInv, ViewInv, Keys
<1>8. QuietInv'
  <2>1. \A k, x : RecordedAs(k, x)' <=> RecordedAs(k, x) BY <1>1 DEF RecordedAs
  <2>2. \A k, kind, x : Still(k, kind, x)' <=> Still(k, kind, x) BY <1>2 DEF Still
  <2>3. Present' = Present /\ Keys' = Keys BY <1>2 DEF Present, Keys
  <2>4. changes = 0 => \A k \in Present : Recorded(k) BY <1>1, <1>3 DEF QuietInv
  <2>5. changes = 0 => \A k \in Keys : \A x \in Nat : RecordedAs(k, x) => Still(k, "value", x) \/ Still(k, "deleted", x)
    BY DEF QuietInv
  <2> QED BY <1>1, <1>2, <1>5, <1>6, <2>1, <2>2, <2>3, <2>4, <2>5 DEF QuietInv
<1> QED BY <1>1, <1>7, <1>8

(* The caller stops at a key.                                              *)
LEMMA CloseAt ==
  ASSUME IterTypeOK, RecordInv, OpenInv, QuietInv, Close, Valid
  PROVE  /\ ClosedInv' /\ QuietInv' /\ stop' \in Keys
         /\ reads' \in Seq(Keys \X Nat) /\ Ordered(reads)'
         /\ \A k, x : RecordedAs(k, x)' => RecordedAs(k, x)
<1>0. PICK c : c = Current[1] OBVIOUS
<1>1. /\ phase = "at" /\ phase' = "done" /\ stop' = c /\ reads' = Trimmed(c)
      /\ UNCHANGED <<data, memory, observed>>
  BY <1>0 DEF Close
<1>2. UNCHANGED <<ascending, storage, writeSet, entry, changes, observed>> BY <1>1 DEF data, memory
<1>3. /\ c \in prem \cup mrem \cup wrem /\ c \in Keys
      /\ \A j \in prem \cup mrem \cup wrem : j = c \/ Beyond(j, c)
  BY <1>0, TopFacts
<1>4. /\ reads' \in Seq(Keys \X Nat)
      /\ \A i \in DOMAIN reads' : i \in DOMAIN reads /\ reads'[i] = reads[i]
      /\ \A i \in DOMAIN reads : i \in DOMAIN reads' \/ Beyond(reads[i][1], c)
      /\ Len(reads) > 0 /\ Beyond(reads[Len(reads)][1], c) => \A i \in DOMAIN reads' : i < Len(reads)
  BY <1>1, <1>3, TrimFacts
<1>5. \A k : Within(k)' <=> ~ Beyond(k, c)
  <2>1. c # 0 BY <1>3, KeyTypes
  <2>2. \A k : Beyond(k, stop)' <=> Beyond(k, c) BY <1>1, <1>2 DEF Beyond
  <2> QED BY <1>1, <2>1, <2>2 DEF Within
<1>6. \A k \in Keys : Settled(k) <=> ~ Beyond(k, c)
  <2> SUFFICES ASSUME NEW k \in Keys PROVE Settled(k) <=> ~ Beyond(k, c)
    OBVIOUS
  <2>0. k \in Int /\ c \in Int BY <1>3, KeyTypes
  <2>1. CASE k = c
    <3>1. Settled(k) BY <1>0, <1>1, <2>1 DEF Settled, Arrived
    <3> QED BY <2>0, <2>1, <3>1, Order
  <2>2. CASE k # c
    <3>1. ~ Arrived(k) BY <1>0, <2>2 DEF Arrived
    <3>2. Passed(k) => Beyond(c, k) BY <1>3 DEF Passed, Gone
    <3>3. ASSUME Beyond(c, k) PROVE Passed(k)
      <4>1. ASSUME NEW j \in prem \cup mrem \cup wrem PROVE Beyond(j, k)
        <5>1. j \in Int BY CursorTypes, KeyTypes
        <5>2. j = c \/ Beyond(j, c) BY <1>3
        <5> QED BY <2>0, <3>3, <5>1, <5>2, Order
      <4> QED BY <4>1 DEF Passed, Gone
    <3>4. Beyond(c, k) <=> ~ Beyond(k, c) BY <2>0, <2>2, Order
    <3> QED BY <3>1, <3>2, <3>3, <3>4 DEF Settled
  <2> QED BY <2>1, <2>2
<1>7. \A k, x : Sees(k, x)' <=> Sees(k, x) BY <1>2 DEF Sees
<1>8. \A k, kind, x : Still(k, kind, x)' <=> Still(k, kind, x) BY <1>2 DEF Still
<1>9. \A k : Recorded(k)' => Recorded(k) BY <1>4 DEF Recorded
<1>10. \A k, x : RecordedAs(k, x)' => RecordedAs(k, x) BY <1>4 DEF RecordedAs
<1>11. \A k : ~ Beyond(k, c) /\ Recorded(k) => Recorded(k)' BY <1>4 DEF Recorded
<1>12. \A k, x : ~ Beyond(k, c) /\ RecordedAs(k, x) => RecordedAs(k, x)'
  <2> SUFFICES ASSUME NEW k, NEW x, ~ Beyond(k, c), RecordedAs(k, x) PROVE RecordedAs(k, x)'
    OBVIOUS
  <2>1. PICK i \in DOMAIN reads : reads[i] = <<k, x>> BY DEF RecordedAs
  <2>2. reads[i][1] = k BY <2>1
  <2>3. i \in DOMAIN reads' BY <1>4, <2>2
  <2> QED BY <1>4, <2>1, <2>3 DEF RecordedAs
<1>13. ASSUME NEW k \in Keys, ~ Beyond(k, c) PROVE Faithful(k)'
  <2>1. Faithful(k) BY <1>6, <1>13 DEF OpenInv, ViewInv
  <2>2. Recorded(k)' <=> Recorded(k) BY <1>9, <1>11, <1>13
  <2>3. \A x : RecordedAs(k, x)' <=> RecordedAs(k, x) BY <1>10, <1>12, <1>13
  <2>4. \A x : Sees(k, x)' <=> Sees(k, x) BY <1>7
  <2>5. \A kind, x : Still(k, kind, x)' <=> Still(k, kind, x) BY <1>8
  <2> QED BY <1>2, <2>1, <2>2, <2>3, <2>4, <2>5, Zenon DEF Faithful
<1>14. ASSUME NEW k \in Keys, Beyond(k, c) PROVE Nobody(k)'
  <2>1. Nobody(k) BY <1>6, <1>14 DEF OpenInv, ViewInv
  <2> QED BY <1>7, <2>1 DEF Nobody
<1>15. ClosedInv' BY <1>5, <1>13, <1>14 DEF ClosedInv, Keys
<1>16. Ordered(reads)'
  <2> SUFFICES ASSUME NEW i \in DOMAIN reads', NEW j \in DOMAIN reads', i < j
               PROVE  Beyond(reads'[j][1], reads'[i][1])
    BY <1>2 DEF Ordered, Beyond
  <2> QED BY <1>4 DEF RecordInv, Ordered
<1>17. Resolved BY <1>1 DEF Resolved
<1>18. ASSUME changes = 0, Own = {}, NEW k \in Keys
       PROVE  (k \in Present /\ ~ Beyond(k, c) => Recorded(k)') /\ (Recorded(k)' => ~ Beyond(k, c))
  <2>0. k \in Int /\ c \in Int BY <1>3, KeyTypes
  <2>1. wrem = {} BY <1>18 DEF IterTypeOK
  <2>2. c \in prem \cup mrem BY <1>3, <2>1
  <2>3. mrem \in SUBSET Keys BY CursorTypes
  <2>4. ASSUME k \in Present, ~ Beyond(k, c) PROVE Recorded(k)'
    <3>1. k \in mrem \/ Recorded(k) BY <1>1, <1>18, <2>4 DEF QuietInv
    <3>2. CASE Recorded(k) BY <1>11, <2>4, <3>2
    <3>3. CASE k \in mrem
      <4>1. k = c BY <1>3, <2>4, <3>3
      <4>2. First(mrem) = c BY <1>3, <2>3, <3>3, <4>1, FirstUnique
      <4>3. Recorded(First(mrem)) BY <1>17, <3>3, ItemRecorded DEF OpenInv
      <4> QED BY <1>11, <2>4, <4>1, <4>2, <4>3
    <3> QED BY <3>1, <3>2, <3>3
  <2>5. ASSUME Recorded(k)', Beyond(k, c) PROVE FALSE
    <3>1. Recorded(k) BY <1>9, <2>5
    <3>2. ~ Gone(k)
      <4>1. ~ Beyond(c, k) BY <2>0, <2>5, Order
      <4> QED BY <2>2, <4>1 DEF Gone
    <3>3. k \in mrem /\ k = First(mrem) BY <3>1, <3>2 DEF OpenInv, CursorInv
    <3>4. Len(reads) > 0 /\ reads[Len(reads)][1] = k BY <1>17, <3>3 DEF OpenInv, ItemInv
    <3>5. PICK i \in DOMAIN reads' : reads'[i][1] = k BY <2>5 DEF Recorded
    <3>6. i < Len(reads) /\ i \in DOMAIN reads /\ reads[i][1] = k BY <1>4, <2>5, <3>4, <3>5
    <3>7. Len(reads) \in DOMAIN reads
      <4>1. DOMAIN reads = 1 .. Len(reads) /\ Len(reads) \in Nat BY LenProperties DEF IterTypeOK
      <4> QED BY <3>4, <4>1
    <3>8. Beyond(k, k) BY <3>4, <3>6, <3>7 DEF RecordInv, Ordered
    <3> QED BY <2>0, <3>8, Order
  <2> QED BY <2>4, <2>5
<1>19. QuietInv'
  <2>1. Present' = Present /\ Keys' = Keys /\ Own' = Own BY <1>2 DEF Present, Keys, Own
  <2>2. changes = 0 => \A k \in Keys : \A x \in Nat : RecordedAs(k, x)' => Still(k, "value", x)' \/ Still(k, "deleted", x)'
    BY <1>8, <1>10 DEF QuietInv
  <2>3. changes = 0 /\ Own = {} => \A k \in Keys :
          (k \in Present /\ Within(k)' => Recorded(k)') /\ (Recorded(k)' => Within(k)')
    BY <1>5, <1>18
  <2> QED BY <1>1, <1>2, <2>1, <2>2, <2>3 DEF QuietInv
<1> QED BY <1>1, <1>3, <1>4, <1>10, <1>15, <1>16, <1>19

(***************************************************************************)
(* The invariant                                                           *)
(***************************************************************************)
(* A step of the iterators that records and sees nothing.                  *)
LEMMA PlainStep ==
  ASSUME IterTypeOK, RecordInv, QuietInv, UNCHANGED <<data, memory, reads, observed, stop>>,
         prem' \subseteq prem, mrem' \subseteq mrem, wrem' \subseteq wrem,
         phase \in {"resolve", "inner", "outer", "at"}, phase' \in {"resolve", "inner", "outer", "at"},
         \A k \in mrem \ mrem' : Recorded(k) \/ entry[k].kind = "absent"
  PROVE  IterTypeOK' /\ RecordInv' /\ QuietInv'
<1>1. UNCHANGED <<ascending, storage, writeSet, entry, changes, reads, observed, stop>> BY DEF data, memory
<1>2. Own' = Own /\ Keys' = Keys /\ Present' = Present BY <1>1 DEF Own, Keys, Present
<1>3. IterTypeOK' BY <1>1, <1>2 DEF IterTypeOK
<1>4. \A k, x : RecordedAs(k, x)' <=> RecordedAs(k, x) BY <1>1 DEF RecordedAs
<1>5. \A k : Recorded(k)' <=> Recorded(k) BY <1>1 DEF Recorded
<1>6. \A k, kind, x : Still(k, kind, x)' <=> Still(k, kind, x) BY <1>1 DEF Still
<1>7. RecordInv'
  <2>1. (Ordered(reads)' <=> Ordered(reads)) /\ (Ordered(observed)' <=> Ordered(observed))
    BY <1>1 DEF Ordered, Beyond
  <2> QED BY <1>1, <1>2, <1>4, <2>1 DEF RecordInv
<1>8. ASSUME changes = 0, NEW k \in Present PROVE k \in mrem' \/ Recorded(k)
  <2>1. k \in mrem \/ Recorded(k) BY <1>8 DEF QuietInv
  <2>2. entry[k].kind # "absent" BY DEF Present
  <2> QED BY <2>1, <2>2
<1>9. QuietInv' BY <1>1, <1>2, <1>4, <1>5, <1>6, <1>8 DEF QuietInv
<1> QED BY <1>3, <1>7, <1>9

LEMMA InitKeeps == IterInit => IterInv
<1> SUFFICES ASSUME IterInit PROVE IterInv
  OBVIOUS
<1>1. /\ ascending \in BOOLEAN /\ storage \in SUBSET Keys /\ writeSet \in [Keys -> {"none", "set", "deleted"}]
      /\ entry \in [Keys -> Entries0] /\ changes = 0 /\ phase = "closed"
      /\ prem = {} /\ mrem = {} /\ wrem = {} /\ reads = <<>> /\ observed = <<>> /\ stop = 0
  BY DEF IterInit
<1>2. entry \in [Keys -> Entries] BY <1>1, IteratorAssumption
<1>3. DOMAIN reads = {} /\ DOMAIN observed = {} BY <1>1
<1>4. IterTypeOK
  <2>1. reads \in Seq(Keys \X Nat) /\ observed \in Seq(Keys \X (Nat \cup {"own"})) BY <1>1
  <2>2. stop \in 0 .. NKeys BY <1>1, IteratorAssumption
  <2> QED BY <1>1, <1>2, <2>1, <2>2 DEF IterTypeOK
<1>5. \A k, x : ~ RecordedAs(k, x) BY <1>3 DEF RecordedAs
<1>6. RecordInv
  <2>1. Ordered(reads) /\ Ordered(observed) BY <1>3 DEF Ordered
  <2>2. \A k \in Keys : entry[k].version = 0 => entry[k].kind = "absent" BY <1>1, IteratorAssumption
  <2> QED BY <1>5, <2>1, <2>2 DEF RecordInv
<1>7. QuietInv BY <1>1, <1>5 DEF QuietInv
<1> QED BY <1>1, <1>4, <1>6, <1>7 DEF IterInv

(* Every step keeps the invariant, of the iterators and of the lower       *)
(* transactions between and after them.                                    *)
LEMMA StepKeeps == IterInv /\ [IterNext]_iterVars => IterInv'
<1> SUFFICES ASSUME IterInv, [IterNext]_iterVars PROVE IterInv'
  OBVIOUS
<1>0. /\ IterTypeOK /\ RecordInv /\ QuietInv
      /\ phase = "closed" => reads = <<>> /\ observed = <<>>
      /\ phase # "done" => stop = 0
      /\ phase \notin {"closed", "done"} => OpenInv
      /\ phase = "done" => ClosedInv
  BY DEF IterInv
<1>1. ASSUME Open PROVE IterInv'
  <2>1. phase = "closed" /\ phase' = "resolve" /\ UNCHANGED <<data, memory, reads, observed, stop>>
    BY <1>1 DEF Open
  <2>2. /\ OpenInv' /\ prem' \subseteq storage /\ mrem' \subseteq Keys /\ wrem' \subseteq Own
        /\ Present \subseteq mrem'
    BY <1>0, <1>1, <2>1, OpenKeeps
  <2>3. UNCHANGED <<ascending, storage, writeSet, entry, changes, reads, observed, stop>> BY <2>1 DEF data, memory
  <2>4. Own' = Own /\ Keys' = Keys /\ Present' = Present BY <2>3 DEF Own, Keys, Present
  <2>5. IterTypeOK' BY <1>0, <2>1, <2>2, <2>3, <2>4 DEF IterTypeOK
  <2>6. \A k, x : RecordedAs(k, x)' <=> RecordedAs(k, x) BY <2>3 DEF RecordedAs
  <2>7. \A k, kind, x : Still(k, kind, x)' <=> Still(k, kind, x) BY <2>3 DEF Still
  <2>8. RecordInv'
    <3>1. (Ordered(reads)' <=> Ordered(reads)) /\ (Ordered(observed)' <=> Ordered(observed))
      BY <2>3 DEF Ordered, Beyond
    <3> QED BY <1>0, <2>3, <2>4, <2>6, <3>1 DEF RecordInv
  <2>9. QuietInv'
    <3>1. \A k \in Present' : k \in mrem' BY <2>2, <2>4
    <3> QED BY <1>0, <2>1, <2>3, <2>4, <2>6, <2>7, <3>1 DEF QuietInv
  <2> QED BY <1>0, <2>1, <2>2, <2>5, <2>8, <2>9 DEF IterInv
<1>2. ASSUME UNCHANGED <<data, memory, reads, observed, stop>>,
             prem' \subseteq prem, mrem' \subseteq mrem, wrem' \subseteq wrem,
             phase \in {"resolve", "inner", "outer", "at"}, phase' \in {"resolve", "inner", "outer", "at"},
             \A k \in mrem \ mrem' : Recorded(k) \/ entry[k].kind = "absent", OpenInv'
      PROVE  IterInv'
  <2>1. IterTypeOK' /\ RecordInv' /\ QuietInv' BY <1>0, <1>2, PlainStep
  <2> QED BY <1>0, <1>2, <2>1 DEF IterInv
<1>3. ASSUME Resolve PROVE IterInv'
  <2>1. phase = "resolve" /\ UNCHANGED <<data, memory, prem, wrem, observed, stop>> BY <1>3 DEF Resolve
  <2>2. OpenInv BY <1>0, <2>1
  <2>3. CASE mrem = {}
    <3>1. phase' = "inner" /\ UNCHANGED <<mrem, item, reads>> BY <1>3, <2>3 DEF Resolve
    <3>2. OpenInv' BY <1>0, <2>1, <2>2, <2>3, <3>1, PhaseOnly DEF cursor
    <3> QED BY <1>2, <2>1, <3>1, <3>2
  <2>4. CASE mrem # {} /\ entry[First(mrem)].kind = "absent"
    <3>1. /\ OpenInv' /\ phase' = "resolve" /\ prem' = prem /\ wrem' = wrem /\ reads' = reads
          /\ mrem' \subseteq mrem /\ \A k \in mrem \ mrem' : entry[k].kind = "absent"
      BY <1>0, <1>3, <2>2, <2>4, ResolveAbsent
    <3> QED BY <1>2, <2>1, <3>1
  <2>5. CASE mrem # {} /\ entry[First(mrem)].kind # "absent"
    <3>0. PICK c : c = First(mrem) OBVIOUS
    <3>1. /\ OpenInv' /\ UNCHANGED <<data, memory, observed, prem, mrem, wrem, stop>> /\ phase' = "inner"
          /\ reads' \in Seq(Keys \X Nat) /\ Ordered(reads)'
          /\ c \in Keys /\ entry[c].kind \in {"value", "deleted"}
          /\ \A k, x : RecordedAs(k, x)' <=> RecordedAs(k, x) \/ <<k, x>> = <<c, entry[c].version>>
          /\ \A k : Recorded(k)' <=> Recorded(k) \/ k = c
      BY <1>0, <1>3, <2>2, <2>5, <3>0, ResolveHit
    <3>2. UNCHANGED <<ascending, storage, writeSet, entry, changes, observed>> BY <3>1 DEF data, memory
    <3>3. Own' = Own /\ Keys' = Keys /\ Present' = Present BY <3>2 DEF Own, Keys, Present
    <3>4. IterTypeOK' BY <1>0, <3>1, <3>2, <3>3 DEF IterTypeOK
    <3>5. entry[c].version \in Nat BY <1>0, <3>1 DEF IterTypeOK, Entries
    <3>6. RecordInv'
      <4>1. Ordered(observed)' <=> Ordered(observed) BY <3>2 DEF Ordered, Beyond
      <4>2. ASSUME NEW k \in Keys, NEW x \in Nat, RecordedAs(k, x)' PROVE x <= entry'[k].version
        <5>1. CASE RecordedAs(k, x) BY <1>0, <3>2, <5>1 DEF RecordInv
        <5>2. CASE k = c /\ x = entry[c].version BY <3>2, <3>5, <5>2
        <5> QED BY <3>1, <4>2, <5>1, <5>2
      <4> QED BY <1>0, <3>1, <3>2, <3>3, <4>1, <4>2 DEF RecordInv
    <3>7. QuietInv'
      <4>1. \A k, kind, x : Still(k, kind, x)' <=> Still(k, kind, x) BY <3>2 DEF Still
      <4>2. Still(c, "value", entry[c].version) \/ Still(c, "deleted", entry[c].version) BY <3>1 DEF Still
      <4>3. ASSUME changes = 0, NEW k \in Keys, NEW x \in Nat, RecordedAs(k, x)'
            PROVE  Still(k, "value", x)' \/ Still(k, "deleted", x)'
        <5>1. CASE RecordedAs(k, x) BY <1>0, <4>1, <4>3, <5>1 DEF QuietInv
        <5>2. CASE k = c /\ x = entry[c].version BY <4>1, <4>2, <5>2
        <5> QED BY <3>1, <4>3, <5>1, <5>2
      <4>4. changes = 0 => \A k \in Present : k \in mrem' \/ Recorded(k)' BY <1>0, <2>1, <3>1 DEF QuietInv
      <4> QED BY <3>1, <3>2, <3>3, <4>3, <4>4 DEF QuietInv
    <3> QED BY <1>0, <2>1, <3>1, <3>4, <3>6, <3>7 DEF IterInv
  <2> QED BY <2>3, <2>4, <2>5
<1>4. ASSUME SkipInner PROVE IterInv'
  <2>1. phase = "inner" /\ UNCHANGED <<data, memory, reads, observed, stop>> BY <1>4 DEF SkipInner
  <2>2. /\ OpenInv' /\ phase' = "resolve" /\ wrem' = wrem
        /\ prem' \subseteq prem /\ mrem' \subseteq mrem /\ \A k \in mrem \ mrem' : Recorded(k)
    BY <1>0, <1>4, <2>1, SkipInnerKeeps
  <2> QED BY <1>2, <2>1, <2>2
<1>5. ASSUME InnerDone PROVE IterInv'
  <2>1. /\ phase = "inner" /\ phase' = "outer" /\ ~ InnerSkips
        /\ UNCHANGED <<data, memory, cursor, reads, observed, stop>>
    BY <1>5 DEF InnerDone
  <2>2. Resolved BY <2>1 DEF Resolved
  <2>3. OpenInv' BY <1>0, <2>1, <2>2, PhaseOnly
  <2>4. prem' = prem /\ mrem' = mrem /\ wrem' = wrem BY <2>1 DEF cursor
  <2> QED BY <1>2, <2>1, <2>3, <2>4
<1>6. ASSUME SkipOuter PROVE IterInv'
  <2>1. phase = "outer" /\ UNCHANGED <<data, memory, reads, observed, stop>> BY <1>6 DEF SkipOuter
  <2>2. /\ OpenInv' /\ phase' \in {"resolve", "inner", "outer"} /\ prem' \subseteq prem
        /\ mrem' \subseteq mrem /\ wrem' \subseteq wrem /\ \A k \in mrem \ mrem' : Recorded(k)
    BY <1>0, <1>6, <2>1, SkipOuterKeeps
  <2> QED BY <1>2, <2>1, <2>2
<1>7. ASSUME Next PROVE IterInv'
  <2>1. phase = "at" /\ UNCHANGED <<data, memory, reads, observed, stop>> BY <1>7 DEF Next
  <2>2. /\ OpenInv' /\ phase' \in {"resolve", "inner", "outer"} /\ prem' \subseteq prem
        /\ mrem' \subseteq mrem /\ wrem' \subseteq wrem /\ \A k \in mrem \ mrem' : Recorded(k)
    BY <1>0, <1>7, <2>1, NextKeeps
  <2> QED BY <1>2, <2>1, <2>2
<1>8. ASSUME Arrive PROVE IterInv'
  <2>1. phase = "outer" /\ phase' = "at" /\ UNCHANGED <<data, memory, cursor, reads, stop>> BY <1>8 DEF Arrive
  <2>2. prem' = prem /\ mrem' = mrem /\ wrem' = wrem BY <2>1 DEF cursor
  <2>3. CASE ~ Valid
    <3>1. OpenInv' /\ observed' = observed BY <1>0, <1>8, <2>1, <2>3, ArriveEnd
    <3> QED BY <1>2, <2>1, <2>2, <3>1
  <2>4. CASE Valid
    <3>1. OpenInv' /\ observed' \in Seq(Keys \X (Nat \cup {"own"})) /\ Ordered(observed)'
      BY <1>0, <1>8, <2>1, <2>4, ArriveAt
    <3>2. UNCHANGED <<ascending, storage, writeSet, entry, changes, reads, stop>> BY <2>1 DEF data, memory
    <3>3. Own' = Own /\ Keys' = Keys /\ Present' = Present BY <3>2 DEF Own, Keys, Present
    <3>4. IterTypeOK' BY <1>0, <2>1, <2>2, <3>1, <3>2, <3>3 DEF IterTypeOK
    <3>5. \A k, x : RecordedAs(k, x)' <=> RecordedAs(k, x) BY <3>2 DEF RecordedAs
    <3>6. \A k : Recorded(k)' <=> Recorded(k) BY <3>2 DEF Recorded
    <3>7. \A k, kind, x : Still(k, kind, x)' <=> Still(k, kind, x) BY <3>2 DEF Still
    <3>8. RecordInv'
      <4>1. Ordered(reads)' <=> Ordered(reads) BY <3>2 DEF Ordered, Beyond
      <4> QED BY <1>0, <3>1, <3>2, <3>3, <3>5, <4>1 DEF RecordInv
    <3>9. QuietInv'
      BY <1>0, <2>1, <2>2, <3>2, <3>3, <3>5, <3>6, <3>7 DEF QuietInv
    <3> QED BY <1>0, <2>1, <3>1, <3>2, <3>4, <3>8, <3>9 DEF IterInv
  <2> QED BY <2>3, <2>4
<1>9. ASSUME Close PROVE IterInv'
  <2>1. phase = "at" /\ phase' = "done" /\ UNCHANGED <<data, memory, cursor, observed>> BY <1>9 DEF Close
  <2>2. UNCHANGED <<ascending, storage, writeSet, entry, changes, prem, mrem, wrem, observed>>
    BY <2>1 DEF data, memory, cursor
  <2>3. /\ ClosedInv' /\ QuietInv' /\ stop' \in 0 .. NKeys
        /\ reads' \in Seq(Keys \X Nat) /\ Ordered(reads)'
        /\ \A k, x : RecordedAs(k, x)' => RecordedAs(k, x)
    <3>1. CASE Valid
      <4>1. \A k \in Keys : k \in 0 .. NKeys BY KeyTypes DEF Keys
      <4> QED BY <1>0, <1>9, <2>1, <3>1, <4>1, CloseAt
    <3>2. CASE ~ Valid
      <4>1. ClosedInv' /\ QuietInv' /\ reads' = reads /\ stop' = stop BY <1>0, <1>9, <2>1, <3>2, CloseEnd
      <4>2. \A k, x : RecordedAs(k, x)' => RecordedAs(k, x) BY <4>1 DEF RecordedAs
      <4>3. Ordered(reads)' BY <1>0, <2>2, <4>1 DEF RecordInv, Ordered, Beyond
      <4> QED BY <1>0, <4>1, <4>2, <4>3 DEF IterTypeOK
    <3> QED BY <3>1, <3>2
  <2>4. Own' = Own /\ Keys' = Keys BY <2>2 DEF Own, Keys
  <2>5. IterTypeOK' BY <1>0, <2>1, <2>2, <2>3, <2>4 DEF IterTypeOK
  <2>6. RecordInv'
    <3>1. Ordered(observed)' <=> Ordered(observed) BY <2>2 DEF Ordered, Beyond
    <3> QED BY <1>0, <2>2, <2>3, <2>4, <3>1 DEF RecordInv
  <2> QED BY <2>1, <2>3, <2>5, <2>6 DEF IterInv
<1>10. ASSUME NEW k0 \in Keys, Lower(k0) PROVE IterInv'
  <2>1. /\ phase # "closed" /\ Change(k0) /\ changes' = changes + 1
        /\ UNCHANGED <<data, phase, cursor, reads, observed, stop>>
    BY <1>10 DEF Lower
  <2>2. UNCHANGED <<ascending, storage, writeSet, phase, prem, mrem, wrem, item, reads, observed, stop>>
    BY <2>1 DEF data, cursor
  <2>3. Own' = Own /\ Keys' = Keys BY <2>2 DEF Own, Keys
  <2>4. /\ entry' \in [Keys -> Entries]
        /\ \A k \in Keys : entry'[k].version >= entry[k].version
        /\ \A k \in Keys : entry'[k].version = 0 => entry'[k].kind = "absent"
    BY <1>0, <2>1, ChangeFacts
  <2>5. changes' \in Nat /\ changes' # 0 BY <1>0, <2>1 DEF IterTypeOK
  <2>6. IterTypeOK' BY <1>0, <2>2, <2>3, <2>4, <2>5 DEF IterTypeOK
  <2>7. RecordInv'
    <3>1. (Ordered(reads)' <=> Ordered(reads)) /\ (Ordered(observed)' <=> Ordered(observed))
      BY <2>2 DEF Ordered, Beyond
    <3>2. ASSUME NEW k \in Keys, NEW x \in Nat, RecordedAs(k, x)' PROVE x <= entry'[k].version
      <4>1. x <= entry[k].version BY <1>0, <2>2, <3>2 DEF RecordInv, RecordedAs
      <4>2. entry[k].version \in Nat /\ entry'[k].version \in Nat BY <1>0, <2>4 DEF IterTypeOK, Entries
      <4> QED BY <2>4, <4>1, <4>2
    <3> QED BY <1>0, <2>3, <2>4, <3>1, <3>2 DEF RecordInv
  <2>8. QuietInv' BY <2>5 DEF QuietInv
  <2>9. phase \notin {"closed", "done"} => OpenInv' BY <1>0, <1>10, LowerOpen
  <2>10. phase = "done" => ClosedInv' BY <1>0, <1>10, LowerClosed
  <2> QED BY <1>0, <2>1, <2>2, <2>6, <2>7, <2>8, <2>9, <2>10 DEF IterInv
<1>11. ASSUME UNCHANGED iterVars PROVE IterInv'
  <2>1. UNCHANGED <<ascending, storage, writeSet, entry, changes, phase, prem, mrem, wrem, item, reads, observed, stop>>
    BY <1>11 DEF iterVars, data, memory, cursor
  <2>2. \A k : (Gone(k)' <=> Gone(k)) /\ (Passed(k)' <=> Passed(k)) BY <2>1, SamePlace
  <2>3. \A k : /\ Faithful(k)' <=> Faithful(k)
               /\ Dead(k)' <=> Dead(k)
               /\ Nobody(k)' <=> Nobody(k)
               /\ Recorded(k)' <=> Recorded(k)
    BY <2>1, SameView DEF data, memory
  <2>4. Own' = Own /\ Keys' = Keys /\ Present' = Present BY <2>1 DEF Own, Keys, Present
  <2>5. \A k, x : RecordedAs(k, x)' <=> RecordedAs(k, x) BY <2>1 DEF RecordedAs
  <2>6. \A k, kind, x : Still(k, kind, x)' <=> Still(k, kind, x) BY <2>1 DEF Still
  <2>7. (\A k : Within(k)' <=> Within(k)) /\ (Resolved' <=> Resolved) BY <2>1 DEF Within, Beyond, Resolved
  <2>8. IterTypeOK' BY <1>0, <2>1, <2>4 DEF IterTypeOK
  <2>9. RecordInv'
    <3>1. (Ordered(reads)' <=> Ordered(reads)) /\ (Ordered(observed)' <=> Ordered(observed))
      BY <2>1 DEF Ordered, Beyond
    <3> QED BY <1>0, <2>1, <2>4, <2>5, <3>1 DEF RecordInv
  <2>10. QuietInv' BY <1>0, <2>1, <2>3, <2>4, <2>5, <2>6, <2>7 DEF QuietInv
  <2>11. ClosedInv => ClosedInv' BY <2>3, <2>4, <2>7 DEF ClosedInv
  <2>12. OpenInv => OpenInv'
    <3>1. /\ Current' = Current /\ (Valid' <=> Valid) /\ (InnerSkips' <=> InnerSkips)
          /\ (OuterSkips' <=> OuterSkips) /\ First(mrem)' = First(mrem)
      BY <2>1, SameTop
    <3>2. \A k : Settled(k)' <=> Settled(k) BY <2>1, <2>2, <3>1 DEF Settled, Arrived
    <3>3. ViewInv => ViewInv' BY <2>1, <2>2, <2>3, <2>4, <3>2 DEF ViewInv
    <3>4. CursorInv => CursorInv' BY <2>1, <2>2, <2>3, <2>4, <2>7, <3>1 DEF CursorInv
    <3>5. ItemInv => ItemInv' BY <2>1, <2>6, <2>7, <3>1 DEF ItemInv
    <3> QED BY <3>3, <3>4, <3>5 DEF OpenInv
  <2> QED BY <1>0, <2>1, <2>8, <2>9, <2>10, <2>11, <2>12 DEF IterInv
<1> QED BY <1>1, <1>3, <1>4, <1>5, <1>6, <1>7, <1>8, <1>9, <1>10, <1>11 DEF IterNext, Closed

LEMMA IterInvariant == IterSpec => []IterInv
BY InitKeeps, StepKeeps, PTL DEF IterSpec

(***************************************************************************)
(* The theorems                                                            *)
(***************************************************************************)
(* If the replay of a closed iterator agrees with the memory, the caller   *)
(* has seen exactly what the range holds up to where it stopped.           *)
LEMMA ReplayedIsSeen ==
  ASSUME IterInv, phase = "done", ReplayValid, NEW k \in Keys, Within(k), NEW v
  PROVE  Sees(k, v) <=> v \in Holds(k)
<1>0. PICK n : n = entry[k].version OBVIOUS
<1>1. IterTypeOK /\ Faithful(k) BY DEF IterInv, ClosedInv
<1>2. writeSet[k] \in {"none", "set", "deleted"} /\ entry[k].kind \in Kinds /\ n \in Nat
  BY <1>0, <1>1 DEF IterTypeOK, Entries, Kinds
<1>3. \A x : RecordedAs(k, x) <=> k \in Present /\ x = n
  <2>1. {reads[i] : i \in DOMAIN reads} = {<<j, entry[j].version>> : j \in {j \in Present : Within(j)}}
    BY DEF ReplayValid, Lists
  <2>2. \A x : RecordedAs(k, x) <=> <<k, x>> \in {reads[i] : i \in DOMAIN reads} BY DEF RecordedAs
  <2>3. \A x : <<k, x>> \in {<<j, entry[j].version>> : j \in {j \in Present : Within(j)}}
                 <=> k \in Present /\ x = n
    BY <1>0
  <2> QED BY <2>1, <2>2, <2>3
<1>4. entry[k].kind # "estimate"
  <2>1. k \in Present => entry[k].kind # "estimate" BY DEF ReplayValid
  <2> QED BY <2>1 DEF Present
<1>5. CASE writeSet[k] = "set" BY <1>1, <1>5 DEF Faithful, Holds
<1>6. CASE writeSet[k] = "deleted" BY <1>1, <1>6 DEF Faithful, Holds
<1>7. CASE writeSet[k] = "none"
  <2>1. CASE entry[k].kind = "value"
    <3>1. Holds(k) = {n} BY <1>0, <1>7, <2>1 DEF Holds
    <3>2. RecordedAs(k, n) /\ Still(k, "value", n) BY <1>0, <1>3, <2>1 DEF Present, Still
    <3>3. Sees(k, v) <=> v = n BY <1>1, <1>2, <1>7, <3>2 DEF Faithful
    <3> QED BY <3>1, <3>3
  <2>2. CASE entry[k].kind = "deleted"
    <3>1. Holds(k) = {} BY <1>7, <2>2 DEF Holds
    <3>2. RecordedAs(k, n) /\ Still(k, "deleted", n) BY <1>0, <1>3, <2>2 DEF Present, Still
    <3>3. ~ Sees(k, v) BY <1>1, <1>2, <1>7, <3>2 DEF Faithful
    <3> QED BY <3>1, <3>3
  <2>3. CASE entry[k].kind = "absent"
    <3>1. Holds(k) = IF k \in storage THEN {0} ELSE {} BY <1>7, <2>3 DEF Holds
    <3>2. ~ Recorded(k)
      <4> SUFFICES ASSUME NEW i \in DOMAIN reads, reads[i][1] = k PROVE FALSE
        BY DEF Recorded
      <4>1. reads[i] = <<k, reads[i][2]>> BY <1>1, ElementTypes
      <4>2. RecordedAs(k, reads[i][2]) BY <4>1 DEF RecordedAs
      <4> QED BY <1>3, <2>3, <4>2 DEF Present
    <3>3. Sees(k, v) <=> k \in storage /\ v = 0 BY <1>1, <1>7, <3>2 DEF Faithful
    <3> QED BY <3>1, <3>3
  <2> QED BY <1>2, <1>4, <2>1, <2>2, <2>3 DEF Kinds
<1> QED BY <1>2, <1>5, <1>6, <1>7

(* A range read that passes validation is serializable, for every range,   *)
(* every content of the storage, the memory and the write set, in either   *)
(* direction, wherever the caller stops and whatever the lower             *)
(* transactions write, announce or remove while the three iterators are on *)
(* their way and after Close (iterator in src/mvview.go, resolveValue in   *)
(* src/mviterator.go, validateIterator in src/mvdata.go).                  *)
THEOREM RangeReadCorrect == IterSpec => []ValidatedIsSerial
<1>1. IterInv => ValidatedIsSerial
  <2> SUFFICES ASSUME IterInv, phase = "done", ReplayValid
               PROVE  Lists(observed, UNION {{<<k, v>> : v \in Holds(k)} : k \in {k \in Keys : Within(k)}})
    BY DEF ValidatedIsSerial
  <2>1. IterTypeOK /\ RecordInv /\ ClosedInv BY DEF IterInv
  <2>2. \A i, j \in DOMAIN observed : i < j => Beyond(observed[j][1], observed[i][1])
    BY <2>1 DEF RecordInv, Ordered
  <2> DEFINE U == UNION {{<<k, v>> : v \in Holds(k)} : k \in {k \in Keys : Within(k)}}
  <2>3. ASSUME NEW i \in DOMAIN observed PROVE observed[i] \in U
    <3>1. PICK k, v : observed[i] = <<k, v>> /\ k \in Keys BY <2>1, ElementTypes
    <3>2. Sees(k, v) BY <3>1 DEF Sees
    <3>3. Within(k) BY <2>1, <3>1, <3>2 DEF ClosedInv, Nobody
    <3>4. v \in Holds(k) BY <3>1, <3>2, <3>3, ReplayedIsSeen
    <3> QED BY <3>1, <3>3, <3>4
  <2>4. ASSUME NEW p \in U PROVE p \in {observed[i] : i \in DOMAIN observed}
    <3>1. PICK k \in {k \in Keys : Within(k)} : p \in {<<k, v>> : v \in Holds(k)} OBVIOUS
    <3>2. PICK v \in Holds(k) : p = <<k, v>> BY <3>1
    <3>3. Sees(k, v) BY <3>1, <3>2, ReplayedIsSeen
    <3> QED BY <3>2, <3>3 DEF Sees
  <2>5. {observed[i] : i \in DOMAIN observed} = U BY <2>3, <2>4
  <2> QED BY <2>2, <2>5 DEF Lists
<1> QED BY <1>1, IterInvariant, PTL

(* A range read during which no lower transaction changed anything passes  *)
(* validation, if the transaction has written nothing in the range: what   *)
(* the merge read ahead of the caller is dropped by onClose in             *)
(* src/mvview.go, and nothing else is.                                     *)
THEOREM QuietReadCorrect == IterSpec => []QuietReadReplays
<1>1. IterInv => QuietReadReplays
  <2> SUFFICES ASSUME IterInv, phase = "done", changes = 0, \A k \in Keys : writeSet[k] = "none",
                      \A k \in Keys : entry[k].kind # "estimate"
               PROVE  ReplayValid
    BY DEF QuietReadReplays
  <2> DEFINE within == {k \in Present : Within(k)}
             ahead == IF Present = within THEN {} ELSE {First(Present \ within)}
             W == {<<k, entry[k].version>> : k \in within}
  <2>1. IterTypeOK /\ RecordInv /\ QuietInv BY DEF IterInv
  <2>2. Own = {} BY DEF Own
  <2>3. /\ \A k \in Keys : \A x \in Nat : RecordedAs(k, x) => Still(k, "value", x) \/ Still(k, "deleted", x)
        /\ \A k \in Keys : (k \in Present /\ Within(k) => Recorded(k)) /\ (Recorded(k) => Within(k))
    BY <2>1, <2>2 DEF QuietInv
  <2>4. Present \subseteq Keys BY DEF Present
  <2>5. \A k \in within \cup ahead : entry[k].kind # "estimate"
    <3>1. ahead \subseteq Keys
      <4>1. CASE Present = within BY <4>1
      <4>2. CASE Present # within
        <5>1. Present \ within \in SUBSET Keys /\ Present \ within # {} BY <2>4, <4>2
        <5>2. First(Present \ within) \in Present \ within BY <5>1, FirstIsFirst
        <5> QED BY <2>4, <4>2, <5>2
      <4> QED BY <4>1, <4>2
    <3> QED BY <2>4, <3>1
  <2>6. ASSUME NEW k \in Keys, NEW x \in Nat, RecordedAs(k, x) PROVE k \in within /\ x = entry[k].version
    <3>1. Still(k, "value", x) \/ Still(k, "deleted", x) BY <2>3, <2>6
    <3>2. Recorded(k) BY <2>6 DEF Recorded, RecordedAs
    <3> QED BY <2>3, <3>1, <3>2 DEF Still, Present
  <2>7. ASSUME NEW i \in DOMAIN reads PROVE reads[i] \in W
    <3>1. PICK k, x : reads[i] = <<k, x>> /\ k \in Keys /\ x \in Nat BY <2>1, ElementTypes
    <3>2. RecordedAs(k, x) BY <3>1 DEF RecordedAs
    <3> QED BY <2>6, <3>1, <3>2
  <2>8. ASSUME NEW k \in within PROVE <<k, entry[k].version>> \in {reads[i] : i \in DOMAIN reads}
    <3>1. k \in Keys /\ Recorded(k) BY <2>3, <2>4
    <3>2. PICK i \in DOMAIN reads : reads[i][1] = k BY <3>1 DEF Recorded
    <3>3. PICK x \in Nat : reads[i] = <<k, x>> BY <2>1, <3>2, ElementTypes
    <3>4. RecordedAs(k, x) BY <3>3 DEF RecordedAs
    <3> QED BY <2>6, <3>1, <3>3, <3>4
  <2>9. {reads[i] : i \in DOMAIN reads} = W BY <2>7, <2>8
  <2>10. Lists(reads, W) BY <2>1, <2>9 DEF Lists, RecordInv, Ordered
  <2> QED BY <2>5, <2>10 DEF ReplayValid
<1> QED BY <1>1, IterInvariant, PTL
=============================================================================
