------------------------- MODULE PreparationProofs -------------------------
(***************************************************************************)
(* What the preparation of a block computes, for every block and every     *)
(* combination of controls: the builders are exact, a plan that waits      *)
(* covers the reads of its programs, and the kernel runs what the engine   *)
(* reports.                                                                *)
(***************************************************************************)
EXTENDS Preparation, NaturalsInduction, WellFoundedInduction, TLAPS

(***************************************************************************)
(* The invariant: what the scan and the builder have collected when they   *)
(* come to transaction next.                                               *)
(***************************************************************************)
PrepTypeOK ==
  /\ phase \in {"resolve", "scan", "build", "ready", "rejected", "cancelled"}
  /\ next \in 0 .. BlockSize
  /\ reads \in [Txns -> SUBSET Keys] /\ writes \in [Txns -> SUBSET Keys]
  /\ lastWriter \in [Keys -> -1 .. BlockSize - 1]
  /\ readers \in [Keys -> SUBSET Txns] /\ writers \in [Keys -> SUBSET Txns]
  /\ predecessors \in [Txns -> SUBSET Txns] \cup {Nil}
  /\ barriers \in [Txns -> Int] \cup {Nil}

\* Nothing is scanned or built for controls that are not accepted.
Checked ==
  phase \in {"scan", "build", "ready"} =>
    DependencyAccepted(config) /\ KernelAccepted(config, Plan)

\* The keys that the program of t may write, and the transactions below n
\* that name k in one of the operations.
MayWrite(t) == {k \in Keys : Touches(t, {"write", "delete"}, k)}
Naming(n, ops, k) == {e \in 0 .. n - 1 : Touches(e, ops, k)}

\* The access sets of the transactions that the scan has passed.
AccessExact ==
  \A t \in Txns :
    phase = "build" \/ (phase = "scan" /\ t < next) =>
      reads[t] = MayRead(t) /\ writes[t] = MayWrite(t)

\* The maps of the builders know the transactions below next.
IndexExact ==
  /\ phase \in {"resolve", "scan"} =>
       \A k \in Keys : lastWriter[k] = -1 /\ readers[k] = {} /\ writers[k] = {}
  /\ phase = "build" /\ Plan.representation \in {"raw_last_writer", "max_raw_predecessor"} =>
       \A k \in Keys : lastWriter[k] = Provider(next, k)
  /\ phase = "build" /\ Plan.representation = "full_conflict_graph"
       /\ Plan.builder = "indexed_by_key" =>
       \A k \in Keys : /\ readers[k] = Naming(next, {"read"}, k)
                       /\ writers[k] = Naming(next, {"write", "delete"}, k)

\* The slice of the representation is there from the start of the builder.
Allocated ==
  /\ phase = "resolve" => next = 0
  /\ phase \in {"resolve", "scan"} => predecessors = Nil /\ barriers = Nil
  /\ phase \in {"build", "ready"} =>
       /\ ByPredecessors => predecessors \in [Txns -> SUBSET Txns]
       /\ Plan.representation = "max_raw_predecessor" => barriers \in [Txns -> Int]

PrepInv ==
  PrepTypeOK /\ Checked /\ AccessExact /\ IndexExact /\ Allocated /\ GraphExact

(***************************************************************************)
(* Maxima                                                                  *)
(***************************************************************************)
(* A set of natural numbers, not empty, has a least element.               *)
LEMMA LeastExists ==
  ASSUME NEW T \in SUBSET Nat, T # {}
  PROVE  \E m \in T : \A y \in T : m <= y
<1>1. PICK m \in T : \A y \in T : ~ (<<y, m>> \in OpToRel(<, Nat))
  BY NatLessThanWellFounded, WFMin
<1>2. \A y \in T : ~ (y < m)
  BY <1>1 DEF OpToRel
<1> QED BY <1>2

(* Max of a bounded set of integers, not empty, is its greatest element.   *)
LEMMA MaxOfBounded ==
  ASSUME NEW S \in SUBSET Int, S # {}, NEW b \in Int, \A x \in S : x <= b
  PROVE  Max(S) \in S /\ \A x \in S : x <= Max(S)
<1> DEFINE T == {b - x : x \in S}
<1>1. T \in SUBSET Nat
  BY SMT
<1>2. PICK m \in T : \A y \in T : m <= y
  <2>1. T # {} OBVIOUS
  <2> HIDE DEF T
  <2> QED BY <1>1, <2>1, LeastExists
<1>3. m \in Nat /\ \A y \in T : ~ (y < m)
  <2>1. m \in Nat /\ \A y \in T : y \in Nat BY <1>1
  <2> HIDE DEF T
  <2> QED BY <1>2, <2>1
<1>4. PICK s \in S : m = b - s
  OBVIOUS
<1>5. \A x \in S : x <= s
  <2> TAKE x \in S
  <2>1. ~ (b - x < b - s) BY <1>3, <1>4
  <2> QED BY <2>1
<1>6. \A x \in S : s >= x
  BY <1>5
<1> QED BY <1>6 DEF Max

(* The provider of a key below n is the last writer there, -1 for none.    *)
LEMMA ProviderIs ==
  ASSUME NEW n \in Nat, NEW k
  PROVE  /\ Provider(n, k) = -1 \/ Provider(n, k) \in Naming(n, {"write", "delete"}, k)
         /\ \A e \in Naming(n, {"write", "delete"}, k) : e <= Provider(n, k)
         /\ -1 <= Provider(n, k) /\ Provider(n, k) \in -1 .. n - 1
<1> DEFINE S == {-1} \cup Naming(n, {"write", "delete"}, k)
<1>1. Provider(n, k) = Max(S)
  BY DEF Provider, Naming
<1>2. S \in SUBSET Int /\ S # {} /\ \A x \in S : x <= n
  BY DEF Naming
<1>3. S \subseteq -1 .. n - 1 /\ -1 \in S
  BY DEF Naming
<1>4. Max(S) \in S /\ \A x \in S : x <= Max(S)
  <2> HIDE DEF S
  <2> QED BY <1>2, MaxOfBounded
<1> QED BY <1>1, <1>3, <1>4

(* No transaction provides at the start; then it is the last that writes.  *)
LEMMA ProviderStep ==
  ASSUME NEW k
  PROVE  /\ Provider(0, k) = -1
         /\ \A n \in Nat : Provider(n + 1, k) =
              IF Touches(n, {"write", "delete"}, k) THEN n ELSE Provider(n, k)
<1>1. Provider(0, k) = -1
  BY ProviderIs
<1>2. ASSUME NEW n \in Nat
      PROVE  Provider(n + 1, k) = IF Touches(n, {"write", "delete"}, k) THEN n ELSE Provider(n, k)
  <2> DEFINE W(i) == Naming(i, {"write", "delete"}, k)
  <2>1. \A e : e \in W(n + 1) <=> e \in W(n) \/ (e = n /\ Touches(n, {"write", "delete"}, k))
    BY DEF Naming
  <2>2. \A e \in W(n) : e \in 0 .. n - 1
    BY DEF Naming
  <2>3. /\ Provider(n, k) = -1 \/ Provider(n, k) \in W(n)
        /\ \A e \in W(n) : e <= Provider(n, k)
        /\ Provider(n, k) \in -1 .. n - 1
    BY ProviderIs
  <2>4. /\ Provider(n + 1, k) = -1 \/ Provider(n + 1, k) \in W(n + 1)
        /\ \A e \in W(n + 1) : e <= Provider(n + 1, k)
        /\ Provider(n + 1, k) \in -1 .. n
    <3>1. n + 1 \in Nat /\ (n + 1) - 1 = n OBVIOUS
    <3> QED BY <3>1, ProviderIs
  <2> HIDE DEF W
  <2>5. CASE Touches(n, {"write", "delete"}, k) BY <2>1, <2>4, <2>5
  <2>6. CASE ~ Touches(n, {"write", "delete"}, k) BY <2>1, <2>2, <2>3, <2>4, <2>6
  <2> QED BY <2>5, <2>6
<1> QED BY <1>1, <1>2

(* The direct providers of t lie below it, and are the last writers that   *)
(* the builder finds.                                                      *)
Direct(t) == {Provider(t, k) : k \in MayRead(t)} \ {-1}

LEMMA DirectBelow ==
  ASSUME NEW t \in Nat
  PROVE  /\ Direct(t) \subseteq 0 .. t - 1
         /\ Max({-1} \cup Direct(t)) \in -1 .. t - 1
         /\ \A e \in Direct(t) : e <= Max({-1} \cup Direct(t))
<1>1. Direct(t) \subseteq 0 .. t - 1
  <2>1. \A k : Provider(t, k) \in -1 .. t - 1 BY ProviderIs
  <2> QED BY <2>1 DEF Direct
<1> DEFINE S == {-1} \cup Direct(t)
<1>2. S \in SUBSET Int /\ S # {} /\ \A x \in S : x <= t
  BY <1>1
<1>3. \A x \in S : x \in -1 .. t - 1
  BY <1>1
<1>4. Max(S) \in S /\ \A x \in S : x <= Max(S)
  <2> HIDE DEF S
  <2> QED BY <1>2, MaxOfBounded
<1> QED BY <1>1, <1>3, <1>4

(***************************************************************************)
(* The steps                                                               *)
(***************************************************************************)
(* The invariant holds when the preparation starts.                        *)
LEMMA InitPrep == PrepInit => PrepInv
<1> SUFFICES ASSUME PrepInit PROVE PrepInv
  OBVIOUS
<1> USE DEF PrepInit
<1>1. PrepTypeOK
  BY PreparationAssumption DEF PrepTypeOK
<1>2. IndexExact
  BY DEF IndexExact
<1>3. GraphExact
  BY DEF GraphExact, Built
<1> QED BY <1>1, <1>2, <1>3 DEF PrepInv, Checked, AccessExact, Allocated

(* The call never changes.                                                 *)
LEMMA CallKept ==
  ASSUME [PrepNext]_prepVars
  PROVE  /\ UNCHANGED <<config, block>>
         /\ Plan' = Plan /\ Kernel' = Kernel /\ ByPredecessors' = ByPredecessors
         /\ DependencyAccepted(config)' <=> DependencyAccepted(config)
         /\ KernelAccepted(config, Plan)' <=> KernelAccepted(config, Plan)
<1>1. UNCHANGED <<config, block>>
  BY DEF PrepNext, Resolve, Scan, Scanned, Build, Prepared, Interrupt, EndContext, Settled, prepVars
<1>2. Plan' = Plan
  BY <1>1 DEF Plan
<1> QED BY <1>1, <1>2 DEF Kernel, ByPredecessors

(* A pass of the scan takes the keys that the program names.               *)
LEMMA ScanStep ==
  ASSUME PrepInv, Scan
  PROVE  PrepInv'
<1> USE DEF PrepInv
<1>0. /\ phase = "scan" /\ phase' = phase /\ next' = next + 1 /\ next \in Txns
      /\ UNCHANGED <<config, block, indexVars, artifactVars, estimates, ended>>
      /\ reads' = [reads EXCEPT ![next] = Named(block[next], {"read"})]
      /\ writes' = [writes EXCEPT ![next] = Named(block[next], {"write", "delete"})]
  BY PreparationAssumption DEF Scan, PrepTypeOK, Txns
<1>1. Plan' = Plan BY <1>0 DEF Plan
<1>2. Named(block[next], {"read"}) = MayRead(next)
  BY DEF Named, MayRead, Touches
<1>3. Named(block[next], {"write", "delete"}) = MayWrite(next)
  BY DEF Named, MayWrite, Touches
<1>4. \A t : MayRead(t)' = MayRead(t) /\ MayWrite(t)' = MayWrite(t)
  BY <1>0 DEF MayRead, MayWrite, Touches
<1>5. PrepTypeOK'
  BY <1>0, <1>2, <1>3, PreparationAssumption DEF PrepTypeOK, Txns, indexVars, artifactVars, MayRead, MayWrite
<1>6. AccessExact'
  <2> SUFFICES ASSUME NEW t \in Txns, t < next + 1
               PROVE  reads'[t] = MayRead(t) /\ writes'[t] = MayWrite(t)
    BY <1>0, <1>4 DEF AccessExact
  <2>1. CASE t = next BY <1>0, <1>2, <1>3, <2>1 DEF PrepTypeOK
  <2>2. CASE t # next
    <3>1. t < next BY <2>2, <1>0 DEF Txns
    <3> QED BY <1>0, <2>2, <3>1 DEF AccessExact, PrepTypeOK
  <2> QED BY <2>1, <2>2
<1>7. Checked' /\ IndexExact' /\ Allocated'
  BY <1>0, <1>1 DEF Checked, IndexExact, Allocated, indexVars, artifactVars
<1>8. GraphExact'
  BY <1>0 DEF GraphExact, Built
<1> QED BY <1>5, <1>6, <1>7, <1>8

(* The builder starts with a map that knows of nothing.                    *)
LEMMA ScannedStep ==
  ASSUME PrepInv, Scanned
  PROVE  PrepInv'
<1> USE DEF PrepInv
<1>0. /\ phase = "scan" /\ next = BlockSize /\ phase' = "build"
      /\ next' = IF Plan.representation = "version_only" THEN BlockSize ELSE 0
      /\ UNCHANGED <<config, block, accessVars, indexVars, estimates, ended>>
  BY DEF Scanned
<1>1. Plan' = Plan BY <1>0 DEF Plan
<1>2. ByPredecessors' = ByPredecessors BY <1>1 DEF ByPredecessors
<1>3. \A t : MayRead(t)' = MayRead(t) /\ MayWrite(t)' = MayWrite(t)
  BY <1>0 DEF MayRead, MayWrite, Touches
<1>4. \A n, k : Provider(n, k)' = Provider(n, k)
  BY <1>0 DEF Provider, Touches
<1>5. \A n, ops, k : Naming(n, ops, k)' = Naming(n, ops, k)
  BY <1>0 DEF Naming, Touches
<1>6. /\ predecessors' = IF ByPredecessors THEN [t \in Txns |-> {}] ELSE Nil
      /\ barriers' = IF Plan.representation = "max_raw_predecessor" THEN [t \in Txns |-> -1] ELSE Nil
  BY DEF Scanned
<1>7. PrepTypeOK'
  <2>1. predecessors' \in [Txns -> SUBSET Txns] \cup {Nil} BY <1>6
  <2>2. barriers' \in [Txns -> Int] \cup {Nil} BY <1>6
  <2>3. next' \in 0 .. BlockSize BY <1>0, PreparationAssumption
  <2> QED BY <1>0, <2>1, <2>2, <2>3 DEF PrepTypeOK, accessVars, indexVars
<1>8. Checked' BY <1>0, <1>1 DEF Checked
<1>9. AccessExact'
  <2>1. \A t \in Txns : t < next BY <1>0, PreparationAssumption DEF Txns
  <2> QED BY <1>0, <1>3, <2>1 DEF AccessExact, accessVars
<1>10. IndexExact'
  <2>1. ASSUME NEW k \in Keys PROVE lastWriter'[k] = -1 /\ readers'[k] = {} /\ writers'[k] = {}
    BY <1>0 DEF IndexExact, indexVars
  <2>2. \A k : Provider(0, k) = -1 BY ProviderStep
  <2>3. \A ops, k : Naming(0, ops, k) = {} BY DEF Naming
  <2>4. CASE Plan.representation = "version_only" BY <1>0, <1>1, <2>4 DEF IndexExact
  <2>5. CASE Plan.representation # "version_only"
    <3>1. next' = 0 BY <1>0, <2>5
    <3>2. \A k : Provider(next, k)' = -1 BY <3>1, <2>2, <1>0 DEF Provider, Touches
    <3>3. \A ops, k : Naming(next, ops, k)' = {} BY <3>1, <2>3, <1>0 DEF Naming
    <3> QED BY <1>0, <2>1, <3>2, <3>3 DEF IndexExact
  <2> QED BY <2>4, <2>5
<1>11. Allocated'
  BY <1>0, <1>1, <1>2, <1>6 DEF Allocated
<1>12. GraphExact'
  <2>1. CASE Plan.representation = "version_only" BY <1>0, <1>1, <2>1 DEF GraphExact
  <2>2. CASE Plan.representation # "version_only"
    <3>1. Built' = {} BY <1>0, <2>2 DEF Built
    <3> QED BY <3>1 DEF GraphExact
  <2> QED BY <2>1, <2>2
<1> QED BY <1>7, <1>8, <1>9, <1>10, <1>11, <1>12

(* What a step that only moves on, or ends the preparation, leaves alone.  *)
LEMMA OtherStep ==
  ASSUME PrepInv, Resolve \/ Prepared \/ Interrupt \/ EndContext \/ Settled \/ UNCHANGED prepVars
  PROVE  PrepInv'
<1> USE DEF PrepInv
<1>0. /\ UNCHANGED <<config, block, next, accessVars, indexVars, artifactVars>>
      /\ \/ phase' = phase
         \/ phase' \in {"rejected", "cancelled"}
         \/ phase = "build" /\ next = BlockSize /\ phase' = "ready"
         \/ /\ phase = "resolve" /\ phase' \in {"ready", "scan"}
            /\ DependencyAccepted(config) /\ KernelAccepted(config, Plan)
            /\ phase' = "ready" => Plan.source = "runtime_observed"
      /\ phase' \in {"resolve", "scan", "build", "ready", "rejected", "cancelled"}
  BY DEF Resolve, Prepared, Interrupt, EndContext, Settled, prepVars, PrepTypeOK
<1>1. Plan' = Plan BY <1>0 DEF Plan
<1>2. ByPredecessors' = ByPredecessors BY <1>1 DEF ByPredecessors
<1>3. \A t : MayRead(t)' = MayRead(t) /\ MayWrite(t)' = MayWrite(t)
  BY <1>0 DEF MayRead, MayWrite, Touches
<1>4. \A n, k : Provider(n, k)' = Provider(n, k)
  BY <1>0 DEF Provider, Touches
<1>5. \A n, ops, k : Naming(n, ops, k)' = Naming(n, ops, k)
  BY <1>0 DEF Naming, Touches
<1>6. Plan.source = "runtime_observed" /\ DependencyAccepted(config) => Plan.representation = "version_only"
  BY DEF DependencyAccepted, Plan
<1>7. PrepTypeOK' /\ Checked'
  BY <1>0, <1>1 DEF PrepTypeOK, Checked, accessVars, indexVars, artifactVars
<1>8. AccessExact'
  <2>1. phase = "resolve" => next = 0 /\ \A t \in Txns : ~ (t < next) BY DEF Allocated, Txns
  <2> QED BY <1>0, <1>3, <2>1 DEF AccessExact, accessVars
<1>9. IndexExact'
  BY <1>0, <1>1, <1>4, <1>5 DEF IndexExact, indexVars
<1>10. Allocated'
  BY <1>0, <1>1, <1>2, <1>6 DEF Allocated, artifactVars, ByPredecessors
<1>11. GraphExact'
  <2>1. \A t : Conflicting(t)' = Conflicting(t) BY <1>0 DEF Conflicting, Touches
  <2>2. CASE phase = "resolve" BY <1>0, <1>1, <1>6, <2>2 DEF GraphExact, Built
  <2>3. CASE phase # "resolve"
    <3>1. Built' \subseteq Built BY <1>0, <2>3 DEF Built, Txns
    <3> QED BY <1>0, <1>1, <1>3, <1>4, <2>1, <3>1 DEF GraphExact, artifactVars
  <2> QED BY <2>2, <2>3
<1> QED BY <1>7, <1>8, <1>9, <1>10, <1>11

(* The last writers that the map has for the reads of t are its providers. *)
LEMMA LastWritersAre ==
  ASSUME PrepInv, phase = "build", next \in Txns,
         Plan.representation \in {"raw_last_writer", "max_raw_predecessor"}
  PROVE  LastWriters(next) = Direct(next)
<1>1. reads[next] = MayRead(next) BY DEF PrepInv, AccessExact
<1>2. \A k \in MayRead(next) : lastWriter[k] = Provider(next, k)
  BY DEF PrepInv, IndexExact, MayRead
<1> QED BY <1>1, <1>2 DEF LastWriters, Direct

(* After a pass the map knows the writers below the next transaction.      *)
LEMMA WriterRecorded ==
  ASSUME PrepInv, phase = "build", next \in Txns, RecordWriter(next),
         Plan.representation \in {"raw_last_writer", "max_raw_predecessor"}
  PROVE  \A k \in Keys : lastWriter'[k] = Provider(next + 1, k)
<1> TAKE k \in Keys
<1>1. writes[next] = MayWrite(next) BY DEF PrepInv, AccessExact
<1>2. k \in writes[next] <=> Touches(next, {"write", "delete"}, k) BY <1>1 DEF MayWrite
<1>3. lastWriter[k] = Provider(next, k) BY DEF PrepInv, IndexExact
<1>4. next \in Nat BY DEF Txns
<1> QED BY <1>2, <1>3, <1>4, ProviderStep DEF RecordWriter

(* What the indexed builder finds are the conflicts of the quadratic one.  *)
LEMMA SeenAre ==
  ASSUME PrepInv, phase = "build", next \in Txns,
         Plan.representation = "full_conflict_graph", Plan.builder = "indexed_by_key"
  PROVE  Seen(next) = Conflicting(next)
<1>1. reads[next] = MayRead(next) /\ writes[next] = MayWrite(next) BY DEF PrepInv, AccessExact
<1>2. \A k \in Keys : /\ readers[k] = Naming(next, {"read"}, k)
                      /\ writers[k] = Naming(next, {"write", "delete"}, k)
  BY DEF PrepInv, IndexExact
<1>3. \A e : e \in Seen(next) <=>
        \/ \E k \in MayRead(next) : e \in writers[k]
        \/ \E k \in MayWrite(next) : e \in readers[k] \/ e \in writers[k]
  <2> DEFINE ofReads == {writers[k] : k \in reads[next]}
             ofWrites == {readers[k] \cup writers[k] : k \in writes[next]}
  <2>1. \A e : (\E S \in ofReads : e \in S) <=> \E k \in reads[next] : e \in writers[k]
    OBVIOUS
  <2>2. \A e : (\E S \in ofWrites : e \in S) <=> \E k \in writes[next] : e \in readers[k] \cup writers[k]
    OBVIOUS
  <2>3. Seen(next) = UNION (ofReads \cup ofWrites)
    BY DEF Seen
  <2> HIDE DEF ofReads, ofWrites
  <2> QED BY <1>1, <2>1, <2>2, <2>3
<1>4. \A e : e \in Seen(next) <=>
        \/ \E k \in Keys : k \in MayRead(next) /\ e \in Naming(next, {"write", "delete"}, k)
        \/ \E k \in Keys : k \in MayWrite(next)
             /\ (e \in Naming(next, {"read"}, k) \/ e \in Naming(next, {"write", "delete"}, k))
  BY <1>2, <1>3 DEF MayRead, MayWrite
<1>5. \A t, k : Touches(t, {"read", "write", "delete"}, k)
                  <=> Touches(t, {"read"}, k) \/ Touches(t, {"write", "delete"}, k)
  BY DEF Touches
<1>6. \A e : e \in Conflicting(next) <=> e \in 0 .. next - 1 /\ \E k \in Keys :
        \/ Touches(e, {"write", "delete"}, k)
             /\ (Touches(next, {"read"}, k) \/ Touches(next, {"write", "delete"}, k))
        \/ Touches(e, {"read"}, k) /\ Touches(next, {"write", "delete"}, k)
  BY <1>5 DEF Conflicting
<1>7. ASSUME NEW e PROVE e \in Seen(next) <=> e \in Conflicting(next)
  BY <1>4, <1>6 DEF Naming, MayRead, MayWrite
<1> QED BY <1>7

(* The quadratic builder compares the access sets themselves.              *)
LEMMA ComparedAre ==
  ASSUME PrepInv, phase = "build", next \in Txns
  PROVE  {e \in 0 .. next - 1 : Conflict(e, next)} = Conflicting(next)
<1>1. \A t \in Txns : reads[t] = MayRead(t) /\ writes[t] = MayWrite(t)
  BY DEF PrepInv, AccessExact
<1>2. \A e \in 0 .. next - 1 : e \in Txns
  BY PreparationAssumption DEF Txns
<1>3. \A t, k : Touches(t, {"read", "write", "delete"}, k)
                  <=> Touches(t, {"read"}, k) \/ Touches(t, {"write", "delete"}, k)
  BY DEF Touches
<1>4. ASSUME NEW e \in 0 .. next - 1
      PROVE  Conflict(e, next) <=> \E k \in Keys :
               \/ Touches(e, {"write", "delete"}, k) /\ Touches(next, {"read", "write", "delete"}, k)
               \/ Touches(e, {"read"}, k) /\ Touches(next, {"write", "delete"}, k)
  <2>1. Conflict(e, next) <=> \E k : \/ k \in MayWrite(e) /\ k \in MayRead(next)
                                     \/ k \in MayWrite(e) /\ k \in MayWrite(next)
                                     \/ k \in MayRead(e) /\ k \in MayWrite(next)
    BY <1>1, <1>2 DEF Conflict
  <2> QED BY <1>3, <2>1 DEF MayRead, MayWrite
<1> QED BY <1>4 DEF Conflicting

(* A pass of a builder fills in the entry of its transaction.              *)
LEMMA BuildStep ==
  ASSUME PrepInv, Build
  PROVE  PrepInv'
<1> USE DEF PrepInv
<1>0. /\ phase = "build" /\ phase' = phase /\ next' = next + 1 /\ next \in Txns /\ next \in Nat
      /\ UNCHANGED <<config, block, reads, writes, estimates, ended>>
      /\ next' \in 0 .. BlockSize
  BY PreparationAssumption DEF Build, PrepTypeOK, Txns, accessVars
<1>1. Plan' = Plan BY <1>0 DEF Plan
<1>2. ByPredecessors' = ByPredecessors BY <1>1 DEF ByPredecessors
<1>3. \A t : MayRead(t)' = MayRead(t) /\ MayWrite(t)' = MayWrite(t)
  BY <1>0 DEF MayRead, MayWrite, Touches
<1>4. \A n, k : Provider(n, k)' = Provider(n, k)
  BY <1>0 DEF Provider, Touches
<1>5. \A t : Conflicting(t)' = Conflicting(t) /\ Direct(t)' = Direct(t)
  BY <1>0, <1>3, <1>4 DEF Conflicting, Touches, Direct
<1>6. Checked' /\ AccessExact'
  BY <1>0, <1>1, <1>3 DEF Checked, AccessExact
<1>7. /\ Direct(next) \subseteq Txns /\ Conflicting(next) \subseteq Txns
      /\ Max({-1} \cup Direct(next)) \in Int
  <2>1. 0 .. next - 1 \subseteq Txns BY <1>0, PreparationAssumption DEF Txns
  <2>2. Direct(next) \subseteq 0 .. next - 1 /\ Max({-1} \cup Direct(next)) \in -1 .. next - 1
    BY <1>0, DirectBelow
  <2> QED BY <2>1, <2>2 DEF Conflicting
<1>8. /\ ByPredecessors => predecessors \in [Txns -> SUBSET Txns]
      /\ Plan.representation = "max_raw_predecessor" => barriers \in [Txns -> Int]
  BY <1>0 DEF Allocated
<1>9. \A t : t \in Built <=> t \in 0 .. next - 1
  BY <1>0 DEF Built
<1>10. \A t : t \in Built' <=> t \in Built \/ t = next
  BY <1>0, <1>9 DEF Built
<1>11. \A t \in Built : t \in Txns /\ t # next
  BY <1>0, <1>9, PreparationAssumption DEF Txns
<1>12. GraphExact <=> \A t \in Built :
         /\ Plan.representation = "raw_last_writer" => predecessors[t] = Direct(t)
         /\ Plan.representation = "max_raw_predecessor" => barriers[t] = Max({-1} \cup Direct(t))
         /\ Plan.representation = "full_conflict_graph" => predecessors[t] = Conflicting(t)
  BY DEF GraphExact, Direct
<1>13. GraphExact' <=> \A t \in Built' :
         /\ Plan.representation = "raw_last_writer" => predecessors'[t] = Direct(t)
         /\ Plan.representation = "max_raw_predecessor" => barriers'[t] = Max({-1} \cup Direct(t))
         /\ Plan.representation = "full_conflict_graph" => predecessors'[t] = Conflicting(t)
  <2>1. GraphExact' <=> \A t \in Built' :
          /\ Plan'.representation = "raw_last_writer" => predecessors'[t] = Direct(t)'
          /\ Plan'.representation = "max_raw_predecessor" => barriers'[t] = Max({-1} \cup Direct(t)')
          /\ Plan'.representation = "full_conflict_graph" => predecessors'[t] = Conflicting(t)'
    BY DEF GraphExact, Direct
  <2> QED BY <1>1, <1>5, <2>1
<1>14. CASE BuildRAW(next)
  <2>0. Plan.representation = "raw_last_writer" /\ ByPredecessors /\ RecordWriter(next)
        /\ predecessors' = [predecessors EXCEPT ![next] = Direct(next)]
        /\ UNCHANGED <<barriers, readers, writers>>
    BY <1>0, <1>14, LastWritersAre DEF BuildRAW, ByPredecessors
  <2>1. predecessors' \in [Txns -> SUBSET Txns] BY <1>7, <1>8, <2>0
  <2>2. lastWriter' \in [Keys -> -1 .. BlockSize - 1]
    BY <1>0, <2>0 DEF RecordWriter, PrepTypeOK, Txns
  <2>3. PrepTypeOK' /\ Allocated'
    BY <1>0, <1>1, <1>2, <2>0, <2>1, <2>2 DEF PrepTypeOK, Allocated
  <2>4. IndexExact'
    <3>1. \A k \in Keys : lastWriter'[k] = Provider(next + 1, k) BY <1>0, <2>0, WriterRecorded
    <3>2. \A k \in Keys : Provider(next, k)' = Provider(next + 1, k) BY <1>0 DEF Provider, Touches
    <3> QED BY <1>0, <1>1, <2>0, <3>1, <3>2 DEF IndexExact
  <2>5. GraphExact'
    BY <1>8, <1>10, <1>11, <1>12, <1>13, <1>0, <2>0
  <2> QED BY <1>6, <2>3, <2>4, <2>5
<1>15. CASE BuildSummary(next)
  <2>0. Plan.representation = "max_raw_predecessor" /\ ~ ByPredecessors /\ RecordWriter(next)
        /\ barriers' = [barriers EXCEPT ![next] = Max({-1} \cup Direct(next))]
        /\ UNCHANGED <<predecessors, readers, writers>>
    BY <1>0, <1>15, LastWritersAre DEF BuildSummary, ByPredecessors
  <2>1. barriers' \in [Txns -> Int] BY <1>7, <1>8, <2>0
  <2>2. lastWriter' \in [Keys -> -1 .. BlockSize - 1]
    BY <1>0, <2>0 DEF RecordWriter, PrepTypeOK, Txns
  <2>3. PrepTypeOK' /\ Allocated'
    BY <1>0, <1>1, <1>2, <2>0, <2>1, <2>2 DEF PrepTypeOK, Allocated
  <2>4. IndexExact'
    <3>1. \A k \in Keys : lastWriter'[k] = Provider(next + 1, k) BY <1>0, <2>0, WriterRecorded
    <3>2. \A k \in Keys : Provider(next, k)' = Provider(next + 1, k) BY <1>0 DEF Provider, Touches
    <3> QED BY <1>0, <1>1, <2>0, <3>1, <3>2 DEF IndexExact
  <2>5. GraphExact'
    BY <1>8, <1>10, <1>11, <1>12, <1>13, <1>0, <2>0
  <2> QED BY <1>6, <2>3, <2>4, <2>5
<1>16. CASE BuildIndexed(next)
  <2>0. /\ Plan.representation = "full_conflict_graph" /\ Plan.builder = "indexed_by_key" /\ ByPredecessors
        /\ predecessors' = [predecessors EXCEPT ![next] = Conflicting(next)]
        /\ readers' = [k \in Keys |-> IF k \in reads[next] THEN readers[k] \cup {next} ELSE readers[k]]
        /\ writers' = [k \in Keys |-> IF k \in writes[next] THEN writers[k] \cup {next} ELSE writers[k]]
        /\ UNCHANGED <<barriers, lastWriter>>
    BY <1>0, <1>16, SeenAre DEF BuildIndexed, ByPredecessors
  <2>1. predecessors' \in [Txns -> SUBSET Txns] BY <1>7, <1>8, <2>0
  <2>2. readers' \in [Keys -> SUBSET Txns] /\ writers' \in [Keys -> SUBSET Txns]
    BY <1>0, <2>0 DEF PrepTypeOK
  <2>3. PrepTypeOK' /\ Allocated'
    BY <1>0, <1>1, <1>2, <2>0, <2>1, <2>2 DEF PrepTypeOK, Allocated
  <2>4. IndexExact'
    <3> SUFFICES ASSUME NEW k \in Keys
                 PROVE  /\ readers'[k] = Naming(next, {"read"}, k)'
                        /\ writers'[k] = Naming(next, {"write", "delete"}, k)'
      BY <1>0, <1>1, <2>0 DEF IndexExact
    <3>1. /\ k \in reads[next] <=> Touches(next, {"read"}, k)
          /\ k \in writes[next] <=> Touches(next, {"write", "delete"}, k)
      BY <1>0 DEF AccessExact, MayRead, MayWrite
    <3>2. \A ops : Naming(next, ops, k)' =
                     Naming(next, ops, k) \cup IF Touches(next, ops, k) THEN {next} ELSE {}
      <4> TAKE ops
      <4>1. \A e : e \in Naming(next, ops, k)' <=> e \in 0 .. next /\ Touches(e, ops, k)
        BY <1>0 DEF Naming, Touches
      <4>2. \A e : e \in Naming(next, ops, k) <=> e \in 0 .. next - 1 /\ Touches(e, ops, k)
        BY DEF Naming
      <4>3. \A e : e \in 0 .. next <=> e \in 0 .. next - 1 \/ e = next BY <1>0
      <4> QED BY <4>1, <4>2, <4>3
    <3>3. readers[k] = Naming(next, {"read"}, k) /\ writers[k] = Naming(next, {"write", "delete"}, k)
      BY <1>0, <2>0 DEF IndexExact
    <3>4. readers'[k] = readers[k] \cup IF Touches(next, {"read"}, k) THEN {next} ELSE {}
      BY <2>0, <3>1
    <3>5. writers'[k] = writers[k] \cup IF Touches(next, {"write", "delete"}, k) THEN {next} ELSE {}
      BY <2>0, <3>1
    <3> QED BY <3>2, <3>3, <3>4, <3>5
  <2>5. GraphExact'
    BY <1>8, <1>10, <1>11, <1>12, <1>13, <1>0, <2>0
  <2> QED BY <1>6, <2>3, <2>4, <2>5
<1>17. CASE BuildQuadratic(next)
  <2>0. /\ Plan.representation = "full_conflict_graph" /\ Plan.builder = "quadratic_reference"
        /\ ByPredecessors
        /\ predecessors' = [predecessors EXCEPT ![next] = Conflicting(next)]
        /\ UNCHANGED <<barriers, lastWriter, readers, writers>>
    BY <1>0, <1>17, ComparedAre DEF BuildQuadratic, ByPredecessors, indexVars
  <2>1. predecessors' \in [Txns -> SUBSET Txns] BY <1>7, <1>8, <2>0
  <2>2. PrepTypeOK' /\ Allocated'
    BY <1>0, <1>1, <1>2, <2>0, <2>1 DEF PrepTypeOK, Allocated
  <2>3. IndexExact'
    BY <1>0, <1>1, <2>0 DEF IndexExact
  <2>4. GraphExact'
    BY <1>8, <1>10, <1>11, <1>12, <1>13, <1>0, <2>0
  <2> QED BY <1>6, <2>2, <2>3, <2>4
<1> QED BY <1>14, <1>15, <1>16, <1>17 DEF Build

(* Every step keeps the invariant, so it holds throughout.                 *)
LEMMA PrepInvariant == PrepSpec => []PrepInv
<1>1. PrepInv /\ [PrepNext]_prepVars => PrepInv'
  BY ScanStep, ScannedStep, BuildStep, OtherStep DEF PrepNext
<1> QED BY <1>1, InitPrep, PTL DEF PrepSpec

(***************************************************************************)
(* The theorems                                                            *)
(***************************************************************************)
(* The builders compute the direct providers, the greatest of them and the *)
(* conflict graph, for every block and however often keys are written; the *)
(* indexed builder and the quadratic reference agree.                      *)
THEOREM BuildersExact == PrepSpec => []GraphExact
BY PrepInvariant, PTL DEF PrepInv

(* What a plan waits with: the representation that its wait policy reads.  *)
LEMMA WaitReads ==
  ASSUME PrepInv, phase = "ready", Plan.wait # "none"
  PROVE  \/ Plan.wait = "direct_predecessor_wait" /\ Plan.representation = "raw_last_writer"
         \/ Plan.wait = "contiguous_frontier_wait" /\ Plan.representation = "max_raw_predecessor"
         \/ Plan.wait = "all_predecessors_wait" /\ Plan.representation = "full_conflict_graph"
<1>1. Plan.wait \in WaitPolicies /\ Plan.representation = Wanted(Plan.wait)
  BY DEF PrepInv, Checked, DependencyAccepted, ConsumersFit, Plan
<1> QED BY <1>1 DEF WaitPolicies, Wanted

(* The finished slices.                                                    *)
LEMMA ReadyExact ==
  ASSUME PrepInv, phase = "ready"
  PROVE  /\ Plan.representation = "raw_last_writer" => \A t \in Txns : predecessors[t] = Direct(t)
         /\ Plan.representation = "max_raw_predecessor" =>
              \A t \in Txns : barriers[t] = Max({-1} \cup Direct(t))
         /\ Plan.representation = "full_conflict_graph" =>
              \A t \in Txns : predecessors[t] = Conflicting(t)
BY DEF PrepInv, GraphExact, Built, Direct

(* A transaction that the gate lets go has the providers of its reads      *)
(* behind it, and no transaction waits for itself or a later one.          *)
THEOREM WaitCorrect == PrepSpec => []WaitCoversReads
<1>1. PrepInv => WaitCoversReads
  <2> SUFFICES ASSUME PrepInv, phase = "ready", Plan.wait # "none", NEW t \in Txns
               PROVE  LET obstacles == IF Plan.wait = "contiguous_frontier_wait"
                                       THEN 0 .. barriers[t] ELSE predecessors[t]
                      IN /\ \A k \in MayRead(t) : Provider(t, k) \in obstacles \cup {-1}
                         /\ obstacles \subseteq 0 .. t - 1
    BY DEF WaitCoversReads
  <2>0. t \in Nat BY DEF Txns
  <2>1. \A k \in MayRead(t) : Provider(t, k) \in Direct(t) \cup {-1} BY DEF Direct
  <2>2. /\ Direct(t) \subseteq 0 .. t - 1
        /\ Max({-1} \cup Direct(t)) \in -1 .. t - 1
        /\ \A e \in Direct(t) : e <= Max({-1} \cup Direct(t))
    BY <2>0, DirectBelow
  <2>3. CASE Plan.wait = "direct_predecessor_wait"
    <3>1. predecessors[t] = Direct(t) BY <2>3, WaitReads, ReadyExact
    <3> QED BY <2>1, <2>2, <2>3, <3>1
  <2>4. CASE Plan.wait = "contiguous_frontier_wait"
    <3>1. barriers[t] = Max({-1} \cup Direct(t)) BY <2>4, WaitReads, ReadyExact
    <3>2. \A e \in Direct(t) : e \in 0 .. barriers[t] BY <2>0, <2>2, <3>1
    <3>3. 0 .. barriers[t] \subseteq 0 .. t - 1 BY <2>0, <2>2, <3>1
    <3> QED BY <2>1, <2>4, <3>2, <3>3
  <2>5. CASE Plan.wait = "all_predecessors_wait"
    <3>1. predecessors[t] = Conflicting(t) BY <2>5, WaitReads, ReadyExact
    <3>2. ASSUME NEW k \in MayRead(t), Provider(t, k) # -1 PROVE Provider(t, k) \in Conflicting(t)
      <4>1. Provider(t, k) \in Naming(t, {"write", "delete"}, k) BY <2>0, <3>2, ProviderIs
      <4>2. Touches(t, {"read", "write", "delete"}, k) BY DEF MayRead, Touches
      <4> QED BY <4>1, <4>2 DEF Naming, Conflicting, MayRead
    <3>3. Conflicting(t) \subseteq 0 .. t - 1 BY DEF Conflicting
    <3> QED BY <2>5, <3>1, <3>2, <3>3
  <2> QED BY <2>3, <2>4, <2>5, WaitReads
<1> QED BY <1>1, PrepInvariant, PTL

(* What the engine accepts the kernel accepts, and it runs the policies    *)
(* that the plan reports.                                                  *)
THEOREM ReportCorrect == PrepSpec => []RunsAsReported
<1>1. PrepInv => RunsAsReported
  <2> SUFFICES ASSUME PrepInv, phase = "ready"
               PROVE  /\ PolicyAccepted(Policy, Txns)
                      /\ Normalize(Policy).estimateRead = Kernel.estimateRead
                      /\ Normalize(Policy).idleWait = Kernel.idleWait
                      /\ Normalize(Policy).dispatch = Kernel.dispatch
    BY DEF RunsAsReported
  <2> DEFINE queued == Plan.wait # "none" /\ Kernel.dispatch = "ready_queue"
             frontier == Plan.wait = "contiguous_frontier_wait"
  <2>1. /\ Kernel.estimateRead \in EstimateReads /\ Kernel.idleWait \in IdleWaits
        /\ Kernel.dispatch \in Dispatches
        /\ Kernel.dispatch = "ready_queue" => Plan.wait # "none"
        /\ Kernel.estimateRead = "suspend_yield_worker" => Kernel.idleWait = "park"
    BY DEF PrepInv, Checked, KernelAccepted, Kernel
  <2>2. Kernel.estimateRead # "" /\ Kernel.idleWait # "" /\ Kernel.dispatch # ""
    BY <2>1 DEF EstimateReads, IdleWaits, Dispatches
  <2>3. Normalize(Policy) =
          [estimateRead |-> Kernel.estimateRead, idleWait |-> Kernel.idleWait,
           dispatch |-> IF queued THEN "ready_queue" ELSE "index_order",
           predecessors |-> IF queued /\ ~ frontier THEN predecessors ELSE Nil,
           barriers |-> IF queued /\ frontier THEN barriers ELSE Nil]
    <3> DEFINE P == [estimateRead |-> Kernel.estimateRead, idleWait |-> Kernel.idleWait,
                     dispatch |-> IF queued THEN "ready_queue" ELSE "",
                     predecessors |-> IF queued /\ ~ frontier THEN predecessors ELSE Nil,
                     barriers |-> IF queued /\ frontier THEN barriers ELSE Nil]
    <3>1. Policy = P BY DEF Policy
    <3>2. OrDefault(P.dispatch, "index_order") = IF queued THEN "ready_queue" ELSE "index_order"
      BY DEF OrDefault
    <3>3. OrDefault(P.estimateRead, "suspend_in_place") = Kernel.estimateRead
      BY <2>2 DEF OrDefault
    <3>4. \A d : OrDefault(P.idleWait, d) = Kernel.idleWait
      BY <2>2 DEF OrDefault
    <3>5. Normalize(P) = [P EXCEPT !.estimateRead = Kernel.estimateRead, !.idleWait = Kernel.idleWait,
                            !.dispatch = IF queued THEN "ready_queue" ELSE "index_order"]
      <4> HIDE DEF P
      <4> QED BY <3>2, <3>3, <3>4 DEF Normalize
    <3> QED BY <3>1, <3>5
  <2>4. Kernel.dispatch = IF queued THEN "ready_queue" ELSE "index_order"
    BY <2>1 DEF Dispatches
  <2>5. CASE ~ queued
    BY <2>1, <2>3, <2>4, <2>5 DEF PolicyAccepted
  <2>6. CASE queued /\ frontier
    <3>1. Plan.representation = "max_raw_predecessor" BY <2>6, WaitReads
    <3>2. barriers # Nil BY <3>1, NilAssumption DEF PrepInv, Allocated
    <3>3. ASSUME NEW t \in Txns PROVE barriers[t] < t
      <4>1. barriers[t] = Max({-1} \cup Direct(t)) BY <3>1, ReadyExact
      <4>2. t \in Nat BY DEF Txns
      <4>3. barriers[t] \in -1 .. t - 1 BY <4>1, <4>2, DirectBelow
      <4> QED BY <4>2, <4>3
    <3> QED BY <2>1, <2>3, <2>4, <2>6, <3>2, <3>3 DEF PolicyAccepted
  <2>7. CASE queued /\ ~ frontier
    <3>1. Plan.representation \in {"raw_last_writer", "full_conflict_graph"} BY <2>7, WaitReads
    <3>2. predecessors # Nil BY <3>1, NilAssumption DEF PrepInv, Allocated, ByPredecessors
    <3>3. ASSUME NEW t \in Txns PROVE predecessors[t] \subseteq 0 .. t - 1
      <4>1. predecessors[t] = Direct(t) \/ predecessors[t] = Conflicting(t) BY <3>1, ReadyExact
      <4>2. t \in Nat BY DEF Txns
      <4>3. Direct(t) \subseteq 0 .. t - 1 BY <4>2, DirectBelow
      <4> QED BY <4>1, <4>3 DEF Conflicting
    <3> QED BY <2>1, <2>3, <2>4, <2>7, <3>2, <3>3 DEF PolicyAccepted
  <2> QED BY <2>5, <2>6, <2>7
<1> QED BY <1>1, PrepInvariant, PTL
=============================================================================
