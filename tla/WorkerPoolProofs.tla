-------------------------- MODULE WorkerPoolProofs --------------------------
(***************************************************************************)
(* The pool keeps its capacity and hands a surplus back, for every number  *)
(* of executors and every block size.  The inductive invariant relates the *)
(* two counters to the goroutines they count; that the limit never binds   *)
(* follows because at most BlockSize workers are parked.                   *)
(***************************************************************************)
EXTENDS WorkerPool, FiniteSetTheorems, TLAPS

Count(f, S) == Cardinality({g \in Goroutines : f[g] \in S})

\* h is f with goroutine g moved to a place.
Moved(f, h, g, to) == h = [f EXCEPT ![g] = to]

\* The goroutines in a set of places are finitely many.
LEMMA CountType ==
  ASSUME NEW f, NEW S
  PROVE  /\ IsFiniteSet({g \in Goroutines : f[g] \in S})
         /\ Count(f, S) \in Nat
<1>1. IsFiniteSet({g \in Goroutines : f[g] \in S})
  BY PoolAssumption, FS_Subset
<1> QED
  BY <1>1, FS_CardinalityType DEF Count

\* Moving one goroutine changes a count by at most one.
LEMMA MoveCount ==
  ASSUME NEW f \in [Goroutines -> Places], NEW to \in Places, NEW S, NEW g \in Goroutines,
         NEW h, Moved(f, h, g, to)
  PROVE  Count(h, S) = IF f[g] \in S
                         THEN IF to \in S THEN Count(f, S) ELSE Count(f, S) - 1
                         ELSE IF to \in S THEN Count(f, S) + 1 ELSE Count(f, S)
<1> DEFINE F == {u \in Goroutines : f[u] \in S}
           H == {u \in Goroutines : h[u] \in S}
<1>1. IsFiniteSet(F) /\ Cardinality(F) = Count(f, S) /\ Cardinality(H) = Count(h, S)
  BY CountType DEF Count
<1>2. CASE to \in S
  <2>1. H = F \cup {g}
    BY <1>2 DEF Moved
  <2> QED
    BY <1>1, <1>2, <2>1, FS_AddElement
<1>3. CASE to \notin S
  <2>1. H = F \ {g}
    BY <1>3 DEF Moved
  <2> QED
    BY <1>1, <1>3, <2>1, FS_RemoveElement
<1> QED
  BY <1>2, <1>3

\* Counts of disjoint sets of places add up.
LEMMA SumCount ==
  ASSUME NEW f, NEW S, NEW T, S \cap T = {}
  PROVE  Count(f, S \cup T) = Count(f, S) + Count(f, T)
<1> DEFINE A == {u \in Goroutines : f[u] \in S}
           B == {u \in Goroutines : f[u] \in T}
<1>1. IsFiniteSet(A) /\ IsFiniteSet(B)
  BY CountType
<1>2. A \cap B = {} /\ {u \in Goroutines : f[u] \in S \cup T} = A \cup B
  OBVIOUS
<1>3. Cardinality(A \cup B) = Cardinality(A) + Cardinality(B) - Cardinality({})
  BY <1>1, <1>2, FS_Union
<1>4. Cardinality(A) \in Nat /\ Cardinality(B) \in Nat
  BY <1>1, FS_CardinalityType
<1>5. Cardinality({}) = 0
  BY FS_EmptySet
<1>6. /\ Count(f, S \cup T) = Cardinality(A \cup B)
      /\ Count(f, S) = Cardinality(A) /\ Count(f, T) = Cardinality(B)
  BY <1>2 DEF Count
<1> HIDE DEF A, B
<1> QED
  BY <1>3, <1>4, <1>5, <1>6

Absent == {"absent"}
Spawning == {"spawning"}
Parked == {"spawning", "parked"}
Inside == {"executing", "spawning", "parked"}

(* The inductive invariant: the counters are exact, the runnable workers   *)
(* they describe reach the target and exceed it by the resumed ones at     *)
(* most, and the limit is respected.                                       *)
PoolInv ==
  /\ PoolTypeOK
  /\ spawned + Count(place, Absent) = Cardinality(Goroutines) + Count(place, Spawning)
  /\ parked = Count(place, Parked)
  /\ Count(place, Inside) <= BlockSize
  /\ spawned - parked >= Target
  /\ spawned <= Limit
  /\ spawned - parked <= Target + Cardinality(resumed)
  /\ \A g \in resumed : place[g] \notin {"absent", "spawning", "parked"}

\* Every parked worker is inside a transaction.
LEMMA ParkedInside ==
  ASSUME NEW f
  PROVE  Count(f, Parked) + Count(f, {"executing"}) = Count(f, Inside)
<1>1. Parked \cap {"executing"} = {} /\ Parked \cup {"executing"} = Inside
  BY DEF Parked, Inside
<1>2. Count(f, Parked \cup {"executing"}) = Count(f, Parked) + Count(f, {"executing"})
  BY <1>1, SumCount
<1> QED
  BY <1>1, <1>2

\* The invariant holds of newWorkerPool and the workers it is started with.
LEMMA PoolInitInv == ASSUME PoolInit PROVE PoolInv
<1> USE PoolAssumption DEF PoolInit
<1> DEFINE Begun == {"loop"}
<1>1. place \in [Goroutines -> {"absent", "loop"}] /\ Count(place, Begun) = Target
  BY DEF Count, In
<1>2. Count(place, {}) = 0
  BY FS_EmptySet DEF Count
<1>3. /\ Count(place, Spawning) = Count(place, {})
      /\ Count(place, Parked) = Count(place, {})
      /\ Count(place, Inside) = Count(place, {})
  BY <1>1 DEF Count, Spawning, Parked, Inside
<1>4. Count(place, Absent) + Count(place, Begun) = Cardinality(Goroutines)
  <2>1. Absent \cap Begun = {}
    BY DEF Absent
  <2>2. Count(place, Absent \cup Begun) = Count(place, Absent) + Count(place, Begun)
    BY <2>1, SumCount
  <2>3. {g \in Goroutines : place[g] \in Absent \cup Begun} = Goroutines
    BY <1>1 DEF Absent
  <2> QED
    BY <2>2, <2>3 DEF Count
<1>5. Count(place, Absent) \in Nat /\ Cardinality(Goroutines) \in Nat
  BY CountType, FS_CardinalityType
<1>6. PoolTypeOK
  BY DEF PoolTypeOK, Places
<1>7. Cardinality(resumed) = 0
  BY FS_EmptySet
<1> QED
  BY <1>1, <1>2, <1>3, <1>4, <1>5, <1>6, <1>7 DEF PoolInv, Limit

\* How a move of goroutine g from its place changes the four counts.
LEMMA Counts ==
  ASSUME PoolTypeOK, NEW g \in Goroutines, NEW to \in Places, place' = [place EXCEPT ![g] = to]
  PROVE  /\ \A S \in {Absent, Spawning, Parked, Inside} :
              Count(place', S) = IF place[g] \in S
                         THEN IF to \in S THEN Count(place, S) ELSE Count(place, S) - 1
                         ELSE IF to \in S THEN Count(place, S) + 1 ELSE Count(place, S)
         /\ \A S \in {Absent, Spawning, Parked, Inside} : Count(place, S) \in Nat
         /\ place' \in [Goroutines -> Places]
         /\ Cardinality(Goroutines) \in Nat
<1>1. place \in [Goroutines -> Places]
  BY DEF PoolTypeOK
<1>2. ASSUME NEW S PROVE Count(place', S) = IF place[g] \in S
                         THEN IF to \in S THEN Count(place, S) ELSE Count(place, S) - 1
                         ELSE IF to \in S THEN Count(place, S) + 1 ELSE Count(place, S)
  <2>1. Moved(place, place', g, to)
    BY DEF Moved
  <2> QED
    BY <1>1, <2>1, MoveCount
<1>3. \A S : Count(place, S) \in Nat
  BY CountType
<1>4. place' \in [Goroutines -> Places]
  BY <1>1
<1>5. Cardinality(Goroutines) \in Nat
  BY PoolAssumption, FS_CardinalityType
<1> QED
  BY <1>2, <1>3, <1>4, <1>5

\* How the history of resumed workers grows and shrinks.
LEMMA ResumedCount ==
  ASSUME PoolTypeOK, NEW g \in Goroutines
  PROVE  /\ Cardinality(resumed) \in Nat
         /\ Cardinality(resumed \ {g}) \in Nat
         /\ Cardinality(resumed \ {g}) >= Cardinality(resumed) - 1
         /\ g \notin resumed => Cardinality(resumed \cup {g}) = Cardinality(resumed) + 1
<1>1. IsFiniteSet(resumed)
  BY PoolAssumption, FS_Subset DEF PoolTypeOK
<1>2. IsFiniteSet(resumed \ {g}) /\ IsFiniteSet(resumed \cup {g})
  BY <1>1, FS_RemoveElement, FS_AddElement
<1>3. Cardinality(resumed) \in Nat /\ Cardinality(resumed \ {g}) \in Nat
  BY <1>1, <1>2, FS_CardinalityType
<1>4. Cardinality(resumed \ {g}) = IF g \in resumed THEN Cardinality(resumed) - 1 ELSE Cardinality(resumed)
  BY <1>1, FS_RemoveElement
<1>5. Cardinality(resumed \cup {g}) = IF g \in resumed THEN Cardinality(resumed) ELSE Cardinality(resumed) + 1
  BY <1>1, FS_AddElement
<1> QED
  BY <1>3, <1>4, <1>5

(* A worker that goes from one place of run to another keeps the           *)
(* invariant: only entering a transaction needs a free one.                *)
LEMMA GoToStep ==
  ASSUME PoolInv, NEW g \in Goroutines, NEW to \in {"loop", "looked", "fetching", "executing", "validating", "stopped"},
         place[g] \in {"loop", "looked", "fetching", "executing", "validating"},
         GoTo(g, to), to = "executing" => OneIsFree
  PROVE  PoolInv'
<1> USE PoolAssumption DEF PoolInv, Limit
<1>1. /\ place' = [place EXCEPT ![g] = to] /\ to \in Places
      /\ UNCHANGED <<spawned, parked, peak, done, resumed>>
  BY DEF GoTo, Places
<1>2. /\ Count(place', Absent) = Count(place, Absent)
      /\ Count(place', Spawning) = Count(place, Spawning)
      /\ Count(place', Parked) = Count(place, Parked)
  <2>1. \A S \in {Absent, Spawning, Parked, Inside} :
              Count(place', S) = IF place[g] \in S
                         THEN IF to \in S THEN Count(place, S) ELSE Count(place, S) - 1
                         ELSE IF to \in S THEN Count(place, S) + 1 ELSE Count(place, S)
    BY <1>1, Counts
  <2>2. \A S \in {Absent, Spawning, Parked} : place[g] \notin S /\ to \notin S
    BY DEF Absent, Spawning, Parked
  <2> QED
    BY <2>1, <2>2
<1>3. Count(place', Inside) <= BlockSize
  <2>1. Count(place', Inside) = IF place[g] \in Inside
                         THEN IF to \in Inside THEN Count(place, Inside) ELSE Count(place, Inside) - 1
                         ELSE IF to \in Inside THEN Count(place, Inside) + 1 ELSE Count(place, Inside)
    BY <1>1, Counts
  <2>2. to \in Inside => to = "executing"
    BY DEF Inside
  <2>3. OneIsFree => Count(place, Inside) < BlockSize
    BY DEF OneIsFree, Count, In, Inside
  <2>4. Count(place, Inside) \in Nat
    BY CountType
  <2> QED
    BY <2>1, <2>2, <2>3, <2>4
<1>4. place' \in [Goroutines -> Places]
  BY <1>1, Counts
<1>5. PoolTypeOK'
  BY <1>1, <1>4 DEF PoolTypeOK
<1>6. \A u \in resumed' : place'[u] \notin {"absent", "spawning", "parked"}
  BY <1>1 DEF PoolTypeOK
<1>7. Cardinality(resumed') = Cardinality(resumed)
  BY <1>1
<1> QED
  BY <1>1, <1>2, <1>3, <1>5, <1>6, <1>7

\* Every step of a goroutine keeps the invariant, one case per action.
LEMMA PoolInvStep == ASSUME PoolInv, [PoolNext]_poolVars PROVE PoolInv'
<1> USE PoolAssumption DEF PoolInv, PoolTypeOK, Limit
<1> DEFINE Sets == {Absent, Spawning, Parked, Inside}
<1>0. \A S \in Sets : Count(place, S) \in Nat
  BY CountType
<1>1. CASE UNCHANGED poolVars
  BY <1>1 DEF poolVars
<1>2. CASE Finish
  BY <1>2 DEF Finish
<1>3. CASE Waited
  BY <1>3 DEF Waited, poolVars
<1>4. ASSUME NEW g \in Goroutines, OnPark(g) PROVE PoolInv'
  <2> DEFINE needed == Needed(spawned, parked + 1)
             to == IF needed THEN "spawning" ELSE "parked"
  <2>1. /\ place' = [place EXCEPT ![g] = to] /\ place[g] = "executing"
        /\ parked' = parked + 1 /\ spawned' = IF needed THEN spawned + 1 ELSE spawned
        /\ peak' = IF spawned' - parked' > peak THEN spawned' - parked' ELSE peak
        /\ done' = done /\ resumed' = resumed \ {g} /\ to \in Places
    BY <1>4 DEF OnPark, Observe, Places
  <2>2. /\ Count(place', Absent) = Count(place, Absent)
        /\ Count(place', Spawning) = IF needed THEN Count(place, Spawning) + 1 ELSE Count(place, Spawning)
        /\ Count(place', Parked) = Count(place, Parked) + 1
        /\ Count(place', Inside) = Count(place, Inside)
        /\ place' \in [Goroutines -> Places] /\ Cardinality(Goroutines) \in Nat
    BY <2>1, Counts, ZenonT(30) DEF Absent, Spawning, Parked, Inside
  <2>3. parked + 1 <= BlockSize
    <3>1. Count(place', Parked) + Count(place', {"executing"}) = Count(place', Inside)
      BY ParkedInside
    <3>2. Count(place', {"executing"}) \in Nat
      BY CountType
    <3> QED
      BY <3>1, <3>2, <2>2, <1>0
  <2>4. /\ Cardinality(resumed) \in Nat /\ Cardinality(resumed') \in Nat
        /\ Cardinality(resumed') >= Cardinality(resumed) - 1
    BY <2>1, ResumedCount
  <2>5. /\ spawned' - parked' >= Target /\ spawned' <= Target + BlockSize
        /\ spawned' - parked' <= Target + Cardinality(resumed')
    BY <2>1, <2>3, <2>4 DEF Needed
  <2>6. parked' \in Nat /\ spawned' \in Nat /\ peak' \in Nat
    BY <2>1, <2>3, <2>5
  <2>7. PoolTypeOK'
    BY <2>1, <2>2, <2>6
  <2>8. \A u \in resumed' : place'[u] \notin {"absent", "spawning", "parked"}
    BY <2>1
  <2> QED
    BY <2>1, <2>2, <2>5, <2>7, <2>8, <1>0
<1>5. ASSUME NEW g \in Goroutines, NEW new \in Goroutines, Spawn(g, new) PROVE PoolInv'
  <2> DEFINE mid == [place EXCEPT ![g] = "parked"]
  <2>1. /\ place' = [mid EXCEPT ![new] = "loop"] /\ place[g] = "spawning" /\ mid[new] = "absent"
        /\ mid \in [Goroutines -> Places]
        /\ UNCHANGED <<spawned, parked, peak, done, resumed>>
    BY <1>5 DEF Spawn, Places
  <2>2. /\ Count(mid, Absent) = Count(place, Absent)
        /\ Count(mid, Spawning) = Count(place, Spawning) - 1
        /\ Count(mid, Parked) = Count(place, Parked)
        /\ Count(mid, Inside) = Count(place, Inside)
    <3>1. "parked" \in Places /\ place \in [Goroutines -> Places] /\ Moved(place, mid, g, "parked")
      BY DEF Places, Moved
    <3> HIDE DEF mid
    <3>2. ASSUME NEW S PROVE Count(mid, S) = IF place[g] \in S
                  THEN IF "parked" \in S THEN Count(place, S) ELSE Count(place, S) - 1
                  ELSE IF "parked" \in S THEN Count(place, S) + 1 ELSE Count(place, S)
      BY <3>1, MoveCount
    <3> QED
      BY <2>1, <3>2 DEF Absent, Spawning, Parked, Inside
  <2>3. /\ Count(place', Absent) = Count(mid, Absent) - 1
        /\ Count(place', Spawning) = Count(mid, Spawning)
        /\ Count(place', Parked) = Count(mid, Parked)
        /\ Count(place', Inside) = Count(mid, Inside)
    <3> HIDE DEF mid
    <3>1. "loop" \in Places /\ Moved(mid, place', new, "loop")
      BY <2>1 DEF Places, Moved
    <3>2. ASSUME NEW S PROVE Count(place', S) = IF mid[new] \in S
                  THEN IF "loop" \in S THEN Count(mid, S) ELSE Count(mid, S) - 1
                  ELSE IF "loop" \in S THEN Count(mid, S) + 1 ELSE Count(mid, S)
      BY <2>1, <3>1, MoveCount
    <3> QED
      BY <2>1, <3>2 DEF Absent, Spawning, Parked, Inside
  <2>4. PoolTypeOK' /\ \A u \in resumed' : place'[u] \notin {"absent", "spawning", "parked"}
    BY <2>1 DEF Places
  <2>5. Cardinality(Goroutines) \in Nat
    BY FS_CardinalityType
  <2>6. Cardinality(resumed') = Cardinality(resumed)
    BY <2>1
  <2> HIDE DEF mid
  <2> QED
    BY <2>1, <2>2, <2>3, <2>4, <2>5, <2>6, <1>0
<1>6. ASSUME NEW g \in Goroutines, OnUnpark(g) PROVE PoolInv'
  <2>1. /\ place' = [place EXCEPT ![g] = "executing"] /\ place[g] = "parked"
        /\ parked' = parked - 1 /\ spawned' = spawned /\ done' = done
        /\ peak' = IF spawned' - parked' > peak THEN spawned' - parked' ELSE peak
        /\ resumed' = resumed \cup {g} /\ g \notin resumed /\ "executing" \in Places
    BY <1>6 DEF OnUnpark, Observe, Places
  <2>2. /\ Count(place', Absent) = Count(place, Absent)
        /\ Count(place', Spawning) = Count(place, Spawning)
        /\ Count(place', Parked) = Count(place, Parked) - 1
        /\ Count(place', Inside) = Count(place, Inside)
        /\ place' \in [Goroutines -> Places] /\ Cardinality(Goroutines) \in Nat
    BY <2>1, Counts DEF Absent, Spawning, Parked, Inside
  <2>3. Count(place', Parked) \in Nat
    BY CountType
  <2>4. parked' \in Nat /\ peak' \in Nat
    BY <2>1, <2>2, <2>3
  <2>5. PoolTypeOK'
    BY <2>1, <2>2, <2>4
  <2>6. Cardinality(resumed) \in Nat /\ Cardinality(resumed') = Cardinality(resumed) + 1
    BY <2>1, ResumedCount
  <2>7. \A u \in resumed' : place'[u] \notin {"absent", "spawning", "parked"}
    BY <2>1
  <2> QED
    BY <2>1, <2>2, <2>5, <2>6, <2>7, <1>0
<1>7. ASSUME NEW g \in Goroutines, Retire(g) PROVE PoolInv'
  <2> DEFINE to == IF Surplus THEN "absent" ELSE "fetching"
  <2>1. /\ place' = [place EXCEPT ![g] = to] /\ place[g] = "looked" /\ to \in Places
        /\ spawned' = (IF Surplus THEN spawned - 1 ELSE spawned) /\ resumed' = resumed \ {g}
        /\ UNCHANGED <<parked, peak, done>>
    BY <1>7 DEF Retire, Places
  <2>2. /\ Count(place', Absent) = IF Surplus THEN Count(place, Absent) + 1 ELSE Count(place, Absent)
        /\ Count(place', Spawning) = Count(place, Spawning)
        /\ Count(place', Parked) = Count(place, Parked)
        /\ Count(place', Inside) = Count(place, Inside)
        /\ place' \in [Goroutines -> Places] /\ Cardinality(Goroutines) \in Nat
    <3>1. /\ \A S \in Sets :
              Count(place', S) = IF place[g] \in S
                         THEN IF to \in S THEN Count(place, S) ELSE Count(place, S) - 1
                         ELSE IF to \in S THEN Count(place, S) + 1 ELSE Count(place, S)
          /\ place' \in [Goroutines -> Places] /\ Cardinality(Goroutines) \in Nat
      BY <2>1, Counts
    <3>2. /\ \A S \in Sets : place[g] \notin S
          /\ \A S \in {Spawning, Parked, Inside} : to \notin S
          /\ to \in Absent <=> Surplus
      BY <2>1 DEF Absent, Spawning, Parked, Inside
    <3> HIDE DEF to
    <3> QED
      BY <3>1, <3>2
  <2>3. /\ Cardinality(resumed) \in Nat /\ Cardinality(resumed') \in Nat
        /\ Cardinality(resumed') >= Cardinality(resumed) - 1
    BY <2>1, ResumedCount
  <2>4. /\ spawned' \in Nat /\ spawned' - parked' >= Target /\ spawned' <= Target + BlockSize
        /\ spawned' - parked' <= Target + Cardinality(resumed')
    BY <2>1, <2>3 DEF Surplus
  <2>5. PoolTypeOK'
    BY <2>1, <2>2, <2>4
  <2>6. \A u \in resumed' : place'[u] \notin {"absent", "spawning", "parked"}
    BY <2>1
  <2>7. spawned' + Count(place', Absent) = Cardinality(Goroutines) + Count(place', Spawning)
    BY <2>1, <2>2, <1>0
  <2> QED
    BY <2>1, <2>2, <2>4, <2>5, <2>6, <2>7
<1>8. ASSUME NEW g \in Goroutines,
             Stop(g) \/ Look(g) \/ TakeTask(g) \/ TakeValidation(g) \/ Idle(g) \/ FinishTask(g) \/ FinishValidation(g)
      PROVE PoolInv'
  <2>1. PICK to \in {"loop", "looked", "fetching", "executing", "validating", "stopped"} :
          /\ place[g] \in {"loop", "looked", "fetching", "executing", "validating"}
          /\ GoTo(g, to) /\ (to = "executing" => OneIsFree)
    BY <1>8, Zenon DEF Stop, Look, TakeTask, TakeValidation, Idle, FinishTask, FinishValidation
  <2> QED
    BY <2>1, GoToStep
<1> QED
  BY <1>1, <1>2, <1>3, <1>4, <1>5, <1>6, <1>7, <1>8 DEF PoolNext, GoroutineStep

\* The inductive invariant holds throughout.
LEMMA PoolInvariant == PoolSpec => []PoolInv
  BY PoolInitInv, PoolInvStep, PTL DEF PoolSpec

(* The counters of the pool are exact whatever order workers park, resume, *)
(* retire and start in (onPark, onUnpark, retire).                         *)
THEOREM PoolCounts == PoolSpec => []CountersExact
<1>1. ASSUME PoolInv PROVE CountersExact
  BY <1>1 DEF PoolInv, CountersExact, Count, In, Absent, Spawning, Parked, Inside
<1> QED
  BY <1>1, PoolInvariant, PTL

\* The runnable workers are as many as the two counters say.
LEMMA RunnableCount == ASSUME PoolInv PROVE Cardinality(Runnable) = spawned - parked
<1> DEFINE Waits == {"parked"}
           Active == Places \ {"absent", "parked"}
<1>1. Count(place, Parked) = Count(place, Spawning) + Count(place, Waits)
  <2>1. Spawning \cap Waits = {} /\ Parked = Spawning \cup Waits
    BY DEF Spawning, Parked
  <2> QED
    BY <2>1, SumCount
<1>2. Count(place, Active) + Count(place, Absent \cup Waits) = Cardinality(Goroutines)
  <2>1. Active \cap (Absent \cup Waits) = {}
    BY DEF Absent
  <2>2. Count(place, Active \cup (Absent \cup Waits)) = Count(place, Active) + Count(place, Absent \cup Waits)
    BY <2>1, SumCount
  <2>3. {g \in Goroutines : place[g] \in Active \cup (Absent \cup Waits)} = Goroutines
    BY DEF PoolInv, PoolTypeOK, Absent
  <2> QED
    BY <2>2, <2>3 DEF Count
<1>3. Count(place, Absent \cup Waits) = Count(place, Absent) + Count(place, Waits)
  <2>1. Absent \cap Waits = {}
    BY DEF Absent
  <2> QED
    BY <2>1, SumCount
<1>4. /\ Count(place, Active) \in Nat /\ Count(place, Absent) \in Nat
      /\ Count(place, Waits) \in Nat /\ Count(place, Spawning) \in Nat
      /\ Cardinality(Goroutines) \in Nat
  BY CountType, PoolAssumption, FS_CardinalityType
<1>5. Cardinality(Runnable) = Count(place, Active)
  BY DEF Runnable, In, Count
<1> HIDE DEF Active, Waits
<1> QED
  BY <1>1, <1>2, <1>3, <1>4, <1>5 DEF PoolInv, PoolTypeOK

(* Parking never costs the block a worker, for every number of executors   *)
(* and every block size: onPark replaces a parked worker whenever it is    *)
(* needed, and retire lets only a surplus go.                              *)
THEOREM PoolCapacity == PoolSpec => []CapacityKept
<1>1. ASSUME PoolInv PROVE CapacityKept
  BY <1>1, RunnableCount DEF PoolInv, CapacityKept
<1> QED
  BY <1>1, PoolInvariant, PTL

(* The pool exceeds the configured executors by no more than the workers   *)
(* that resumed and have not come to retire since, for every number of     *)
(* executors and every block size.                                         *)
THEOREM PoolSurplus == PoolSpec => []SurplusHandedBack
<1>1. ASSUME PoolInv PROVE SurplusHandedBack
  BY <1>1, RunnableCount DEF PoolInv, SurplusHandedBack
<1> QED
  BY <1>1, PoolInvariant, PTL
=============================================================================
