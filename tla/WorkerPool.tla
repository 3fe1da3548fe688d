----------------------------- MODULE WorkerPool -----------------------------
(***************************************************************************)
(* The worker pool of the suspend_yield_worker policy (workerPool in       *)
(* src/execpolicyexec.go, the waits in src/execpolicyview.go): a worker    *)
(* that parks on a dependency is replaced, and the surplus that arises     *)
(* when it resumes exits at its next scheduling point.                     *)
(*                                                                         *)
(* Goroutines stands for the goroutines that may exist, a retired one may  *)
(* be started again.  Which transaction a worker runs or validates is left *)
(* open; module Scheduler shows that no two workers run the same one       *)
(* (OneOwner), so at most BlockSize workers are inside a transaction.      *)
(***************************************************************************)
EXTENDS Integers, FiniteSets

CONSTANTS Goroutines, Target, BlockSize

ASSUME PoolAssumption ==
  /\ Target \in Nat \ {0}
  /\ BlockSize \in Nat
  /\ IsFiniteSet(Goroutines)
  /\ Cardinality(Goroutines) >= Target + BlockSize

VARIABLES
  spawned,   \* workerPool.spawned
  parked,    \* workerPool.parked
  peak,      \* workerPool.peak
  place,     \* per goroutine: where it is
  done,      \* the block is complete or cancelled
  resumed    \* history: workers that resumed and did not come to retire since

poolVars == <<spawned, parked, peak, place, done, resumed>>

Limit == Target + BlockSize

In(places) == {g \in Goroutines : place[g] \in places}

\* newWorkerPool, and the workers ExecuteBlockWithKernelPolicy spawns.
PoolInit ==
  /\ spawned = Target
  /\ parked = 0
  /\ peak = Target
  /\ place \in [Goroutines -> {"absent", "loop"}]
  /\ Cardinality(In({"loop"})) = Target
  /\ done = FALSE
  /\ resumed = {}

\* observeLocked, with the counters at s and p.
Observe(s, p) == peak' = IF s - p > peak THEN s - p ELSE peak

\* Mutant: replaces every worker that parks.
NeededAlways(s, p) == TRUE

\* The test of onPark, with its own park counted.
Needed(s, p) == s - p < Target /\ s < Limit

(* onPark under its lock; the replacement is started after the unlock.     *)
OnPark(g) ==
  /\ place[g] = "executing"
  /\ parked' = parked + 1
  /\ LET needed == Needed(spawned, parked + 1)
     IN /\ spawned' = IF needed THEN spawned + 1 ELSE spawned
        /\ place' = [place EXCEPT ![g] = IF needed THEN "spawning" ELSE "parked"]
        /\ Observe(IF needed THEN spawned + 1 ELSE spawned, parked + 1)
  /\ resumed' = resumed \ {g}
  /\ UNCHANGED done

Spawn(g, new) ==
  /\ place[g] = "spawning"
  /\ place[new] = "absent"
  /\ place' = [place EXCEPT ![g] = "parked", ![new] = "loop"]
  /\ UNCHANGED <<spawned, parked, peak, done, resumed>>

\* Mutant: forgets to count the worker as runnable again.
OnUnparkForgets(g) ==
  /\ place[g] = "parked"
  /\ place' = [place EXCEPT ![g] = "executing"]
  /\ resumed' = resumed \cup {g}
  /\ UNCHANGED <<spawned, parked, peak, done>>

(* Condvar.Wait returned.                                                  *)
OnUnpark(g) ==
  /\ place[g] = "parked"
  /\ parked' = parked - 1
  /\ place' = [place EXCEPT ![g] = "executing"]
  /\ Observe(spawned, parked - 1)
  /\ resumed' = resumed \cup {g}
  /\ UNCHANGED <<spawned, done>>

\* Mutant: lets a worker go that is not a surplus.
SurplusEqual == spawned - parked >= Target

Surplus == spawned - parked > Target

----------------------------------------------------------------------------
(* policyExecutor.run: a worker without a task looks at the context and    *)
(* whether the block is done, asks retire, and only then for a task.  The  *)
(* end of a task may be the beginning of the next one.                     *)

\* Only the place of worker g changes.
GoTo(g, to) ==
  /\ place' = [place EXCEPT ![g] = to]
  /\ UNCHANGED <<spawned, parked, peak, done, resumed>>

\* Scheduler.OneOwner: one more worker can be inside a transaction.
OneIsFree == Cardinality(In({"executing", "spawning", "parked"})) < BlockSize

Stop(g) == done /\ place[g] = "loop" /\ GoTo(g, "stopped")

Look(g) == ~ done /\ place[g] = "loop" /\ GoTo(g, "looked")

(* retire: a surplus worker exits, any other goes on to nextTask.          *)
Retire(g) ==
  /\ place[g] = "looked"
  /\ resumed' = resumed \ {g}
  /\ IF Surplus
       THEN spawned' = spawned - 1 /\ place' = [place EXCEPT ![g] = "absent"]
       ELSE place' = [place EXCEPT ![g] = "fetching"] /\ UNCHANGED spawned
  /\ UNCHANGED <<parked, peak, done>>

(* nextTask, whatever became of the pool since retire.                     *)
TakeTask(g) == place[g] = "fetching" /\ OneIsFree /\ GoTo(g, "executing")

TakeValidation(g) == place[g] = "fetching" /\ GoTo(g, "validating")

\* Nothing to do: idleWait, and back to the head of the loop.
Idle(g) == place[g] = "fetching" /\ GoTo(g, "loop")

\* finishExecution or registerAbort; the worker may be given its own validation.
FinishTask(g) == place[g] = "executing" /\ (GoTo(g, "loop") \/ GoTo(g, "validating"))

\* finishValidation; an aborted transaction may be given back to its validator.
FinishValidation(g) ==
  place[g] = "validating" /\ (GoTo(g, "loop") \/ (OneIsFree /\ GoTo(g, "executing")))

Finish ==
  /\ ~ done
  /\ done' = TRUE
  /\ UNCHANGED <<spawned, parked, peak, place, resumed>>

\* workers.Wait() lets ExecuteBlockWithKernelPolicy go on.
Waited ==
  /\ In({"absent", "stopped"}) = Goroutines
  /\ UNCHANGED poolVars

GoroutineStep(g) ==
  \/ OnPark(g) \/ OnUnpark(g) \/ Stop(g) \/ Look(g) \/ Retire(g)
  \/ TakeTask(g) \/ TakeValidation(g) \/ Idle(g) \/ FinishTask(g) \/ FinishValidation(g)
  \/ \E new \in Goroutines : Spawn(g, new)

PoolNext == Finish \/ Waited \/ \E g \in Goroutines : GoroutineStep(g)

PoolSpec == PoolInit /\ [][PoolNext]_poolVars

----------------------------------------------------------------------------
(* Properties                                                              *)

Places == {"absent", "loop", "looked", "fetching", "executing", "validating",
           "spawning", "parked", "stopped"}

\* Type invariant of the pool.
PoolTypeOK ==
  /\ spawned \in Nat /\ parked \in Nat /\ peak \in Nat
  /\ place \in [Goroutines -> Places]
  /\ done \in BOOLEAN
  /\ resumed \subseteq Goroutines

(* The counters are exact: spawned counts the goroutines and those about   *)
(* to be started, parked those that wait for a dependency, whatever order  *)
(* workers park, resume, retire and are started in (onPark, onUnpark,      *)
(* retire).                                                                *)
CountersExact ==
  /\ spawned + Cardinality(In({"absent"})) = Cardinality(Goroutines) + Cardinality(In({"spawning"}))
  /\ parked = Cardinality(In({"spawning", "parked"}))

\* Workers that run, or are about to be started by the one that parks.
Runnable == In(Places \ {"absent", "parked"})

(* Parking never costs the block a worker: as many goroutines as executors *)
(* were configured are running or about to be started, however many are    *)
(* parked, until the block is complete.  In particular the limit on the    *)
(* number of goroutines never keeps a replacement back, and retiring does  *)
(* not take the last runnable workers away.                                *)
CapacityKept == Cardinality(Runnable) >= Target

(* The capacity that a parked worker lent out is given back: the pool      *)
(* exceeds the configured executors by no more than the workers that       *)
(* resumed and have yet to come to retire, the bound that the comment on   *)
(* workerPool states, though a worker may go through several tasks before  *)
(* it comes there, park again, or leave its place to somebody else's exit. *)
SurplusHandedBack == Cardinality(Runnable) <= Target + Cardinality(resumed)
=============================================================================
