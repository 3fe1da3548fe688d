--------------------------- MODULE PolicyScheduler ---------------------------
(***************************************************************************)
(* Block execution under an explicit kernel policy (src/execpolicy.go,     *)
(* src/execpolicysched.go, src/execpolicyexec.go, src/execpolicyview.go):  *)
(* the block executor of module BlockSTM with a queue of transactions to   *)
(* dispatch again, a gate that defers transactions whose predecessors are  *)
(* incomplete, another answer to reading an ESTIMATE, and idle workers     *)
(* that sleep on a wake channel.                                           *)
(*                                                                         *)
(* The code wraps the frozen scheduler, so its steps are those of BlockSTM *)
(* with the steps of the wrapping code between them.  Every critical       *)
(* section of policyScheduler.mu is one step.  The window of module        *)
(* Admission is off here and no worker yields (see module WorkerPool).     *)
(***************************************************************************)
EXTENDS BlockSTM, SequencesExt

CONSTANT Policies   \* the kernel policies that ExecuteBlockWithKernelPolicy is called with

\* KernelPolicy.Normalize, for the policies this module covers.
Normalized(p) ==
  /\ p.estimateRead \in {"suspend_in_place", "abort_and_reschedule"}
  /\ p.idleWait \in {"gosched", "park"}
  /\ p.gate \in {"index_order", "predecessors", "barriers"}

\* KernelPolicy.validateGate: every edge points from a lower to a higher index.
ValidGate(p) ==
  /\ \A t \in Txns : p.predecessors[t] \subseteq 0 .. t - 1
  /\ \A t \in Txns : p.barriers[t] \in Int /\ p.barriers[t] < t

ASSUME PolicyAssumption == \A p \in Policies : Normalized(p) /\ ValidGate(p)

VARIABLES
  policy,      \* the policy of this block
  ready,       \* transactions to dispatch again; the last one goes first
  deferred,    \* transactions held back by the gate, in the order they were
  completed,   \* transactions that have finished an execution
  indegree,    \* per transaction: predecessors still to complete
  frontier,    \* length of the prefix of completed transactions
  abortDeps,   \* blocking transaction -> transactions that it aborted
  stage,       \* per worker: its place in the wrapping code
  own          \* per worker: the transaction completeExecution is due for

gateVars == <<completed, indegree, frontier>>
queues == <<ready, deferred, gateVars, abortDeps>>
polVars == <<policy, queues, stage, own>>

EstimateRead == policy.estimateRead
IdleWait == policy.idleWait
Gate == policy.gate                  \* "index_order", or the input of ready_queue dispatch
Predecessors == policy.predecessors  \* transaction -> lower ones, for "predecessors"
Barriers == policy.barriers          \* transaction -> a lower one or -1, for "barriers"

PolInit ==
  /\ Init
  /\ policy \in Policies
  /\ ready = <<>>
  /\ deferred = <<>>
  /\ completed = {}
  /\ indegree = [t \in Txns |-> Cardinality(Predecessors[t])]
  /\ frontier = 0
  /\ abortDeps = [t \in Txns |-> <<>>]
  /\ stage = [w \in Workers |-> "none"]
  /\ own = [w \in Workers |-> 0]

At(w, s) == stage' = [stage EXCEPT ![w] = s]

\* Mutant: makes a new channel without closing the old one.
WakeNobody(w, s) == At(w, s)

\* notifyLocked: the workers that sleep on the wake channel, with w going on at s.
Wake(w, s) ==
  stage' = [u \in Workers |-> IF u = w THEN s
                              ELSE IF stage[u] = "parked" THEN "woken" ELSE stage[u]]

----------------------------------------------------------------------------
(* The dispatch gate.                                                      *)

GateReady(t) ==
  CASE Gate = "index_order" -> TRUE
    [] Gate = "predecessors" -> indegree[t] = 0
    [] Gate = "barriers" -> Barriers[t] < frontier

\* Mutant: the highest completed transaction, whatever is missing below it.
AdvanceToHighest(done) == Max(done) + 1

\* The frontier loop of completeExecution.
Advance(done) == Min({i \in 0 .. BlockSize : i \notin done})

\* The members of S in the order of the pairs in before, which order S totally.
Line(S, before) ==
  [n \in 1 .. Cardinality(S) |->
     CHOOSE u \in S : Cardinality({v \in S : <<v, u>> \in before}) = n - 1]

\* By index, in the order of deferral, and barrier after barrier in that order.
ByIndex == {p \in Txns \X Txns : p[1] < p[2]}
ByDeferral ==
  {p \in Txns \X Txns : \E i, j \in DOMAIN deferred :
                          i < j /\ deferred[i] = p[1] /\ deferred[j] = p[2]}
ByBarrier ==
  {p \in Txns \X Txns : \/ Barriers[p[1]] < Barriers[p[2]]
                        \/ Barriers[p[1]] = Barriers[p[2]] /\ p \in ByDeferral}

\* completeExecution opens the gate for what the first completion of t leaves
\* without an obstacle, successors by index, or barrier after barrier.
Release(t) ==
  CASE Gate = "index_order" \/ t \in completed ->
         UNCHANGED <<gateVars, deferred>> /\ ready' = ready \o abortDeps[t]
    [] Gate = "predecessors" /\ t \notin completed ->
         LET open == {u \in Range(deferred) : t \in Predecessors[u] /\ indegree[u] = 1}
         IN /\ completed' = completed \cup {t}
            /\ indegree' = [u \in Txns |-> IF t \in Predecessors[u] THEN indegree[u] - 1 ELSE indegree[u]]
            /\ ready' = ready \o abortDeps[t] \o Line(open, ByIndex)
            /\ deferred' = Line(Range(deferred) \ open, ByDeferral)
            /\ UNCHANGED frontier
    [] Gate = "barriers" /\ t \notin completed ->
         LET next == Advance(completed \cup {t})
             open == {u \in Range(deferred) : frontier <= Barriers[u] /\ Barriers[u] < next}
         IN /\ completed' = completed \cup {t}
            /\ frontier' = next
            /\ ready' = ready \o abortDeps[t] \o Line(open, ByBarrier)
            /\ deferred' = Line(Range(deferred) \ open, ByDeferral)
            /\ UNCHANGED indegree

----------------------------------------------------------------------------
(* nextTask: the re-dispatch queue first,                                  *)
PopReady(w) ==
  /\ kind[w] = "none" /\ ~ done_marker /\ ~ cancelled
  /\ stage[w] = "none"
  /\ ready # <<>>
  /\ Goto(w, "loop", "incarnate")
  /\ Observe(w, Last(ready))
  /\ ready' = Front(ready)
  /\ UNCHANGED <<sharedVars, waitVars, taskVars, memory, views, outcome,
                 deferred, gateVars, abortDeps, stage, own>>

(* then scanWork, which leaves an exhausted validation scan aside.         *)
ScanWork(w) ==
  /\ Goto(w, "loadE", IF obs[w] < execution_idx /\ obs[w] < BlockSize THEN "nvCheck" ELSE "neCheck")
  /\ Observe(w, 0)
  /\ UNCHANGED <<sharedVars, waitVars, taskVars, memory, views, outcome, queues, stage, own>>

\* Mutant: gives the reservation back.
DeferUnreserved(w) ==
  /\ stage[w] = "gate"
  /\ ~ GateReady(obs[w])
  /\ Goto(w, "incarnate", "loop")
  /\ deferred' = Append(deferred, obs[w])
  /\ num_active_tasks' = num_active_tasks - 1
  /\ Observe(w, 0)
  /\ At(w, "idle")
  /\ UNCHANGED <<counters, done_marker, statusVars, cancelled, waitVars, taskVars, memory,
                 views, outcome, ready, gateVars, abortDeps, own>>

(* deferLocked: the transaction keeps its reservation.                     *)
Defer(w) ==
  /\ stage[w] = "gate"
  /\ ~ GateReady(obs[w])
  /\ Goto(w, "incarnate", "loop")
  /\ deferred' = Append(deferred, obs[w])
  /\ Observe(w, 0)
  /\ At(w, "idle")
  /\ UNCHANGED <<sharedVars, waitVars, taskVars, memory, views, outcome,
                 ready, gateVars, abortDeps, own>>

----------------------------------------------------------------------------
\* Mutant: the first completion releases nobody that was aborted.
CompleteKeepsAborted(w) ==
  /\ pc[w] = "loop" /\ stage[w] = "finishing"
  /\ IF own[w] \in completed
       THEN Release(own[w]) /\ abortDeps' = [abortDeps EXCEPT ![own[w]] = <<>>]
       ELSE completed' = completed \cup {own[w]} /\ UNCHANGED <<ready, deferred, indegree, frontier, abortDeps>>
  /\ Wake(w, "none")
  /\ own' = [own EXCEPT ![w] = 0]
  /\ UNCHANGED vars

(* completeExecution, after the frozen FinishExecution.                    *)
CompleteExecution(w) ==
  /\ pc[w] = "loop" /\ stage[w] = "finishing"
  /\ Release(own[w])
  /\ abortDeps' = [abortDeps EXCEPT ![own[w]] = <<>>]
  /\ Wake(w, "none")
  /\ own' = [own EXCEPT ![w] = 0]
  /\ UNCHANGED vars

(* finishValidation, after the frozen FinishValidation.                    *)
NotifyValidated(w) ==
  /\ pc[w] = "loop" /\ stage[w] = "validating"
  /\ Wake(w, "none")
  /\ UNCHANGED <<vars, queues, own>>

(* checkDone, after the frozen CheckDone.                                  *)
NotifyDone(w) ==
  /\ pc[w] = "loop" /\ stage[w] = "checked"
  /\ IF done_marker THEN Wake(w, "idle") ELSE At(w, "idle")
  /\ UNCHANGED <<vars, queues, own>>

----------------------------------------------------------------------------
(* onEstimateRead under abort_and_reschedule: the attempt goes on if the   *)
(* blocking transaction has finished, otherwise it unwinds,                *)
UnwindOrRetry(w) ==
  /\ EstimateRead = "abort_and_reschedule"
  /\ pc[w] = "depend" /\ stage[w] = "none"
  /\ IF status[blk[w]] = "Executed"
       THEN /\ Goto(w, "depend", "exec")
            /\ blk' = [blk EXCEPT ![w] = 0]
            /\ UNCHANGED <<sharedVars, cond, dependents, notified, deps, taskVars, obs, stage>>
       ELSE At(w, "unwinding") /\ UNCHANGED schedVars
  /\ UNCHANGED <<memory, views, outcome, queues, own>>

\* Mutant: forgets to return after the blocking transaction turned out to be resolved.
RegisterTwice(w) ==
  /\ stage[w] = "unwinding"
  /\ LET t == txn[w]
         resolved == status[blk[w]] = "Executed"
     IN /\ status' = [status EXCEPT ![t] = "Ready"]
        /\ incarnation' = [incarnation EXCEPT ![t] = @ + 1]
        /\ IF resolved
             THEN /\ ready' = Append(ready, t) /\ Wake(w, "none")
                  /\ abortDeps' = [abortDeps EXCEPT ![blk[w]] = Append(@, t)]
             ELSE /\ abortDeps' = [abortDeps EXCEPT ![blk[w]] = Append(@, t)]
                  /\ At(w, "none")
                  /\ UNCHANGED ready
  /\ Goto(w, "depend", "loop")
  /\ SetTask(w, "none", 0, 0)
  /\ blk' = [blk EXCEPT ![w] = 0]
  /\ reads' = [reads EXCEPT ![w] = <<>>]
  /\ UNCHANGED <<counters, num_active_tasks, done_marker, cancelled, cond, dependents,
                 notified, deps, obs, wroteNew, memory, applied, unchecked, checking,
                 outcome, deferred, gateVars, own>>

\* Mutant: does not look at the blocking transaction again.
RegisterBlindly(w) ==
  /\ stage[w] = "unwinding"
  /\ LET t == txn[w]
         resolved == FALSE
     IN /\ status' = [status EXCEPT ![t] = "Ready"]
        /\ incarnation' = [incarnation EXCEPT ![t] = @ + 1]
        /\ IF resolved
             THEN ready' = Append(ready, t) /\ Wake(w, "none") /\ UNCHANGED abortDeps
             ELSE /\ abortDeps' = [abortDeps EXCEPT ![blk[w]] = Append(@, t)]
                  /\ At(w, "none")
                  /\ UNCHANGED ready
  /\ Goto(w, "depend", "loop")
  /\ SetTask(w, "none", 0, 0)
  /\ blk' = [blk EXCEPT ![w] = 0]
  /\ reads' = [reads EXCEPT ![w] = <<>>]
  /\ UNCHANGED <<counters, num_active_tasks, done_marker, cancelled, cond, dependents,
                 notified, deps, obs, wroteNew, memory, applied, unchecked, checking,
                 outcome, deferred, gateVars, own>>

(* and registerAbort makes the transaction ready and looks again.          *)
RegisterAbort(w) ==
  /\ stage[w] = "unwinding"
  /\ LET t == txn[w]
         resolved == status[blk[w]] = "Executed"
     IN /\ status' = [status EXCEPT ![t] = "Ready"]
        /\ incarnation' = [incarnation EXCEPT ![t] = @ + 1]
        /\ IF resolved
             THEN ready' = Append(ready, t) /\ Wake(w, "none") /\ UNCHANGED abortDeps
             ELSE /\ abortDeps' = [abortDeps EXCEPT ![blk[w]] = Append(@, t)]
                  /\ At(w, "none")
                  /\ UNCHANGED ready
  /\ Goto(w, "depend", "loop")
  /\ SetTask(w, "none", 0, 0)
  /\ blk' = [blk EXCEPT ![w] = 0]
  /\ reads' = [reads EXCEPT ![w] = <<>>]
  /\ UNCHANGED <<counters, num_active_tasks, done_marker, cancelled, cond, dependents,
                 notified, deps, obs, wroteNew, memory, applied, unchecked, checking,
                 outcome, deferred, gateVars, own>>

----------------------------------------------------------------------------
(* idleWait: under the lock the worker looks for work once more, then it   *)
(* sleeps until the channel is closed, the context ends or the timer fires *)
Scannable == (validation_idx < execution_idx /\ validation_idx < BlockSize) \/ execution_idx < BlockSize

IdleCheck(w) ==
  /\ pc[w] = "loop" /\ stage[w] = "idle"
  /\ At(w, IF IdleWait = "gosched" \/ done_marker \/ Scannable \/ ready # <<>>
             THEN "none" ELSE "parked")
  /\ UNCHANGED <<vars, queues, own>>

ParkEnds(w) ==
  /\ stage[w] \in {"parked", "woken"}
  /\ At(w, "none")
  /\ UNCHANGED <<vars, queues, own>>

----------------------------------------------------------------------------
(* The steps of the frozen scheduler and of the multi-version memory.      *)
Base(w) ==
  /\ ControlStep(w)
  /\ pc[w] # "loadE"
  /\ pc[w] = "loop" =>
       stage[w] = "none" /\ (kind[w] = "none" /\ ~ done_marker /\ ~ cancelled => ready = <<>>)
  /\ pc[w] = "depend" => EstimateRead = "suspend_in_place"
  /\ stage[w] = "gate" => GateReady(obs[w])
  /\ At(w, CASE pc[w] = "neAdd" /\ execution_idx < BlockSize -> "gate"
             [] pc[w] = "incarnate" /\ stage[w] = "gate" -> "none"
             [] pc[w] = "setExecuted" -> "finishing"
             [] pc[w] = "decr" /\ kind[w] = "none" /\ stage[w] = "none" -> "idle"
             [] pc[w] \in {"cdExec", "cdVal", "cdActive", "cdRecount", "cdStore"} /\ pc'[w] = "loop" -> "checked"
             [] OTHER -> stage[w])
  /\ own' = IF pc[w] = "setExecuted" THEN [own EXCEPT ![w] = txn[w]] ELSE own
  /\ UNCHANGED queues

Data(w) ==
  /\ DataStep(w)
  /\ At(w, IF pc[w] = "validate" /\ pc'[w] # "validate" THEN "validating" ELSE stage[w])
  /\ UNCHANGED <<queues, own>>

PolControl(w) ==
  \/ Base(w)
  \/ PopReady(w) \/ ScanWork(w) \/ Defer(w)
  \/ CompleteExecution(w) \/ NotifyValidated(w) \/ NotifyDone(w)
  \/ UnwindOrRetry(w)
  \/ IdleCheck(w) \/ ParkEnds(w)

PolStep(w) == (PolControl(w) \/ Data(w) \/ RegisterAbort(w)) /\ UNCHANGED policy

PolReturn == Return /\ UNCHANGED polVars
PolCancel == CancelBlock /\ UNCHANGED polVars
PolFinished == Finished /\ UNCHANGED polVars

PolNext == PolReturn \/ PolCancel \/ PolFinished \/ \E w \in Workers : PolStep(w)

(* Every goroutine that can go on is scheduled eventually; the timer of    *)
(* idleWait makes sure that a sleeping one can.                            *)
PolFairness ==
  WF_<<vars, polVars>>(PolReturn) /\ \A w \in Workers : WF_<<vars, polVars>>(PolStep(w))

PolSpec == PolInit /\ [][PolNext]_<<vars, polVars>> /\ PolFairness
----------------------------------------------------------------------------
(* Properties                                                              *)

\* The queues of transactions that no worker has and that keep their reservation:
\* one per blocking transaction, ready and deferred; the places in them.
Queue(q) == CASE q \in Txns -> abortDeps[q] [] q = BlockSize -> ready [] q = BlockSize + 1 -> deferred
Places == UNION {{q} \X DOMAIN Queue(q) : q \in 0 .. BlockSize + 1}

(* num_active_tasks counts the tasks of the workers and the transactions   *)
(* that were deferred or aborted, which is what deferLocked relies on to   *)
(* keep the frozen CheckDone from declaring the block finished.            *)
ReservationsKept == num_active_tasks = Cardinality(Holders) + Cardinality(Places)

(* A transaction that execution_idx has passed and that is not EXECUTED is *)
(* in exactly one place: with one worker, or once in one of the queues.    *)
(* So nothing that was deferred, aborted by an estimate or aborted by a    *)
(* validation is dispatched twice or forgotten, and the branch of nextTask *)
(* for a transaction "another path already took" is never entered.         *)
OnePlace ==
  \A t \in Txns : t < execution_idx =>
    Cardinality({w \in Workers : Owner(w, t)}) + Cardinality({p \in Places : Queue(p[1])[p[2]] = t})
      = IF status[t] = "Executed" THEN 0 ELSE 1

\* What transaction t has to wait for.
Obstacles(t) ==
  CASE Gate = "index_order" -> {}
    [] Gate = "predecessors" -> Predecessors[t]
    [] Gate = "barriers" -> 0 .. Barriers[t]

(* The counters of the gate are exact however often a predecessor runs     *)
(* again: a transaction is deferred only while something it waits for has  *)
(* never completed, and has started only if everything has.                *)
GateExact ==
  \A t \in Txns :
    /\ t \in Range(deferred) => ~ (Obstacles(t) \subseteq completed)
    /\ status[t] # "Ready" => Obstacles(t) \subseteq completed

\* Worker w is still to call completeExecution for t.
CompletionToCome(t) == \E w \in Workers : stage[w] = "finishing" /\ own[w] = t

(* registerAbort racing the blocking transaction's finishExecution: a      *)
(* transaction stays with its blocker only while a completion of the       *)
(* blocker, which releases it, is still to come.                           *)
AbortsReleased ==
  \A b \in Txns : abortDeps[b] # <<>> /\ status[b] = "Executed" => CompletionToCome(b)

(* idleWait loses no wake-up: while a worker sleeps and has not been woken *)
(* the queue is empty, and what the index scan could hand out, or the end  *)
(* of the block, is about to be announced on the wake channel.             *)
SleeperMissesNothing ==
  \A w \in Workers : stage[w] = "parked" =>
    /\ ready = <<>>
    /\ Scannable => \E u \in Workers : stage[u] \in {"finishing", "validating"}
    /\ done_marker => \E u \in Workers : stage[u] = "checked"

(* "The gate only ever delays a dispatch" (src/execpolicysched.go): as in  *)
(* the frozen kernel the workers never all wait in Condvar.Wait.           *)
SomeoneRuns == \E w \in Workers : pc[w] # "wait" \/ notified[w]
=============================================================================
