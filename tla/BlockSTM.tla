------------------------------ MODULE BlockSTM ------------------------------
(***************************************************************************)
(* Block execution by the frozen kernel: ExecuteBlockWithEstimates         *)
(* (src/stm.go) runs the workers of module Scheduler over the              *)
(* multi-version memory (src/mvmemory.go, src/mvview.go, src/mvdata.go)    *)
(* and writes the snapshot when they are done.                             *)
(*                                                                         *)
(* Inside the scheduler's steps "exec", "validate" and "convert" a worker  *)
(* takes one step per access to the multi-version data.  A transaction's   *)
(* keys may lie in different stores, which the code visits in map order:   *)
(* so keys are written, deleted, marked and validated in any order.        *)
(*                                                                         *)
(* A transaction is the deterministic program of module SerialBlock; reads *)
(* of its own writes are answered by its write set alone and do not show.  *)
(* It reads point keys; range iteration is a matter of another module.     *)
(***************************************************************************)
EXTENDS Scheduler, MVData, Sequences

CONSTANTS Keys, InitStorage, NoKey, NextRead(_, _), WriteSet(_, _),
          Estimates   \* transaction -> keys marked before the block starts

ASSUME EstimatesAssumption == Estimates \in [Txns -> SUBSET Keys]
ASSUME NoKeyAssumption == NoKey \notin Keys
ASSUME StorageAssumption == InitStorage = [k \in Keys |-> InitStorage[k]]
ASSUME SomeWorkerAssumption == Workers # {}   \* maxParallelism() unless given

VARIABLES
  data,         \* MVMemory.data: key -> versions
  lastWritten,  \* lastWrittenLocations: transaction -> keys
  lastRead,     \* lastReadSet: transaction -> read descriptors
  reads,        \* per worker: values and versions its transaction read so far
  applied,      \* per worker: keys that Record or ConvertWrites... dealt with
  unchecked,    \* per worker: descriptors ValidateReadSet has still to check
  checking,     \* per worker: ValidateReadSet has loaded lastReadSet
  storage, result

memory == <<data, lastWritten, lastRead>>
views == <<reads, applied, unchecked, checking>>
outcome == <<storage, result>>
vars == <<schedVars, memory, views, outcome>>

----------------------------------------------------------------------------
(* NewMVMemoryWithEstimates: the estimated locations count as written and  *)
(* are marked.                                                             *)
Init ==
  /\ SchedInit
  /\ data = [k \in Keys |-> [t \in {u \in Txns : k \in Estimates[u]} |-> Entry(0, Nil, TRUE)]]
  /\ lastWritten = Estimates
  /\ lastRead = [t \in Txns |-> {}]
  /\ reads = [w \in Workers |-> <<>>]
  /\ applied = [w \in Workers |-> {}]
  /\ unchecked = [w \in Workers |-> {}]
  /\ checking = [w \in Workers |-> FALSE]
  /\ storage = InitStorage
  /\ result = "running"

----------------------------------------------------------------------------
(* The transaction callback on its view.                                   *)

Values(w) == [i \in DOMAIN reads[w] |-> reads[w][i].value]
WantedKey(w) == NextRead(txn[w], Values(w))

(* GMVMemoryView.Get: an ESTIMATE makes it wait and read again, otherwise  *)
(* the version goes to the read set; no version means the storage's value. *)
Get(w) ==
  /\ pc[w] = "exec"
  /\ WantedKey(w) \in Keys
  /\ LET k == WantedKey(w)
         r == Read(data[k], txn[w])
         value == IF r.version = InvalidVersion THEN storage[k] ELSE r.value
     IN IF r.estimate
          THEN MeetEstimate(w, r.version.index) /\ UNCHANGED reads
          ELSE /\ reads' = [reads EXCEPT ![w] =
                     Append(@, [key |-> k, version |-> r.version, value |-> value])]
               /\ UNCHANGED schedVars
  /\ UNCHANGED <<memory, applied, unchecked, checking, outcome>>

\* The transaction has returned; its write set is complete.
Returned(w) == pc[w] = "exec" /\ WantedKey(w) = NoKey
Written(w) == WriteSet(txn[w], Values(w))

(* Record, on a write set ws: ApplyWriteSet writes every key of it,         *)
WriteKey(w, ws, k) ==
  /\ k \in DOMAIN ws \ applied[w]
  /\ data' = [data EXCEPT ![k] = Write(@, ws[k], txn[w], inc[w])]
  /\ applied' = [applied EXCEPT ![w] = @ \cup {k}]
  /\ UNCHANGED <<schedVars, lastWritten, lastRead, reads, unchecked, checking, outcome>>

\* Mutant: leaves the previous incarnation's entry in place.
KeepKey(w, ws, k) ==
  /\ DOMAIN ws \subseteq applied[w]
  /\ k \in lastWritten[txn[w]] \ applied[w]
  /\ applied' = [applied EXCEPT ![w] = @ \cup {k}]
  /\ UNCHANGED <<schedVars, memory, reads, unchecked, checking, outcome>>

(* rcuUpdateWrittenLocations then removes what only the previous           *)
(* incarnation, or the estimate, had written,                              *)
RemoveKey(w, ws, k) ==
  /\ DOMAIN ws \subseteq applied[w]
  /\ k \in lastWritten[txn[w]] \ applied[w]
  /\ data' = [data EXCEPT ![k] = DeleteEntry(@, txn[w])]
  /\ applied' = [applied EXCEPT ![w] = @ \cup {k}]
  /\ UNCHANGED <<schedVars, lastWritten, lastRead, reads, unchecked, checking, outcome>>

\* Mutant: only asks whether the number of locations grew.
PublishCounts(w, ws) ==
  /\ DOMAIN ws \cup lastWritten[txn[w]] \subseteq applied[w]
  /\ lastWritten' = [lastWritten EXCEPT ![txn[w]] = DOMAIN ws]
  /\ lastRead' = [lastRead EXCEPT ![txn[w]] =
       {[key |-> reads[w][i].key, version |-> reads[w][i].version] : i \in DOMAIN reads[w]}]
  /\ Recorded(w, Cardinality(DOMAIN ws) > Cardinality(lastWritten[txn[w]]))
  /\ reads' = [reads EXCEPT ![w] = <<>>]
  /\ applied' = [applied EXCEPT ![w] = {}]
  /\ UNCHANGED <<data, unchecked, checking, outcome>>

(* and the new locations and the read set are published.                   *)
Publish(w, ws) ==
  /\ DOMAIN ws \cup lastWritten[txn[w]] \subseteq applied[w]
  /\ lastWritten' = [lastWritten EXCEPT ![txn[w]] = DOMAIN ws]
  /\ lastRead' = [lastRead EXCEPT ![txn[w]] =
       {[key |-> reads[w][i].key, version |-> reads[w][i].version] : i \in DOMAIN reads[w]}]
  /\ Recorded(w, ~ (DOMAIN ws \subseteq lastWritten[txn[w]]))
  /\ reads' = [reads EXCEPT ![w] = <<>>]
  /\ applied' = [applied EXCEPT ![w] = {}]
  /\ UNCHANGED <<data, unchecked, checking, outcome>>

\* After the transaction has returned with its write set.
ApplyWriteSet(w, k) == Returned(w) /\ WriteKey(w, Written(w), k)
RemoveUnwritten(w, k) == Returned(w) /\ RemoveKey(w, Written(w), k)
Record(w) == Returned(w) /\ Publish(w, Written(w))

----------------------------------------------------------------------------
(* MVMemory.ValidateReadSet: load the read set, then look at one           *)
(* descriptor after the other; the first that changed decides.             *)
LoadReadSet(w) ==
  /\ pc[w] = "validate"
  /\ ~ checking[w]
  /\ unchecked' = [unchecked EXCEPT ![w] = lastRead[txn[w]]]
  /\ checking' = [checking EXCEPT ![w] = TRUE]
  /\ UNCHANGED <<schedVars, memory, reads, applied, outcome>>

\* Mutant: aborts at once, without TryValidationAbort.
VerdictAborts(w, valid) ==
  /\ IF valid THEN Validated(w, TRUE)
     ELSE /\ Goto(w, "validate", "convert")
          /\ status' = [status EXCEPT ![txn[w]] = "Aborting"]
          /\ UNCHANGED <<counters, num_active_tasks, done_marker, incarnation, cancelled,
                         waitVars, taskVars, obs>>
  /\ unchecked' = [unchecked EXCEPT ![w] = {}]
  /\ checking' = [checking EXCEPT ![w] = FALSE]

Verdict(w, valid) ==
  /\ Validated(w, valid)
  /\ unchecked' = [unchecked EXCEPT ![w] = {}]
  /\ checking' = [checking EXCEPT ![w] = FALSE]

CheckRead(w, d) ==
  /\ pc[w] = "validate"
  /\ d \in unchecked[w]
  /\ IF StillReads(data[d.key], txn[w], d.version)
       THEN /\ unchecked' = [unchecked EXCEPT ![w] = @ \ {d}]
            /\ UNCHANGED <<schedVars, checking>>
       ELSE Verdict(w, FALSE)
  /\ UNCHANGED <<memory, reads, applied, outcome>>

ReadSetValid(w) ==
  /\ checking[w]
  /\ unchecked[w] = {}
  /\ Verdict(w, TRUE)
  /\ UNCHANGED <<memory, reads, applied, outcome>>

\* Mutant: removes the entry instead of marking it.
MarkDeletes(w, k) ==
  /\ pc[w] = "convert"
  /\ k \in lastWritten[txn[w]] \ applied[w]
  /\ data' = [data EXCEPT ![k] = DeleteEntry(@, txn[w])]
  /\ applied' = [applied EXCEPT ![w] = @ \cup {k}]
  /\ UNCHANGED <<schedVars, lastWritten, lastRead, reads, unchecked, checking, outcome>>

(* ConvertWritesToEstimates: mark the last written locations.              *)
MarkEstimate(w, k) ==
  /\ pc[w] = "convert"
  /\ k \in lastWritten[txn[w]] \ applied[w]
  /\ data' = [data EXCEPT ![k] = WriteEstimate(@, txn[w])]
  /\ applied' = [applied EXCEPT ![w] = @ \cup {k}]
  /\ UNCHANGED <<schedVars, lastWritten, lastRead, reads, unchecked, checking, outcome>>

AllMarked(w) ==
  /\ lastWritten[txn[w]] \subseteq applied[w]
  /\ Converted(w)
  /\ applied' = [applied EXCEPT ![w] = {}]
  /\ UNCHANGED <<memory, reads, unchecked, checking, outcome>>

----------------------------------------------------------------------------
(* ExecuteBlockWithEstimates after wg.Wait(): WriteSnapshot, or an error.  *)
Snapshot == [k \in Keys |-> SnapshotKey(data[k], storage[k])]

Return ==
  /\ AllStopped
  /\ result = "running"
  /\ IF done_marker
       THEN storage' = Snapshot /\ result' = "ok"
       ELSE /\ result' = IF cancelled THEN "cancelled" ELSE "incomplete"
            /\ UNCHANGED storage
  /\ UNCHANGED <<schedVars, memory, views>>

DataStep(w) ==
  \/ Get(w)
  \/ \E k \in Keys : ApplyWriteSet(w, k) \/ RemoveUnwritten(w, k) \/ MarkEstimate(w, k)
  \/ Record(w)
  \/ LoadReadSet(w) \/ (\E d \in unchecked[w] : CheckRead(w, d)) \/ ReadSetValid(w)
  \/ AllMarked(w)

ControlStep(w) == SchedulerStep(w) /\ UNCHANGED <<memory, views, outcome>>

WorkerStep(w) == ControlStep(w) \/ DataStep(w)

CancelBlock == Cancel /\ result = "running" /\ UNCHANGED <<memory, views, outcome>>

\* ExecuteBlock has returned.
Finished == result # "running" /\ UNCHANGED vars

Next == Return \/ CancelBlock \/ Finished \/ \E w \in Workers : WorkerStep(w)

(* Every goroutine that can go on is scheduled eventually, and so is the   *)
(* caller waiting in wg.Wait().  Nothing is assumed of the context.        *)
Fairness == WF_vars(Return) /\ \A w \in Workers : WF_vars(WorkerStep(w))

Spec == Init /\ [][Next]_vars /\ Fairness

----------------------------------------------------------------------------
(* Properties                                                              *)

(* An EXECUTED transaction's entries are those of its current incarnation: *)
(* one at every location it last wrote and nowhere else, none of them an   *)
(* ESTIMATE.  So a reader never waits for a transaction that is finished   *)
(* (Get would spin) and never reads what an older incarnation left behind. *)
EntriesMatchStatus ==
  \A t \in Txns, k \in Keys : status[t] = "Executed" =>
    /\ t \in DOMAIN data[k] <=> k \in lastWritten[t]
    /\ t \in DOMAIN data[k] => data[k][t].incarnation = incarnation[t] /\ ~ data[k][t].estimate

ReadStillCurrent(t, d) == StillReads(data[d.key], t, d.version)

\* Worker w has fetched t from validation_idx, or validates its current
\* incarnation, and cannot miss that descriptor d has changed.
WillCheck(w, t, d) ==
  \/ pc[w] = "nvStatus" /\ obs[w] = t
  \/ /\ kind[w] = "validation" /\ txn[w] = t /\ inc[w] = incarnation[t]
     /\ \/ pc[w] \in {"loop", "tryAbort"}
        \/ pc[w] = "validate" /\ (checking[w] => d \in unchecked[w])

\* Worker w is about to lower validation_idx to t or below.
WillLower(w, t) ==
  \/ kind[w] = "execution" /\ txn[w] = t /\ pc[w] \in {"swap", "resume", "storeMin"}
  \/ kind[w] = "execution" /\ txn[w] < t /\ wroteNew[w]
       /\ pc[w] \in {"setExecuted", "swap", "resume", "storeMin"}
  \/ kind[w] = "execution" /\ txn[w] < t /\ pc[w] = "exec"
       /\ ~ (applied[w] \subseteq lastWritten[txn[w]])
  \/ kind[w] = "validation" /\ txn[w] < t /\ pc[w] \in {"convert", "setReady", "storeMin"}

(* The commit rule: when an EXECUTED transaction has read something that   *)
(* is no longer what it would read, a validation that must notice it is    *)
(* still to come, because validation_idx has not passed it, a worker is    *)
(* validating it and has not looked at that read yet, or a worker is about *)
(* to lower validation_idx to it.                                          *)
NoMissedValidation ==
  \A t \in Txns : \A d \in lastRead[t] :
    status[t] = "Executed" /\ ~ ReadStillCurrent(t, d) =>
      \/ validation_idx <= t
      \/ \E w \in Workers : WillCheck(w, t, d) \/ WillLower(w, t)

\* The abstract block: the storage that Return writes and the result it returns.
Serial == INSTANCE SerialBlock WITH storage <- storage, result <- result

(* ExecuteBlock implements the serial block: it returns with the serial    *)
(* result in the storage, or with the context's error and an untouched     *)
(* storage, and never with "scheduler did not complete".                   *)
ImplementsSerial == Serial!Spec

(* Under weak fairness of every goroutine ExecuteBlock returns: no set of  *)
(* workers waits on each other for ever, no reader spins on an estimate,   *)
(* no transaction is aborted again and again, and a cancelled block stops  *)
(* too, though Condvar.Wait does not look at the context.  It gives up only *)
(* if it was cancelled.                                                    *)
Terminates == <>(result = "ok" \/ (result = "cancelled" /\ cancelled))
=============================================================================
