----------------------------- MODULE BlockSTMInv -----------------------------
(***************************************************************************)
(* The inductive invariant of the multi-version memory: what the entries   *)
(* of every transaction are at every step of the worker that owns it.      *)
(***************************************************************************)
EXTENDS BlockSTM, SchedulerInv

\* The shape of the memory and of the workers' views of it.
MemoryShape ==
  /\ DOMAIN data = Keys
  /\ \A k \in Keys : DOMAIN data[k] \subseteq Txns
  /\ data = [k \in Keys |-> data[k]]
  /\ lastWritten \in [Txns -> SUBSET Keys]
  /\ applied \in [Workers -> SUBSET Keys]
  /\ reads = [w \in Workers |-> reads[w]]

\* The entries of t at k are those of its current incarnation's writes ...
AsWritten(t, k) ==
  /\ t \in DOMAIN data[k] <=> k \in lastWritten[t]
  /\ t \in DOMAIN data[k] => data[k][t].incarnation = incarnation[t] /\ ~ data[k][t].estimate

\* ... or the marks that stand for the last ones.
AsEstimated(t, k) ==
  /\ t \in DOMAIN data[k] <=> k \in lastWritten[t]
  /\ t \in DOMAIN data[k] => data[k][t].estimate

\* Record has dealt with k: it holds the new version, or nothing.
AsRecorded(w, k) ==
  IF k \in DOMAIN Written(w)
    THEN /\ txn[w] \in DOMAIN data[k]
         /\ data[k][txn[w]].incarnation = incarnation[txn[w]]
         /\ ~ data[k][txn[w]].estimate
    ELSE txn[w] \notin DOMAIN data[k]

Executes(w) ==
  kind[w] = "execution" /\ pc[w] \in {"loop", "exec", "depend", "suspend", "wait", "setExecuted"}

WorkerEntries(w) ==
  /\ applied[w] # {} => Returned(w) \/ pc[w] = "convert"
  /\ Executes(w) => inc[w] = incarnation[txn[w]]
  /\ Executes(w) /\ pc[w] # "setExecuted" =>
       \A k \in Keys : IF k \in applied[w] THEN AsRecorded(w, k) ELSE AsEstimated(txn[w], k)
  /\ pc[w] = "setExecuted" => \A k \in Keys : AsWritten(txn[w], k)
  /\ pc[w] = "convert" =>
       \A k \in Keys : IF k \in applied[w] THEN AsEstimated(txn[w], k) ELSE AsWritten(txn[w], k)
  /\ pc[w] = "setReady" => \A k \in Keys : AsEstimated(txn[w], k)

StatusEntries ==
  \A t \in Txns, k \in Keys :
    /\ status[t] = "Executed" => AsWritten(t, k)
    /\ status[t] = "Ready" => AsEstimated(t, k)

(* The inductive invariant of the memory, on top of the scheduler's.       *)
MemInv == MemoryShape /\ StatusEntries /\ \A w \in Workers : WorkerEntries(w)

----------------------------------------------------------------------------
(* Validation: nobody has passed a transaction whose reads have changed.   *)

Records(s) == {s[i] : i \in DOMAIN s}
IsSequence(s) == s \in Seq(Records(s))

\* The shape of the read sets and of ValidateReadSet's view of them.
ReadShape ==
  /\ lastRead = [t \in Txns |-> lastRead[t]]
  /\ \A t \in Txns : \A d \in lastRead[t] : d.key \in Keys
  /\ unchecked = [w \in Workers |-> unchecked[w]]
  /\ checking \in [Workers -> BOOLEAN]
  /\ \A w \in Workers : IsSequence(reads[w])
  /\ \A w \in Workers : \A i \in DOMAIN reads[w] : reads[w][i].key \in Keys

\* A worker looks at descriptors in ValidateReadSet only, and deals in Record
\* with the locations of the new write set and of the last one only.
WorkerViews(w) ==
  /\ checking[w] => pc[w] = "validate"
  /\ Returned(w) => applied[w] \subseteq DOMAIN Written(w) \cup lastWritten[txn[w]]

\* As WillLower, of a worker that has executed the current incarnation of t: one
\* that is late with an older incarnation need not lower anything.
LowersFor(w, t) ==
  \/ kind[w] = "execution" /\ txn[w] = t /\ inc[w] = incarnation[t]
       /\ pc[w] \in {"swap", "resume", "storeMin"}
  \/ kind[w] = "execution" /\ txn[w] < t /\ wroteNew[w]
       /\ pc[w] \in {"setExecuted", "swap", "resume", "storeMin"}
  \/ kind[w] = "execution" /\ txn[w] < t /\ pc[w] = "exec"
       /\ ~ (applied[w] \subseteq lastWritten[txn[w]])
  \/ kind[w] = "validation" /\ txn[w] < t /\ pc[w] \in {"convert", "setReady", "storeMin"}

Covered(t, d) ==
  \/ validation_idx <= t
  \/ \E w \in Workers : WillCheck(w, t, d) \/ LowersFor(w, t)

StaleCovered ==
  \A t \in Txns : \A d \in lastRead[t] :
    status[t] = "Executed" /\ ~ ReadStillCurrent(t, d) => Covered(t, d)

(* The inductive invariant of validation, on top of the other two.         *)
ValidationInv == ReadShape /\ StaleCovered /\ \A w \in Workers : WorkerViews(w)
----------------------------------------------------------------------------
(* Replay: what a transaction has read and written, as a run of its        *)
(* program on values that the memory still holds or has moved on from.     *)

\* The current incarnation of u has written k, if it writes it at all.
Settled(u, k) ==
  \/ status[u] \in {"Executed", "Aborting"}
  \/ \E w \in Workers : Executes(w) /\ txn[w] = u /\ (k \in applied[w] \/ pc[w] = "setExecuted")

\* Transaction u has an entry of that incarnation at k, not an ESTIMATE.
HasVersion(u, k, i) ==
  u \in DOMAIN data[k] /\ ~ data[k][u].estimate /\ data[k][u].incarnation = i

\* A version names one value for ever: the storage's, or that of the one write
\* an incarnation makes to a key.
Faithful(r) ==
  IF r.version = InvalidVersion THEN r.value = InitStorage[r.key]
  ELSE LET u == r.version.index
           i == r.version.incarnation
       IN /\ u \in Txns /\ i \in Nat /\ i <= incarnation[u]
          /\ i = incarnation[u] => Settled(u, r.key)
          /\ HasVersion(u, r.key, i) => data[r.key][u].value = r.value

\* The program of t asks for the keys of rs, one after the other.
InOrder(t, rs) ==
  \A i \in DOMAIN rs : NextRead(t, [j \in 1 .. i - 1 |-> rs[j].value]) = rs[i].key

ValuesOf(rs) == [i \in DOMAIN rs |-> rs[i].value]

WorkerRun(w) ==
  /\ reads[w] # << >> => pc[w] \in {"exec", "depend", "suspend", "wait"}
  /\ InOrder(txn[w], reads[w])
  /\ \A r \in Records(reads[w]) : Faithful(r)
  /\ Returned(w) => \A k \in applied[w] \cap DOMAIN Written(w) :
                       data[k][txn[w]].value = Written(w)[k]
  /\ pc[w] = "stopped" => done_marker \/ cancelled

\* The read set, the locations and the entries of t are those of the run rs.
RunOf(t, rs) ==
  /\ IsSequence(rs) /\ InOrder(t, rs) /\ NextRead(t, ValuesOf(rs)) = NoKey
  /\ \A r \in Records(rs) : r.key \in Keys /\ Faithful(r)
  /\ lastRead[t] = {[key |-> rs[i].key, version |-> rs[i].version] : i \in DOMAIN rs}
  /\ lastWritten[t] = DOMAIN WriteSet(t, ValuesOf(rs))
  /\ \A k \in lastWritten[t] : data[k][t].value = WriteSet(t, ValuesOf(rs))[k]

HasRun(t) ==
  \/ status[t] = "Executed"
  \/ \E w \in Workers : pc[w] = "setExecuted" /\ txn[w] = t

(* The inductive invariant of the results, on top of the other three.      *)
ReplayInv ==
  /\ result = "running" => storage = InitStorage
  /\ result # "running" => AllStopped
  /\ \A w \in Workers : WorkerRun(w)
  /\ \A t \in Txns : HasRun(t) => \E rs : RunOf(t, rs)
=============================================================================
