----------------------------- MODULE MVIterator -----------------------------
(***************************************************************************)
(* Range reads of a transaction (iterator in src/mvview.go): the merge     *)
(* (src/mergeiterator.go) of the storage, the multi-version memory         *)
(* (src/mviterator.go) and the transaction's own write set, the descriptor *)
(* that Close leaves in the read set, and its replay by validateIterator   *)
(* (src/mvdata.go).                                                        *)
(*                                                                         *)
(* The merge keeps three iterators; each is the set of keys it has still   *)
(* to deliver, and is at the first of them in the order of the iteration.  *)
(* The outer tree is iterated as it was when the iterator was opened, but  *)
(* the versions under a key are read when the iterator comes to it, and    *)
(* lower transactions write them meanwhile.  Every such read is a step.    *)
(***************************************************************************)
EXTENDS Integers, Sequences

CONSTANTS
  NKeys,        \* the range holds the keys 1 .. NKeys
  Entries0,     \* what the lower transactions may have left at the start
  MaxChanges    \* after these, lower transactions only finish what they have announced

Keys == 1 .. NKeys

\* What the memory answers for a key: the kind of the entry and its version, 0 for a key
\* that no lower transaction has ever written.
Entries == [kind : {"absent", "value", "deleted", "estimate"}, version : Nat]

ASSUME IteratorAssumption ==
  /\ NKeys \in Nat /\ MaxChanges \in Nat
  /\ Entries0 \subseteq Entries
  /\ \A e \in Entries0 : e.version = 0 => e.kind = "absent"

VARIABLES
  ascending,          \* IteratorOptions.Ascending
  storage,            \* the keys that the storage holds
  writeSet,           \* key -> "none", "set" or "deleted", by this transaction
  entry,              \* key -> what the transaction reads from the multi-version memory
  changes,            \* the changes that lower transactions have made
  phase,              \* closed, resolve, inner, outer, at or done
  prem, mrem, wrem,   \* the keys each iterator has still to deliver
  item,               \* the entry the multi-version iterator has cached
  reads,              \* MVIterator.reads
  observed,           \* what the caller has seen
  stop                \* IteratorDescriptor.Stop, 0 if the range was exhausted

data == <<ascending, storage, writeSet>>
memory == <<entry, changes>>
cursor == <<prem, mrem, wrem, item>>
iterVars == <<data, memory, phase, cursor, reads, observed, stop>>

\* BytesBeyond: a comes after b in the order of the iteration.
Beyond(a, b) == IF ascending THEN a > b ELSE a < b

\* Where an iterator over S is, and what it has left after a Next.
First(S) == CHOOSE k \in S : \A j \in S : ~ Beyond(k, j)
Rest(S) == S \ {First(S)}

\* The pairs of key and value in q are those of S, in the order of the iteration.
Lists(q, S) ==
  /\ {q[i] : i \in DOMAIN q} = S
  /\ \A i, j \in DOMAIN q : i < j => Beyond(q[j][1], q[i][1])

Absent == [kind |-> "absent", version |-> 0]

IterInit ==
  /\ ascending \in BOOLEAN
  /\ storage \in SUBSET Keys
  /\ writeSet \in [Keys -> {"none", "set", "deleted"}]
  /\ entry \in [Keys -> Entries0]
  /\ changes = 0
  /\ phase = "closed"
  /\ prem = {} /\ mrem = {} /\ wrem = {}
  /\ item = Absent
  /\ reads = <<>>
  /\ observed = <<>>
  /\ stop = 0

----------------------------------------------------------------------------
(* The lower transactions: a write or a deletion of the next incarnation,  *)
(* an ESTIMATE, or the removal of a location that is no longer written.    *)
Change(k) ==
  \/ \E kind \in {"value", "deleted"} : entry' = [entry EXCEPT ![k] = [kind |-> kind, version |-> @.version + 1]]
  \/ entry[k].kind \in {"value", "deleted"} /\ entry' = [entry EXCEPT ![k].kind = "estimate"]
  \/ entry[k].kind # "absent" /\ entry' = [entry EXCEPT ![k].kind = "absent"]

Lower(k) ==
  /\ phase # "closed"
  /\ entry[k].kind # "estimate" => changes < MaxChanges
  /\ Change(k)
  /\ changes' = changes + 1
  /\ UNCHANGED <<data, phase, cursor, reads, observed, stop>>

----------------------------------------------------------------------------
(* The iterators.                                                          *)

\* A key whose tree was created has an item in the outer tree for ever.
Known == {k \in Keys : entry[k].version > 0}

Open ==
  /\ phase = "closed"
  /\ mrem' = Known
  /\ prem' = storage
  /\ wrem' = {k \in Keys : writeSet[k] # "none"}
  /\ phase' = "resolve"
  /\ UNCHANGED <<data, memory, item, reads, observed, stop>>

\* Mutant: does not record a deleted entry that it steps over.
ResolveLiveOnly ==
  /\ phase = "resolve"
  /\ IF mrem = {}
       THEN phase' = "inner" /\ UNCHANGED <<mrem, item, reads>>
       ELSE LET e == entry[First(mrem)]
            IN /\ e.kind # "estimate"
               /\ IF e.kind = "absent"
                    THEN mrem' = Rest(mrem) /\ UNCHANGED <<phase, item, reads>>
                    ELSE /\ item' = e
                         /\ reads' = IF e.kind = "deleted" THEN reads
                                     ELSE Append(reads, <<First(mrem), e.version>>)
                         /\ phase' = "inner"
                         /\ UNCHANGED mrem
  /\ UNCHANGED <<data, memory, prem, wrem, observed, stop>>

(* resolveValue: the next key that has an entry below the transaction is   *)
(* cached and recorded; an ESTIMATE is waited for and read again.          *)
Resolve ==
  /\ phase = "resolve"
  /\ IF mrem = {}
       THEN phase' = "inner" /\ UNCHANGED <<mrem, item, reads>>
       ELSE LET e == entry[First(mrem)]
            IN /\ e.kind # "estimate"
               /\ IF e.kind = "absent"
                    THEN mrem' = Rest(mrem) /\ UNCHANGED <<phase, item, reads>>
                    ELSE /\ item' = e
                         /\ reads' = Append(reads, <<First(mrem), e.version>>)
                         /\ phase' = "inner"
                         /\ UNCHANGED mrem
  /\ UNCHANGED <<data, memory, prem, wrem, observed, stop>>

\* cache is at a key that parent does not deliver first.
Leads(cache, parent) == cache # {} /\ (parent # {} => ~ Beyond(First(cache), First(parent)))

\* cache and parent are at the same key.
Shadows(cache, parent) == cache # {} /\ parent # {} /\ First(cache) = First(parent)

\* The key a merge of parent and cache is at, if it is valid.
MergedKey(parent, cache) == IF Leads(cache, parent) THEN First(cache) ELSE First(parent)

(* Next of the inner merge, which advances the iterators that are at its   *)
(* key.                                                                    *)
AdvanceInner ==
  /\ prem' = IF Leads(mrem, prem) /\ ~ Shadows(mrem, prem) THEN prem ELSE Rest(prem)
  /\ IF Leads(mrem, prem)
       THEN mrem' = Rest(mrem) /\ phase' = "resolve"
       ELSE UNCHANGED mrem /\ phase' = "inner"

(* skipUntilExistsOrInvalid of the inner merge: the storage under the      *)
(* multi-version memory.                                                   *)
InnerSkips == Leads(mrem, prem) /\ item.kind = "deleted"

SkipInner ==
  /\ phase = "inner"
  /\ InnerSkips
  /\ AdvanceInner
  /\ UNCHANGED <<data, memory, wrem, item, reads, observed, stop>>

InnerDone ==
  /\ phase = "inner"
  /\ ~ InnerSkips
  /\ phase' = "outer"
  /\ UNCHANGED <<data, memory, cursor, reads, observed, stop>>

\* The key that the inner merge is at, if it is valid.
Inner == IF prem = {} /\ mrem = {} THEN {} ELSE {MergedKey(prem, mrem)}

(* skipUntilExistsOrInvalid of the outer merge: both under the write set.  *)
OuterSkips == Leads(wrem, Inner) /\ writeSet[First(wrem)] = "deleted"

SkipOuter ==
  /\ phase = "outer"
  /\ OuterSkips
  /\ wrem' = Rest(wrem)
  /\ IF Shadows(wrem, Inner) THEN AdvanceInner ELSE UNCHANGED <<prem, mrem, phase>>
  /\ UNCHANGED <<data, memory, item, reads, observed, stop>>

\* The key and the value the caller sees: its own write, a version, or the storage.
Current ==
  IF Leads(wrem, Inner) THEN <<First(wrem), "own">>
  ELSE IF Leads(mrem, prem) THEN <<First(mrem), item.version>>
  ELSE <<First(prem), 0>>

Valid == wrem # {} \/ Inner # {}

Arrive ==
  /\ phase = "outer"
  /\ ~ OuterSkips
  /\ phase' = "at"
  /\ observed' = IF Valid THEN Append(observed, Current) ELSE observed
  /\ UNCHANGED <<data, memory, cursor, reads, stop>>

(* The caller asks for the next key.                                       *)
Next ==
  /\ phase = "at" /\ Valid
  /\ wrem' = IF Leads(wrem, Inner) THEN Rest(wrem) ELSE wrem
  /\ IF Leads(wrem, Inner) /\ ~ Shadows(wrem, Inner)
       THEN phase' = "outer" /\ UNCHANGED <<prem, mrem>>
       ELSE AdvanceInner
  /\ UNCHANGED <<data, memory, item, reads, observed, stop>>

\* Mutant: keeps what the caller has not seen.
TrimNothing(at) == reads

\* The last read is dropped if it is beyond the key the iterator stopped at.
Trimmed(at) ==
  IF reads # <<>> /\ Beyond(reads[Len(reads)][1], at) THEN SubSeq(reads, 1, Len(reads) - 1) ELSE reads

(* Close, by a caller that has seen enough or everything.                  *)
Close ==
  /\ phase = "at"
  /\ phase' = "done"
  /\ IF Valid
       THEN stop' = Current[1] /\ reads' = Trimmed(Current[1])
       ELSE UNCHANGED <<stop, reads>>
  /\ UNCHANGED <<data, memory, cursor, observed>>

\* The transaction goes on.
Closed == phase = "done" /\ UNCHANGED iterVars

IterNext ==
  \/ Open \/ Resolve \/ SkipInner \/ InnerDone \/ SkipOuter \/ Arrive \/ Next \/ Close \/ Closed
  \/ \E k \in Keys : Lower(k)

IterSpec == IterInit /\ [][IterNext]_iterVars

----------------------------------------------------------------------------
(* validateIterator: the replay looks at the entries up to the first one   *)
(* beyond the stop key, fails on an ESTIMATE among those it comes to, and  *)
(* compares the others with the descriptor.                                *)
Present == {k \in Keys : entry[k].kind # "absent"}

Within(k) == stop = 0 \/ ~ Beyond(k, stop)

ReplayValid ==
  LET within == {k \in Present : Within(k)}
      ahead == IF Present = within THEN {} ELSE {First(Present \ within)}
  IN /\ \A k \in within \cup ahead : entry[k].kind # "estimate"
     /\ Lists(reads, {<<k, entry[k].version>> : k \in within})

----------------------------------------------------------------------------
(* Properties                                                              *)

\* What key k holds for the transaction, if the lower transactions are done.
Holds(k) ==
  CASE writeSet[k] = "set" -> {"own"}
    [] writeSet[k] = "deleted" -> {}
    [] writeSet[k] = "none" /\ entry[k].kind = "value" -> {entry[k].version}
    [] writeSet[k] = "none" /\ entry[k].kind # "value" ->
         IF entry[k].kind = "absent" /\ k \in storage THEN {0} ELSE {}

(* A range read that passes validation is serializable: the caller has     *)
(* seen exactly the live keys of the range up to where it stopped, with    *)
(* their values as the lower transactions now leave them, whatever they    *)
(* wrote, removed or re-wrote while the three iterators were on their way. *)
(* No insertion into the range is missed and no deleted key is delivered.  *)
ValidatedIsSerial ==
  phase = "done" /\ ReplayValid =>
    Lists(observed, UNION {{<<k, v>> : v \in Holds(k)} : k \in {k \in Keys : Within(k)}})

(* A range read during which nothing changed passes validation, if the     *)
(* transaction has no writes of its own in the range: onClose drops what   *)
(* the merge has read ahead.  Otherwise the transaction would be           *)
(* re-executed for ever.                                                   *)
QuietReadReplays ==
  phase = "done" /\ changes = 0 /\ (\A k \in Keys : writeSet[k] = "none")
    /\ (\A k \in Keys : entry[k].kind # "estimate") => ReplayValid

(* The same whatever the transaction wrote before: "the merge iterator may *)
(* have read one more key which is not observed by the caller, in that     *)
(* case we remove that read descriptor" (src/mvview.go).                   *)
UndisturbedReadReplays ==
  phase = "done" /\ changes = 0
    /\ (\A k \in Keys : entry[k].kind # "estimate") => ReplayValid
=============================================================================
