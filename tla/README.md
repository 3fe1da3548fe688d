# TLA+ verification of learned-blockchain-execution

The repository executes the transactions of a block in parallel and must produce
what executing them one after the other would produce. This directory holds TLA+
models of its execution kernels, the TLC configurations that check them on small
blocks, and TLAPS proofs that hold for every block size, every program and every
finite set of workers.

## 1. Inventory

| Component (source) | State | Operations | Talks to |
|---|---|---|---|
| Collaborative scheduler (`scheduler.go`, `status.go`, `condvar.go`, `utils.go`) | two indices, `decrease_cnt`, `num_active_tasks`, `done_marker`; per transaction a status, an incarnation, a Condvar and the list of dependents | `NextTask`, `NextVersionTo...`, `TryIncarnate`, `CheckDone`, `WaitForDependency`, `FinishExecution`, `TryValidationAbort`, `FinishValidation` | all workers, by atomics and small locks |
| Executor loop and block entry (`executor.go`, `stm.go`) | per goroutine the version and kind of its task | `Run`, `TryExecute`, `NeedsReexecution`, `ExecuteBlockWithEstimates` | scheduler, memory, the caller's context and storage |
| Multi-version memory (`mvdata.go`, `mvmemory.go`, `mvview.go`, `multimvview.go`, `btree.go`, `types.go`) | per key the versions written by transactions, or ESTIMATE marks; per transaction its last read set and written locations; per view a read set and a write set | `Get`, `Set`, `Delete`, iterators, `Record`, `ValidateReadSet`, `ConvertWritesToEstimates`, `WriteSnapshot` | scheduler (a reader of an ESTIMATE waits), storage |
| Range iterators (`mviterator.go`, `mergeiterator.go`, `btreeiterator.go`, `memdb.go`) | cursors, recorded reads | `Next`, `Key`, `Close`, replay in `validateIterator` | memory |
| Admission limiter (`speculation.go`) | `stable`, `passed`, `epoch`, `generation`, a mutex, a wake channel | `nextTask`, `finishExecution`, `finishValidation`, stall | wraps the scheduler |
| Policy kernel (`execpolicy.go`, `execpolicysched.go`, `execpolicyexec.go`, `execpolicyview.go`) | ready stack, gate (in-degrees or frontier), deferred flags, abort dependencies, idle parking, the limiter's window | `nextTask`, `finishExecution`, `finishValidation`, deferral, abort on estimate | wraps the scheduler and the views |
| Dependency graphs (`internal/engine/blockstm/dependency.go`, `internal/control/dependency.go`) | none | builders of predecessor lists, barriers and estimates from static access sets | engine, policy kernel |
| Engine adapter (`internal/engine/blockstm/engine.go`, `state_adapter.go`, `internal/engine/engine.go`) | result slots, cancellation on error, the published result | `Execute`, plan resolution | kernels, runtime, policy |
| Serial engine, runtime, state (`internal/engine/serial`, `internal/runtime/flat`, `internal/state`, `internal/model`) | overlay of writes, registers, gas | `Execute`, one instruction at a time | storage |
| Policy dispatcher (`internal/policy`, `internal/control`) | trace recorder, counters | decisions on events | engines |
| Workloads, experiments, telemetry, CLI (`internal/workload`, `internal/experiment`, `internal/telemetry`, `cmd/bench`, `scripts`) | files and processes | generation, configuration, statistics | engines |

What is hard in this code: the scheduler is lock-free, so correctness rests on
the order of single atomic accesses of different workers; a reader sleeps inside
a transaction on a Condvar that another worker signals; validation reads the
memory while it changes; an incarnation may write other keys than the one before;
the context may be cancelled at any time and is looked at in a few places only;
the limiter and the policy kernel add a mutex, a channel and queues around a
scheduler that does not know them. `PROJECT.json` lists the hazards line by line.

What makes the components correct:

- scheduler: no reservation is lost or counted twice, every claimed transaction
  has one owner, no sleeper is forgotten, `done_marker` is final;
- memory: a finished transaction's entries are its last incarnation's, a stale
  read is always validated again;
- block execution: the storage ends as after serial execution, or untouched, and
  the call returns;
- limiter: the window is kept, nobody stalls for ever, and none of the above is lost;
- policy kernel: a transaction without a worker is in exactly one queue and keeps
  its reservation, the gate opens exactly when its input says, a sleeping worker
  misses no work, and again the serial result and termination;
- worker pool: parking never costs capacity, and what runs beyond the target is on its
  way to hand itself back;
- range reads: what passes validation is what serial execution would have seen,
  and an undisturbed read passes;
- dependency plans: the kernel runs what the engine reports, the builders compute
  the relations they are named after, and a wait covers the reads;
- Block-STM engine: the state it publishes and the results it reports are those of
  the serial order, its gates let nobody in too early and forget nobody, and a
  failure is reported by its cause;
- serial engine and runtime: the oracle publishes the serial result or nothing,
  work is paid for, sums are exact, every program ends.

## 2. Modules

| Module | Models | Used by |
|---|---|---|
| `Scheduler` | scheduler and worker loop, one action per atomic access or critical section; what the memory answers is open | all others |
| `SchedulerInv` | the scheduler's inductive invariant `IndInv`, and `CoreInv`, the part of it that the kernels built around the scheduler keep | proofs, `MCScheduler` |
| `MVData` | the versions of one key, as operators | `BlockSTM` |
| `SerialSemantics` | what a block of deterministic programs computes when they run in order, as operators | `SerialBlock`, `SerialEngine` |
| `SerialBlock` | abstract specification: the serial result reaches the storage as a whole, or not at all | `BlockSTM`, `EngineBlock` (refinement) |
| `BlockSTM` | `Scheduler` with the memory, the views and the end of the block filled in | `Admission`, `MCBlockSTM` |
| `BlockSTMInv` | inductive invariants of the entries (`MemInv`), of validation (`ValidationInv`) and of the results (`ReplayInv`) | proofs |
| `BlockSTMProofs` | theorems about `Scheduler`, and about `BlockSTM`: the entries, the commit rule, the serial result | |
| `Admission` | the limiter, as a layer of guards and state on the steps of `BlockSTM` | `MCAdmission` |
| `AdmissionProofs` | theorems about `Admission` | |
| `PolicyScheduler` | the policy kernel, as a layer on the steps of `BlockSTM` | `MCPolicy` |
| `PolicyInv`, `PolicyProofs` | inductive invariant of the queues, the gate and the sleepers; theorems about `PolicyScheduler` | |
| `WorkerPool`, `WorkerPoolProofs` | the pool of `suspend_yield_worker`, theorems about it | `MCPool` |
| `DependencyPlan` | resolution and validation of the controls, in the engine and in the kernel, as operators | `Preparation` |
| `Preparation` | `ExecuteBlock` up to the kernel: resolve, scan the programs, build the plan, derive the policy | `MCPreparation` |
| `PreparationProofs` | loop invariant of the scan and the builders, theorems about `Preparation` | |
| `EngineBlock` | the Block-STM engine from the start of the kernel to its return: callback, gates, policy events, result slots, first error, publication; a layer on the steps of `PolicyScheduler` | `MCEngine` |
| `EngineInv`, `EngineProofs` | inductive invariant of the callback, the gates and the causes; theorems about `EngineBlock` | |
| `FlatRuntime` | the interpreter and its overlay, as operators on the record of an execution | `SerialEngine` |
| `SerialEngine` | the serial engine: block and controls checked, one transaction after the other, policy events, publication | `MCSerial` |
| `SerialEngineInv`, `SerialEngineProofs` | inductive invariant of a running program and of the private copy; theorems about `FlatRuntime` and `SerialEngine` | |
| `MVIterator` | one range read: three merged iterators, the descriptor, its replay | `MCIterator` |
| `MVIteratorInv`, `MVIteratorProofs` | inductive invariant of the merge, of the recorded reads and of what the caller has seen; theorems about `MVIterator` | |
| `MCScheduler`, `MCBlockSTM`, `MCAdmission`, `MCPolicy`, `MCPool`, `MCEngine`, `MCPreparation`, `MCIterator`, `MCSerial` | small instances | the `.cfg` files |

### How the state corresponds to the code

The variables of `Scheduler` carry the names of the fields of `Scheduler` and
`StatusEntry`; `cond[t]` is the worker that owns the Condvar, and `notified[w]`
the Condvar's flag. `pc[w]` says where worker `w` is inside the functions of
`scheduler.go` and `executor.go`; `kind`, `txn` and `inc` are the task register
of `Executor.Run`; `obs` holds the value of a load that is still needed. A
`sync.Mutex` section with no other blocking operation in it is one action; the
lock of `TxDependency`, which is held over two accesses of status entries, is
held between `LockDependency` and `Suspend` (operator `Locked`). `StoreMin`'s
compare-and-swap loop is one step, the one at which it succeeds or finds the
value low enough.

`BlockSTM` refines three of the scheduler's open choices: inside `"exec"` a
worker reads (`Get`), writes the keys of its write set (`WriteKey`), removes what
it no longer writes (`RemoveKey`) and publishes its locations (`Publish`);
inside `"validate"` it loads the read set and checks one descriptor after the
other; inside `"convert"` it marks one location after the other. A transaction
is a deterministic program given by `NextRead` (the next key, from the values read
so far) and `WriteSet`. The transaction's reads of its own writes are answered
from its own write set and leave no trace, so they are part of the program.
Versions are records of index and incarnation as in `types.go`; a value `Nil` is
a deletion.

`Admission` adds `mu` (who holds the limiter's mutex), the fields of
`admissionWindow`, and `stage[w]`, the worker's place in the code around the
scheduler's functions. Its `Base` and `Data` actions are the actions of
`BlockSTM` with the guards the wrapping code imposes; `Retreat`, by which a
worker leaves `nextTask` because the window is full, is the only step the frozen
scheduler does not have. `notifyLocked` closes the channel that the stalled
workers hold: it turns `"stalled"` into `"woken"`.

`PolicyScheduler` is built the same way. `ready`, `indegree`, `frontier`,
`completed` and `abortDeps` are the fields of `policyScheduler`; `deferred` is
the set `deferred` in the order in which `barrierOf` or `successors` releases it.
`stage[w]` is the worker's place in the wrapping code and `own[w]` the transaction
whose `completeExecution` is still due. Each critical section of
`policyScheduler.mu` is one action: `PopReady`, `ScanWork`, `Defer`,
`CompleteExecution` (release of aborted readers, then of the gate, then the
notification), `RegisterAbort` and `IdleCheck`. `UnwindOrRetry` is the panic and
recovery by which a reader of an ESTIMATE leaves its transaction: nothing it wrote
has reached the memory, so only its task is given up. A worker that parks sleeps
on the channel it took in `IdleCheck` and is woken by `Wake`, by the context, or by
the safety timer (`ParkEnds`).

`WorkerPool` keeps `spawned`, `parked` and `peak` as the code does and, beside
them, the true place of every goroutine; the properties relate the two. The
counter is raised before the goroutine is started, which is a state of the model.
A worker without a task looks whether the block is over (`Look`, `Stop`), asks
`retire` (`Retire`), and only then `nextTask` (`TakeTask`, `TakeValidation`, `Idle`):
what was no surplus at the first may be one at the second. A validation that aborts may
hand its worker the next execution, and an execution its own validation, without passing
`retire`. `resumed` is a history variable: the workers that came back from a wait and
have not come to `retire` since. At most `BlockSize` workers are inside a transaction
(`OneIsFree`), which is `OneOwner` of `Scheduler`.

`Preparation` takes a block as sets of operations per transaction, which is all
that `analyzeStaticPrograms` sees, and builds transaction by transaction, as the
builders' loops do. The context may end at any step and is looked at where the code
looks: at every 256th transaction in the builders' loops, and at the first
instruction of every program in the scan. `DependencyPlan` translates
`EffectiveDependencyControl` and `EffectiveKernelControl` of the engine and
`Normalize` and `validateGate` of the kernel separately; nothing in it makes them
agree.

`MVIterator` represents each of the three iterators by the set of keys it has still to
deliver; it is at the `First` of them in the order of the iteration. The outer tree is a copy made when the iterator is opened, so
`Open` fixes the keys; the versions below a key are read by `Resolve` when the
iterator comes to it, and `Lower` changes them at any moment, after the iterator is
closed too. `entry[k]` is what `seekClosestTxn` would find below the reader. A version
number stands for an index and an incarnation, and what shows after a removal is either
nothing or an entry with a new number; an entry that the reader saw, that was covered by
a higher writer and that shows again when this one is removed, is not modelled (it would
have its old version and its old value). The two
merges run one after the other as in the code: `SkipInner` and `InnerDone` are the
loop of the inner one, `SkipOuter` and `Arrive` that of the outer one. The replay is
evaluated on one state; in the kernel it interleaves with writers, which
`BlockSTM` shows for point reads (a write behind the comparison is validated again).

`policy` in `PolicyScheduler` is the `ExecutionPolicy` of the block: it is chosen in
the initial state from the constant `Policies`, whose members `Normalize` and
`validateGate` must accept (`PolicyAssumption`), and never changes. `deferred` keeps
in one sequence, in the order of deferral, what the code keeps in flags and, per
barrier, in the slices of `barrierOf`; `Line` puts the transactions that a completion
releases into the order in which the code appends them to `ready`: successors by
index, or barrier after barrier.

`EngineBlock` puts the engine's callback between the kernel's steps: `step[w]` is
the worker's place in `txExecutor` while the kernel's `pc[w]` is `"exec"`. The
callback goes through `EnterGate`, `RunRead`, `RunEnd` and `OpenGate`: it stores its
result at the end of the run and opens the gate in a step of its own, before
`KernelRecord` puts the writes into the memory, as in the code. The runtime's look at
the context before a read and the read itself are one step; in the code the context may
end between them, and the attempt then reads one key more before it is cut short at its
next look. `opened` is the set of closed done channels, or `completed` of the
summary gate; a worker asleep at the gate is `"blocked"` and turns `"woken"` when
the channel it holds is closed. `cancelled` is the kernel's context, which the
caller's (`ended`) and the first failing attempt (`CancelExecution`, after the
error is set) cancel. `published` is the caller's state, `storage` the private copy.
The explicit gate is modelled as one wait for all predecessors, since passing one of
them has no effect of its own. What the policy is asked between two looks at
`Dispatcher.Err` is one step; it answers anything, valid or not.

`FlatRuntime` keeps an execution as a record and takes it by `Step` from one look at
the context to the next: an instruction, or `ComputeCheck` iterations of a compute
loop (1024 in the code). Integers wrap at `Half` (2^63 in the code): registers are
signed, words and units are not, and `EncodeInt64` and `DecodeInt64` convert. The
overflow test and the charge of an instruction are the code's, on wrapping numbers.
`Replay` runs the same steps on given values, which turns a program into the
functions that `SerialSemantics` wants.

Steps that are one here and several in the code, beyond those named above: the two
stores at the end of `Record` (written locations and read set, `Publish`), between which
nobody reads either of a transaction that is executing; and the looks at the context
while one program is scanned (before every 1024th instruction), of which `Preparation`
has the first.

Definitions commented as mutants are deliberate faults. Each stands
before the definition it would replace, is used by nothing, and shows that some
checked property would notice that fault.

## 3. What the runs check

| Run | Instance | Checks |
|---|---|---|
| `scheduler` | 3 transactions, 2 workers, `MaxIncarnation` 1; the memory answers anything | `TaskAccounting`, `OneOwner`, `ResumeFindsWaiter`, `NoLostWakeup`, `DoneIsQuiescent`, `StatusDiagram`, and the inductive invariant of the proofs |
| `branch` | 3 transactions, 2 workers, 3 keys, pre-estimates of which one is missing and one wrong; transaction 1 writes other keys, or deletes one, on re-execution | `EntriesMatchStatus`, `NoMissedValidation`, refinement of `Scheduler` (`SchedSpec`) and of `SerialBlock`, `Terminates` |
| `admission` | 3 transactions, window 2, 2 workers | `WindowBound`, `StalledIsFull`, refinement of `SerialBlock`, `Terminates` |
| `frontier` | 4 transactions, window 3, 3 workers | a violation, see below |
| `policy` | 3 transactions, 2 workers, one estimate, parking; the engine's defaults for a plan that waits (abort_and_reschedule, gate with predecessors) and suspend_in_place with a barrier on a transaction that may run twice | `ReservationsKept`, `OnePlace`, `AbortsReleased`, `SleeperMissesNothing`, `GateExact`, refinement of `SerialBlock`, `Terminates` |
| `stuck` | 5 transactions, 2 workers, suspend_in_place, ready_queue, static estimates | a violation, see below |
| `pool` | 2 executors, 4 transactions, 6 interchangeable goroutines (symmetry) | `CountersExact`, `CapacityKept`, `SurplusHandedBack` |
| `preparation` | every value, omitted or unknown, of all controls for one block; all blocks of 3 programs over 2 keys for each plan that waits | `RunsAsReported`, `GraphExact`, `WaitCoversReads` |
| `iterator` | 3 keys, each in the storage or not, absent, live, deleted or estimated below, untouched, written or deleted by the reader; both directions; one change, and the end of every estimate, at any moment | `ValidatedIsSerial`, `QuietReadReplays` |
| `replay` | 3 keys, no change, no estimates | a violation, see below |
| `engine` | 3 transactions, 2 workers, 2 keys, index_order dispatch with each of the two gates; the policy answers anything, the context ends at any moment | refinement of `SerialBlock` by state and answer of the engine (`EngineImplements`), `ResultsAreSerial`, `CauseReported`, `GateHolds`, `EngineReturns` |
| `runtime` | all programs of two instructions from an alphabet of 12, alone (also with a second instruction of faulty text) and, after a read, before a transaction that sees their writes; all sums of 4-bit integers; charges up to the limits of the counter; loops; refused calls | `OracleIsSerial`, `WorkPaid`, `ArithmeticExact`, `Halts` |

Deadlock is checked in every run but `stuck`, whose property is about being stuck;
the only final states are those in which all goroutines have returned.

Bounds. Three transactions are the smallest block in which a transaction is
invalidated by one that was itself re-executed, and in which a sleeper's blocker
is aborted; two workers give every pair of racing functions. `MaxIncarnation` bounds only the run with an arbitrary
memory: it lets each transaction be aborted once. In the other runs nothing is
capped: the blocks themselves end. `MaxChanges` in `iterator` admits one change by
a lower transaction (an insertion, a deletion, a withdrawal or an estimate, anywhere)
on top of the estimates that were there, which already gives a write before, at and
behind each of the cursors. Three keys are needed for a merge to step over a key
between two others, two keys for every kind of edge between three
programs. In `engine` the third transaction waits
for the other two: a completion wakes its worker for nothing, wakes it for good or finds
nobody asleep. The second one reads what the first has announced: it meets the estimate,
is abandoned, and runs again while the third is asleep at the gate for it. The third
reads what the first writes without announcing it, so that it is validated and executed
again. In this block the second one does not finish before the first unless the context
ends, so that the run has no worker at the gate with a gap below it; that none is let
through then is what `CallbackGateCorrect` proves, for every plan. Every attempt may fail or be
cut short. `Half` = 8 makes all pairs of summands possible, and
`ComputeCheck` = 2 lets a compute loop end on and between two looks at the context.
Six goroutines are the pool's limit for four transactions and two executors: all
transactions may be parked at once, and a parked worker may find its place taken by a
replacement, by a replacement of that one, or by none. `Limit` is below the block size, as
in the code, which uses the frozen kernel otherwise.

Fairness. `BlockSTM!Fairness` is weak fairness of each goroutine and of the
caller in `wg.Wait()`: the Go runtime schedules every runnable goroutine. Nothing
is assumed about cancellation. `Admission` assumes strong fairness of each
worker, because workers compete for a mutex that is taken again and again;
`sync.Mutex` hands itself over to a waiter that was passed over for a
millisecond. `PolicyScheduler` assumes weak fairness of each worker; a sleeping
worker's timer is part of it. The timer is needed, although every lowering of an index
is followed by a notification (`SleeperMissesNothing`): a reservation that led to
nothing is given up silently. A worker takes the last index for a transaction that is
not executed any more and still holds the reservation; another one calls `checkDone`,
is refused because of it, and parks; the first gives the reservation up, finds nothing
to scan and parks too. All is executed and validated, and only the timer brings a worker
back to declare the block done. `execpolicy.go` says of the timer
that "Every state change notifies the wake channel"; this is the change that does not. `EngineBlock` assumes the same of the workers inside the
engine and of its caller, who can go on only before the workers start and after they
have returned; nothing is assumed about the policy's answers or the end of the
context. `SerialEngine` is one goroutine that goes on as long as it can.

### Finding: the stable prefix can pass a transaction that is not stable

`configs/README.md` says that a transaction keeps its slot until it enters the
stable validated frontier, "including dependency deferral, suspension and every
incarnation". Run `frontier` shows otherwise. Transaction 2 has read `k`; worker
C has fetched its validation. Transaction 0 finishes with a new location, which
invalidates the window and lowers `validation_idx` to 0. C now takes its token,
finds the read valid and passes transaction 2. Transaction 1 writes `k`, but
`validation_idx` is not above 1, so `finishExecution` invalidates nothing. When
0 and 1 pass, the prefix moves over 2, whose next validation aborts it: an
incarnation runs without a slot. The result of the block is not affected.

### Finding: suspended readers can hold every worker while their blocker is queued

In the frozen kernel a reader that sleeps waits for a transaction that some worker
is running, so somebody always runs. Under ready-queue dispatch a transaction may
be in `ready` with no worker, and `popReady` takes the newest entry first. Run
`stuck` is the `declared_dag` plan of five transactions: 1 writes `k`; 2 might
write `k` and does not; 3 and 4 read `k` and therefore wait for 2, the last static
writer, and not for 1. Once 2 has finished without writing, its estimate is gone
and that of 1 shows. Both workers are in 3 and 4, suspended on 1; 1 is in `ready`;
nobody pops it. Cancelling does not help, because `Condvar.Wait` does not look at
the context. `abort_and_reschedule`, the default, does not suspend and terminates.

### Finding: a range read that nothing disturbed can fail its validation

`onClose` removes one read beyond the stop key, since "the merge iterator may have
read one more key which is not observed by the caller". Run `replay` shows that it may
have read more: the reader has written the first key of the range and closes the
iterator there; the inner merge has meanwhile stepped over a key that a lower
transaction deleted to the live key behind it, and recorded both. The descriptor
keeps the first of them, the replay stops at the stop key and never comes to it, and
`validateIterator` answers false. Nothing changes until the next incarnation, which
fails the same way: the transaction is executed again and again. Without own writes in
the range the merge is never more than one read ahead (`QuietReadReplays`).

### A divergence without a run

`RunConfig` in `internal/engine/engine.go` says of the kernel controls "Zero values
reproduce the frozen kernel exactly", and `internal/control/kernel.go` "The default
of every knob reproduces the frozen upstream path". `EffectiveKernelControl` resolves
omitted controls to `abort_and_reschedule`, `park` and, for a plan that waits,
`ready_queue`, as `configs/README.md` documents. `DependencyPlan` follows the code.

## 4. What is proved

`BlockSTMProofs`, the part about the scheduler (for every `BlockSize` and every finite
`Workers`). `IndInv`
is inductive, and implies the safety properties of `Scheduler`. None of them is
inductive alone:

- `TaskAccounting` needs to know which steps go with which task (`TaskInv`), and
  counts the set of workers that hold a reservation;
- `OneOwner` needs the status as the owner relies on it (`OwnedStatus`): a worker
  between `convert` and `retry` owns the transaction it aborts, and one at
  `incarnate` the index it has fetched;
- `NoLostWakeup` and `ResumeFindsWaiter` need that a transaction is registered in
  one place at most (`WaitInv`) and that a reader holding the lock of
  `TxDependency` is not too late for the swap (`WakeInv`);
- `DoneIsQuiescent` needs what each load of `CheckDone` has established
  (`DoneInv`): after the load of `validation_idx`, either the count has grown
  since, or the index is still past the block, or a worker stands between `StoreMin`
  and the count, and that worker holds a reservation, which the next load sees.

`BlockSTMProofs`, the part about the block executor (for every program and every set of
estimates). Every step of
`BlockSTM` is a step of `Scheduler` or none (`BlockImplementsScheduler`), so the
theorems above hold of block execution. `MemInv` says what the entries of a
transaction are at each step of its owner (written, estimated, or in between), and
gives `EntriesCorrect`.

It also proves the rule that Block-STM commits by, `NoMissedValidation`
(`CommitRule`). The invariant behind it is `StaleCovered`: if an executed transaction
has a descriptor that the memory no longer answers, then `validation_idx` has not
passed it, or some worker is about to check that very descriptor (`WillCheck`), or to
lower `validation_idx` (`LowersFor`). The delicate actions are those that make a
descriptor stale: a write of `Record` to a new location (the writer lowers the index
later, since `wroteNew` is known only at the end), a removal, and a write to
an old location only seemingly: the entry was an ESTIMATE, so its readers were stale
before. A worker that
is late with an older incarnation covers nothing; this is why `LowersFor` compares
incarnations, where the property itself need not.

Last, it proves the refinement `ImplementsSerial` (`Serializable`): for
every block, every program, every set of estimates and of workers the storage goes in
one step from the old state to the serial result, or stays as it is when the block is
cancelled; it is never left half written, and never written twice. `ReplayInv` says that
a version names one value for ever (`Faithful`), and that the read set and the entries
of an executed transaction are those of one run of its program on such values
(`RunOf`). When the block is done nothing is stale, by the commit rule; so every run
read what the memory holds. That this is the serial run would be an induction over the
block. It is proved with the least transaction that reads or writes anything else
(`LeastExists`): all below it are serial, so its values are the serial ones, a
contradiction. The recursive functions of `SerialSemantics` enter by their defining
equations only.

`AdmissionProofs` (for every `Limit`). Every step of `Admission` is one of
`BlockSTM`, or `Retreat`, which preserves all four invariants; so completion,
wake-up and the serial result carry over (`AdmissionCompletion`, `AdmissionWakeup`,
`AdmissionSerializable`). `WindowInv` adds that a worker between the admission and the
increment of `execution_idx` holds the mutex and still has a free slot, and gives
`WindowCorrect` and `StallCorrect`.

`PolicyProofs` (for every set of accepted policies). A step of the policy kernel is a
step of the frozen kernel, a step that only moves a worker without a task or sends it
back to its read, or one that gives an execution up (`registerAbort`), which is proved
to keep the four invariants of the frozen kernel. What does not carry over is
`TaskAccounting` and "a ready transaction is with a worker", since a deferred or
aborted transaction is with nobody. `PolicyInv` has in their place:

- `QueueInv`: no transaction is in two places of the queues, those in the queues are
  ready and with no worker, every other ready one is with a worker, and
  `num_active_tasks` counts both. From it follow `ReservationsCorrect` and
  `OnePlaceCorrect`, and that zero tasks in `CheckDone` still mean that all is executed,
  on which the frozen kernel's proof of completion rests (`IdleIsDone`);
- `GateInv`: the counters of the gate are the number of unfinished predecessors, or the
  length of the finished prefix, although predecessors finish more than once; whoever
  was let through or released has its obstacles behind it (`GateCorrect`);
- `AbortsReleased` and `SleeperMissesNothing`, inductive with `StageInv` (where a
  worker of the wrapping code stands in the frozen code): the blocker of an aborted
  reader has not finished or is on its way to `completeExecution` (`ReleaseCorrect`),
  and whoever makes work while others sleep is on its way to wake them
  (`SleepCorrect`).

With these the block still implements serial execution, under every policy
(`PolicySerializable`). The finding about suspended readers is no contradiction: a
block that hangs has returned nothing.

`EngineProofs` (for every block, graph and policy answer). A callback may fail or be cut
short, and then the transaction publishes nothing although its program writes. So the
step is none of `BlockSTM`, and `MemInv`, which knows what a transaction has written by
what its program writes, does not hold here. What the kernel's proofs need of the memory
is only its shape, and `KernelInv` (`CoreInv`, `PolInv` and the shape of the memory) is
kept by every step of the engine: the step is one of the kernel, or one that leaves its
queues, its status entries and its counters alone. Completion, reservations and wake-ups
carry over (`EngineCompletion`, `EngineReservations`). `EngInv` adds

- `CallbackInv`: where a worker of the callback stands in the kernel;
- `CauseInv`: every trace of a cancellation has a cause, be it a slot marked cancelled, a
  callback that fails, or the kernel's own result. `CauseReported` alone says nothing
  of the slots and the workers that will be read when the kernel returns (`CauseCorrect`);
- `SlotInv`: whatever the gate counts as finished, and whoever is about to tell it, has a
  result in its slot. With it the exact gate of the proof (who waits has an obstacle without a result, who was let
  through has none) gives `CallbackGateCorrect`.

The refinement `EngineImplements` and `ResultsAreSerial` are proved too
(`EngineSerializable`, `ResultsCorrect`), although `MemInv` does not survive a cut
attempt. The argument is that it need not. As long as no attempt has failed and no slot
holds the result of one that was cut short (`Clean`), every step of the engine is a step
of the policy kernel or a cancellation, so the invariants of the memory, of validation
and of the results hold (`CleanInv`). And `~ Clean` is permanent: the result of a cut
attempt is only replaced by one that is cut as well (the context does not come back),
and no block that is not clean is published. While the block is clean the slot of a
transaction with a run in the memory holds what that run has read: the slot is stored
inside the callback, before the writes are recorded, and is not written while the run
is in the memory (`SlotsFaithful`). So when the engine publishes, the slots are those of
the serial runs.

`PreparationProofs` (for every block, every set of keys and every combination of
controls, accepted or not). `PrepInv` is the invariant of the loops: before the pass for
transaction `next` the access sets are what the programs name and the maps of the
builder know exactly the transactions below `next`. It gives `BuildersExact`;
`WaitCorrect` and `ReportCorrect` follow with what resolution accepts.

`WorkerPoolProofs` (for every `Target`, `BlockSize` and finite `Goroutines`). The
counters are the cardinalities of the sets they stand for (`PoolCounts`). From this,
and from the number of parked workers never exceeding the block size, the limit never
keeps a needed replacement back and only a surplus retires (`PoolCapacity`). The bound
that the comment on `workerPool` gives, the target plus the workers that resumed and have
not come to a scheduling point since, is inductive with the exact counters: a worker
leaves `resumed` in `retire` only if it exits or nobody is too many, and a park makes a
replacement only below the target (`PoolSurplus`).

`SerialEngineProofs` (for every block of programs, every state, every `Half`, every
`ComputeCheck`, every sequence of policy answers and every moment at which the context
ends).

- `ArithmeticCorrect`: the overflow test of `evaluateExpression` computes `MaxInt64 - delta`
  and `MinInt64 - delta` in wrapping arithmetic; it is exact, because with the sign of
  `delta` known neither difference wraps (`OverflowExact`), and `DecodeInt64` undoes
  `EncodeInt64` (`RoundTrip`).
- `WorkCorrect`: `WorkPaid` alone is not inductive, since a compute loop is charged
  before its first iteration. `ChargeOK` counts the whole loop as soon as it has begun,
  and `PlaceOK` says that a run inside a loop is at a `compute` instruction and has not
  passed its units.
- `OracleCorrect`: the run of the current transaction is what `Replay` computes from the
  values it has fetched, whatever it fetches later (`FollowsReplay`). The bound on the
  steps of `Replay` is never reached, because the steps are paid for (`StepsOK`); a
  program that jumps backwards for ever runs out of units. The values fetched are those
  that the program asks for on the private copy (`RunsOn`), so a run that ends has the
  reads and the writes of the serial order (`RunEnded`), and the private copy is the
  serial state of the transactions that have ended (`SerialSoFar`).

The recursive functions (`Replay`, `SerialReads`, `SerialState`, `Iterations`) again
enter by their equations. That these have solutions is proved with the least argument
for which there is none, in place of an induction.

`MVIteratorProofs` (for every `NKeys`, every `MaxChanges`, every content of the storage,
of the memory and of the write set, both directions, and every place where the caller
stops). `ValidatedIsSerial` speaks of the end of the read only, `IterInv` of every moment
before it:

- a key is `Gone` once the inner merge has left it behind, `Passed` once all three
  iterators have, and `Settled` if the caller stands at it too. A key that is not settled
  nobody has seen. A key that is settled was seen `Faithful`ly: by its own write, or,
  without a recorded read, as the storage has it, or as the recorded version, *if the
  entry still has that version and kind*. The condition is what makes it inductive
  (`LowerView`): whatever a lower transaction does, an entry with a version that was
  recorded is the entry that was read (`ChangeFacts`), so a change can only make the
  condition false, and then the replay fails;
- between the inner and the outer merge a key may be gone and not yet settled; then it
  was `Dead`: not in the storage, or covered by an entry that was not live. A key that the
  memory knows and that no entry covers is passed over without being recorded
  (`ResolveAbsent`), and this is right because the storage is then delivered in its place
  or has nothing (`NewlyGone`);
- `ItemInv`: the cached entry is the last one recorded; `CursorInv`: recorded keys are
  gone, but for the one that the memory's iterator is at.

When the iterator is closed the settled keys are those within the stop key (`CloseAt`),
and `onClose` drops no read of theirs. A valid replay says that the recorded reads within
the stop key are the entries of now, so what was seen faithfully is what the range holds
(`RangeReadCorrect`). For `QuietReadCorrect` the invariant adds that without a change
everything present is recorded or still ahead (`QuietInv`), and that without own writes
the only read beyond the stop key is the last one, which is the finding's counterpart.

Assumptions: `BlockSize` is a natural number, `Workers` is finite, not empty (the block
entry takes `maxParallelism()` if it is asked for none) and does not
contain `NoWorker`, estimates are sets of keys, `NoKey` is not a key, the initial
storage has a value, possibly none, for every key, `Limit` lies
between 1 and `BlockSize - 1`, policies are as `Normalize` and `validateGate` leave
them, the gates are the two of `dependency.go` or none, `Nil` is not a slice that a builder makes, `Half` and `ComputeCheck` are
positive, `Nil` and `Malformed` are no integers, blocks and states are what the types of
`internal/model` allow (`InputsAssumption`), a key that no lower transaction has written
has no entry (`IteratorAssumption`), there are at least
`Target + BlockSize` goroutines to start. TLC evaluates them in every run.

Model-checked only: termination (`Terminates`, `Halts`, `EngineReturns`), which is
liveness under fairness. Every other property of a passing run is stated by a theorem.

## 5. Not modelled, and the plan

Not modelled by choice: statistics and telemetry counters, logging, file formats,
the experiment runner, the workload generator and the scripts, which have no
concurrent state; a panic in the transaction callback, which the kernels do not
handle; the balancing of the B-trees.

Of the engines: attempt numbers, durations and the trace of the dispatcher, which
nothing reads back; errors of the in-memory store on duplicate or empty keys, which
the engines' calls cannot cause. Of the configurations: `EngineBlock` describes
ready_queue dispatch (gate `"none"`) too, but `engine` runs index_order only, because
`policy` already checks the kernel's own gate with the same programs.

Not modelled yet: the policy kernel together with a finite window; yielding workers
inside a block (`WorkerPool` leaves the block open).

The plan, in order:

1. The policy kernel with a finite window, and with yielding workers.
2. Range reads inside a block: `MVIterator` in place of the point reads of `BlockSTM`.
