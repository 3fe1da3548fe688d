---------------------------- MODULE SerialEngine ----------------------------
(***************************************************************************)
(* The serial engine (src/internal/engine/serial/engine.go), the oracle    *)
(* that the parallel one is compared with: the programs of module          *)
(* FlatRuntime run one after the other on a private copy of the state,     *)
(* under a policy that is asked at every event and whose answers the       *)
(* dispatcher checks (src/internal/policy/dispatcher.go); the copy         *)
(* replaces the caller's state when all went well.                         *)
(*                                                                         *)
(* The context may end at any moment; every step goes from one look at it  *)
(* to the next.  The policy is external: its answers are chosen freely.    *)
(***************************************************************************)
EXTENDS FlatRuntime

CONSTANT Inputs   \* what ExecuteBlock is called with: config, block and state

ASSUME InputsAssumption ==
  \A in \in Inputs : in.block \in Seq(Transactions) /\ in.state \in [Keys -> Stored]

Controls == INSTANCE DependencyPlan

VARIABLES
  input,      \* the call
  storage,    \* the caller's state: key -> word, Malformed or Nil
  working,    \* the private copy
  results,    \* results of the transactions that have ended
  run,        \* the execution of the current transaction
  stage,      \* start, admit, run, end or returned
  ended,      \* the context has ended
  policyErr,  \* Dispatcher.err: the first answer that was refused, "" for none
  outcome     \* what ExecuteBlock returns: "ok" or the kind of the error

engineVars == <<input, storage, working, results, run, stage, ended, policyErr, outcome>>

Block == input.block
Transaction == Block[Len(results) + 1]

SerialInit ==
  /\ input \in Inputs
  /\ storage = input.state
  /\ working = input.state
  /\ results = <<>>
  /\ run = NewRun
  /\ stage = "start"
  /\ ended \in BOOLEAN
  /\ policyErr = ""
  /\ outcome = "running"

----------------------------------------------------------------------------
(* engine.ValidateBlock, and the controls that the serial engine accepts.  *)
BlockAccepted ==
  /\ input.id # ""
  /\ \A t \in DOMAIN Block : Block[t].id # ""
  /\ \A t, u \in DOMAIN Block : Block[t].id = Block[u].id => t = u

ConfigAccepted ==
  LET c == input.config
      plan == Controls!Resolved(c.dependency)
  IN /\ c.executors \in {0, 1}
     /\ c.window \in {0, 1}
     /\ Controls!DependencyAccepted(c.dependency)
     /\ plan.mode = "mvcc_runtime" /\ plan.source = "runtime_observed"
     /\ plan.representation = "version_only" /\ plan.builder = "none"
     /\ plan.wait = "none" /\ plan.injection = "disabled"

(* EffectiveTraceMode and NewDispatcherWithTrace.                          *)
DispatcherAccepted ==
  /\ input.config.trace \in {"", "off", "counters", "detailed"}
  /\ input.config.policyNamed

(* A call of the dispatcher: the policy answers, Dispatcher.validate keeps *)
(* the first answer that it has to refuse.                                 *)
Answers == {"valid", "invalid"}
Lanes == {"serial", "optimistic", "invalid"}

Refused(err, event, answer) == IF err = "" /\ answer = "invalid" THEN event ELSE err

Return(o) ==
  /\ stage' = "returned"
  /\ outcome' = o

(* ExecuteBlock up to the loop: what is wrong with the call, the context,  *)
(* and the two macro events.                                               *)
Start(epoch, ready) ==
  /\ stage = "start"
  /\ LET err == Refused(Refused("", "EPOCH_START", epoch), "BLOCK_READY", ready)
         accepted == BlockAccepted /\ ConfigAccepted
         called == accepted /\ ~ ended /\ DispatcherAccepted
     IN /\ policyErr' = IF called THEN err ELSE ""
        /\ CASE ~ accepted -> Return("rejected")
             [] accepted /\ ended -> Return("context")
             [] accepted /\ ~ ended /\ ~ DispatcherAccepted -> Return("rejected")
             [] called /\ err # "" -> Return("policy")
             [] called /\ err = "" -> stage' = "admit" /\ UNCHANGED outcome
  /\ working' = storage
  /\ UNCHANGED <<input, storage, results, run, ended>>

(* The head of the loop: admission, readiness and the task event of the    *)
(* next transaction.                                                       *)
Admit(admission, ready, task) ==
  /\ stage = "admit" /\ Len(results) < Len(Block)
  /\ LET admitErr == Refused(policyErr, "TX_ADMIT", admission)
         readyErr == Refused(admitErr, "TX_READY", ready)
         taskErr == Refused(readyErr, "TASK_READY", task)
     IN \/ /\ ended
           /\ Return("context")
           /\ UNCHANGED <<policyErr, run>>
        \/ /\ ~ ended /\ admission # "serial"
           /\ policyErr' = admitErr
           /\ Return("unsupported")
           /\ UNCHANGED run
        \/ /\ ~ ended /\ admission = "serial" /\ ready # "serial"
           /\ policyErr' = readyErr
           /\ Return("unsupported")
           /\ UNCHANGED run
        \/ /\ ~ ended /\ admission = "serial" /\ ready = "serial" /\ taskErr # ""
           /\ policyErr' = taskErr
           /\ Return("policy")
           /\ UNCHANGED run
        \/ /\ ~ ended /\ admission = "serial" /\ ready = "serial" /\ taskErr = ""
           /\ stage' = "run"
           /\ run' = NewRun
           /\ UNCHANGED <<policyErr, outcome>>
  /\ UNCHANGED <<input, storage, working, results, ended>>

(* A step of the runtime.  A refused answer to one of its hooks is noted   *)
(* and the program runs on.                                                *)
RunStep(answer) ==
  /\ stage = "run" /\ ~ Halted(run)
  /\ LET key == Wants(Transaction, run)
         next == Step(Transaction, run, IF key = NoKey THEN Nil ELSE working[key], ended)
         hooked == next.ordinal # run.ordinal
     IN /\ run' = next
        /\ ~ hooked => answer = "valid"
        /\ policyErr' = Refused(policyErr, Current(Transaction, run).op, answer)
  /\ UNCHANGED <<input, storage, working, results, stage, ended, outcome>>

\* Mutant: commits the overlay of a failed transaction too.
CommitAlways == run.writes

CommitTo == Committed(run)

(* The end of the loop: the validation event, then the result and, after a *)
(* success, Overlay.CommitTo.                                              *)
EndTransaction(answer) ==
  /\ stage = "run" /\ Halted(run)
  /\ LET err == Refused(policyErr, "TX_END", answer)
     IN /\ policyErr' = err
        /\ CASE err # "" -> Return("policy") /\ UNCHANGED <<working, results>>
             [] err = "" /\ run.status = "cancelled" ->
                  Return("context") /\ UNCHANGED <<working, results>>
             [] err = "" /\ run.status # "cancelled" ->
                  /\ working' = [k \in Keys |-> IF k \in DOMAIN CommitTo THEN CommitTo[k] ELSE working[k]]
                  /\ results' = Append(results, run)
                  /\ stage' = "admit"
                  /\ UNCHANGED outcome
  /\ UNCHANGED <<input, storage, run, ended>>

\* Mutant: publishes without a last look at the context.
PublishRegardless ==
  /\ stage = "admit" /\ Len(results) = Len(Block)
  /\ Return(IF ended THEN "context" ELSE "ok") /\ storage' = working
  /\ UNCHANGED <<input, working, results, run, ended, policyErr>>

(* After the loop: a last look at the context, then Store.Replace.         *)
Publish ==
  /\ stage = "admit" /\ Len(results) = Len(Block)
  /\ IF ended THEN Return("context") /\ UNCHANGED storage
     ELSE Return("ok") /\ storage' = working
  /\ UNCHANGED <<input, working, results, run, ended, policyErr>>

EndContext ==
  /\ ~ ended /\ stage # "returned"
  /\ ended' = TRUE
  /\ UNCHANGED <<input, storage, working, results, run, stage, policyErr, outcome>>

Returned == stage = "returned" /\ UNCHANGED engineVars

EngineStep ==
  \/ \E epoch, ready \in Answers : Start(epoch, ready)
  \/ \E admission, ready \in Lanes, task \in Answers : Admit(admission, ready, task)
  \/ \E answer \in Answers : RunStep(answer) \/ EndTransaction(answer)
  \/ Publish

SerialNext == EngineStep \/ EndContext \/ Returned

(* The one goroutine goes on as long as it can.                            *)
SerialSpec == SerialInit /\ [][SerialNext]_engineVars /\ WF_engineVars(EngineStep)

----------------------------------------------------------------------------
(* Properties                                                              *)

NextRead(t, vals) == ProgramRead(Block[t + 1], vals)
WriteSet(t, vals) == ProgramWrites(Block[t + 1], vals)

\* The block as module SerialBlock sees it: programs that are functions of what they read.
Reference ==
  INSTANCE SerialSemantics WITH BlockSize <- Len(Block), InitStorage <- input.state

(* The oracle is what the parallel engine is checked against: a block that *)
(* returns without an error has replaced the state by the serial result of *)
(* its programs, has the result of every transaction, none of them         *)
(* cancelled, and each with the values that the serial order gives it; any *)
(* error leaves the caller's state as it was, also one after the last      *)
(* transaction.                                                            *)
OracleIsSerial ==
  /\ outcome = "ok" =>
       /\ storage = Reference!SerialState[Len(Block)]
       /\ Len(results) = Len(Block)
       /\ \A t \in 1 .. Len(Block) :
            /\ results[t].status # "cancelled"
            /\ results[t].fetched = Reference!SerialReads(t - 1, Reference!SerialState[t - 1])
  /\ outcome # "ok" => storage = input.state

\* The iterations of the compute loops that have ended.
Iterations(digest) ==
  LET sum[n \in 0 .. Len(digest)] == IF n = 0 THEN 0 ELSE sum[n - 1] + digest[n][2]
  IN sum[Len(digest)]

(* Work is paid for: a program has at no moment done more accesses,        *)
(* branches and compute iterations than it was charged units, and it was   *)
(* never charged more than MaxUnits, though the charge of a compute        *)
(* instruction may exceed the width of the counter.                        *)
WorkPaid ==
  /\ run.ordinal + Iterations(run.digest) + Max({run.loop, 0}) <= run.unitsUsed
  /\ stage = "run" => run.unitsUsed <= Transaction.maxUnits

\* The step evaluates the expression of a write or a return.
Evaluates ==
  /\ stage = "run" /\ AtInstruction(Transaction, run)
  /\ Current(Transaction, run).op \in {"write", "return"}
  /\ OperandFault(Current(Transaction, run).expression.base, run.registers) = ""
  /\ run' # run /\ run'.status \notin {"cancelled", "out_of_gas"}

(* Checked arithmetic: writing or returning a sum ends in an overflow      *)
(* exactly when the sum is no int64, and otherwise whoever decodes the     *)
(* word gets the sum.                                                      *)
ArithmeticExact ==
  [][Evaluates =>
       LET i == Current(Transaction, run)
           sum == OperandValue(i.expression.base, run.registers) + i.expression.delta
           word == IF i.op = "write" THEN run'.writes[i.key] ELSE run'.value
       IN /\ run'.code = "arithmetic_overflow" <=> sum \notin MinInt .. MaxInt
          /\ run'.code = "" => DecodeInt64(word) = sum]_engineVars

(* Every block returns, though programs may jump backwards: no program     *)
(* runs for ever, and the engine waits for nobody.                         *)
Halts == <>(outcome # "running")
=============================================================================
