--------------------------- MODULE SerialEngineInv ---------------------------
(***************************************************************************)
(* The inductive invariant of the serial engine: what an execution of a    *)
(* program is charged and may do next, that it follows the replay of the   *)
(* values it has fetched, and that the private copy is the serial state of *)
(* the transactions that have ended.                                       *)
(***************************************************************************)
EXTENDS SerialEngine

RunFields ==
  {"pc", "loop", "unitsUsed", "registers", "writes", "fetched", "ordinal", "reads", "digest",
   "value", "status", "code"}

Endings ==
  {"success", "failed", "out_of_gas", "invalid_program", "invalid_state", "arithmetic_error", "cancelled"}

RegistersOK(registers) == \A r \in DOMAIN registers : registers[r].value \in MinInt .. MaxInt
WritesOK(writes) ==
  DOMAIN writes \subseteq Keys /\ \A k \in DOMAIN writes : writes[k] \in 0 .. MaxUint \cup {Nil}

RunTypeOK(m) ==
  /\ DOMAIN m = RunFields
  /\ m.pc \in Nat /\ m.loop \in Int /\ m.loop >= -1 /\ m.unitsUsed \in Nat /\ m.ordinal \in Nat
  /\ RegistersOK(m.registers) /\ WritesOK(m.writes)
  /\ m.fetched \in Seq(Stored)
  /\ m.digest \in Seq(Nat \X Nat)
  /\ m.status \in {"new", "running"} \cup Endings

NoFault == ""

\* Where an execution of tx is: a program that runs has passed Validate.
PlaceOK(tx, m) ==
  /\ m.status = "new" => m = NewRun
  /\ m.status = "running" => Validate(tx) = NoFault /\ m.code = NoFault /\ m.pc <= Len(tx.program)
  /\ m.loop >= 0 =>
       /\ m.status \in {"running", "cancelled"} /\ m.pc < Len(tx.program)
       /\ Current(tx, m).op = "compute" /\ m.loop <= Current(tx, m).units

\* A compute loop is paid for before its first iteration.
ChargeOK(tx, m) ==
  /\ m.unitsUsed <= tx.maxUnits
  /\ m.ordinal + Iterations(m.digest) + (IF m.loop >= 0 THEN Current(tx, m).units ELSE 0) <= m.unitsUsed

RunOK(tx, m) == RunTypeOK(m) /\ PlaceOK(tx, m) /\ ChargeOK(tx, m)

----------------------------------------------------------------------------
\* The n steps that led to m are paid for, twice: the bound of Replay is never reached.
StepsOK(tx, m, n) ==
  /\ m.status = "new" => n = 0
  /\ m.status = "running" /\ m.loop < 0 => n <= 2 * m.unitsUsed + 1
  /\ m.status = "running" /\ m.loop >= 0 => n + Current(tx, m).units - m.loop <= 2 * m.unitsUsed
  /\ Halted(m) => n <= StepBound(tx)

\* A step of Replay, and the equation of its recursive function.
ReplayStep(tx, vals, m) ==
  IF Halted(m) \/ (Wants(tx, m) # NoKey /\ Len(m.fetched) = Len(vals)) THEN m
  ELSE Step(tx, m, IF Wants(tx, m) # NoKey THEN vals[Len(m.fetched) + 1] ELSE Nil, FALSE)

ReplayEquation(f, tx, vals, bound) ==
  f = [n \in 0 .. bound |-> IF n = 0 THEN NewRun ELSE ReplayStep(tx, vals, f[n - 1])]

Begins(vals, prefix) ==
  Len(prefix) <= Len(vals) /\ \A j \in 1 .. Len(prefix) : vals[j] = prefix[j]

\* Whatever it fetches later, n steps of the replay lead to m.
Replays(tx, m, n) ==
  \A vals \in Seq(Stored) : \A f :
    Begins(vals, m.fetched) /\ ReplayEquation(f, tx, vals, StepBound(tx)) => f[n] = m

FollowsReplay(tx, m) ==
  m.status # "cancelled" => \E n \in 0 .. StepBound(tx) : StepsOK(tx, m, n) /\ Replays(tx, m, n)

----------------------------------------------------------------------------
\* The values u are those that the program of tx asks for on state s, from the n-th on.
Prefix(u, i) == [j \in 1 .. i |-> u[j]]
RunsOn(tx, s, u, n) ==
  \A i \in n .. Len(u) - 1 :
    ProgramRead(tx, Prefix(u, i)) \in Keys /\ u[i + 1] = s[ProgramRead(tx, Prefix(u, i))]

\* The equation of the recursive function of SerialReads.
ValuesIn(s) == Seq(UNION {{s[k]} : k \in Keys})
ReadsEquation(f, tx, s) ==
  f = [vals \in ValuesIn(s) |->
         IF ProgramRead(tx, vals) \in Keys THEN f[Append(vals, s[ProgramRead(tx, vals)])] ELSE vals]
ReadsOn(tx, s) == (CHOOSE f : ReadsEquation(f, tx, s))[<< >>]

\* The state after one transaction more, and the equation of SerialState.
Written(s, ws) == [k \in Keys |-> IF k \in DOMAIN ws THEN ws[k] ELSE s[k]]
After(s, tx) == Written(s, ProgramWrites(tx, ReadsOn(tx, s)))
StatesEquation(f, block, s, bound) ==
  f = [n \in 0 .. bound |-> IF n = 0 THEN s ELSE After(f[n - 1], block[n])]

\* The private copy and the results are those of the serial order so far.
SerialSoFar(block, s) ==
  \A f : StatesEquation(f, block, s, Len(block)) =>
    /\ working = f[Len(results)]
    /\ \A t \in 1 .. Len(results) :
         results[t].status # "cancelled" /\ results[t].fetched = ReadsOn(block[t], f[t - 1])

EngineTypeOK ==
  /\ input \in Inputs /\ ended \in BOOLEAN
  /\ stage \in {"start", "admit", "run", "returned"}
  /\ results \in Seq({results[t] : t \in DOMAIN results}) /\ Len(results) <= Len(Block)
  /\ working \in [Keys -> Stored]

\* The run of the current transaction on the private copy.
RunningOK(tx) ==
  RunOK(tx, run) /\ FollowsReplay(tx, run) /\ RunsOn(tx, working, run.fetched, 0)

RunPaid(m) == m.ordinal + Iterations(m.digest) + Max({m.loop, 0}) <= m.unitsUsed

CallOK ==
  /\ stage = "start" => results = << >>
  /\ stage # "returned" => outcome = "running"
  /\ outcome # "ok" => storage = input.state
  /\ outcome = "ok" => storage = working /\ Len(results) = Len(Block)

SerialInv ==
  /\ EngineTypeOK /\ CallOK
  /\ SerialSoFar(Block, input.state)
  /\ stage = "run" => Len(results) < Len(Block) /\ RunningOK(Transaction)
  /\ RunPaid(run)
=============================================================================
