----------------------------- MODULE FlatRuntime -----------------------------
(***************************************************************************)
(* The deterministic runtime of the engines (src/internal/runtime/flat/    *)
(* runtime.go) on its overlay (src/internal/state/state.go): a program is  *)
(* a sequence of instructions, an execution of it a record that Step takes *)
(* from one instruction to the next.                                       *)
(*                                                                         *)
(* Words have Words values (2^64 in the code), signed in registers,        *)
(* unsigned in the unit counters and in the store.  A stored value is a    *)
(* word, or Malformed when it has not the eight bytes of one; Nil is no    *)
(* value.  The digest over the compute loop is kept as what enters it.     *)
(***************************************************************************)
EXTENDS Integers, Sequences, FiniteSetsExt

CONSTANTS Half,           \* 2^63 in the code: integers are -Half .. Half - 1
          ComputeCheck,   \* iterations of a compute loop between two looks at the context
          Keys, Nil, Malformed, NoKey

ASSUME RuntimeAssumption ==
  /\ Half \in Nat \ {0} /\ ComputeCheck \in Nat \ {0}
  /\ NoKey \notin Keys
  /\ Nil \notin Int /\ Malformed \notin Int \cup {Nil}

Words == 2 * Half
MaxUint == Words - 1
MinInt == -Half
MaxInt == Half - 1

\* The result of a signed operation on words.
Wrap(n) == ((n - MinInt) % Words) + MinInt

EncodeInt64(value) == value % Words
DecodeInt64(word) == Wrap(word)

\* What a state holds for a key.
Stored == 0 .. MaxUint \cup {Malformed, Nil}

\* An assignment to an entry of a map.
Put(map, key, value) == [k \in DOMAIN map \cup {key} |-> IF k = key THEN value ELSE map[k]]

----------------------------------------------------------------------------
(* Operands, expressions and conditions on the registers.  A fault is the  *)
(* code of an error, "" for none.                                          *)

Operand(kind, literal, register) == [kind |-> kind, literal |-> literal, register |-> register]
Literal(value) == Operand("literal", value, "")
Register(name) == Operand("register", 0, name)

\* The transactions that the types of the code allow.
Operands == [kind : STRING, literal : MinInt .. MaxInt, register : STRING]
Instructions ==
  [op : STRING, key : Keys, register : STRING, code : STRING, target : Int, units : 0 .. MaxUint,
   expression : [base : Operands, delta : MinInt .. MaxInt],
   condition : [kind : STRING, register : STRING, left : Operands, right : Operands]]
Transactions == [id : STRING, maxUnits : 0 .. MaxUint, program : Seq(Instructions)]

OperandFault(operand, registers) ==
  CASE operand.kind = "literal" -> ""
    [] operand.kind = "register" ->
         IF operand.register \in DOMAIN registers THEN "" ELSE "undefined_register"
    [] OTHER -> "invalid_operand"

OperandValue(operand, registers) ==
  IF operand.kind = "literal" THEN operand.literal ELSE registers[operand.register].value

\* Mutant: looks at one end of the range only.
OverflowsAbove(base, delta) == delta > 0 /\ base > Wrap(MaxInt - delta)

Overflows(base, delta) ==
  \/ delta > 0 /\ base > Wrap(MaxInt - delta)
  \/ delta < 0 /\ base < Wrap(MinInt - delta)

ExpressionFault(e, registers) ==
  LET fault == OperandFault(e.base, registers)
  IN IF fault # "" THEN fault
     ELSE IF Overflows(OperandValue(e.base, registers), e.delta) THEN "arithmetic_overflow" ELSE ""

ExpressionValue(e, registers) == Wrap(OperandValue(e.base, registers) + e.delta)

Comparisons == {"equal", "not_equal", "less", "less_equal", "greater", "greater_equal"}

ConditionFault(c, registers) ==
  CASE c.kind = "always" -> ""
    [] c.kind \in {"exists", "not_exists"} ->
         IF c.register \in DOMAIN registers THEN "" ELSE "undefined_register"
    [] OTHER ->
         LET left == OperandFault(c.left, registers)
         IN IF left # "" THEN left ELSE OperandFault(c.right, registers)

Holds(c, registers) ==
  LET left == OperandValue(c.left, registers)
      right == OperandValue(c.right, registers)
  IN CASE c.kind = "always" -> TRUE
       [] c.kind = "exists" -> registers[c.register].exists
       [] c.kind = "not_exists" -> ~ registers[c.register].exists
       [] c.kind = "equal" -> left = right
       [] c.kind = "not_equal" -> left # right
       [] c.kind = "less" -> left < right
       [] c.kind = "less_equal" -> left <= right
       [] c.kind = "greater" -> left > right
       [] c.kind = "greater_equal" -> left >= right

----------------------------------------------------------------------------
(* Validate: what is wrong with the text of a program.                     *)

OperandText(operand) ==
  CASE operand.kind = "literal" -> ""
    [] operand.kind = "register" -> IF operand.register = "" THEN "missing_register_name" ELSE ""
    [] OTHER -> "invalid_operand"

ConditionText(c) ==
  CASE c.kind = "always" -> ""
    [] c.kind \in {"exists", "not_exists"} -> IF c.register = "" THEN "missing_register_name" ELSE ""
    [] c.kind \in Comparisons ->
         IF OperandText(c.left) # "" THEN OperandText(c.left) ELSE OperandText(c.right)
    [] OTHER -> "invalid_condition"

InstructionText(i, length) ==
  CASE i.op = "read" -> IF i.register = "" THEN "missing_register_name" ELSE ""
    [] i.op \in {"write", "return"} -> OperandText(i.expression.base)
    [] i.op \in {"delete", "compute"} -> ""
    [] i.op = "fail_if" ->
         IF i.code = "" THEN "missing_failure_code" ELSE ConditionText(i.condition)
    [] i.op = "jump_if" ->
         IF i.target < 0 \/ i.target > length THEN "invalid_jump_target" ELSE ConditionText(i.condition)
    [] OTHER -> "unknown_opcode"

Validate(tx) ==
  LET text(n) == InstructionText(tx.program[n], Len(tx.program))
      wrong == {n \in DOMAIN tx.program : text(n) # ""}
  IN IF tx.maxUnits = 0 THEN "invalid_max_units"
     ELSE IF wrong = {} THEN "" ELSE text(Min(wrong))

----------------------------------------------------------------------------
(* An execution: the program counter, the iterations of a compute loop     *)
(* done (-1 outside of one), units used, registers, the overlay's writes,  *)
(* the values fetched from the state below, and the fields of the result.  *)

NewRun ==
  [pc |-> 0, loop |-> -1, unitsUsed |-> 0, registers |-> <<>>, writes |-> <<>>, fetched |-> <<>>,
   ordinal |-> 0, reads |-> <<>>, digest |-> <<>>, value |-> Nil, status |-> "new", code |-> ""]

Ended(m, status, code) == [m EXCEPT !.status = status, !.code = code]

\* setEvaluationError
EvaluationError(m, fault) ==
  Ended(m, IF fault = "arithmetic_overflow" THEN "arithmetic_error" ELSE "invalid_program", fault)

\* Mutant: adds one to the largest number of units too.
WrappedCost(i) == IF i.op = "compute" THEN (i.units + 1) % Words ELSE 1

\* instructionCost; one above MaxUint when the sum would wrap, which nobody can pay.
Cost(i) == IF i.op = "compute" THEN i.units + 1 ELSE 1

Affordable(tx, m, i) == Cost(i) <= tx.maxUnits - m.unitsUsed

Current(tx, m) == tx.program[m.pc + 1]
AtInstruction(tx, m) == m.status = "running" /\ m.pc < Len(tx.program)

\* The key that the next step takes from the state below the overlay.
Wants(tx, m) ==
  IF /\ AtInstruction(tx, m)
     /\ Current(tx, m).op = "read"
     /\ Affordable(tx, m, Current(tx, m))
     /\ Current(tx, m).key \notin DOMAIN m.writes
    THEN Current(tx, m).key ELSE NoKey

(* OpRead: Overlay.Get answers from the own writes first.                  *)
ExecuteRead(m, i, below) ==
  LET own == i.key \in DOMAIN m.writes
      raw == IF own THEN m.writes[i.key] ELSE below
      n == [m EXCEPT !.ordinal = @ + 1, !.fetched = IF own THEN @ ELSE Append(@, below)]
  IN IF raw = Malformed THEN Ended(n, "invalid_state", "invalid_state_value")
     ELSE [n EXCEPT
             !.registers = Put(@, i.register, [value |-> IF raw = Nil THEN 0 ELSE DecodeInt64(raw),
                                               exists |-> raw # Nil]),
             !.reads = Append(@, [key |-> i.key, value |-> raw]),
             !.pc = @ + 1]

ExecuteWrite(m, i) ==
  LET n == [m EXCEPT !.ordinal = @ + 1]
      fault == ExpressionFault(i.expression, m.registers)
  IN IF fault # "" THEN EvaluationError(n, fault)
     ELSE [n EXCEPT !.writes = Put(@, i.key, EncodeInt64(ExpressionValue(i.expression, m.registers))),
                    !.pc = @ + 1]

ExecuteDelete(m, i) ==
  [m EXCEPT !.ordinal = @ + 1, !.writes = Put(@, i.key, Nil), !.pc = @ + 1]

ExecuteFailIf(m, i) ==
  LET fault == ConditionFault(i.condition, m.registers)
  IN IF fault # "" THEN EvaluationError(m, fault)
     ELSE IF Holds(i.condition, m.registers) THEN Ended(m, "failed", i.code)
     ELSE [m EXCEPT !.pc = @ + 1]

ExecuteJumpIf(m, i) ==
  LET fault == ConditionFault(i.condition, m.registers)
  IN IF fault # "" THEN EvaluationError(m, fault)
     ELSE [m EXCEPT !.ordinal = @ + 1,
                    !.pc = IF Holds(i.condition, m.registers) THEN i.target ELSE @ + 1]

ExecuteReturn(m, i) ==
  LET fault == ExpressionFault(i.expression, m.registers)
  IN IF fault # "" THEN EvaluationError(m, fault)
     ELSE [Ended(m, "success", "") EXCEPT !.value = EncodeInt64(ExpressionValue(i.expression, m.registers))]

\* Mutant: counts whole chunks and misses an end between two of them.
ComputeWholeChunks(m, i, cancelled) ==
  IF m.loop = i.units THEN [m EXCEPT !.loop = -1, !.digest = Append(@, <<m.pc, i.units>>), !.pc = @ + 1]
  ELSE IF cancelled THEN Ended(m, "cancelled", "cancelled")
  ELSE [m EXCEPT !.loop = (@ + ComputeCheck) % Words]

(* OpCompute looks at the context before the first iteration and again     *)
(* after every ComputeCheck of them.                                       *)
ComputeChunk(m, i, cancelled) ==
  IF m.loop = i.units THEN [m EXCEPT !.loop = -1, !.digest = Append(@, <<m.pc, i.units>>), !.pc = @ + 1]
  ELSE IF cancelled THEN Ended(m, "cancelled", "cancelled")
  ELSE [m EXCEPT !.loop = Min({@ + ComputeCheck, i.units})]

Perform(m, i, below) ==
  CASE i.op = "read" -> ExecuteRead(m, i, below)
    [] i.op = "write" -> ExecuteWrite(m, i)
    [] i.op = "delete" -> ExecuteDelete(m, i)
    [] i.op = "compute" -> [m EXCEPT !.loop = 0]
    [] i.op = "fail_if" -> ExecuteFailIf(m, i)
    [] i.op = "jump_if" -> ExecuteJumpIf(m, i)
    [] i.op = "return" -> ExecuteReturn(m, i)

(* ExecuteWithHooks from one look at the context to the next; below is the *)
(* value of the key that the step wants.                                   *)
Step(tx, m, below, cancelled) ==
  IF m.loop >= 0 THEN ComputeChunk(m, Current(tx, m), cancelled)
  ELSE IF m.status = "running" /\ m.pc >= Len(tx.program) THEN Ended(m, "success", "")
  ELSE IF cancelled THEN Ended(m, "cancelled", "cancelled")
  ELSE IF m.status = "new" THEN
    IF Validate(tx) # "" THEN Ended(m, "invalid_program", Validate(tx))
    ELSE [m EXCEPT !.status = "running"]
  ELSE IF ~ Affordable(tx, m, Current(tx, m)) THEN
    [Ended(m, "out_of_gas", "out_of_gas") EXCEPT !.unitsUsed = tx.maxUnits]
  ELSE Perform([m EXCEPT !.unitsUsed = @ + Cost(Current(tx, m))], Current(tx, m), below)

\* The writes that reach the state below: Overlay.CommitTo after a success only.
Committed(m) == IF m.status = "success" THEN m.writes ELSE <<>>

----------------------------------------------------------------------------
(* The execution as a function of the values fetched, for module           *)
(* SerialBlock: how far the program gets with these values.                *)

Halted(m) == m.status \notin {"new", "running"}

\* Two steps for each unit at most, one to validate and one to end.
StepBound(tx) == 2 * tx.maxUnits + 2

Replay(tx, vals) ==
  LET run[n \in 0 .. StepBound(tx)] ==
        IF n = 0 THEN NewRun
        ELSE LET m == run[n - 1]
                 wants == Wants(tx, m) # NoKey
             IN IF Halted(m) \/ (wants /\ Len(m.fetched) = Len(vals)) THEN m
                ELSE Step(tx, m, IF wants THEN vals[Len(m.fetched) + 1] ELSE Nil, FALSE)
  IN run[StepBound(tx)]

ProgramRead(tx, vals) == LET m == Replay(tx, vals) IN IF Halted(m) THEN NoKey ELSE Wants(tx, m)
ProgramWrites(tx, vals) == Committed(Replay(tx, vals))
=============================================================================
