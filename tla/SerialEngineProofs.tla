-------------------------- MODULE SerialEngineProofs --------------------------
(***************************************************************************)
(* The serial engine computes the serial result, or leaves the caller's    *)
(* state alone; its arithmetic is exact and its work paid for: for every   *)
(* width of the words, every set of calls, every answer of the policy and  *)
(* a context that ends at any moment.                                      *)
(***************************************************************************)
EXTENDS SerialEngineInv, WellFoundedInduction, SequenceTheorems, TLAPS

(***************************************************************************)
(* Words                                                                   *)
(***************************************************************************)
LEMMA Widths ==
  /\ Half \in Nat /\ Half > 0 /\ Words = 2 * Half /\ Words \in Nat /\ Words > 0
  /\ MaxUint = Words - 1 /\ MinInt = -Half /\ MaxInt = Half - 1
BY RuntimeAssumption DEF Words, MaxUint, MinInt, MaxInt

(* The remainder of a number next to the range of a word.                  *)
LEMMA Remainder ==
  ASSUME NEW x \in Int, NEW w \in Nat, w > 0
  PROVE  /\ x % w \in 0 .. w - 1
         /\ x \in 0 .. w - 1 => x % w = x
         /\ x \in w .. 2 * w - 1 => x % w = x - w
         /\ x \in -w .. -1 => x % w = x + w
<1>1. x % w \in 0 .. w - 1 OBVIOUS
<1>2. ASSUME x \in 0 .. w - 1 PROVE x % w = x BY <1>2
<1>3. ASSUME x \in w .. 2 * w - 1 PROVE x % w = x - w BY <1>3
<1>4. ASSUME x \in -w .. -1 PROVE x % w = x + w BY <1>4
<1> QED BY <1>1, <1>2, <1>3, <1>4

(* Wrap returns an int64, and the number itself when that is one.          *)
LEMMA WrapRange ==
  ASSUME NEW n \in Int
  PROVE  /\ Wrap(n) \in MinInt .. MaxInt
         /\ n \in MinInt .. MaxInt => Wrap(n) = n
<1> DEFINE x == n - MinInt
<1>1. x \in Int /\ Words \in Nat /\ Words > 0 BY Widths
<1>2. x % Words \in 0 .. Words - 1 /\ (x \in 0 .. Words - 1 => x % Words = x)
  BY <1>1, Remainder
<1>3. Wrap(n) = (x % Words) + MinInt BY DEF Wrap
<1> HIDE DEF Wrap
<1> QED BY <1>2, <1>3, Widths

(* A word decodes to the number it was encoded from.                       *)
LEMMA RoundTrip ==
  ASSUME NEW n \in MinInt .. MaxInt
  PROVE  EncodeInt64(n) \in 0 .. MaxUint /\ DecodeInt64(EncodeInt64(n)) = n
<1>0. n \in Int /\ Words \in Nat /\ Words > 0 BY Widths
<1>1. /\ EncodeInt64(n) \in 0 .. Words - 1
      /\ n \in 0 .. Words - 1 => EncodeInt64(n) = n
      /\ n \in -Words .. -1 => EncodeInt64(n) = n + Words
  BY <1>0, Remainder DEF EncodeInt64
<1> DEFINE e == EncodeInt64(n)
<1> HIDE DEF e
<1>2. CASE n >= 0
  <2>1. n \in 0 .. Words - 1 BY <1>2, Widths
  <2> QED BY <1>0, <1>1, <2>1, WrapRange, Widths DEF DecodeInt64
<1>3. CASE n < 0
  <2>1. n \in -Words .. -1 BY <1>3, Widths
  <2>2. e = n + Words /\ e \in 0 .. MaxUint BY <1>1, <2>1, Widths DEF e
  <2>3. e - MinInt \in Words .. 2 * Words - 1 BY <1>0, <1>3, <2>2, Widths
  <2>4. (e - MinInt) % Words = e - MinInt - Words BY <1>0, <2>3, Remainder
  <2>5. Wrap(e) = n BY <1>0, <2>2, <2>4, Widths DEF Wrap
  <2> QED BY <2>2, <2>5 DEF DecodeInt64, e
<1> QED BY <1>0, <1>2, <1>3

(* The checks of evaluateExpression are exact.                             *)
LEMMA OverflowExact ==
  ASSUME NEW base \in MinInt .. MaxInt, NEW delta \in MinInt .. MaxInt
  PROVE  Overflows(base, delta) <=> base + delta \notin MinInt .. MaxInt
<1>0. base \in Int /\ delta \in Int /\ MinInt \in Int /\ MaxInt \in Int BY Widths
<1>1. ASSUME delta > 0 PROVE Wrap(MaxInt - delta) = MaxInt - delta
  <2>1. MaxInt - delta \in MinInt .. MaxInt BY <1>1, Widths
  <2> QED BY <2>1, WrapRange
<1>2. ASSUME delta < 0 PROVE Wrap(MinInt - delta) = MinInt - delta
  <2>1. MinInt - delta \in MinInt .. MaxInt BY <1>2, Widths
  <2> QED BY <2>1, WrapRange
<1>3. CASE delta > 0 BY <1>0, <1>1, <1>3, Widths DEF Overflows
<1>4. CASE delta < 0 BY <1>0, <1>2, <1>4, Widths DEF Overflows
<1>5. CASE delta = 0 BY <1>0, <1>5, Widths DEF Overflows
<1> QED BY <1>0, <1>3, <1>4, <1>5

(***************************************************************************)
(* Recursive functions                                                     *)
(***************************************************************************)
(* A set of natural numbers that is not empty has a least element.         *)
LEMMA LeastExists ==
  ASSUME NEW T \in SUBSET Nat, T # {}
  PROVE  \E m \in T : \A y \in T : m <= y
<1>1. PICK m \in T : \A y \in T : ~ (<<y, m>> \in OpToRel(<, Nat))
  BY NatLessThanWellFounded, WFMin
<1>2. \A y \in T : ~ (y < m)
  BY <1>1 DEF OpToRel
<1> QED BY <1>2

\* The equation of the recursive function of Iterations.
SumEquation(f, d, n) == f = [i \in 0 .. n |-> IF i = 0 THEN 0 ELSE f[i - 1] + d[i][2]]

LEMMA IterationsFunction ==
  ASSUME NEW d \in Seq(Nat \X Nat)
  PROVE  \E f : SumEquation(f, d, Len(d)) /\ Iterations(d) = f[Len(d)]
<1> DEFINE T == {n \in Nat : ~ \E f : SumEquation(f, d, n)}
<1>1. T = {}
  <2> SUFFICES ASSUME T # {} PROVE FALSE OBVIOUS
  <2>1. PICK n \in T : \A y \in T : n <= y BY LeastExists
  <2>2. SumEquation([m \in 0 .. 0 |-> 0], d, 0) BY DEF SumEquation
  <2>3. n # 0 BY <2>1, <2>2
  <2>4. PICK f : SumEquation(f, d, n - 1) BY <2>1, <2>3
  <2> DEFINE h == [m \in 0 .. n |-> IF m = n THEN f[n - 1] + d[n][2] ELSE f[m]]
  <2>5. ASSUME NEW m \in 0 .. n PROVE h[m] = IF m = 0 THEN 0 ELSE h[m - 1] + d[m][2]
    <3>1. \A i \in 0 .. n - 1 : f[i] = IF i = 0 THEN 0 ELSE f[i - 1] + d[i][2]
      BY <2>4 DEF SumEquation
    <3>2. m # 0 => m - 1 \in 0 .. n /\ m - 1 # n BY <2>1
    <3>3. m # n => m \in 0 .. n - 1 BY <2>1
    <3> QED BY <2>1, <2>3, <3>1, <3>2, <3>3
  <2>6. SumEquation(h, d, n) BY <2>5 DEF SumEquation
  <2> QED BY <2>1, <2>6
<1>2. \E f : SumEquation(f, d, Len(d)) BY <1>1, LenProperties
<1> DEFINE g == CHOOSE f : SumEquation(f, d, Len(d))
<1>3. SumEquation(g, d, Len(d)) BY <1>2
<1>4. Iterations(d) = g[Len(d)] BY DEF Iterations, SumEquation
<1> QED BY <1>3, <1>4

(* Iterations adds up the second components.                               *)
LEMMA IterationsAppend ==
  ASSUME NEW d \in Seq(Nat \X Nat), NEW e \in Nat \X Nat
  PROVE  Iterations(d) \in Nat /\ Iterations(Append(d, e)) = Iterations(d) + e[2]
<1> DEFINE q == Append(d, e)
           n == Len(d)
<1>1. /\ n \in Nat /\ \A i \in 1 .. n : d[i][2] \in Nat
      /\ q \in Seq(Nat \X Nat) /\ Len(q) = n + 1 /\ q[n + 1] = e /\ \A i \in 1 .. n : q[i] = d[i]
  BY AppendProperties, LenProperties, ElementOfSeq
<1>2. PICK f : SumEquation(f, d, n) /\ Iterations(d) = f[n] BY IterationsFunction
<1>3. PICK g : SumEquation(g, q, n + 1) /\ Iterations(q) = g[n + 1] BY <1>1, IterationsFunction
<1> HIDE DEF n, q
<1> DEFINE T == {i \in 0 .. n : ~ (f[i] \in Nat /\ g[i] = f[i])}
<1>7. n \in Nat /\ n + 1 \in Nat BY <1>1
<1>8. \A i \in 1 .. n : d[i][2] \in Nat /\ q[i][2] = d[i][2] BY <1>1
<1>9. \A i \in 0 .. n : f[i] = IF i = 0 THEN 0 ELSE f[i - 1] + d[i][2]
  BY <1>2 DEF SumEquation
<1>10. \A i \in 0 .. n + 1 : g[i] = IF i = 0 THEN 0 ELSE g[i - 1] + q[i][2]
  BY <1>3 DEF SumEquation
<1>4. T = {}
  <2> SUFFICES ASSUME T # {} PROVE FALSE OBVIOUS
  <2>1. PICK i \in T : \A y \in T : i <= y
    <3>1. T \in SUBSET Nat OBVIOUS
    <3> QED BY <3>1, LeastExists
  <2>2. f[0] = 0 /\ g[0] = 0 BY <1>7, <1>9, <1>10
  <2>3. i \in 1 .. n /\ i - 1 \in 0 .. n /\ i \in 0 .. n + 1 BY <1>7, <2>1, <2>2
  <2>4. f[i - 1] \in Nat /\ g[i - 1] = f[i - 1] BY <2>1, <2>3
  <2>5. f[i] = f[i - 1] + d[i][2] /\ g[i] = g[i - 1] + q[i][2]
    BY <1>9, <1>10, <2>3
  <2>6. PICK c \in Nat : d[i][2] = c /\ q[i][2] = c BY <1>8, <2>3
  <2>7. f[i] = f[i - 1] + c /\ g[i] = g[i - 1] + c BY <2>5, <2>6
  <2>8. f[i] \in Nat /\ g[i] = f[i] BY <2>4, <2>7
  <2> QED BY <2>1, <2>8
<1>5. f[n] \in Nat /\ g[n] = f[n]
  <2>1. n \in 0 .. n BY <1>7
  <2>2. n \notin T BY <1>4
  <2> QED BY <2>1, <2>2
<1>6. g[n + 1] = g[n] + q[n + 1][2]
  <2>1. n + 1 \in 0 .. n + 1 /\ n + 1 # 0 /\ (n + 1) - 1 = n BY <1>7
  <2> QED BY <1>10, <2>1
<1> QED BY <1>1, <1>2, <1>3, <1>5, <1>6 DEF q

LEMMA IterationsNone == Iterations(<< >>) = 0
<1>1. << >> \in Seq(Nat \X Nat) /\ Len(<< >>) = 0 BY EmptySeq
<1>2. PICK f : SumEquation(f, << >>, 0) /\ Iterations(<< >>) = f[0] BY <1>1, IterationsFunction
<1> QED BY <1>2 DEF SumEquation

(***************************************************************************)
(* A step of an execution                                                  *)
(***************************************************************************)
Opcodes == {"read", "write", "delete", "compute", "fail_if", "jump_if", "return"}

(* The types of a transaction.                                             *)
LEMMA TransactionTypes ==
  ASSUME NEW tx \in Transactions
  PROVE  /\ tx.maxUnits \in Nat /\ tx.maxUnits <= MaxUint
         /\ tx.program \in Seq(Instructions) /\ Len(tx.program) \in Nat
         /\ \A n \in 1 .. Len(tx.program) : tx.program[n] \in Instructions
<1>1. tx.maxUnits \in 0 .. MaxUint /\ tx.program \in Seq(Instructions) BY DEF Transactions
<1>2. tx.maxUnits \in Nat /\ tx.maxUnits <= MaxUint BY <1>1, Widths
<1> QED BY <1>1, <1>2, LenProperties, ElementOfSeq

LEMMA InstructionTypes ==
  ASSUME NEW i \in Instructions
  PROVE  /\ i.key \in Keys /\ i.target \in Int /\ i.units \in Nat
         /\ i.expression.delta \in MinInt .. MaxInt /\ i.expression.base.literal \in MinInt .. MaxInt
<1>1. i.units \in 0 .. MaxUint BY DEF Instructions
<1>2. i.units \in Nat BY <1>1, Widths
<1> QED BY <1>2 DEF Instructions, Operands

(* An instruction that passes Validate is known, and jumps into the        *)
(* program or to its end.                                                  *)
LEMMA ValidInstruction ==
  ASSUME NEW i \in Instructions, NEW l \in Nat, InstructionText(i, l) = NoFault
  PROVE  i.op \in Opcodes /\ (i.op = "jump_if" => i.target \in 0 .. l)
<1>1. i.op \in Opcodes BY DEF InstructionText, Opcodes, NoFault
<1>2. ASSUME i.op = "jump_if" PROVE i.target \in 0 .. l
  <2>1. PICK j \in Int : j = i.target BY InstructionTypes
  <2>2. ~ (j < 0 \/ j > l) BY <1>2, <2>1 DEF InstructionText, NoFault
  <2>3. j \in 0 .. l BY <2>2
  <2> QED BY <2>1, <2>3
<1> QED BY <1>1, <1>2

LEMMA ValidText ==
  ASSUME NEW tx \in Transactions, Validate(tx) = NoFault, NEW n \in 1 .. Len(tx.program)
  PROVE  InstructionText(tx.program[n], Len(tx.program)) = NoFault
<1> DEFINE text(j) == InstructionText(tx.program[j], Len(tx.program))
           wrong == {j \in DOMAIN tx.program : text(j) # NoFault}
<1> SUFFICES ASSUME text(n) # NoFault PROVE FALSE OBVIOUS
<1>0. PICK l \in Nat : l = Len(tx.program) /\ DOMAIN tx.program = 1 .. l
  BY TransactionTypes, LenProperties
<1>1. n \in wrong /\ wrong \subseteq 1 .. l BY <1>0
<1>2. Validate(tx) \in {"invalid_max_units", text(Min(wrong))} BY <1>1 DEF Validate, NoFault
<1>3. NoFault # "invalid_max_units" BY DEF NoFault
<1> HIDE DEF wrong
<1>4. wrong \in SUBSET Nat /\ wrong # {}
  <2>1. 1 .. l \subseteq Nat OBVIOUS
  <2> QED BY <1>1, <2>1
<1>5. \E j \in wrong : \A y \in wrong : j <= y BY <1>4, LeastExists
<1>6. Min(wrong) \in wrong BY <1>5 DEF Min
<1> QED BY <1>2, <1>3, <1>6 DEF wrong

(* An assignment to an entry of a map.                                     *)
LEMMA PutRegister ==
  ASSUME NEW registers, RegistersOK(registers), NEW r, NEW entry, entry.value \in MinInt .. MaxInt
  PROVE  RegistersOK(Put(registers, r, entry))
<1> DEFINE p == Put(registers, r, entry)
<1>1. DOMAIN p = DOMAIN registers \cup {r} BY DEF Put
<1>2. \A k \in DOMAIN p : p[k] = IF k = r THEN entry ELSE registers[k] BY DEF Put
<1> HIDE DEF p
<1>3. \A k \in DOMAIN p : p[k].value \in MinInt .. MaxInt BY <1>1, <1>2 DEF RegistersOK
<1> QED BY <1>3 DEF RegistersOK, p

LEMMA PutWrite ==
  ASSUME NEW writes, WritesOK(writes), NEW key \in Keys, NEW v \in 0 .. MaxUint \cup {Nil}
  PROVE  WritesOK(Put(writes, key, v))
<1> DEFINE p == Put(writes, key, v)
<1>1. DOMAIN p = DOMAIN writes \cup {key} BY DEF Put
<1>2. \A k \in DOMAIN p : p[k] = IF k = key THEN v ELSE writes[k] BY DEF Put
<1> HIDE DEF p
<1>3. \A k \in DOMAIN p : p[k] \in 0 .. MaxUint \cup {Nil} BY <1>1, <1>2 DEF WritesOK
<1> QED BY <1>1, <1>3 DEF WritesOK, p

(* An operand without a fault is an int64.                                 *)
LEMMA OperandRange ==
  ASSUME NEW o \in Operands, NEW registers, RegistersOK(registers), OperandFault(o, registers) = NoFault
  PROVE  OperandValue(o, registers) \in MinInt .. MaxInt
<1>1. o.kind = "literal" \/ (o.kind # "literal" /\ o.register \in DOMAIN registers)
  BY DEF OperandFault, NoFault
<1>2. CASE o.kind = "literal" BY <1>2 DEF OperandValue, Operands
<1>3. CASE o.kind # "literal" /\ o.register \in DOMAIN registers
  BY <1>3 DEF OperandValue, RegistersOK
<1> QED BY <1>1, <1>2, <1>3

(* An expression whose operand has no fault overflows exactly when its sum *)
(* is no int64, and is its sum otherwise.                                  *)
LEMMA ExpressionExact ==
  ASSUME NEW i \in Instructions, NEW registers, RegistersOK(registers), NEW sum,
         sum = OperandValue(i.expression.base, registers) + i.expression.delta,
         OperandFault(i.expression.base, registers) = NoFault
  PROVE  /\ sum \in MinInt .. MaxInt =>
              ExpressionFault(i.expression, registers) = NoFault /\ ExpressionValue(i.expression, registers) = sum
         /\ sum \notin MinInt .. MaxInt => ExpressionFault(i.expression, registers) = "arithmetic_overflow"
<1> DEFINE e == i.expression
<1>1. e.base \in Operands /\ e.delta \in MinInt .. MaxInt BY DEF Instructions
<1>2. OperandValue(e.base, registers) \in MinInt .. MaxInt BY <1>1, OperandRange
<1>3. Overflows(OperandValue(e.base, registers), e.delta) <=> sum \notin MinInt .. MaxInt
  BY <1>1, <1>2, OverflowExact
<1>4. sum \in MinInt .. MaxInt => ExpressionValue(e, registers) = sum
  <2>1. sum \in MinInt .. MaxInt => Wrap(sum) = sum BY WrapRange, Widths
  <2> QED BY <2>1 DEF ExpressionValue
<1>5. ExpressionFault(e, registers) =
        IF Overflows(OperandValue(e.base, registers), e.delta) THEN "arithmetic_overflow" ELSE NoFault
  BY DEF ExpressionFault, NoFault
<1> HIDE DEF e
<1>6. sum \in MinInt .. MaxInt => ExpressionFault(e, registers) = NoFault
  BY <1>3, <1>5
<1>7. sum \notin MinInt .. MaxInt => ExpressionFault(e, registers) = "arithmetic_overflow"
  BY <1>3, <1>5
<1> QED BY <1>4, <1>6, <1>7 DEF e

(* So an expression without a fault is a word.                             *)
LEMMA ExpressionWord ==
  ASSUME NEW i \in Instructions, NEW registers, RegistersOK(registers),
         ExpressionFault(i.expression, registers) = NoFault
  PROVE  EncodeInt64(ExpressionValue(i.expression, registers)) \in 0 .. MaxUint
<1> DEFINE sum == OperandValue(i.expression.base, registers) + i.expression.delta
<1>1. OperandFault(i.expression.base, registers) = NoFault BY DEF ExpressionFault, NoFault
<1>2. NoFault # "arithmetic_overflow" BY DEF NoFault
<1> HIDE DEF sum
<1>3. sum \in MinInt .. MaxInt BY <1>1, <1>2, ExpressionExact DEF sum
<1>4. ExpressionValue(i.expression, registers) = sum BY <1>1, <1>3, ExpressionExact DEF sum
<1> QED BY <1>3, <1>4, RoundTrip

\* What an instruction but compute does to a run m of a program of length l.
Performed(m, i, below, l, r) ==
  /\ DOMAIN r = RunFields /\ r.unitsUsed = m.unitsUsed /\ r.digest = m.digest /\ r.loop = m.loop
  /\ r.ordinal \in {m.ordinal, m.ordinal + 1}
  /\ RegistersOK(r.registers) /\ WritesOK(r.writes)
  /\ r.fetched = IF i.op = "read" /\ i.key \notin DOMAIN m.writes THEN Append(m.fetched, below) ELSE m.fetched
  /\ \/ r.status = m.status /\ r.code = m.code /\ r.pc \in 0 .. l
     \/ r.status \in Endings \ {"cancelled"} /\ r.pc = m.pc

Performing(m, i, below, l) ==
  /\ DOMAIN m = RunFields /\ m.pc \in Nat /\ m.pc < l /\ m.ordinal \in Nat
  /\ RegistersOK(m.registers) /\ WritesOK(m.writes)
  /\ i \in Instructions /\ (i.op = "jump_if" => i.target \in 0 .. l)
  /\ below \in Stored /\ l \in Nat

LEMMA ReadPerformed ==
  ASSUME NEW m, NEW i, NEW below, NEW l, Performing(m, i, below, l), i.op = "read"
  PROVE  Performed(m, i, below, l, ExecuteRead(m, i, below))
<1> DEFINE own == i.key \in DOMAIN m.writes
           raw == IF own THEN m.writes[i.key] ELSE below
           n == [m EXCEPT !.ordinal = @ + 1, !.fetched = IF own THEN @ ELSE Append(@, below)]
           entry == [value |-> IF raw = Nil THEN 0 ELSE DecodeInt64(raw), exists |-> raw # Nil]
           regs == Put(n.registers, i.register, entry)
           rds == Append(n.reads, [key |-> i.key, value |-> raw])
<1>1. ExecuteRead(m, i, below) = IF raw = Malformed THEN Ended(n, "invalid_state", "invalid_state_value")
                                 ELSE [n EXCEPT !.registers = regs, !.reads = rds, !.pc = @ + 1]
  BY DEF ExecuteRead
<1>2. /\ DOMAIN n = RunFields /\ n.ordinal = m.ordinal + 1
      /\ n.fetched = IF own THEN m.fetched ELSE Append(m.fetched, below)
      /\ n.pc = m.pc /\ n.unitsUsed = m.unitsUsed /\ n.digest = m.digest /\ n.loop = m.loop
      /\ n.registers = m.registers /\ n.writes = m.writes /\ n.status = m.status /\ n.code = m.code
  BY DEF Performing, RunFields
<1>3. ASSUME raw # Malformed PROVE RegistersOK(regs)
  <2>1. raw \in 0 .. MaxUint \cup {Nil} BY <1>3 DEF Performing, WritesOK, Stored
  <2>2. ASSUME raw # Nil PROVE DecodeInt64(raw) \in MinInt .. MaxInt
    <3>1. raw \in Int BY <2>1, <2>2, Widths
    <3> HIDE DEF raw
    <3>2. Wrap(raw) \in MinInt .. MaxInt BY <3>1, WrapRange
    <3> QED BY <3>2 DEF DecodeInt64
  <2>3. 0 \in MinInt .. MaxInt BY Widths
  <2>4. entry.value \in MinInt .. MaxInt
    <3> HIDE DEF raw
    <3> QED BY <2>2, <2>3
  <2> HIDE DEF entry, n
  <2> QED BY <1>2, <2>4, PutRegister DEF Performing
<1> HIDE DEF n, raw, entry, regs, rds
<1>4. CASE raw = Malformed
  <2>1. ExecuteRead(m, i, below) = [n EXCEPT !.status = "invalid_state", !.code = "invalid_state_value"]
    BY <1>1, <1>4 DEF Ended
  <2> QED BY <1>2, <2>1 DEF Performing, Performed, RunFields, Endings
<1>5. CASE raw # Malformed
  <2>1. ExecuteRead(m, i, below) = [n EXCEPT !.registers = regs, !.reads = rds, !.pc = @ + 1]
    BY <1>1, <1>5
  <2>2. m.pc + 1 \in 0 .. l BY DEF Performing
  <2> QED BY <1>2, <1>3, <1>5, <2>1, <2>2 DEF Performing, Performed, RunFields
<1> QED BY <1>4, <1>5

(* An evaluation error ends the run where it is.                           *)
LEMMA ErrorEnds ==
  ASSUME NEW m, DOMAIN m = RunFields, NEW fault, NEW r, r = EvaluationError(m, fault)
  PROVE  /\ DOMAIN r = RunFields /\ r.status \in Endings \ {"cancelled"} /\ r.code = fault
         /\ r.pc = m.pc /\ r.unitsUsed = m.unitsUsed /\ r.digest = m.digest /\ r.loop = m.loop
         /\ r.ordinal = m.ordinal /\ r.registers = m.registers /\ r.writes = m.writes
         /\ r.fetched = m.fetched /\ r.value = m.value
<1>1. PICK s \in {"arithmetic_error", "invalid_program"} : r = [m EXCEPT !.status = s, !.code = fault]
  BY DEF EvaluationError, Ended
<1> QED BY <1>1 DEF RunFields, Endings

LEMMA WritePerformed ==
  ASSUME NEW m, NEW i, NEW below, NEW l, Performing(m, i, below, l), i.op = "write"
  PROVE  Performed(m, i, below, l, ExecuteWrite(m, i))
<1> DEFINE n == [m EXCEPT !.ordinal = @ + 1]
           fault == ExpressionFault(i.expression, m.registers)
           word == EncodeInt64(ExpressionValue(i.expression, m.registers))
           ws == Put(m.writes, i.key, word)
<1>1. /\ DOMAIN n = RunFields /\ n.ordinal = m.ordinal + 1 /\ n.fetched = m.fetched
      /\ n.pc = m.pc /\ n.unitsUsed = m.unitsUsed /\ n.digest = m.digest /\ n.loop = m.loop
      /\ n.registers = m.registers /\ n.writes = m.writes /\ n.status = m.status /\ n.code = m.code
  BY DEF Performing, RunFields
<1>2. ExecuteWrite(m, i) = IF fault # NoFault THEN EvaluationError(n, fault)
                           ELSE [n EXCEPT !.writes = Put(@, i.key, word), !.pc = @ + 1]
  BY DEF ExecuteWrite, NoFault
<1>3. ASSUME fault = NoFault PROVE WritesOK(ws)
  <2>1. word \in 0 .. MaxUint \cup {Nil} BY <1>3, ExpressionWord DEF Performing
  <2>2. i.key \in Keys BY InstructionTypes DEF Performing
  <2> HIDE DEF word
  <2> QED BY <2>1, <2>2, PutWrite DEF Performing
<1> HIDE DEF n, fault, word
<1>4. CASE fault # NoFault
  <2> DEFINE r == EvaluationError(n, fault)
  <2>1. ExecuteWrite(m, i) = r BY <1>2, <1>4
  <2> HIDE DEF r
  <2>2. /\ DOMAIN r = RunFields /\ r.status \in Endings \ {"cancelled"}
        /\ r.pc = m.pc /\ r.unitsUsed = m.unitsUsed /\ r.digest = m.digest /\ r.loop = m.loop
        /\ r.ordinal = m.ordinal + 1 /\ r.registers = m.registers /\ r.writes = m.writes
        /\ r.fetched = m.fetched
    BY <1>1, ErrorEnds DEF r
  <2> QED BY <2>1, <2>2 DEF Performing, Performed
<1>5. CASE fault = NoFault
  <2>1. ExecuteWrite(m, i) = [n EXCEPT !.writes = ws, !.pc = @ + 1]
    BY <1>1, <1>2, <1>5 DEF RunFields
  <2>2. m.pc + 1 \in 0 .. l BY DEF Performing
  <2> HIDE DEF ws
  <2> QED BY <1>1, <1>3, <1>5, <2>1, <2>2 DEF Performing, Performed, RunFields
<1> QED BY <1>4, <1>5

LEMMA DeletePerformed ==
  ASSUME NEW m, NEW i, NEW below, NEW l, Performing(m, i, below, l), i.op = "delete"
  PROVE  Performed(m, i, below, l, ExecuteDelete(m, i))
<1> DEFINE ws == Put(m.writes, i.key, Nil)
<1>1. WritesOK(ws)
  <2>1. i.key \in Keys BY InstructionTypes DEF Performing
  <2> QED BY <2>1, PutWrite DEF Performing
<1>2. ExecuteDelete(m, i) = [m EXCEPT !.ordinal = @ + 1, !.writes = ws, !.pc = @ + 1]
  BY DEF ExecuteDelete, Performing, RunFields
<1>3. m.pc + 1 \in 0 .. l BY DEF Performing
<1> HIDE DEF ws
<1> QED BY <1>1, <1>2, <1>3 DEF Performing, Performed, RunFields

LEMMA FailIfPerformed ==
  ASSUME NEW m, NEW i, NEW below, NEW l, Performing(m, i, below, l), i.op = "fail_if"
  PROVE  Performed(m, i, below, l, ExecuteFailIf(m, i))
<1>1. \/ \E fault : ExecuteFailIf(m, i) = EvaluationError(m, fault)
      \/ ExecuteFailIf(m, i) = [m EXCEPT !.status = "failed", !.code = i.code]
      \/ ExecuteFailIf(m, i) = [m EXCEPT !.pc = @ + 1]
  BY DEF ExecuteFailIf, Ended
<1>2. ASSUME NEW fault, ExecuteFailIf(m, i) = EvaluationError(m, fault)
      PROVE  Performed(m, i, below, l, ExecuteFailIf(m, i))
  BY <1>2, ErrorEnds DEF Performing, Performed
<1>3. CASE ExecuteFailIf(m, i) = [m EXCEPT !.status = "failed", !.code = i.code]
  BY <1>3 DEF Performing, Performed, RunFields, Endings
<1>4. CASE ExecuteFailIf(m, i) = [m EXCEPT !.pc = @ + 1]
  <2>1. m.pc + 1 \in 0 .. l BY DEF Performing
  <2> QED BY <1>4, <2>1 DEF Performing, Performed, RunFields
<1> QED BY <1>1, <1>2, <1>3, <1>4

LEMMA JumpIfPerformed ==
  ASSUME NEW m, NEW i, NEW below, NEW l, Performing(m, i, below, l), i.op = "jump_if"
  PROVE  Performed(m, i, below, l, ExecuteJumpIf(m, i))
<1>1. \/ \E fault : ExecuteJumpIf(m, i) = EvaluationError(m, fault)
      \/ \E p \in {i.target, m.pc + 1} : ExecuteJumpIf(m, i) = [m EXCEPT !.ordinal = @ + 1, !.pc = p]
  BY DEF ExecuteJumpIf, Performing, RunFields
<1>2. ASSUME NEW fault, ExecuteJumpIf(m, i) = EvaluationError(m, fault)
      PROVE  Performed(m, i, below, l, ExecuteJumpIf(m, i))
  BY <1>2, ErrorEnds DEF Performing, Performed
<1>3. ASSUME NEW p \in {i.target, m.pc + 1}, ExecuteJumpIf(m, i) = [m EXCEPT !.ordinal = @ + 1, !.pc = p]
      PROVE  Performed(m, i, below, l, ExecuteJumpIf(m, i))
  <2>1. p \in 0 .. l BY <1>3 DEF Performing
  <2> QED BY <1>3, <2>1 DEF Performing, Performed, RunFields
<1> QED BY <1>1, <1>2, <1>3

LEMMA ReturnPerformed ==
  ASSUME NEW m, NEW i, NEW below, NEW l, Performing(m, i, below, l), i.op = "return"
  PROVE  Performed(m, i, below, l, ExecuteReturn(m, i))
<1> DEFINE word == EncodeInt64(ExpressionValue(i.expression, m.registers))
<1>1. \/ \E fault : ExecuteReturn(m, i) = EvaluationError(m, fault)
      \/ ExecuteReturn(m, i) = [Ended(m, "success", NoFault) EXCEPT !.value = word]
  BY DEF ExecuteReturn, NoFault
<1>2. ASSUME NEW fault, ExecuteReturn(m, i) = EvaluationError(m, fault)
      PROVE  Performed(m, i, below, l, ExecuteReturn(m, i))
  BY <1>2, ErrorEnds DEF Performing, Performed
<1> HIDE DEF word
<1>3. CASE ExecuteReturn(m, i) = [Ended(m, "success", NoFault) EXCEPT !.value = word]
  BY <1>3 DEF Performing, Performed, RunFields, Endings, Ended
<1> QED BY <1>1, <1>2, <1>3

(* The instruction that a run is at, and its types.                        *)
LEMMA CurrentTypes ==
  ASSUME NEW tx \in Transactions, NEW m, RunOK(tx, m), m.status = "running", m.pc < Len(tx.program)
  PROVE  /\ Current(tx, m) \in Instructions /\ Current(tx, m).op \in Opcodes
         /\ Current(tx, m).op = "jump_if" => Current(tx, m).target \in 0 .. Len(tx.program)
<1>1. PICK l \in Nat : l = Len(tx.program) BY TransactionTypes
<1>2. m.pc \in Nat BY DEF RunOK, RunTypeOK
<1>3. m.pc + 1 \in 1 .. l BY <1>1, <1>2
<1>4. Current(tx, m) = tx.program[m.pc + 1] /\ tx.program[m.pc + 1] \in Instructions
  BY <1>1, <1>3, TransactionTypes DEF Current
<1>5. Validate(tx) = NoFault BY DEF RunOK, PlaceOK
<1>6. InstructionText(tx.program[m.pc + 1], l) = NoFault BY <1>1, <1>3, <1>5, ValidText
<1> QED BY <1>1, <1>4, <1>6, ValidInstruction

\* What a step may do to a run m.
Cancels(m, r) == r = [m EXCEPT !.status = "cancelled", !.code = "cancelled"]
LoopEnds(tx, m, r) ==
  /\ m.loop >= 0 /\ m.loop = Current(tx, m).units
  /\ r = [m EXCEPT !.loop = -1, !.digest = Append(@, <<m.pc, Current(tx, m).units>>), !.pc = @ + 1]
LoopRuns(tx, m, r) ==
  /\ m.loop >= 0
  /\ \E x \in m.loop + 1 .. Current(tx, m).units : r = [m EXCEPT !.loop = x]
Finishes(tx, m, r) ==
  /\ m.status = "running" /\ ~ AtInstruction(tx, m) /\ m.loop = -1
  /\ r = [m EXCEPT !.status = "success", !.code = NoFault]
Validates(tx, m, r) ==
  /\ m.status = "new"
  /\ \/ \E fault : r = [m EXCEPT !.status = "invalid_program", !.code = fault]
     \/ Validate(tx) = NoFault /\ r = [m EXCEPT !.status = "running"]
Executing(tx, m) == AtInstruction(tx, m) /\ m.loop = -1
RunsOut(tx, m, r) ==
  /\ Executing(tx, m) /\ ~ Affordable(tx, m, Current(tx, m))
  /\ r = [m EXCEPT !.status = "out_of_gas", !.code = "out_of_gas", !.unitsUsed = tx.maxUnits]
Computes(tx, m, r) ==
  /\ Executing(tx, m) /\ Current(tx, m).op = "compute"
  /\ m.unitsUsed + Current(tx, m).units + 1 <= tx.maxUnits
  /\ r = [m EXCEPT !.unitsUsed = @ + (Current(tx, m).units + 1), !.loop = 0]
Charged(m) == [m EXCEPT !.unitsUsed = @ + 1]
Performs(tx, m, below, r) ==
  /\ Executing(tx, m) /\ Current(tx, m).op \in Opcodes \ {"compute"}
  /\ Affordable(tx, m, Current(tx, m)) /\ m.unitsUsed + 1 <= tx.maxUnits
  /\ Performed(Charged(m), Current(tx, m), below, Len(tx.program), r)

LEMMA ChargedFields ==
  ASSUME NEW m, RunTypeOK(m)
  PROVE  LET n == Charged(m)
         IN /\ DOMAIN n = RunFields /\ n.unitsUsed = m.unitsUsed + 1
            /\ n.pc = m.pc /\ n.loop = m.loop /\ n.registers = m.registers /\ n.writes = m.writes
            /\ n.fetched = m.fetched /\ n.ordinal = m.ordinal /\ n.digest = m.digest
            /\ n.status = m.status /\ n.code = m.code
BY DEF Charged, RunTypeOK, RunFields

(* A loop goes on by ComputeCheck iterations, or to its end.               *)
LEMMA LoopStep ==
  ASSUME NEW tx \in Transactions, NEW m, RunOK(tx, m), m.status = "running", m.loop >= 0,
         NEW c \in BOOLEAN, NEW r, r = ComputeChunk(m, Current(tx, m), c)
  PROVE  Cancels(m, r) \/ LoopEnds(tx, m, r) \/ LoopRuns(tx, m, r)
<1> DEFINE i == Current(tx, m)
<1>1. m.loop \in Int /\ m.pc < Len(tx.program) /\ m.loop <= i.units
  BY DEF RunOK, RunTypeOK, PlaceOK
<1>2. i.units \in Nat BY <1>1, CurrentTypes, InstructionTypes
<1> HIDE DEF i
<1>3. CASE m.loop = i.units
  BY <1>3 DEF ComputeChunk, LoopEnds, i
<1>4. CASE m.loop # i.units /\ c
  BY <1>4 DEF ComputeChunk, Cancels, Ended, i
<1>5. CASE m.loop # i.units /\ ~ c
  <2> DEFINE x == Min({m.loop + ComputeCheck, i.units})
  <2>1. r = [m EXCEPT !.loop = x] BY <1>5 DEF ComputeChunk, i, RunOK, RunTypeOK, RunFields
  <2>2. x \in m.loop + 1 .. i.units
    <3>1. PICK a \in Int : a = m.loop /\ a < i.units BY <1>1, <1>2, <1>5
    <3>2. ComputeCheck \in Nat /\ ComputeCheck > 0 BY RuntimeAssumption
    <3>3. \E y \in {a + ComputeCheck, i.units} : \A z \in {a + ComputeCheck, i.units} : y <= z
      BY <1>2, <3>1, <3>2
    <3>4. x \in {a + ComputeCheck, i.units} /\ x <= i.units BY <3>1, <3>3 DEF Min
    <3> HIDE DEF x
    <3> QED BY <1>2, <3>1, <3>2, <3>4
  <2> HIDE DEF x
  <2> QED BY <2>1, <2>2 DEF LoopRuns, i
<1> QED BY <1>3, <1>4, <1>5

(* An instruction that can be paid for.                                    *)
LEMMA PerformStep ==
  ASSUME NEW tx \in Transactions, NEW m, RunOK(tx, m), Executing(tx, m), NEW below \in Stored, NEW r,
         Affordable(tx, m, Current(tx, m)),
         r = Perform([m EXCEPT !.unitsUsed = @ + Cost(Current(tx, m))], Current(tx, m), below)
  PROVE  Computes(tx, m, r) \/ Performs(tx, m, below, r)
<1> DEFINE i == Current(tx, m)
           l == Len(tx.program)
<1>0. m.status = "running" /\ m.pc < l BY DEF Executing, AtInstruction
<1>1. i \in Instructions /\ i.op \in Opcodes /\ (i.op = "jump_if" => i.target \in 0 .. l)
  BY <1>0, CurrentTypes
<1>2. i.units \in Nat /\ m.unitsUsed \in Nat /\ tx.maxUnits \in Nat /\ l \in Nat
  BY <1>1, InstructionTypes, TransactionTypes DEF RunOK, RunTypeOK
<1>3. Affordable(tx, m, i) /\ r = Perform([m EXCEPT !.unitsUsed = @ + Cost(i)], i, below) OBVIOUS
<1>4. CASE i.op = "compute"
  <2>1. Cost(i) = i.units + 1 BY <1>4 DEF Cost
  <2>2. m.unitsUsed + i.units + 1 <= tx.maxUnits BY <1>2, <1>3, <2>1 DEF Affordable
  <2>3. r = [[m EXCEPT !.unitsUsed = @ + (i.units + 1)] EXCEPT !.loop = 0]
    BY <1>3, <1>4, <2>1 DEF Perform
  <2>4. r = [m EXCEPT !.unitsUsed = @ + (i.units + 1), !.loop = 0]
    BY <2>3 DEF RunOK, RunTypeOK, RunFields
  <2> QED BY <1>4, <2>2, <2>4 DEF Computes
<1>5. CASE i.op # "compute"
  <2>1. Cost(i) = 1 BY <1>5 DEF Cost
  <2>2. m.unitsUsed + 1 <= tx.maxUnits BY <1>2, <1>3, <2>1 DEF Affordable
  <2> DEFINE n == Charged(m)
  <2>3. r = Perform(n, i, below) BY <1>3, <2>1 DEF Charged
  <2>4. Performing(n, i, below, l)
    BY <1>0, <1>1, <1>2, ChargedFields DEF Performing, RunOK, RunTypeOK
  <2> HIDE DEF n, i, l
  <2>5. Performed(n, i, below, l, r)
    <3>1. CASE i.op = "read" BY <2>3, <2>4, <3>1, ReadPerformed DEF Perform
    <3>2. CASE i.op = "write" BY <2>3, <2>4, <3>2, WritePerformed DEF Perform
    <3>3. CASE i.op = "delete" BY <2>3, <2>4, <3>3, DeletePerformed DEF Perform
    <3>4. CASE i.op = "fail_if" BY <2>3, <2>4, <3>4, FailIfPerformed DEF Perform
    <3>5. CASE i.op = "jump_if" BY <2>3, <2>4, <3>5, JumpIfPerformed DEF Perform
    <3>6. CASE i.op = "return" BY <2>3, <2>4, <3>6, ReturnPerformed DEF Perform
    <3> QED BY <1>1, <1>5, <3>1, <3>2, <3>3, <3>4, <3>5, <3>6 DEF Opcodes
  <2>6. i.op \in Opcodes \ {"compute"} BY <1>1, <1>5
  <2> QED BY <1>3, <2>2, <2>5, <2>6 DEF Performs, n, i, l
<1> QED BY <1>4, <1>5

(* What the steps of an execution are.                                     *)
LEMMA StepResult ==
  ASSUME NEW tx \in Transactions, NEW m, RunOK(tx, m), ~ Halted(m), NEW below \in Stored,
         NEW c \in BOOLEAN, NEW r, r = Step(tx, m, below, c)
  PROVE  \/ Cancels(m, r) /\ c
         \/ LoopEnds(tx, m, r) \/ LoopRuns(tx, m, r)
         \/ Finishes(tx, m, r) \/ Validates(tx, m, r) \/ RunsOut(tx, m, r)
         \/ Computes(tx, m, r) \/ Performs(tx, m, below, r)
<1>0. m.status \in {"new", "running"} BY DEF Halted
<1>1. m.pc \in Nat /\ m.loop \in Int /\ m.loop >= -1 /\ Len(tx.program) \in Nat
  BY TransactionTypes DEF RunOK, RunTypeOK
<1>2. m.loop >= 0 => m.status = "running"
  BY <1>0 DEF RunOK, PlaceOK
<1>3. CASE m.loop >= 0
  <2>1. r = ComputeChunk(m, Current(tx, m), c) BY <1>3 DEF Step
  <2>2. Cancels(m, r) \/ LoopEnds(tx, m, r) \/ LoopRuns(tx, m, r) BY <1>2, <1>3, <2>1, LoopStep
  <2>3. ~ c => ~ Cancels(m, r)
    <3> SUFFICES ASSUME ~ c, Cancels(m, r) PROVE FALSE OBVIOUS
    <3>1. r.status = "running" BY <1>2, <1>3, <2>1 DEF ComputeChunk, RunOK, RunTypeOK, RunFields
    <3>2. r.status = "cancelled" BY DEF Cancels, RunOK, RunTypeOK, RunFields
    <3> QED BY <3>1, <3>2
  <2> QED BY <2>2, <2>3
<1>4. CASE ~ (m.loop >= 0)
  <2>0. m.loop = -1 BY <1>1, <1>4
  <2>1. CASE m.status = "running" /\ m.pc >= Len(tx.program)
    <3>1. ~ AtInstruction(tx, m) BY <1>1, <2>1 DEF AtInstruction
    <3>2. r = [m EXCEPT !.status = "success", !.code = NoFault] BY <1>4, <2>1 DEF Step, Ended, NoFault
    <3> QED BY <2>0, <2>1, <3>1, <3>2 DEF Finishes
  <2>2. CASE ~ (m.status = "running" /\ m.pc >= Len(tx.program)) /\ c
    <3>1. r = Ended(m, "cancelled", "cancelled") BY <1>4, <2>2 DEF Step
    <3> QED BY <2>2, <3>1 DEF Cancels, Ended
  <2>3. CASE m.status = "new" /\ ~ c
    <3>1. \/ r = Ended(m, "invalid_program", Validate(tx))
          \/ Validate(tx) = NoFault /\ r = [m EXCEPT !.status = "running"]
      BY <1>4, <2>3 DEF Step, NoFault
    <3> QED BY <2>3, <3>1 DEF Validates, Ended
  <2>4. CASE m.status = "running" /\ ~ (m.pc >= Len(tx.program)) /\ ~ c
    <3>1. Executing(tx, m) BY <1>1, <2>0, <2>4 DEF Executing, AtInstruction
    <3>2. CASE ~ Affordable(tx, m, Current(tx, m))
      <4>1. r = [Ended(m, "out_of_gas", "out_of_gas") EXCEPT !.unitsUsed = tx.maxUnits]
        BY <1>4, <2>4, <3>2 DEF Step
      <4>2. r = [m EXCEPT !.status = "out_of_gas", !.code = "out_of_gas", !.unitsUsed = tx.maxUnits]
        BY <4>1 DEF Ended
      <4> QED BY <3>1, <3>2, <4>2 DEF RunsOut
    <3>3. CASE Affordable(tx, m, Current(tx, m))
      <4>1. r = Perform([m EXCEPT !.unitsUsed = @ + Cost(Current(tx, m))], Current(tx, m), below)
        BY <1>4, <2>4, <3>3 DEF Step
      <4> QED BY <3>1, <3>3, <4>1, PerformStep
    <3> QED BY <3>2, <3>3
  <2> QED BY <1>0, <2>1, <2>2, <2>3, <2>4
<1> QED BY <1>3, <1>4

(* A step that is not cut short does what it does in a live context.       *)
LEMMA StepCalm ==
  ASSUME NEW tx, NEW m, DOMAIN m = RunFields, NEW below, NEW c \in BOOLEAN,
         Step(tx, m, below, c).status # "cancelled"
  PROVE  Step(tx, m, below, c) = Step(tx, m, below, FALSE)
<1>1. Ended(m, "cancelled", "cancelled").status = "cancelled" BY DEF Ended, RunFields
<1>2. ComputeChunk(m, Current(tx, m), c).status # "cancelled"
      => ComputeChunk(m, Current(tx, m), c) = ComputeChunk(m, Current(tx, m), FALSE)
  BY <1>1 DEF ComputeChunk
<1> QED BY <1>1, <1>2 DEF Step

(* A step keeps what is known of an execution.                             *)
LEMMA StepKeeps ==
  ASSUME NEW tx \in Transactions, NEW m, RunOK(tx, m), ~ Halted(m), NEW below \in Stored,
         NEW c \in BOOLEAN, NEW r, r = Step(tx, m, below, c)
  PROVE  RunOK(tx, r)
<1> DEFINE i == Current(tx, m)
           l == Len(tx.program)
<1>0. RunTypeOK(m) /\ PlaceOK(tx, m) /\ ChargeOK(tx, m) BY DEF RunOK
<1>1. /\ tx.maxUnits \in Nat /\ l \in Nat /\ m.pc \in Nat /\ m.unitsUsed \in Nat /\ m.ordinal \in Nat
      /\ m.loop \in Int /\ m.loop >= -1 /\ m.unitsUsed <= tx.maxUnits /\ Iterations(m.digest) \in Nat
  <2>1. <<0, 0>> \in Nat \X Nat OBVIOUS
  <2>2. Iterations(m.digest) \in Nat BY <1>0, <2>1, IterationsAppend DEF RunTypeOK
  <2> QED BY <1>0, <2>2, TransactionTypes DEF RunTypeOK, ChargeOK
<1>2. m.status \in {"new", "running"} BY DEF Halted
<1>3. ASSUME m.status = "running", m.pc < l PROVE i \in Instructions /\ i.units \in Nat
  BY <1>3, CurrentTypes, InstructionTypes
<1>4. ASSUME m.loop = -1 PROVE m.ordinal + Iterations(m.digest) <= m.unitsUsed
  BY <1>0, <1>1, <1>4 DEF ChargeOK
<1>5. CASE Cancels(m, r)
  <2>1. RunTypeOK(r) BY <1>0, <1>5 DEF Cancels, RunTypeOK, RunFields, Endings
  <2>2. /\ r.loop = m.loop /\ r.pc = m.pc /\ r.status = "cancelled" /\ r.digest = m.digest
        /\ r.ordinal = m.ordinal /\ r.unitsUsed = m.unitsUsed
    BY <1>0, <1>5 DEF Cancels, RunTypeOK, RunFields
  <2>3. PlaceOK(tx, r) BY <1>0, <2>2 DEF PlaceOK, Current
  <2>4. ChargeOK(tx, r) BY <1>0, <2>2 DEF ChargeOK, Current
  <2> QED BY <2>1, <2>3, <2>4 DEF RunOK
<1>6. CASE LoopEnds(tx, m, r)
  <2>1. m.status = "running" /\ m.pc < l BY <1>0, <1>2, <1>6 DEF LoopEnds, PlaceOK
  <2>2. i.units \in Nat BY <1>3, <2>1
  <2>3. <<m.pc, i.units>> \in Nat \X Nat BY <1>1, <2>2
  <2> DEFINE d == Append(m.digest, <<m.pc, i.units>>)
  <2>4. d \in Seq(Nat \X Nat) BY <1>0, <2>3, AppendProperties DEF RunTypeOK
  <2>5. Iterations(d) = Iterations(m.digest) + i.units
    BY <1>0, <2>3, IterationsAppend DEF RunTypeOK
  <2>6. r = [m EXCEPT !.loop = -1, !.digest = d, !.pc = @ + 1] BY <1>6 DEF LoopEnds
  <2> HIDE DEF d
  <2>7. /\ DOMAIN r = RunFields /\ r.loop = -1 /\ r.pc = m.pc + 1 /\ r.digest = d /\ r.status = m.status
        /\ r.ordinal = m.ordinal /\ r.unitsUsed = m.unitsUsed /\ r.registers = m.registers
        /\ r.writes = m.writes /\ r.fetched = m.fetched /\ r.code = m.code
    BY <1>0, <2>6 DEF RunTypeOK, RunFields
  <2>8. RunTypeOK(r) BY <1>0, <1>1, <2>4, <2>7 DEF RunTypeOK
  <2>9. PlaceOK(tx, r) BY <1>0, <1>1, <2>1, <2>7 DEF PlaceOK
  <2>10. ChargeOK(tx, r)
    <3>1. m.ordinal + Iterations(m.digest) + i.units <= m.unitsUsed
      BY <1>0, <1>6 DEF ChargeOK, LoopEnds
    <3>2. r.ordinal + Iterations(r.digest) <= r.unitsUsed BY <1>1, <2>2, <2>5, <2>7, <3>1
    <3>3. r.ordinal + Iterations(r.digest) \in Int BY <1>1, <2>2, <2>5, <2>7
    <3> QED BY <1>1, <2>7, <3>2, <3>3 DEF ChargeOK
  <2> QED BY <2>8, <2>9, <2>10 DEF RunOK
<1>7. CASE LoopRuns(tx, m, r)
  <2>1. m.status = "running" /\ m.pc < l BY <1>0, <1>2, <1>7 DEF LoopRuns, PlaceOK
  <2>2. i.units \in Nat BY <1>3, <2>1
  <2>3. PICK x \in m.loop + 1 .. i.units : r = [m EXCEPT !.loop = x] BY <1>7 DEF LoopRuns
  <2>4. x \in Nat /\ x <= i.units /\ m.loop >= 0 BY <1>1, <1>7, <2>2 DEF LoopRuns
  <2>5. /\ DOMAIN r = RunFields /\ r.loop = x /\ r.pc = m.pc /\ r.digest = m.digest /\ r.status = m.status
        /\ r.ordinal = m.ordinal /\ r.unitsUsed = m.unitsUsed /\ r.registers = m.registers
        /\ r.writes = m.writes /\ r.fetched = m.fetched /\ r.code = m.code
    BY <1>0, <2>3 DEF RunTypeOK, RunFields
  <2>6. RunTypeOK(r) BY <1>0, <1>1, <2>4, <2>5 DEF RunTypeOK
  <2>7. Current(tx, r) = i BY <2>5 DEF Current
  <2>8. PlaceOK(tx, r) BY <1>0, <1>1, <2>1, <2>4, <2>5, <2>7 DEF PlaceOK
  <2>9. ChargeOK(tx, r) BY <1>0, <1>1, <2>4, <2>5, <2>7 DEF ChargeOK
  <2> QED BY <2>6, <2>8, <2>9 DEF RunOK
<1>8. CASE Finishes(tx, m, r)
  <2>1. /\ DOMAIN r = RunFields /\ r.loop = -1 /\ r.pc = m.pc /\ r.digest = m.digest /\ r.status = "success"
        /\ r.ordinal = m.ordinal /\ r.unitsUsed = m.unitsUsed /\ r.registers = m.registers
        /\ r.writes = m.writes /\ r.fetched = m.fetched
    BY <1>0, <1>8 DEF Finishes, RunTypeOK, RunFields
  <2>2. RunTypeOK(r) BY <1>0, <2>1 DEF RunTypeOK, Endings
  <2>3. PlaceOK(tx, r) BY <2>1 DEF PlaceOK
  <2>4. ChargeOK(tx, r) BY <1>0, <1>1, <1>8, <2>1 DEF ChargeOK, Finishes
  <2> QED BY <2>2, <2>3, <2>4 DEF RunOK
<1>9. CASE Validates(tx, m, r)
  <2>1. m = NewRun BY <1>0, <1>9 DEF Validates, PlaceOK
  <2>2. m.loop = -1 /\ m.code = NoFault /\ m.pc = 0 BY <2>1 DEF NewRun, NoFault
  <2>3. /\ DOMAIN r = RunFields /\ r.loop = -1 /\ r.pc = 0 /\ r.digest = m.digest
        /\ r.ordinal = m.ordinal /\ r.unitsUsed = m.unitsUsed /\ r.registers = m.registers
        /\ r.writes = m.writes /\ r.fetched = m.fetched
        /\ r.status = "invalid_program" \/ (r.status = "running" /\ Validate(tx) = NoFault /\ r.code = NoFault)
    BY <1>0, <1>9, <2>2 DEF Validates, RunTypeOK, RunFields
  <2>4. RunTypeOK(r) BY <1>0, <2>2, <2>3 DEF RunTypeOK, Endings
  <2>5. PlaceOK(tx, r) BY <1>1, <2>3 DEF PlaceOK
  <2>6. ChargeOK(tx, r) BY <1>0, <1>1, <2>2, <2>3 DEF ChargeOK
  <2> QED BY <2>4, <2>5, <2>6 DEF RunOK
<1>10. CASE RunsOut(tx, m, r)
  <2>1. /\ DOMAIN r = RunFields /\ r.loop = -1 /\ r.pc = m.pc /\ r.digest = m.digest /\ r.status = "out_of_gas"
        /\ r.ordinal = m.ordinal /\ r.unitsUsed = tx.maxUnits /\ r.registers = m.registers
        /\ r.writes = m.writes /\ r.fetched = m.fetched
    BY <1>0, <1>10 DEF RunsOut, Executing, RunTypeOK, RunFields
  <2>2. RunTypeOK(r) BY <1>0, <1>1, <2>1 DEF RunTypeOK, Endings
  <2>3. PlaceOK(tx, r) BY <2>1 DEF PlaceOK
  <2>4. m.loop = -1 BY <1>10 DEF RunsOut, Executing
  <2>5. ChargeOK(tx, r) BY <1>1, <1>4, <2>1, <2>4 DEF ChargeOK
  <2> QED BY <2>2, <2>3, <2>5 DEF RunOK
<1>11. CASE Computes(tx, m, r)
  <2>1. m.status = "running" /\ m.pc < l /\ m.loop = -1 /\ i.op = "compute"
    BY <1>11 DEF Computes, Executing, AtInstruction
  <2>2. i.units \in Nat BY <1>3, <2>1
  <2>3. m.unitsUsed + i.units + 1 <= tx.maxUnits
        /\ r = [m EXCEPT !.unitsUsed = @ + (i.units + 1), !.loop = 0]
    BY <1>11 DEF Computes
  <2>4. /\ DOMAIN r = RunFields /\ r.loop = 0 /\ r.pc = m.pc /\ r.digest = m.digest /\ r.status = m.status
        /\ r.ordinal = m.ordinal /\ r.unitsUsed = m.unitsUsed + (i.units + 1) /\ r.registers = m.registers
        /\ r.writes = m.writes /\ r.fetched = m.fetched /\ r.code = m.code
    BY <1>0, <2>3 DEF RunTypeOK, RunFields
  <2>5. RunTypeOK(r) BY <1>0, <1>1, <2>2, <2>4 DEF RunTypeOK
  <2>6. Current(tx, r) = i BY <2>4 DEF Current
  <2>7. PlaceOK(tx, r) BY <1>0, <2>1, <2>2, <2>4, <2>6 DEF PlaceOK
  <2>8. ChargeOK(tx, r) BY <1>1, <1>4, <2>1, <2>2, <2>3, <2>4, <2>6 DEF ChargeOK
  <2> QED BY <2>5, <2>7, <2>8 DEF RunOK
<1>12. CASE Performs(tx, m, below, r)
  <2>1. m.status = "running" /\ m.pc < l /\ m.loop = -1 /\ m.unitsUsed + 1 <= tx.maxUnits
    BY <1>12 DEF Performs, Executing, AtInstruction
  <2>2. /\ DOMAIN r = RunFields /\ r.unitsUsed = m.unitsUsed + 1 /\ r.digest = m.digest /\ r.loop = -1
        /\ r.ordinal \in {m.ordinal, m.ordinal + 1}
        /\ RegistersOK(r.registers) /\ WritesOK(r.writes)
        /\ r.fetched \in {m.fetched, Append(m.fetched, below)}
        /\ \/ r.status = m.status /\ r.code = m.code /\ r.pc \in 0 .. l
           \/ r.status \in Endings \ {"cancelled"} /\ r.pc = m.pc
    BY <1>0, <1>12, <2>1, ChargedFields DEF Performs, Performed
  <2>3. r.fetched \in Seq(Stored)
    <3>1. m.fetched \in Seq(Stored) BY <1>0 DEF RunTypeOK
    <3>2. Append(m.fetched, below) \in Seq(Stored) BY <3>1, AppendProperties
    <3>3. r.fetched \in {m.fetched, Append(m.fetched, below)} BY <2>2
    <3> QED BY <3>1, <3>2, <3>3
  <2>4. r.pc \in Nat /\ r.ordinal \in Nat /\ r.unitsUsed \in Nat /\ r.pc <= l
    <3>1. 0 .. l \subseteq Nat /\ \A p \in 0 .. l : p <= l BY <1>1
    <3>2. r.pc \in 0 .. l \/ r.pc = m.pc BY <2>2
    <3>3. m.pc <= l /\ m.pc \in Nat BY <1>1, <2>1
    <3>4. r.pc \in Nat /\ r.pc <= l BY <3>1, <3>2, <3>3
    <3> QED BY <1>1, <2>2, <3>4
  <2>5. RunTypeOK(r) BY <1>0, <2>1, <2>2, <2>3, <2>4 DEF RunTypeOK, Endings
  <2>6. PlaceOK(tx, r) BY <1>0, <2>1, <2>2, <2>4 DEF PlaceOK, Endings
  <2>7. ChargeOK(tx, r) BY <1>1, <1>4, <2>1, <2>2, <2>4 DEF ChargeOK
  <2> QED BY <2>5, <2>6, <2>7 DEF RunOK
<1> HIDE DEF i, l
<1> QED BY <1>5, <1>6, <1>7, <1>8, <1>9, <1>10, <1>11, <1>12, StepResult

(* A run wants a key of the state, or none.                                *)
LEMMA WantsKey ==
  ASSUME NEW tx \in Transactions, NEW m, RunOK(tx, m)
  PROVE  Wants(tx, m) \in Keys \cup {NoKey}
<1>1. CASE AtInstruction(tx, m)
  <2>1. Current(tx, m).key \in Keys BY <1>1, CurrentTypes, InstructionTypes DEF AtInstruction
  <2> QED BY <2>1 DEF Wants
<1>2. CASE ~ AtInstruction(tx, m) BY <1>2 DEF Wants
<1> QED BY <1>1, <1>2

(* A step fetches what the run wants, and nothing else.                    *)
LEMMA StepFetches ==
  ASSUME NEW tx \in Transactions, NEW m, RunOK(tx, m), ~ Halted(m), NEW below \in Stored,
         NEW c \in BOOLEAN, NEW r, r = Step(tx, m, below, c), r.status # "cancelled"
  PROVE  r.fetched = IF Wants(tx, m) # NoKey THEN Append(m.fetched, below) ELSE m.fetched
<1> DEFINE i == Current(tx, m)
<1>0. RunTypeOK(m) /\ PlaceOK(tx, m) BY DEF RunOK
<1>1. m.loop \in Int BY <1>0 DEF RunTypeOK
<1>2. ~ Cancels(m, r) BY <1>0 DEF Cancels, RunTypeOK, RunFields
<1>3. m.loop >= 0 => i.op = "compute" BY <1>0 DEF PlaceOK
<1>4. i.op # "read" => Wants(tx, m) = NoKey BY DEF Wants
<1>5. CASE LoopEnds(tx, m, r)
  BY <1>0, <1>3, <1>4, <1>5 DEF LoopEnds, RunTypeOK, RunFields
<1>6. CASE LoopRuns(tx, m, r)
  BY <1>0, <1>3, <1>4, <1>6 DEF LoopRuns, RunTypeOK, RunFields
<1>7. CASE Validates(tx, m, r)
  <2>1. Wants(tx, m) = NoKey BY <1>7 DEF Validates, Wants, AtInstruction
  <2> QED BY <1>0, <1>7, <2>1 DEF Validates, RunTypeOK, RunFields
<1>8. CASE Computes(tx, m, r)
  <2>1. i.op = "compute" BY <1>8 DEF Computes
  <2> QED BY <1>0, <1>4, <1>8, <2>1 DEF Computes, RunTypeOK, RunFields
<1>9. CASE RunsOut(tx, m, r)
  <2>1. Wants(tx, m) = NoKey BY <1>9 DEF RunsOut, Wants
  <2> QED BY <1>0, <1>9, <2>1 DEF RunsOut, RunTypeOK, RunFields
<1>10. CASE Performs(tx, m, below, r)
  <2>1. AtInstruction(tx, m) /\ Affordable(tx, m, i) BY <1>10 DEF Performs, Executing
  <2>2. r.fetched = IF i.op = "read" /\ i.key \notin DOMAIN m.writes THEN Append(m.fetched, below) ELSE m.fetched
    BY <1>0, <1>10, ChargedFields DEF Performs, Performed
  <2>3. i.key \in Keys BY <2>1, CurrentTypes, InstructionTypes DEF AtInstruction
  <2>4. i.key # NoKey BY <2>3, RuntimeAssumption
  <2>5. Wants(tx, m) # NoKey <=> i.op = "read" /\ i.key \notin DOMAIN m.writes
    BY <2>1, <2>4 DEF Wants
  <2> QED BY <2>2, <2>5
<1>11. CASE Finishes(tx, m, r)
  <2>1. Wants(tx, m) = NoKey BY <1>11 DEF Finishes, Wants
  <2> QED BY <1>0, <1>11, <2>1 DEF Finishes, RunTypeOK, RunFields
<1> QED BY <1>2, <1>5, <1>6, <1>7, <1>8, <1>9, <1>10, <1>11, StepResult

(* A step is paid for.                                                     *)
LEMMA StepCounts ==
  ASSUME NEW tx \in Transactions, NEW m, RunOK(tx, m), ~ Halted(m), NEW below \in Stored,
         NEW c \in BOOLEAN, NEW r, r = Step(tx, m, below, c), r.status # "cancelled",
         NEW n \in Nat, StepsOK(tx, m, n)
  PROVE  StepsOK(tx, r, n + 1)
<1> DEFINE i == Current(tx, m)
<1>0. RunTypeOK(m) /\ PlaceOK(tx, m) /\ ChargeOK(tx, m) /\ RunTypeOK(r) /\ ChargeOK(tx, r)
  BY StepKeeps DEF RunOK
<1>1. /\ tx.maxUnits \in Nat /\ m.unitsUsed \in Nat /\ m.loop \in Int /\ m.loop >= -1
      /\ m.unitsUsed <= tx.maxUnits /\ r.unitsUsed \in Nat /\ r.unitsUsed <= tx.maxUnits
      /\ StepBound(tx) = 2 * tx.maxUnits + 2
  BY <1>0, TransactionTypes DEF RunTypeOK, ChargeOK, StepBound
<1>2. ~ Cancels(m, r) BY <1>0 DEF Cancels, RunTypeOK, RunFields
<1>3. ASSUME m.status = "running", m.pc < Len(tx.program) PROVE i.units \in Nat
  BY <1>3, CurrentTypes, InstructionTypes
<1>4. m.status \in {"new", "running"} BY DEF Halted
<1>5. m.loop >= 0 => m.status = "running" /\ m.pc < Len(tx.program) BY <1>0, <1>4 DEF PlaceOK
<1>6. m.status = "running" /\ m.loop < 0 => n <= 2 * m.unitsUsed + 1 BY DEF StepsOK
<1>7. CASE LoopEnds(tx, m, r)
  <2>1. r.status = m.status /\ r.loop = -1 /\ r.unitsUsed = m.unitsUsed
    BY <1>0, <1>7 DEF LoopEnds, RunTypeOK, RunFields
  <2>2. m.loop >= 0 /\ m.loop = i.units BY <1>7 DEF LoopEnds
  <2>3. n + i.units - m.loop <= 2 * m.unitsUsed BY <1>5, <2>2 DEF StepsOK
  <2>4. n + 1 <= 2 * r.unitsUsed + 1 BY <1>1, <2>1, <2>2, <2>3
  <2>5. r.status = "running" BY <1>5, <2>1, <2>2
  <2> QED BY <2>1, <2>4, <2>5 DEF StepsOK, Halted
<1>8. CASE LoopRuns(tx, m, r)
  <2>1. m.status = "running" /\ i.units \in Nat /\ m.loop >= 0 BY <1>3, <1>5, <1>8 DEF LoopRuns
  <2>2. PICK x \in m.loop + 1 .. i.units : r = [m EXCEPT !.loop = x] BY <1>8 DEF LoopRuns
  <2>3. r.status = "running" /\ r.loop = x /\ r.unitsUsed = m.unitsUsed /\ r.pc = m.pc
    BY <1>0, <2>1, <2>2 DEF RunTypeOK, RunFields
  <2>4. n + i.units - m.loop <= 2 * m.unitsUsed BY <2>1 DEF StepsOK
  <2>5. x \in Int /\ x >= 0 /\ n + 1 + i.units - x <= 2 * m.unitsUsed BY <1>1, <2>1, <2>4
  <2>6. Current(tx, r) = i BY <2>3 DEF Current
  <2> QED BY <2>3, <2>5, <2>6 DEF StepsOK, Halted
<1>9. CASE Finishes(tx, m, r) \/ RunsOut(tx, m, r)
  <2>1. Halted(r) /\ r.status \notin {"new", "running"}
    BY <1>0, <1>9 DEF Finishes, RunsOut, RunTypeOK, RunFields, Halted
  <2>2. m.status = "running" /\ m.loop < 0
    BY <1>1, <1>9 DEF Finishes, RunsOut, Executing, AtInstruction
  <2>3. n + 1 <= StepBound(tx) BY <1>1, <1>6, <2>2
  <2> QED BY <2>1, <2>3 DEF StepsOK
<1>10. CASE Validates(tx, m, r)
  <2>1. n = 0 /\ m = NewRun BY <1>0, <1>10 DEF StepsOK, Validates, PlaceOK
  <2>2. m.loop = -1 BY <2>1 DEF NewRun
  <2>3. r.status \in {"running", "invalid_program"} /\ r.loop = -1
    BY <1>0, <1>10, <2>2 DEF Validates, RunTypeOK, RunFields
  <2>4. n + 1 <= StepBound(tx) /\ n + 1 <= 2 * r.unitsUsed + 1 BY <1>1, <2>1
  <2> QED BY <2>3, <2>4 DEF StepsOK
<1>11. CASE Computes(tx, m, r)
  <2>1. m.status = "running" /\ m.loop < 0 /\ i.units \in Nat
    BY <1>1, <1>3, <1>11 DEF Computes, Executing, AtInstruction
  <2>2. r = [m EXCEPT !.unitsUsed = @ + (i.units + 1), !.loop = 0] BY <1>11 DEF Computes
  <2>3. r.status = "running" /\ r.loop = 0 /\ r.unitsUsed = m.unitsUsed + (i.units + 1) /\ r.pc = m.pc
    BY <1>0, <2>1, <2>2 DEF RunTypeOK, RunFields
  <2>4. Current(tx, r) = i BY <2>3 DEF Current
  <2>5. n + 1 + i.units - r.loop <= 2 * r.unitsUsed BY <1>1, <1>6, <2>1, <2>3
  <2> QED BY <2>3, <2>4, <2>5 DEF StepsOK, Halted
<1>12. CASE Performs(tx, m, below, r)
  <2>1. m.status = "running" /\ m.loop = -1 BY <1>12 DEF Performs, Executing, AtInstruction
  <2>2. r.unitsUsed = m.unitsUsed + 1 /\ r.loop = -1 /\ r.status # "new"
    BY <1>0, <1>12, <2>1, ChargedFields DEF Performs, Performed, Endings
  <2>3. n + 1 <= 2 * r.unitsUsed + 1 /\ n + 1 <= StepBound(tx) BY <1>1, <1>6, <2>1, <2>2
  <2> QED BY <2>2, <2>3 DEF StepsOK
<1> HIDE DEF i
<1> QED BY <1>2, <1>7, <1>8, <1>9, <1>10, <1>11, <1>12, StepResult

LEMMA StepsBound ==
  ASSUME NEW tx \in Transactions, NEW m, RunOK(tx, m), NEW n \in Nat, StepsOK(tx, m, n)
  PROVE  n <= StepBound(tx) /\ StepBound(tx) \in Nat /\ (~ Halted(m) => n < StepBound(tx))
<1>1. /\ tx.maxUnits \in Nat /\ m.unitsUsed \in Nat /\ m.loop \in Int /\ m.loop >= -1
      /\ m.unitsUsed <= tx.maxUnits /\ StepBound(tx) = 2 * tx.maxUnits + 2
  BY TransactionTypes DEF RunOK, RunTypeOK, ChargeOK, StepBound
<1>2. CASE Halted(m) BY <1>1, <1>2 DEF StepsOK
<1>3. CASE m.status = "new" BY <1>1, <1>3 DEF StepsOK
<1>4. CASE m.status = "running" /\ m.loop < 0
  <2>1. n <= 2 * m.unitsUsed + 1 BY <1>4 DEF StepsOK
  <2> QED BY <1>1, <2>1
<1>5. CASE m.status = "running" /\ m.loop >= 0
  <2>1. Current(tx, m).units \in Nat /\ m.loop <= Current(tx, m).units
    BY <1>5, CurrentTypes, InstructionTypes DEF RunOK, PlaceOK
  <2>2. n + Current(tx, m).units - m.loop <= 2 * m.unitsUsed BY <1>5 DEF StepsOK
  <2> QED BY <1>1, <2>1, <2>2
<1> QED BY <1>1, <1>2, <1>3, <1>4, <1>5 DEF Halted

(***************************************************************************)
(* An execution is the replay of what it fetches                           *)
(***************************************************************************)
LEMMA BoundType == ASSUME NEW tx \in Transactions PROVE StepBound(tx) \in Nat
BY TransactionTypes DEF StepBound

(* Replay is well defined.                                                 *)
LEMMA ReplayFunction ==
  ASSUME NEW tx \in Transactions, NEW vals
  PROVE  \E f : ReplayEquation(f, tx, vals, StepBound(tx)) /\ Replay(tx, vals) = f[StepBound(tx)]
<1> DEFINE G(x) == ReplayStep(tx, vals, x)
           T == {n \in Nat : ~ \E f : ReplayEquation(f, tx, vals, n)}
<1>1. T = {}
  <2> SUFFICES ASSUME T # {} PROVE FALSE OBVIOUS
  <2>1. PICK n \in T : \A y \in T : n <= y BY LeastExists
  <2>2. ReplayEquation([m \in 0 .. 0 |-> NewRun], tx, vals, 0) BY DEF ReplayEquation
  <2>3. n # 0 BY <2>1, <2>2
  <2>4. PICK f : ReplayEquation(f, tx, vals, n - 1) BY <2>1, <2>3
  <2> DEFINE h == [m \in 0 .. n |-> IF m = n THEN G(f[n - 1]) ELSE f[m]]
  <2>5. ASSUME NEW m \in 0 .. n PROVE h[m] = IF m = 0 THEN NewRun ELSE G(h[m - 1])
    <3>1. \A j \in 0 .. n - 1 : f[j] = IF j = 0 THEN NewRun ELSE G(f[j - 1])
      BY <2>4 DEF ReplayEquation
    <3>2. m # 0 => m - 1 \in 0 .. n /\ m - 1 # n BY <2>1
    <3>3. m # n => m \in 0 .. n - 1 BY <2>1
    <3> HIDE DEF G
    <3> QED BY <2>1, <2>3, <3>1, <3>2, <3>3
  <2>6. ReplayEquation(h, tx, vals, n) BY <2>5 DEF ReplayEquation
  <2> QED BY <2>1, <2>6
<1>2. \E f : ReplayEquation(f, tx, vals, StepBound(tx)) BY <1>1, BoundType
<1> DEFINE g == CHOOSE f : ReplayEquation(f, tx, vals, StepBound(tx))
<1>3. ReplayEquation(g, tx, vals, StepBound(tx)) BY <1>2
<1>4. Replay(tx, vals) = g[StepBound(tx)] BY DEF Replay, ReplayEquation, ReplayStep
<1> QED BY <1>3, <1>4

(* A replay that does not move stays where it is.                          *)
LEMMA ReplayStays ==
  ASSUME NEW tx, NEW vals, NEW b \in Nat, NEW f, ReplayEquation(f, tx, vals, b),
         NEW n \in 0 .. b, NEW m, f[n] = m, ReplayStep(tx, vals, m) = m
  PROVE  f[b] = m
<1> DEFINE T == {j \in n .. b : f[j] # m}
<1>1. T = {}
  <2> SUFFICES ASSUME T # {} PROVE FALSE OBVIOUS
  <2>1. PICK j \in T : \A y \in T : j <= y
    <3>1. T \in SUBSET Nat OBVIOUS
    <3> HIDE DEF T
    <3> QED BY <3>1, LeastExists
  <2>2. j # n /\ j \in n .. b BY <2>1
  <2>3. j - 1 \in n .. b /\ j - 1 < j /\ j \in 0 .. b /\ j # 0 BY <2>2
  <2>4. f[j - 1] = m BY <2>1, <2>3
  <2>5. f[j] = ReplayStep(tx, vals, f[j - 1]) BY <2>3 DEF ReplayEquation
  <2> QED BY <2>1, <2>4, <2>5
<1>2. b \in n .. b OBVIOUS
<1>3. b \notin T BY <1>1
<1> QED BY <1>2, <1>3

(* A program begins like its replay.                                       *)
LEMMA NewRunFollows ==
  ASSUME NEW tx \in Transactions
  PROVE  RunOK(tx, NewRun) /\ FollowsReplay(tx, NewRun) /\ NewRun.fetched = << >>
<1> DEFINE m == NewRun
<1>1. /\ DOMAIN m = RunFields /\ m.pc = 0 /\ m.loop = -1 /\ m.unitsUsed = 0 /\ m.ordinal = 0
      /\ m.registers = << >> /\ m.writes = << >> /\ m.fetched = << >> /\ m.digest = << >> /\ m.status = "new"
  BY DEF NewRun, RunFields
<1>2. m = NewRun OBVIOUS
<1> HIDE DEF m
<1>3. RegistersOK(<< >>) /\ WritesOK(<< >>) BY DEF RegistersOK, WritesOK
<1>4. << >> \in Seq(Stored) /\ << >> \in Seq(Nat \X Nat) BY EmptySeq
<1>5. RunTypeOK(m) BY <1>1, <1>3, <1>4 DEF RunTypeOK
<1>6. PlaceOK(tx, m) BY <1>1, <1>2 DEF PlaceOK
<1>7. ChargeOK(tx, m) BY <1>1, IterationsNone, TransactionTypes DEF ChargeOK
<1>8. 0 \in 0 .. StepBound(tx) BY BoundType
<1>9. StepsOK(tx, m, 0) BY <1>1 DEF StepsOK, Halted
<1>10. Replays(tx, m, 0)
  BY <1>2, <1>8 DEF Replays, ReplayEquation
<1> QED BY <1>1, <1>2, <1>5, <1>6, <1>7, <1>8, <1>9, <1>10 DEF RunOK, FollowsReplay

(* A step that is not cut short is a step of the replay.                   *)
LEMMA StepFollows ==
  ASSUME NEW tx \in Transactions, NEW m, RunOK(tx, m), ~ Halted(m), FollowsReplay(tx, m),
         NEW below \in Stored, Wants(tx, m) = NoKey => below = Nil, NEW c \in BOOLEAN,
         NEW r, r = Step(tx, m, below, c)
  PROVE  FollowsReplay(tx, r)
<1> SUFFICES ASSUME r.status # "cancelled"
             PROVE  \E n \in 0 .. StepBound(tx) : StepsOK(tx, r, n) /\ Replays(tx, r, n)
  BY DEF FollowsReplay
<1>1. m.status # "cancelled" BY DEF Halted
<1>2. PICK n \in 0 .. StepBound(tx) : StepsOK(tx, m, n) /\ Replays(tx, m, n) BY <1>1 DEF FollowsReplay
<1>3. n \in Nat /\ n + 1 \in Nat BY BoundType
<1>4. RunOK(tx, r) /\ StepsOK(tx, r, n + 1) BY <1>2, <1>3, StepKeeps, StepCounts
<1>5. n + 1 <= StepBound(tx) BY <1>3, <1>4, StepsBound
<1>6. n + 1 \in 0 .. StepBound(tx) BY <1>3, <1>5, BoundType
<1>7. r.fetched = IF Wants(tx, m) # NoKey THEN Append(m.fetched, below) ELSE m.fetched BY StepFetches
<1>8. m.fetched \in Seq(Stored) BY DEF RunOK, RunTypeOK
<1>9. r = Step(tx, m, below, FALSE) BY StepCalm DEF RunOK, RunTypeOK
<1>10. ASSUME NEW vals \in Seq(Stored), NEW f, Begins(vals, r.fetched), ReplayEquation(f, tx, vals, StepBound(tx))
       PROVE  f[n + 1] = r
  <2>1. Len(vals) \in Nat /\ Len(m.fetched) \in Nat BY <1>8, LenProperties
  <2>2. Begins(vals, m.fetched) /\ (Wants(tx, m) # NoKey =>
          Len(m.fetched) < Len(vals) /\ vals[Len(m.fetched) + 1] = below)
    <3>1. CASE Wants(tx, m) = NoKey BY <1>7, <1>10, <3>1
    <3>2. CASE Wants(tx, m) # NoKey
      <4> DEFINE q == Append(m.fetched, below)
                 k == Len(m.fetched)
      <4>1. Len(q) = k + 1 /\ q[k + 1] = below /\ \A j \in 1 .. k : q[j] = m.fetched[j]
        BY <1>8, AppendProperties
      <4>2. Len(q) <= Len(vals) /\ \A j \in 1 .. Len(q) : vals[j] = q[j]
        BY <1>7, <1>10, <3>2 DEF Begins
      <4> HIDE DEF q, k
      <4>3. k \in Nat BY <2>1 DEF k
      <4>4. k < Len(vals) /\ vals[k + 1] = below BY <2>1, <4>1, <4>2, <4>3
      <4>5. \A j \in 1 .. k : vals[j] = m.fetched[j] BY <4>1, <4>2, <4>3
      <4>6. k <= Len(vals) BY <2>1, <4>3, <4>4
      <4> QED BY <4>4, <4>5, <4>6 DEF Begins, k
    <3> QED BY <3>1, <3>2
  <2>3. f[n] = m BY <1>2, <1>10, <2>2 DEF Replays
  <2>4. n + 1 # 0 /\ (n + 1) - 1 = n BY <1>3
  <2>5. f[n + 1] = ReplayStep(tx, vals, f[(n + 1) - 1]) BY <1>6, <1>10, <2>4 DEF ReplayEquation
  <2>6. f[n + 1] = ReplayStep(tx, vals, m) BY <2>3, <2>4, <2>5
  <2>7. Wants(tx, m) # NoKey => Len(m.fetched) # Len(vals) BY <2>1, <2>2
  <2>8. ReplayStep(tx, vals, m) = Step(tx, m, below, FALSE) BY <2>2, <2>7 DEF ReplayStep
  <2> QED BY <1>9, <2>6, <2>8
<1>11. Replays(tx, r, n + 1) BY <1>10 DEF Replays
<1> QED BY <1>4, <1>6, <1>11

(* Where a run waits for a value, or has ended, its program is with the    *)
(* values that it has fetched.                                             *)
LEMMA ReplayOfRun ==
  ASSUME NEW tx \in Transactions, NEW m, RunOK(tx, m), FollowsReplay(tx, m), m.status # "cancelled",
         Halted(m) \/ Wants(tx, m) # NoKey
  PROVE  Replay(tx, m.fetched) = m
<1>1. PICK n \in 0 .. StepBound(tx) : Replays(tx, m, n) BY DEF FollowsReplay
<1>2. PICK f : ReplayEquation(f, tx, m.fetched, StepBound(tx)) /\ Replay(tx, m.fetched) = f[StepBound(tx)]
  BY ReplayFunction
<1>3. m.fetched \in Seq(Stored) /\ Len(m.fetched) \in Nat BY LenProperties DEF RunOK, RunTypeOK
<1>4. Begins(m.fetched, m.fetched) BY <1>3 DEF Begins
<1>5. f[n] = m BY <1>1, <1>2, <1>3, <1>4 DEF Replays
<1>6. ReplayStep(tx, m.fetched, m) = m BY DEF ReplayStep
<1> QED BY <1>2, <1>5, <1>6, BoundType, ReplayStays

(***************************************************************************)
(* The serial order                                                        *)
(***************************************************************************)
\* The program run on s from the values v ends with the values u.
Ends(tx, s, v) ==
  {u \in ValuesIn(s) : /\ Len(v) <= Len(u) /\ Prefix(u, Len(v)) = v
                       /\ RunsOn(tx, s, u, Len(v)) /\ ProgramRead(tx, u) \notin Keys}
AnEnd(E) == CHOOSE u : u \in E

(* A sequence is its own longest prefix.                                   *)
LEMMA WholePrefix ==
  ASSUME NEW S, NEW u \in Seq(S)
  PROVE  Len(u) \in Nat /\ Prefix(u, Len(u)) = u /\ DOMAIN u = 1 .. Len(u)
BY DEF Prefix

(* Where the program stops it has reached its end.                         *)
LEMMA EndHere ==
  ASSUME NEW tx, NEW s, NEW v \in ValuesIn(s), ProgramRead(tx, v) \notin Keys
  PROVE  Ends(tx, s, v) = {v}
<1> DEFINE S == UNION {{s[k]} : k \in Keys}
<1>1. v \in Seq(S) /\ Len(v) \in Nat /\ Prefix(v, Len(v)) = v
  BY WholePrefix DEF ValuesIn
<1>2. v \in Ends(tx, s, v)
  BY <1>1 DEF Ends, RunsOn
<1>3. ASSUME NEW u \in Ends(tx, s, v) PROVE u = v
  <2>1. u \in Seq(S) /\ Len(u) \in Nat /\ Prefix(u, Len(u)) = u
    BY <1>3, WholePrefix DEF Ends, ValuesIn
  <2>2. Len(v) <= Len(u) /\ Prefix(u, Len(v)) = v
    BY <1>3 DEF Ends
  <2>3. ~ (Len(v) < Len(u))
    BY <1>1, <1>3, <2>1, <2>2 DEF Ends, RunsOn
  <2> QED BY <1>1, <2>1, <2>2, <2>3
<1> QED BY <1>2, <1>3

(* Where it reads on, the end is that of the longer run.                   *)
LEMMA EndFurther ==
  ASSUME NEW tx, NEW s, NEW v \in ValuesIn(s), ProgramRead(tx, v) \in Keys
  PROVE  /\ Append(v, s[ProgramRead(tx, v)]) \in ValuesIn(s)
         /\ Ends(tx, s, Append(v, s[ProgramRead(tx, v)])) = Ends(tx, s, v)
<1> DEFINE S == UNION {{s[k]} : k \in Keys}
           x == s[ProgramRead(tx, v)]
           q == Append(v, x)
           n == Len(v)
<1>1. v \in Seq(S) /\ n \in Nat /\ Prefix(v, n) = v /\ x \in S
  BY WholePrefix DEF ValuesIn
<1> HIDE DEF S, x
<1>2. /\ q \in Seq(S) /\ Len(q) = n + 1 /\ q[n + 1] = x
      /\ \A i \in 1 .. n : q[i] = v[i]
  BY <1>1, AppendProperties
<1>3. q = Prefix(q, n + 1) /\ v = [j \in 1 .. n |-> v[j]]
  BY <1>1, <1>2, WholePrefix DEF Prefix
<1>4. ASSUME NEW u \in Seq(S)
      PROVE  (n <= Len(u) /\ Prefix(u, n) = v /\ RunsOn(tx, s, u, n) /\ ProgramRead(tx, u) \notin Keys)
              <=> (n + 1 <= Len(u) /\ Prefix(u, n + 1) = q /\ RunsOn(tx, s, u, n + 1)
                     /\ ProgramRead(tx, u) \notin Keys)
  <2>1. Len(u) \in Nat /\ Prefix(u, Len(u)) = u
    BY WholePrefix
  <2>2. ASSUME n <= Len(u), Prefix(u, n) = v, RunsOn(tx, s, u, n), ProgramRead(tx, u) \notin Keys
        PROVE  n + 1 <= Len(u) /\ Prefix(u, n + 1) = q /\ RunsOn(tx, s, u, n + 1)
    <3>1. n # Len(u)
      BY <2>1, <2>2
    <3>2. n \in n .. Len(u) - 1
      BY <1>1, <2>1, <2>2, <3>1
    <3>3. u[n + 1] = x
      BY <2>2, <3>2 DEF RunsOn, x
    <3>4. \A i \in 1 .. n : u[i] = v[i]
      BY <2>2 DEF Prefix
    <3>5. \A i \in 1 .. n + 1 : u[i] = q[i]
      BY <1>1, <1>2, <3>3, <3>4
    <3>6. Prefix(u, n + 1) = q
      BY <1>3, <3>5 DEF Prefix
    <3> QED BY <1>1, <2>1, <2>2, <3>1, <3>6 DEF RunsOn
  <2>3. ASSUME n + 1 <= Len(u), Prefix(u, n + 1) = q, RunsOn(tx, s, u, n + 1)
        PROVE  n <= Len(u) /\ Prefix(u, n) = v /\ RunsOn(tx, s, u, n)
    <3>1. \A i \in 1 .. n + 1 : u[i] = q[i]
      BY <2>3 DEF Prefix
    <3>2. Prefix(u, n) = v /\ u[n + 1] = x
      BY <1>1, <1>2, <1>3, <3>1 DEF Prefix
    <3>3. \A i \in n .. Len(u) - 1 : i = n \/ i \in n + 1 .. Len(u) - 1
      BY <1>1, <2>1
    <3> QED BY <1>1, <2>1, <2>3, <3>2, <3>3 DEF RunsOn, x
  <2> QED BY <2>2, <2>3
<1> QED BY <1>2, <1>4 DEF Ends, ValuesIn, S, x

(* ReadsOn is well defined.                                                *)
LEMMA ReadsFunction ==
  ASSUME NEW tx, NEW s
  PROVE  \E f : ReadsEquation(f, tx, s) /\ ReadsOn(tx, s) = f[<< >>]
<1> DEFINE g == CHOOSE f : ReadsEquation(f, tx, s)
           h == [vals \in ValuesIn(s) |-> AnEnd(Ends(tx, s, vals))]
<1>1. ReadsEquation(h, tx, s)
  <2> SUFFICES ASSUME NEW v \in ValuesIn(s)
               PROVE  AnEnd(Ends(tx, s, v)) =
                        IF ProgramRead(tx, v) \in Keys THEN h[Append(v, s[ProgramRead(tx, v)])] ELSE v
    BY DEF ReadsEquation
  <2>1. CASE ProgramRead(tx, v) \in Keys
    BY <2>1, EndFurther
  <2>2. CASE ProgramRead(tx, v) \notin Keys
    BY <2>2, EndHere DEF AnEnd
  <2> QED BY <2>1, <2>2
<1>2. ReadsEquation(g, tx, s)
  <2> HIDE DEF h
  <2> QED BY <1>1
<1>3. ReadsOn(tx, s) = g[<< >>]
  BY DEF ReadsOn
<1> QED BY <1>2, <1>3

(* It returns the values of any run of the program on the state.           *)
LEMMA ReadsOfRun ==
  ASSUME NEW tx, NEW s, NEW u \in ValuesIn(s), RunsOn(tx, s, u, 0), ProgramRead(tx, u) \notin Keys
  PROVE  ReadsOn(tx, s) = u
<1> DEFINE S == UNION {{s[k]} : k \in Keys}
<1>1. PICK f : ReadsEquation(f, tx, s) /\ ReadsOn(tx, s) = f[<< >>]
  BY ReadsFunction
<1>2. u \in Seq(S) /\ Len(u) \in Nat /\ Prefix(u, Len(u)) = u /\ u \in [1 .. Len(u) -> S]
  BY WholePrefix, LenProperties DEF ValuesIn
<1> HIDE DEF S
<1>3. ASSUME NEW i \in 0 .. Len(u) PROVE Prefix(u, i) \in Seq(S)
  BY <1>2, SeqDef DEF Prefix
<1> DEFINE J == {i \in 0 .. Len(u) : f[Prefix(u, i)] = u}
<1>4. Len(u) \in J
  BY <1>1, <1>2 DEF ReadsEquation
<1>5. ASSUME NEW i \in 0 .. Len(u) - 1, i + 1 \in J PROVE i \in J
  <2> DEFINE k == ProgramRead(tx, Prefix(u, i))
  <2>1. k \in Keys /\ u[i + 1] = s[k]
    BY DEF RunsOn
  <2>2. Prefix(u, i) \in Seq(S) /\ s[k] \in S
    BY <1>2, <1>3, <2>1 DEF S
  <2>3. f[Prefix(u, i)] = f[Append(Prefix(u, i), s[k])]
    BY <1>1, <2>1, <2>2 DEF ReadsEquation, ValuesIn, S
  <2>4. Append(Prefix(u, i), s[k]) = Prefix(u, i + 1)
    <3>1. Len(Prefix(u, i)) = i
      BY <1>2, <2>2 DEF Prefix
    <3>2. Prefix(u, i + 1) \in Seq(S) /\ Len(Prefix(u, i + 1)) = i + 1
      BY <1>2, <1>3 DEF Prefix
    <3>3. \A j \in 1 .. i + 1 : Append(Prefix(u, i), s[k])[j] = Prefix(u, i + 1)[j]
      BY <1>2, <2>1, <2>2, <3>1, AppendProperties DEF Prefix
    <3> QED BY <2>2, <3>1, <3>2, <3>3, AppendProperties, SeqEqual
  <2> QED BY <1>2, <1>5, <2>3, <2>4
<1>6. 0 \in J
  <2>0. J \in SUBSET Nat /\ J # {}
    BY <1>4
  <2>1. PICK m \in J : \A y \in J : m <= y
    <3> HIDE DEF J
    <3> QED BY <2>0, LeastExists
  <2>2. m = 0
    <3> SUFFICES ASSUME m # 0 PROVE FALSE OBVIOUS
    <3>1. m - 1 \in 0 .. Len(u) - 1 /\ (m - 1) + 1 = m
      BY <1>2, <2>1
    <3>2. m - 1 \in J
      BY <1>5, <2>1, <3>1
    <3> QED BY <2>1, <3>1, <3>2
  <2> QED BY <2>1, <2>2
<1>7. Prefix(u, 0) = << >>
  BY DEF Prefix
<1> QED BY <1>1, <1>6, <1>7

(* Values that a program asks for on a state are values of the state.      *)
LEMMA RunValues ==
  ASSUME NEW tx, NEW s, NEW u \in Seq(Stored), RunsOn(tx, s, u, 0)
  PROVE  u \in ValuesIn(s)
<1> DEFINE S == UNION {{s[k]} : k \in Keys}
<1>1. Len(u) \in Nat /\ u \in [1 .. Len(u) -> Stored] BY LenProperties
<1>2. ASSUME NEW j \in 1 .. Len(u) PROVE u[j] \in S
  <2>1. j - 1 \in 0 .. Len(u) - 1 /\ (j - 1) + 1 = j BY <1>1
  <2>2. PICK k \in Keys : u[(j - 1) + 1] = s[k] BY <2>1 DEF RunsOn
  <2> QED BY <2>1, <2>2
<1> HIDE DEF S
<1>3. u \in [1 .. Len(u) -> S] BY <1>1, <1>2
<1>4. u \in Seq(S) BY <1>1, <1>3, SeqDef
<1> QED BY <1>4 DEF ValuesIn, S

(* One value more.                                                         *)
LEMMA RunsFurther ==
  ASSUME NEW tx, NEW s, NEW u \in Seq(Stored), RunsOn(tx, s, u, 0), NEW k \in Keys,
         ProgramRead(tx, u) = k, NEW x \in Stored, x = s[k]
  PROVE  RunsOn(tx, s, Append(u, x), 0)
<1> DEFINE q == Append(u, x)
           n == Len(u)
<1>1. n \in Nat /\ Prefix(u, n) = u BY WholePrefix
<1>2. Len(q) = n + 1 /\ q[n + 1] = x /\ \A j \in 1 .. n : q[j] = u[j] BY AppendProperties
<1> HIDE DEF q, n
<1>3. ASSUME NEW i \in 0 .. n PROVE Prefix(q, i) = Prefix(u, i)
  <2>1. \A j \in 1 .. i : q[j] = u[j] BY <1>1, <1>2
  <2> QED BY <2>1 DEF Prefix
<1>4. ASSUME NEW i \in 0 .. n
      PROVE  ProgramRead(tx, Prefix(q, i)) \in Keys /\ q[i + 1] = s[ProgramRead(tx, Prefix(q, i))]
  <2>1. CASE i = n
    BY <1>1, <1>2, <1>3, <2>1
  <2>2. CASE i # n
    <3>1. i \in 0 .. n - 1 /\ i + 1 \in 1 .. n BY <1>1, <2>2
    <3>2. ProgramRead(tx, Prefix(u, i)) \in Keys /\ u[i + 1] = s[ProgramRead(tx, Prefix(u, i))]
      BY <3>1 DEF RunsOn, n
    <3> QED BY <1>2, <1>3, <3>1, <3>2
  <2> QED BY <2>1, <2>2
<1>5. 0 .. Len(q) - 1 = 0 .. n BY <1>1, <1>2
<1> QED BY <1>4, <1>5 DEF RunsOn, q

(* A run that has ended on a state has read and written what its program   *)
(* reads and writes there.                                                 *)
LEMMA RunEnded ==
  ASSUME NEW tx \in Transactions, NEW s, NEW m, RunOK(tx, m), FollowsReplay(tx, m), Halted(m),
         m.status # "cancelled", RunsOn(tx, s, m.fetched, 0)
  PROVE  ReadsOn(tx, s) = m.fetched /\ ProgramWrites(tx, ReadsOn(tx, s)) = Committed(m)
<1>1. Replay(tx, m.fetched) = m BY ReplayOfRun
<1>2. ProgramRead(tx, m.fetched) = NoKey BY <1>1 DEF ProgramRead
<1>3. ProgramRead(tx, m.fetched) \notin Keys BY <1>2, RuntimeAssumption
<1>4. m.fetched \in Seq(Stored) BY DEF RunOK, RunTypeOK
<1>5. m.fetched \in ValuesIn(s) BY <1>4, RunValues
<1>6. ReadsOn(tx, s) = m.fetched BY <1>3, <1>5, ReadsOfRun
<1> QED BY <1>1, <1>6 DEF ProgramWrites

(* SerialReads and SerialState of module SerialSemantics, for the block of *)
(* the call.                                                               *)
LEMMA ReferenceReads ==
  ASSUME NEW t, NEW s
  PROVE  Reference!SerialReads(t, s) = ReadsOn(Block[t + 1], s)
BY DEF Reference!SerialReads, NextRead, ReadsOn, ReadsEquation, ValuesIn

LEMMA ReferenceState ==
  ASSUME Len(Block) \in Nat
  PROVE  StatesEquation(Reference!SerialState, Block, input.state, Len(Block))
<1> DEFINE b == Block
           s == input.state
           l == Len(b)
           G(m, x) == After(x, b[m])
           T == {n \in Nat : ~ \E f : StatesEquation(f, b, s, n)}
<1>1. T = {}
  <2> SUFFICES ASSUME T # {} PROVE FALSE OBVIOUS
  <2>1. PICK n \in T : \A y \in T : n <= y BY LeastExists
  <2>2. StatesEquation([m \in 0 .. 0 |-> s], b, s, 0) BY DEF StatesEquation
  <2>3. n # 0 BY <2>1, <2>2
  <2>4. PICK f : StatesEquation(f, b, s, n - 1) BY <2>1, <2>3
  <2> DEFINE h == [m \in 0 .. n |-> IF m = n THEN G(n, f[n - 1]) ELSE f[m]]
  <2>5. ASSUME NEW m \in 0 .. n PROVE h[m] = IF m = 0 THEN s ELSE G(m, h[m - 1])
    <3>1. \A j \in 0 .. n - 1 : f[j] = IF j = 0 THEN s ELSE G(j, f[j - 1])
      BY <2>4 DEF StatesEquation
    <3>2. m # 0 => m - 1 \in 0 .. n /\ m - 1 # n BY <2>1
    <3>3. m # n => m \in 0 .. n - 1 BY <2>1
    <3> HIDE DEF G
    <3> QED BY <2>1, <2>3, <3>1, <3>2, <3>3
  <2>6. StatesEquation(h, b, s, n) BY <2>5 DEF StatesEquation
  <2> QED BY <2>1, <2>6
<1>2. \E f : StatesEquation(f, b, s, l) BY <1>1
<1> DEFINE H(n, x) == Reference!ApplyWrites(x, WriteSet(n - 1, Reference!SerialReads(n - 1, x)))
           R(f) == f = [n \in 0 .. l |-> IF n = 0 THEN s ELSE H(n, f[n - 1])]
           g == CHOOSE f : R(f)
<1>3. ASSUME NEW n \in 1 .. l, NEW x PROVE H(n, x) = G(n, x)
  <2>1. (n - 1) + 1 = n OBVIOUS
  <2>2. Reference!SerialReads(n - 1, x) = ReadsOn(b[n], x) BY <2>1, ReferenceReads
  <2>3. WriteSet(n - 1, ReadsOn(b[n], x)) = ProgramWrites(b[n], ReadsOn(b[n], x)) BY <2>1 DEF WriteSet
  <2> QED BY <2>2, <2>3 DEF Reference!ApplyWrites, After, Written
<1>4. ASSUME NEW f PROVE R(f) <=> StatesEquation(f, b, s, l)
  <2>1. \A n \in 0 .. l : (IF n = 0 THEN s ELSE H(n, f[n - 1])) = (IF n = 0 THEN s ELSE G(n, f[n - 1]))
    BY <1>3
  <2> HIDE DEF H, G
  <2>2. [n \in 0 .. l |-> IF n = 0 THEN s ELSE H(n, f[n - 1])] = [n \in 0 .. l |-> IF n = 0 THEN s ELSE G(n, f[n - 1])]
    BY <2>1
  <2> QED BY <2>2 DEF StatesEquation, G
<1>5. R(g)
  <2> HIDE DEF R
  <2> QED BY <1>2, <1>4
<1>6. Reference!SerialState = g BY DEF Reference!SerialState
<1> QED BY <1>4, <1>5, <1>6

(***************************************************************************)
(* The engine                                                              *)
(***************************************************************************)
LEMMA CallTypes ==
  ASSUME EngineTypeOK
  PROVE  /\ Block \in Seq(Transactions) /\ Len(Block) \in Nat /\ Len(results) \in Nat
         /\ input.state \in [Keys -> Stored]
         /\ \A t \in 1 .. Len(Block) : Block[t] \in Transactions
<1>1. Block \in Seq(Transactions) /\ input.state \in [Keys -> Stored]
  BY InputsAssumption DEF EngineTypeOK, Block
<1>2. Len(results) \in Nat BY LenProperties DEF EngineTypeOK
<1> QED BY <1>1, <1>2, LenProperties, ElementOfSeq

LEMMA CurrentTransaction ==
  ASSUME EngineTypeOK, Len(results) < Len(Block)
  PROVE  Transaction \in Transactions /\ Len(results) + 1 \in 1 .. Len(Block) /\ Transaction = Block[Len(results) + 1]
<1>1. Len(results) \in Nat /\ Len(Block) \in Nat BY CallTypes
<1>2. Len(results) + 1 \in 1 .. Len(Block) BY <1>1
<1>3. Block[Len(results) + 1] \in Transactions BY <1>2, CallTypes
<1> QED BY <1>2, <1>3 DEF Transaction

(* A run that is charged is paid for.                                      *)
LEMMA ChargePaid ==
  ASSUME NEW tx \in Transactions, NEW m, RunOK(tx, m)
  PROVE  RunPaid(m)
<1>1. /\ m.ordinal \in Nat /\ m.unitsUsed \in Nat /\ m.loop \in Int /\ m.loop >= -1
      /\ Iterations(m.digest) \in Nat
  <2>1. <<0, 0>> \in Nat \X Nat OBVIOUS
  <2> QED BY <2>1, IterationsAppend DEF RunOK, RunTypeOK
<1>2. CASE m.loop >= 0
  <2>1. m.loop <= Current(tx, m).units /\ m.ordinal + Iterations(m.digest) + Current(tx, m).units <= m.unitsUsed
    BY <1>2 DEF RunOK, PlaceOK, ChargeOK
  <2>2. Current(tx, m).units \in Nat
    <3>1. m.pc < Len(tx.program) /\ m.pc \in Nat BY <1>2 DEF RunOK, PlaceOK, RunTypeOK
    <3>2. PICK l \in Nat : l = Len(tx.program) BY TransactionTypes
    <3>3. m.pc + 1 \in 1 .. l BY <3>1, <3>2
    <3> QED BY <3>2, <3>3, TransactionTypes, InstructionTypes DEF Current
  <2>3. Max({m.loop, 0}) = m.loop
    <3>1. \A x \in {m.loop, 0} : x <= m.loop BY <1>1, <1>2
    <3>2. \A y \in {m.loop, 0} : (\A x \in {m.loop, 0} : x <= y) => y = m.loop BY <1>1, <1>2
    <3> QED BY <3>1, <3>2 DEF Max
  <2> QED BY <1>1, <2>1, <2>2, <2>3 DEF RunPaid
<1>3. CASE ~ (m.loop >= 0)
  <2>1. m.ordinal + Iterations(m.digest) <= m.unitsUsed BY <1>1, <1>3 DEF RunOK, ChargeOK
  <2>2. Max({m.loop, 0}) = 0
    <3>1. \A x \in {m.loop, 0} : x <= 0 BY <1>1, <1>3
    <3>2. \A y \in {m.loop, 0} : (\A x \in {m.loop, 0} : x <= y) => y = 0 BY <1>1, <1>3
    <3> QED BY <3>1, <3>2 DEF Max
  <2> QED BY <1>1, <2>1, <2>2 DEF RunPaid
<1> QED BY <1>2, <1>3

(* A step of the runtime on the private copy.                              *)
LEMMA RunStepKeeps ==
  ASSUME SerialInv, NEW answer, RunStep(answer)
  PROVE  Len(results) < Len(Block) /\ RunningOK(Transaction)' /\ RunPaid(run)'
<1> DEFINE tx == Transaction
           m == run
           key == Wants(tx, m)
           below == IF key = NoKey THEN Nil ELSE working[key]
           r == Step(tx, m, below, ended)
<1>1. stage = "run" /\ ~ Halted(m) /\ run' = r BY DEF RunStep
<1>2. EngineTypeOK /\ Len(results) < Len(Block) /\ RunningOK(tx) BY <1>1 DEF SerialInv
<1>3. tx \in Transactions BY <1>2, CurrentTransaction
<1>4. RunOK(tx, m) /\ FollowsReplay(tx, m) /\ RunsOn(tx, working, m.fetched, 0) BY <1>2 DEF RunningOK
<1>5. UNCHANGED <<input, results, working>> BY DEF RunStep
<1>6. Transaction' = tx BY <1>5 DEF Transaction, Block
<1> HIDE DEF tx, m, r
<1>7. key \in Keys \cup {NoKey} BY <1>3, <1>4, WantsKey
<1>8. below \in Stored /\ ended \in BOOLEAN BY <1>2, <1>7 DEF EngineTypeOK, Stored
<1>9. key = NoKey => below = Nil OBVIOUS
<1>10. RunOK(tx, r) BY <1>1, <1>3, <1>4, <1>8, StepKeeps DEF r
<1>11. FollowsReplay(tx, r)
  <2> HIDE DEF key, below
  <2> QED BY <1>1, <1>3, <1>4, <1>8, <1>9, StepFollows DEF r, key
<1>12. RunsOn(tx, working, r.fetched, 0)
  <2>1. r.fetched = IF key # NoKey /\ r.status # "cancelled" THEN Append(m.fetched, below) ELSE m.fetched
    <3>1. CASE r.status # "cancelled"
      BY <1>1, <1>3, <1>4, <1>8, <3>1, StepFetches DEF r
    <3>2. CASE r.status = "cancelled"
      <4> HIDE DEF below
      <4>1. Cancels(m, r)
        <5>1. m.status # "cancelled" BY <1>1 DEF Halted
        <5>2. DOMAIN m = RunFields /\ RunTypeOK(m) BY <1>4 DEF RunOK, RunTypeOK
        <5>3. ~ LoopEnds(tx, m, r) /\ ~ LoopRuns(tx, m, r) /\ ~ Computes(tx, m, r)
          BY <3>2, <5>1, <5>2 DEF LoopEnds, LoopRuns, Computes, RunFields
        <5>4. ~ Finishes(tx, m, r) /\ ~ Validates(tx, m, r) /\ ~ RunsOut(tx, m, r)
          BY <3>2, <5>2 DEF Finishes, Validates, RunsOut, RunFields
        <5>5. ~ Performs(tx, m, below, r)
          BY <3>2, <5>1, <5>2, ChargedFields DEF Performs, Performed, Endings
        <5> QED BY <1>1, <1>3, <1>4, <1>8, <5>3, <5>4, <5>5, StepResult DEF r
      <4>2. r.fetched = m.fetched BY <1>4, <4>1 DEF Cancels, RunOK, RunTypeOK, RunFields
      <4> QED BY <3>2, <4>2
    <3> QED BY <3>1, <3>2
  <2>2. CASE key # NoKey /\ r.status # "cancelled"
    <3>1. key \in Keys /\ below = working[key] BY <1>7, <2>2
    <3>2. m.status # "cancelled" BY <1>1 DEF Halted
    <3>3. Replay(tx, m.fetched) = m BY <1>3, <1>4, <2>2, <3>2, ReplayOfRun
    <3>4. ProgramRead(tx, m.fetched) = key BY <1>1, <3>3 DEF ProgramRead
    <3>5. m.fetched \in Seq(Stored) BY <1>4 DEF RunOK, RunTypeOK
    <3> HIDE DEF key, below
    <3> QED BY <1>4, <1>8, <2>1, <2>2, <3>1, <3>4, <3>5, RunsFurther
  <2>3. CASE ~ (key # NoKey /\ r.status # "cancelled") BY <1>4, <2>1, <2>3
  <2> QED BY <2>2, <2>3
<1>13. RunPaid(r) BY <1>3, <1>10, ChargePaid
<1> QED BY <1>1, <1>2, <1>5, <1>6, <1>10, <1>11, <1>12, <1>13 DEF RunningOK

(* A sequence is one of its own elements.                                  *)
LEMMA OwnElements ==
  ASSUME NEW S, NEW q \in Seq(S)
  PROVE  q \in Seq({q[t] : t \in DOMAIN q})
<1> DEFINE R == {q[t] : t \in DOMAIN q}
<1>1. Len(q) \in Nat /\ DOMAIN q = 1 .. Len(q) /\ q \in [1 .. Len(q) -> S] BY LenProperties
<1>2. \A t \in 1 .. Len(q) : q[t] \in R BY <1>1
<1> HIDE DEF R
<1>3. q \in [1 .. Len(q) -> R] BY <1>1, <1>2
<1>4. q \in Seq(R) BY <1>1, <1>3, SeqDef
<1> QED BY <1>4 DEF R

(* The result of a transaction, and its writes.                            *)
LEMMA CommitKeeps ==
  ASSUME EngineTypeOK, Len(results) < Len(Block), RunningOK(Transaction), Halted(run),
         run.status # "cancelled", SerialSoFar(Block, input.state), UNCHANGED input,
         working' = Written(working, Committed(run)), results' = Append(results, run)
  PROVE  /\ working' \in [Keys -> Stored] /\ Len(results') <= Len(Block)
         /\ results' \in Seq({results'[t] : t \in DOMAIN results'})
         /\ SerialSoFar(Block, input.state)'
<1> DEFINE tx == Transaction
           b == Block
           s == input.state
           n == Len(results)
<1>0. n \in Nat /\ Len(b) \in Nat /\ n < Len(b) BY CallTypes
<1>1. tx \in Transactions /\ n + 1 \in 1 .. Len(b) /\ tx = b[n + 1] BY CurrentTransaction
<1>2. PICK S : results \in Seq(S) BY DEF EngineTypeOK
<1>3. results \in Seq(S \cup {run})
  <2>1. results \in [1 .. n -> S] BY <1>2, LenProperties
  <2>2. results \in [1 .. n -> S \cup {run}] BY <2>1
  <2> HIDE DEF n
  <2> QED BY <1>0, <2>2, SeqDef
<1>4. /\ results' \in Seq(S \cup {run}) /\ Len(results') = n + 1 /\ results'[n + 1] = run
      /\ \A t \in 1 .. n : results'[t] = results[t]
  BY <1>3, AppendProperties
<1>5. results' \in Seq({results'[t] : t \in DOMAIN results'}) BY <1>4, OwnElements
<1>6. working' \in [Keys -> Stored]
  <2>1. WritesOK(run.writes) BY DEF RunningOK, RunOK, RunTypeOK
  <2>2. WritesOK(Committed(run))
    <3>1. WritesOK(<< >>) BY DEF WritesOK
    <3> QED BY <2>1, <3>1 DEF Committed
  <2>3. \A k \in DOMAIN Committed(run) : Committed(run)[k] \in Stored BY <2>2 DEF WritesOK, Stored
  <2> QED BY <2>3 DEF Written, EngineTypeOK
<1>7. ReadsOn(tx, working) = run.fetched /\ ProgramWrites(tx, ReadsOn(tx, working)) = Committed(run)
  BY <1>1, RunEnded DEF RunningOK
<1>8. After(working, tx) = working' BY <1>7 DEF After
<1>9. ASSUME NEW f, StatesEquation(f, b, s, Len(b))
      PROVE  /\ working' = f[n + 1]
             /\ \A t \in 1 .. n + 1 : results'[t].status # "cancelled" /\ results'[t].fetched = ReadsOn(b[t], f[t - 1])
  <2>1. /\ working = f[n]
        /\ \A t \in 1 .. n : results[t].status # "cancelled" /\ results[t].fetched = ReadsOn(b[t], f[t - 1])
    BY <1>9 DEF SerialSoFar
  <2> HIDE DEF n, tx, b, s
  <2>2. n + 1 \in 0 .. Len(b) /\ n + 1 # 0 /\ (n + 1) - 1 = n BY <1>0, <1>1
  <2>3. f[n + 1] = After(f[(n + 1) - 1], b[n + 1]) BY <1>9, <2>2 DEF StatesEquation
  <2>4. working' = f[n + 1] BY <1>1, <1>8, <2>1, <2>2, <2>3
  <2>5. ASSUME NEW t \in 1 .. n + 1
        PROVE  results'[t].status # "cancelled" /\ results'[t].fetched = ReadsOn(b[t], f[t - 1])
    <3>1. CASE t = n + 1
      <4>1. f[t - 1] = working BY <2>1, <2>2, <3>1
      <4> QED BY <1>1, <1>4, <1>7, <3>1, <4>1
    <3>2. CASE t # n + 1
      <4>1. t \in 1 .. n BY <1>0, <3>2
      <4> QED BY <1>4, <2>1, <4>1
    <3> QED BY <3>1, <3>2
  <2> QED BY <2>4, <2>5
<1>10. Block' = b /\ (input.state)' = s BY DEF Block
<1>11. SerialSoFar(Block, input.state)'
  <2> SUFFICES ASSUME NEW f, StatesEquation(f, Block', input'.state, Len(Block'))
               PROVE  /\ working' = f[Len(results')]
                      /\ \A t \in 1 .. Len(results') :
                           results'[t].status # "cancelled" /\ results'[t].fetched = ReadsOn(Block'[t], f[t - 1])
    BY DEF SerialSoFar
  <2>1. StatesEquation(f, b, s, Len(b)) BY <1>10
  <2> QED BY <1>4, <1>9, <1>10, <2>1
<1>12. Len(results') <= Len(b) BY <1>0, <1>4
<1> QED BY <1>5, <1>6, <1>11, <1>12

(* What Start does to the call: no outcome is "ok".                        *)
LEMMA StartFacts ==
  ASSUME NEW epoch, NEW ready, Start(epoch, ready)
  PROVE  /\ stage = "start" /\ working' = storage /\ UNCHANGED <<input, storage, results, run, ended>>
         /\ \/ stage' = "returned" /\ outcome' \in {"rejected", "context", "policy"}
            \/ stage' = "admit" /\ outcome' = outcome
<1> DEFINE err == Refused(Refused("", "EPOCH_START", epoch), "BLOCK_READY", ready)
           accepted == BlockAccepted /\ ConfigAccepted
           called == accepted /\ ~ ended /\ DispatcherAccepted
<1>1. (CASE ~ accepted -> Return("rejected")
        [] accepted /\ ended -> Return("context")
        [] accepted /\ ~ ended /\ ~ DispatcherAccepted -> Return("rejected")
        [] called /\ err # "" -> Return("policy")
        [] called /\ err = "" -> stage' = "admit" /\ UNCHANGED outcome)
  BY DEF Start
<1>2. accepted \in BOOLEAN BY DEF BlockAccepted, ConfigAccepted
<1> HIDE DEF err, accepted
<1>3. \/ Return("rejected") \/ Return("context") \/ Return("policy")
      \/ stage' = "admit" /\ outcome' = outcome
  BY <1>1, Zenon
<1> QED BY <1>3 DEF Start, Return

LEMMA AdmitFacts ==
  ASSUME NEW admission, NEW ready, NEW task, Admit(admission, ready, task)
  PROVE  /\ stage = "admit" /\ Len(results) < Len(Block)
         /\ UNCHANGED <<input, storage, working, results, ended>>
         /\ \/ stage' = "returned" /\ outcome' \in {"unsupported", "context", "policy"} /\ run' = run
            \/ stage' = "run" /\ outcome' = outcome /\ run' = NewRun
<1> QED BY Zenon DEF Admit, Return

LEMMA EndFacts ==
  ASSUME NEW answer, EndTransaction(answer)
  PROVE  /\ stage = "run" /\ Halted(run) /\ UNCHANGED <<input, storage, run, ended>>
         /\ \/ /\ stage' = "returned" /\ outcome' \in {"context", "policy"}
               /\ working' = working /\ results' = results
            \/ /\ stage' = "admit" /\ outcome' = outcome /\ run.status # "cancelled"
               /\ working' = Written(working, Committed(run)) /\ results' = Append(results, run)
<1> DEFINE err == Refused(policyErr, "TX_END", answer)
           commit ==
             /\ working' = [k \in Keys |-> IF k \in DOMAIN CommitTo THEN CommitTo[k] ELSE working[k]]
             /\ results' = Append(results, run)
             /\ stage' = "admit"
             /\ UNCHANGED outcome
<1>1. (CASE err # "" -> Return("policy") /\ UNCHANGED <<working, results>>
        [] err = "" /\ run.status = "cancelled" -> Return("context") /\ UNCHANGED <<working, results>>
        [] err = "" /\ run.status # "cancelled" -> commit)
  BY DEF EndTransaction
<1> HIDE DEF err, commit
<1>2. \/ (Return("policy") \/ Return("context")) /\ UNCHANGED <<working, results>>
      \/ run.status # "cancelled" /\ commit
  BY <1>1, Zenon
<1> QED BY <1>2 DEF EndTransaction, Return, commit, CommitTo, Written

(* Nothing changes for the results and the private copy.                   *)
LEMMA SerialStays ==
  ASSUME SerialInv, UNCHANGED <<input, working, results>>, ended' \in BOOLEAN,
         stage' \in {"start", "admit", "run", "returned"}
  PROVE  EngineTypeOK' /\ SerialSoFar(Block, input.state)' /\ Block' = Block
<1>1. Block' = Block BY DEF Block
<1>2. EngineTypeOK' BY <1>1 DEF SerialInv, EngineTypeOK
<1>3. SerialSoFar(Block, input.state)' BY <1>1 DEF SerialInv, SerialSoFar
<1> QED BY <1>1, <1>2, <1>3

(* The call begins with the caller's state in the private copy.            *)
LEMMA NoneSoFar ==
  EngineTypeOK /\ results = << >> /\ working = input.state => SerialSoFar(Block, input.state)
<1> SUFFICES ASSUME EngineTypeOK, results = << >>, working = input.state
             PROVE  SerialSoFar(Block, input.state)
  OBVIOUS
<1>1. Len(results) = 0 BY EmptySeq
<1>2. 0 \in 0 .. Len(Block) BY CallTypes
<1>3. ASSUME NEW f, StatesEquation(f, Block, input.state, Len(Block)) PROVE f[0] = input.state
  BY <1>2, <1>3 DEF StatesEquation
<1> QED BY <1>1, <1>3 DEF SerialSoFar

(* The run that Admit begins has fetched nothing.                          *)
LEMMA AdmitKeeps ==
  ASSUME NEW tx \in Transactions, NEW s
  PROVE  RunOK(tx, NewRun) /\ FollowsReplay(tx, NewRun) /\ RunsOn(tx, s, NewRun.fetched, 0) /\ RunPaid(NewRun)
<1>1. RunOK(tx, NewRun) /\ FollowsReplay(tx, NewRun) /\ NewRun.fetched = << >> BY NewRunFollows
<1>2. RunsOn(tx, s, << >>, 0)
  <2>1. Len(<< >>) = 0 BY EmptySeq
  <2>2. 0 .. Len(<< >>) - 1 = {} BY <2>1
  <2> QED BY <2>2 DEF RunsOn
<1> QED BY <1>1, <1>2, ChargePaid

LEMMA StartStep ==
  ASSUME SerialInv, NEW epoch, NEW ready, Start(epoch, ready)
  PROVE  SerialInv'
<1>1. /\ stage = "start" /\ working' = storage /\ UNCHANGED <<input, storage, results, run, ended>>
      /\ \/ stage' = "returned" /\ outcome' \in {"rejected", "context", "policy"}
         \/ stage' = "admit" /\ outcome' = outcome
  BY StartFacts
<1>2. results = << >> /\ outcome = "running" /\ storage = input.state
  BY <1>1 DEF SerialInv, CallOK
<1>3. Block' = Block BY <1>1 DEF Block
<1>4. EngineTypeOK'
  <2>1. working' \in [Keys -> Stored] BY <1>1, <1>2, CallTypes DEF SerialInv
  <2> QED BY <1>1, <1>3, <2>1 DEF SerialInv, EngineTypeOK
<1>5. SerialSoFar(Block, input.state)'
  <2>1. results' = << >> /\ working' = input'.state BY <1>1, <1>2
  <2>2. (EngineTypeOK /\ results = << >> /\ working = input.state)' BY <1>4, <2>1
  <2>3. (EngineTypeOK /\ results = << >> /\ working = input.state => SerialSoFar(Block, input.state))'
    BY NoneSoFar, PTL
  <2> QED BY <2>2, <2>3
<1>6. CallOK' BY <1>1, <1>2 DEF CallOK
<1>7. RunPaid(run)' BY <1>1 DEF SerialInv
<1> QED BY <1>1, <1>4, <1>5, <1>6, <1>7 DEF SerialInv

LEMMA AdmitStep ==
  ASSUME SerialInv, NEW admission, NEW ready, NEW task, Admit(admission, ready, task)
  PROVE  SerialInv'
<1>1. /\ stage = "admit" /\ Len(results) < Len(Block)
      /\ UNCHANGED <<input, storage, working, results, ended>>
      /\ \/ stage' = "returned" /\ outcome' \in {"unsupported", "context", "policy"} /\ run' = run
         \/ stage' = "run" /\ outcome' = outcome /\ run' = NewRun
  BY AdmitFacts
<1>2. EngineTypeOK' /\ SerialSoFar(Block, input.state)' /\ Block' = Block
  <2>1. ended' \in BOOLEAN BY <1>1 DEF SerialInv, EngineTypeOK
  <2> QED BY <1>1, <2>1, SerialStays
<1>3. outcome = "running" /\ storage = input.state BY <1>1 DEF SerialInv, CallOK
<1>4. CallOK' BY <1>1, <1>3 DEF CallOK
<1>5. Transaction \in Transactions BY <1>1, CurrentTransaction DEF SerialInv
<1>6. Transaction' = Transaction BY <1>1, <1>2 DEF Transaction
<1>7. stage' = "run" => Len(results') < Len(Block') /\ RunningOK(Transaction)'
  <2>1. stage' = "run" => run' = NewRun BY <1>1
  <2> QED BY <1>1, <1>2, <1>5, <1>6, <2>1, AdmitKeeps DEF RunningOK
<1>8. RunPaid(run)' BY <1>1, <1>5, AdmitKeeps DEF SerialInv
<1> QED BY <1>2, <1>4, <1>7, <1>8 DEF SerialInv

LEMMA EndStep ==
  ASSUME SerialInv, NEW answer, EndTransaction(answer)
  PROVE  SerialInv'
<1>1. /\ stage = "run" /\ Halted(run) /\ UNCHANGED <<input, storage, run, ended>>
      /\ \/ /\ stage' = "returned" /\ outcome' \in {"context", "policy"}
            /\ working' = working /\ results' = results
         \/ /\ stage' = "admit" /\ outcome' = outcome /\ run.status # "cancelled"
            /\ working' = Written(working, Committed(run)) /\ results' = Append(results, run)
  BY EndFacts
<1>2. /\ EngineTypeOK /\ Len(results) < Len(Block) /\ RunningOK(Transaction)
      /\ SerialSoFar(Block, input.state) /\ outcome = "running" /\ storage = input.state
  BY <1>1 DEF SerialInv, CallOK
<1>3. Block' = Block BY <1>1 DEF Block
<1>4. CallOK' BY <1>1, <1>2 DEF CallOK
<1>5. EngineTypeOK' /\ SerialSoFar(Block, input.state)'
  <2>1. CASE stage' = "returned"
    <3>1. UNCHANGED <<input, working, results>> BY <1>1, <2>1
    <3>2. ended' \in BOOLEAN BY <1>1, <1>2 DEF EngineTypeOK
    <3> QED BY <2>1, <3>1, <3>2, SerialStays
  <2>2. CASE stage' = "admit"
    <3>1. /\ run.status # "cancelled" /\ working' = Written(working, Committed(run))
          /\ results' = Append(results, run)
      BY <1>1, <2>2
    <3>2. /\ working' \in [Keys -> Stored] /\ Len(results') <= Len(Block)
          /\ results' \in Seq({results'[t] : t \in DOMAIN results'})
          /\ SerialSoFar(Block, input.state)'
      BY <1>1, <1>2, <3>1, CommitKeeps
    <3> QED BY <1>1, <1>2, <1>3, <2>2, <3>2 DEF EngineTypeOK
  <2> QED BY <1>1, <2>1, <2>2
<1>6. RunPaid(run)' BY <1>1 DEF SerialInv
<1>7. stage' # "run" BY <1>1
<1> QED BY <1>4, <1>5, <1>6, <1>7 DEF SerialInv

LEMMA PublishStep ==
  ASSUME SerialInv, Publish
  PROVE  SerialInv'
<1>1. /\ stage = "admit" /\ stage' = "returned" /\ Len(results) = Len(Block)
      /\ UNCHANGED <<input, working, results, run, ended, policyErr>>
      /\ \/ outcome' = "context" /\ storage' = storage
         \/ outcome' = "ok" /\ storage' = working
  BY DEF Publish, Return
<1>2. storage = input.state BY <1>1 DEF SerialInv, CallOK
<1>3. EngineTypeOK' /\ SerialSoFar(Block, input.state)' /\ Block' = Block
  <2>1. ended' \in BOOLEAN BY <1>1 DEF SerialInv, EngineTypeOK
  <2> QED BY <1>1, <2>1, SerialStays
<1>4. CallOK' BY <1>1, <1>2, <1>3 DEF CallOK
<1>5. RunPaid(run)' BY <1>1 DEF SerialInv
<1> QED BY <1>1, <1>3, <1>4, <1>5 DEF SerialInv

(* EndContext and stuttering leave all but the context alone.              *)
LEMMA ContextStep ==
  ASSUME SerialInv, UNCHANGED <<input, storage, working, results, run, stage, outcome>>, ended' \in BOOLEAN
  PROVE  SerialInv'
<1>1. EngineTypeOK' /\ SerialSoFar(Block, input.state)' /\ Block' = Block
  <2>1. stage' \in {"start", "admit", "run", "returned"} BY DEF SerialInv, EngineTypeOK
  <2> QED BY <2>1, SerialStays
<1>2. CallOK' BY <1>1 DEF SerialInv, CallOK
<1>3. Transaction' = Transaction BY <1>1 DEF Transaction
<1>4. (stage = "run" => Len(results) < Len(Block) /\ RunningOK(Transaction))'
  BY <1>1, <1>3 DEF SerialInv, RunningOK
<1>5. RunPaid(run)' BY DEF SerialInv
<1> QED BY <1>1, <1>2, <1>4, <1>5 DEF SerialInv

LEMMA RuntimeStep ==
  ASSUME SerialInv, NEW answer, RunStep(answer)
  PROVE  SerialInv'
<1>1. Len(results) < Len(Block) /\ RunningOK(Transaction)' /\ RunPaid(run)' BY RunStepKeeps
<1>2. UNCHANGED <<input, storage, working, results, stage, ended, outcome>> BY DEF RunStep
<1>3. EngineTypeOK' /\ SerialSoFar(Block, input.state)' /\ Block' = Block
  <2>1. ended' \in BOOLEAN /\ stage' \in {"start", "admit", "run", "returned"}
    BY <1>2 DEF SerialInv, EngineTypeOK
  <2> QED BY <1>2, <2>1, SerialStays
<1>4. CallOK' BY <1>2, <1>3 DEF SerialInv, CallOK
<1> QED BY <1>1, <1>2, <1>3, <1>4 DEF SerialInv

(* Every step of the engine keeps the invariant.                           *)
LEMMA SerialStep == SerialInv /\ [SerialNext]_engineVars => SerialInv'
<1> SUFFICES ASSUME SerialInv, [SerialNext]_engineVars PROVE SerialInv'
  OBVIOUS
<1>1. ASSUME NEW epoch \in Answers, NEW ready \in Answers, Start(epoch, ready) PROVE SerialInv'
  BY <1>1, StartStep
<1>2. ASSUME NEW admission \in Lanes, NEW ready \in Lanes, NEW task \in Answers, Admit(admission, ready, task)
      PROVE  SerialInv'
  BY <1>2, AdmitStep
<1>3. ASSUME NEW answer \in Answers, RunStep(answer) PROVE SerialInv'
  BY <1>3, RuntimeStep
<1>4. ASSUME NEW answer \in Answers, EndTransaction(answer) PROVE SerialInv'
  BY <1>4, EndStep
<1>5. CASE Publish BY <1>5, PublishStep
<1>6. CASE EndContext
  <2>1. UNCHANGED <<input, storage, working, results, run, stage, outcome>> /\ ended' \in BOOLEAN
    BY <1>6 DEF EndContext
  <2> QED BY <2>1, ContextStep
<1>7. CASE UNCHANGED engineVars
  <2>1. UNCHANGED <<input, storage, working, results, run, stage, outcome>> /\ ended' = ended
    BY <1>7 DEF engineVars
  <2>2. ended' \in BOOLEAN BY <2>1 DEF SerialInv, EngineTypeOK
  <2> QED BY <2>1, <2>2, ContextStep
<1> QED BY <1>1, <1>2, <1>3, <1>4, <1>5, <1>6, <1>7 DEF SerialNext, EngineStep, Returned

LEMMA SerialStarts == SerialInit => SerialInv
<1> SUFFICES ASSUME SerialInit PROVE SerialInv
  OBVIOUS
<1>1. /\ input \in Inputs /\ storage = input.state /\ working = input.state /\ results = << >>
      /\ run = NewRun /\ stage = "start" /\ ended \in BOOLEAN /\ outcome = "running"
  BY DEF SerialInit
<1>2. EngineTypeOK
  <2>1. Block \in Seq(Transactions) /\ input.state \in [Keys -> Stored]
    BY <1>1, InputsAssumption DEF Block
  <2>2. Len(Block) \in Nat /\ Len(results) = 0 BY <1>1, <2>1, LenProperties, EmptySeq
  <2>3. results \in Seq({results[t] : t \in DOMAIN results}) BY <1>1, EmptySeq
  <2> QED BY <1>1, <2>1, <2>2, <2>3 DEF EngineTypeOK
<1>3. SerialSoFar(Block, input.state) BY <1>1, <1>2, NoneSoFar
<1>4. CallOK BY <1>1 DEF CallOK
<1>5. RunPaid(run)
  <2>1. /\ NewRun.ordinal = 0 /\ NewRun.loop = -1 /\ NewRun.unitsUsed = 0 /\ Iterations(NewRun.digest) = 0
    BY IterationsNone DEF NewRun
  <2>2. Max({-1, 0}) = 0
    <3>1. \A x \in {-1, 0} : x <= 0 OBVIOUS
    <3>2. \A y \in {-1, 0} : (\A x \in {-1, 0} : x <= y) => y = 0 OBVIOUS
    <3> QED BY <3>1, <3>2 DEF Max
  <2> QED BY <1>1, <2>1, <2>2 DEF RunPaid
<1> QED BY <1>1, <1>2, <1>3, <1>4, <1>5 DEF SerialInv

LEMMA SerialInvariant == SerialSpec => []SerialInv
BY SerialStarts, SerialStep, PTL DEF SerialSpec

(***************************************************************************)
(* The results                                                             *)
(***************************************************************************)

(* For every block of programs and every state, whatever the policy        *)
(* answers and whenever the context ends: ExecuteBlock of the serial       *)
(* engine replaces the state by the serial result of the block, with the   *)
(* reads of the serial order in its results, or leaves the state alone.    *)
THEOREM OracleCorrect == SerialSpec => []OracleIsSerial
<1>1. SerialInv => OracleIsSerial
  <2> SUFFICES ASSUME SerialInv PROVE OracleIsSerial
    OBVIOUS
  <2>1. outcome # "ok" => storage = input.state BY DEF SerialInv, CallOK
  <2>2. Len(Block) \in Nat BY CallTypes DEF SerialInv
  <2>3. PICK f : f = Reference!SerialState OBVIOUS
  <2>4. StatesEquation(f, Block, input.state, Len(Block)) BY <2>2, <2>3, ReferenceState
  <2>5. /\ working = f[Len(results)]
        /\ \A t \in 1 .. Len(results) :
             results[t].status # "cancelled" /\ results[t].fetched = ReadsOn(Block[t], f[t - 1])
    BY <2>4 DEF SerialInv, SerialSoFar
  <2>6. ASSUME NEW t \in 1 .. Len(Block)
        PROVE  Reference!SerialReads(t - 1, f[t - 1]) = ReadsOn(Block[t], f[t - 1])
    <3>1. (t - 1) + 1 = t BY <2>2
    <3>2. Reference!SerialReads(t - 1, f[t - 1]) = ReadsOn(Block[(t - 1) + 1], f[t - 1]) BY ReferenceReads
    <3> QED BY <3>1, <3>2
  <2>7. ASSUME outcome = "ok"
        PROVE  /\ storage = f[Len(Block)] /\ Len(results) = Len(Block)
               /\ \A t \in 1 .. Len(Block) :
                    /\ results[t].status # "cancelled"
                    /\ results[t].fetched = Reference!SerialReads(t - 1, f[t - 1])
    <3>1. storage = working /\ Len(results) = Len(Block) BY <2>7 DEF SerialInv, CallOK
    <3> QED BY <2>5, <2>6, <3>1
  <2> QED BY <2>1, <2>3, <2>7 DEF OracleIsSerial
<1> QED BY <1>1, SerialInvariant, PTL

(* For every program and every MaxUnits: no more work is done than was     *)
(* charged, and no more charged than MaxUnits.                             *)
THEOREM WorkCorrect == SerialSpec => []WorkPaid
<1>1. SerialInv => WorkPaid
  BY DEF SerialInv, RunPaid, RunningOK, RunOK, ChargeOK, WorkPaid
<1> QED BY <1>1, SerialInvariant, PTL

(* What a write and a return leave, with an expression of value v or with  *)
(* a fault.                                                                *)
LEMMA WriteResult ==
  ASSUME NEW m, DOMAIN m = RunFields, NEW i, NEW v, v = EncodeInt64(ExpressionValue(i.expression, m.registers)),
         NEW r, r = ExecuteWrite(m, i), NEW fault, fault = ExpressionFault(i.expression, m.registers)
  PROVE  /\ fault # NoFault => r.code = fault
         /\ fault = NoFault => r.code = m.code /\ r.writes[i.key] = v
<1> DEFINE n == [m EXCEPT !.ordinal = @ + 1]
           w == Put(n.writes, i.key, v)
<1>1. r = IF fault # NoFault THEN EvaluationError(n, fault) ELSE [n EXCEPT !.writes = w, !.pc = @ + 1]
  BY DEF ExecuteWrite, NoFault
<1>2. DOMAIN n = RunFields /\ n.code = m.code BY DEF RunFields
<1>3. w[i.key] = v BY DEF Put
<1> HIDE DEF n, w
<1>4. ASSUME fault # NoFault PROVE r.code = fault
  BY <1>1, <1>2, <1>4 DEF EvaluationError, Ended, RunFields
<1>5. ASSUME fault = NoFault PROVE r.code = m.code /\ r.writes = w
  BY <1>1, <1>2, <1>5 DEF RunFields
<1> QED BY <1>3, <1>4, <1>5

LEMMA ReturnResult ==
  ASSUME NEW m, DOMAIN m = RunFields, NEW i, NEW v, v = EncodeInt64(ExpressionValue(i.expression, m.registers)),
         NEW r, r = ExecuteReturn(m, i), NEW fault, fault = ExpressionFault(i.expression, m.registers)
  PROVE  /\ fault # NoFault => r.code = fault
         /\ fault = NoFault => r.code = NoFault /\ r.value = v
<1>1. r = IF fault # NoFault THEN EvaluationError(m, fault) ELSE [Ended(m, "success", NoFault) EXCEPT !.value = v]
  BY DEF ExecuteReturn, NoFault
<1>4. ASSUME fault # NoFault PROVE r.code = fault
  BY <1>1, <1>4 DEF EvaluationError, Ended, RunFields
<1>5. ASSUME fault = NoFault PROVE r.code = NoFault /\ r.value = v
  BY <1>1, <1>5 DEF Ended, RunFields
<1> QED BY <1>4, <1>5

(* A step that evaluates an expression is one that performs a write or a   *)
(* return that has been paid for.                                          *)
LEMMA EvaluatesPerforms ==
  ASSUME SerialInv, [SerialNext]_engineVars, Evaluates
  PROVE  /\ Transaction \in Transactions /\ RunOK(Transaction, run) /\ run.code = NoFault
         /\ Current(Transaction, run) \in Instructions
         /\ \E below :
              run' = Perform([run EXCEPT !.unitsUsed = @ + Cost(Current(Transaction, run))],
                             Current(Transaction, run), below)
<1> DEFINE tx == Transaction
           i == Current(tx, run)
<1>1. /\ stage = "run" /\ run.status = "running" /\ run.pc < Len(tx.program) /\ i.op \in {"write", "return"}
      /\ run' # run /\ run'.status \notin {"cancelled", "out_of_gas"}
  BY DEF Evaluates, AtInstruction
<1>2. PICK answer : RunStep(answer)
  BY <1>1 DEF SerialNext, EngineStep, Start, Admit, EndTransaction, Publish, EndContext, Returned, engineVars
<1>3. EngineTypeOK /\ Len(results) < Len(Block) /\ RunOK(tx, run) BY <1>1 DEF SerialInv, RunningOK
<1>4. tx \in Transactions BY <1>3, CurrentTransaction
<1>5. i \in Instructions /\ run.code = NoFault
  BY <1>1, <1>3, <1>4, CurrentTypes DEF RunOK, PlaceOK
<1>6. run.loop \in Int /\ run.pc \in Nat /\ Len(tx.program) \in Nat /\ DOMAIN run = RunFields
  BY <1>3, <1>4, TransactionTypes DEF RunOK, RunTypeOK
<1>7. ~ (run.loop >= 0) BY <1>1, <1>3 DEF RunOK, PlaceOK
<1>8. PICK below : run' = Step(tx, run, below, ended) BY <1>2 DEF RunStep
<1> HIDE DEF tx, i
<1>9. run' = IF ended THEN Ended(run, "cancelled", "cancelled")
             ELSE IF ~ Affordable(tx, run, Current(tx, run))
               THEN [Ended(run, "out_of_gas", "out_of_gas") EXCEPT !.unitsUsed = tx.maxUnits]
             ELSE Perform([run EXCEPT !.unitsUsed = @ + Cost(Current(tx, run))], Current(tx, run), below)
  <2>1. ~ (run.pc >= Len(tx.program)) /\ run.status # "new" BY <1>1, <1>6
  <2> QED BY <1>7, <1>8, <2>1 DEF Step
<1>10. /\ Ended(run, "cancelled", "cancelled").status = "cancelled"
       /\ [Ended(run, "out_of_gas", "out_of_gas") EXCEPT !.unitsUsed = tx.maxUnits].status = "out_of_gas"
  BY <1>6 DEF Ended, RunFields
<1>11. run' = Perform([run EXCEPT !.unitsUsed = @ + Cost(Current(tx, run))], Current(tx, run), below)
  BY <1>1, <1>9, <1>10
<1> QED BY <1>3, <1>4, <1>5, <1>11 DEF tx, i

(* For every word size: a write or a return of a sum ends in an overflow   *)
(* exactly when the sum is no int64, and otherwise leaves a word that      *)
(* decodes to it.                                                          *)
THEOREM ArithmeticCorrect == SerialSpec => ArithmeticExact
<1> DEFINE Exact ==
      LET i == Current(Transaction, run)
          sum == OperandValue(i.expression.base, run.registers) + i.expression.delta
          word == IF i.op = "write" THEN run'.writes[i.key] ELSE run'.value
      IN /\ run'.code = "arithmetic_overflow" <=> sum \notin MinInt .. MaxInt
         /\ run'.code = "" => DecodeInt64(word) = sum
<1>1. ASSUME SerialInv, [SerialNext]_engineVars, Evaluates PROVE Exact
  <2> DEFINE i == Current(Transaction, run)
             n == [run EXCEPT !.unitsUsed = @ + Cost(i)]
             r == run'
             sum == OperandValue(i.expression.base, run.registers) + i.expression.delta
             fault == ExpressionFault(i.expression, run.registers)
             v == EncodeInt64(ExpressionValue(i.expression, run.registers))
             word == IF i.op = "write" THEN r.writes[i.key] ELSE r.value
  <2>1. /\ RunOK(Transaction, run) /\ run.code = NoFault /\ i \in Instructions
        /\ \E below : r = Perform(n, i, below)
    BY <1>1, EvaluatesPerforms
  <2>2. PICK below : r = Perform(n, i, below) BY <2>1
  <2>3. i.op \in {"write", "return"} /\ OperandFault(i.expression.base, run.registers) = NoFault
    BY <1>1 DEF Evaluates, NoFault
  <2>4. DOMAIN run = RunFields /\ RegistersOK(run.registers) BY <2>1 DEF RunOK, RunTypeOK
  <2>5. DOMAIN n = RunFields /\ n.registers = run.registers /\ n.code = NoFault
    BY <2>1, <2>4 DEF RunFields
  <2>6. NoFault # "arithmetic_overflow" BY DEF NoFault
  <2>7. /\ sum \in MinInt .. MaxInt => fault = NoFault /\ ExpressionValue(i.expression, run.registers) = sum
        /\ sum \notin MinInt .. MaxInt => fault = "arithmetic_overflow"
    BY <2>1, <2>3, <2>4, ExpressionExact
  <2>8. sum \in MinInt .. MaxInt => DecodeInt64(v) = sum BY <2>7, RoundTrip
  <2>9. /\ fault # NoFault => r.code = fault
        /\ fault = NoFault => r.code = NoFault /\ word = v
    <3> HIDE DEF n, i, r
    <3>1. CASE i.op = "write"
      <4>1. r = ExecuteWrite(n, i) BY <2>2, <3>1 DEF Perform
      <4> QED BY <2>5, <3>1, <4>1, WriteResult
    <3>2. CASE i.op = "return"
      <4>1. r = ExecuteReturn(n, i) BY <2>2, <3>2 DEF Perform
      <4> QED BY <2>5, <3>2, <4>1, ReturnResult
    <3> QED BY <2>3, <3>1, <3>2
  <2> HIDE DEF n, i, r, v, fault, word, sum
  <2>10. r.code = "arithmetic_overflow" <=> sum \notin MinInt .. MaxInt BY <2>6, <2>7, <2>9
  <2>11. r.code = NoFault => DecodeInt64(word) = sum BY <2>6, <2>7, <2>8, <2>9
  <2> QED BY <2>10, <2>11, Zenon DEF n, i, r, v, fault, word, sum, NoFault
<1>2. SerialInv /\ [SerialNext]_engineVars => [Evaluates => Exact]_engineVars
  BY <1>1
<1> QED BY <1>2, SerialInvariant, PTL DEF SerialSpec, ArithmeticExact
=============================================================================
