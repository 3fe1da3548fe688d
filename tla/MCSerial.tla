------------------------------ MODULE MCSerial ------------------------------
(* Small programs for the serial engine: all programs of two instructions, *)
(* alone and before a fixed second transaction; all sums; charges at the   *)
(* limits of the counters; and the calls that are refused.                 *)
EXTENDS SerialEngine, TLC

Blank ==
  [op |-> "", key |-> "a", register |-> "r", code |-> "", target |-> 0, units |-> 0,
   expression |-> [base |-> Literal(0), delta |-> 0],
   condition |-> [kind |-> "always", register |-> "r", left |-> Register("r"), right |-> Literal(1)]]

Read(k) == [Blank EXCEPT !.op = "read", !.key = k]
Write(k, base, delta) ==
  [Blank EXCEPT !.op = "write", !.key = k, !.expression = [base |-> base, delta |-> delta]]
Delete(k) == [Blank EXCEPT !.op = "delete", !.key = k]
Compute(n) == [Blank EXCEPT !.op = "compute", !.units = n]
FailIf(kind) == [Blank EXCEPT !.op = "fail_if", !.code = "failed", !.condition.kind = kind]
JumpIf(kind, target) == [Blank EXCEPT !.op = "jump_if", !.condition.kind = kind, !.target = target]
Return_(base, delta) ==
  [Blank EXCEPT !.op = "return", !.expression = [base |-> base, delta |-> delta]]

Tx(id, units, program) == [id |-> id, maxUnits |-> units, program |-> program]

Default ==
  [executors |-> 0, window |-> 0, trace |-> "", policyNamed |-> TRUE,
   dependency |-> [mode |-> "", source |-> "", representation |-> "", builder |-> "",
                   wait |-> "", injection |-> ""]]

Call(block, state) == [id |-> "block", config |-> Default, block |-> block, state |-> state]
State(a, b) == "a" :> a @@ "b" :> b

\* One instruction of every kind, jumps forwards, backwards and to itself included.
Alphabet ==
  {Read("a"), Read("b"), Write("a", Register("r"), 1), Write("b", Literal(7), 0), Delete("a"),
   Compute(3), FailIf("exists"), FailIf("less_equal"), JumpIf("always", 0), JumpIf("not_equal", 2),
   JumpIf("not_exists", 3), Return_(Register("r"), -8)}

\* What is wrong with the text, one instruction for each reason.
Faulty ==
  {[Read("a") EXCEPT !.register = ""], Write("a", Operand("none", 0, ""), 0),
   Return_(Register(""), 0), [FailIf("always") EXCEPT !.code = ""], JumpIf("always", 4),
   JumpIf("always", -1), FailIf("unknown"), [JumpIf("exists", 0) EXCEPT !.condition.register = ""],
   [FailIf("greater") EXCEPT !.condition.right = Register("")], [Blank EXCEPT !.op = "call"]}

\* Copies a to b; it sees what the first transaction left.
Copy == Tx("copy", 3, <<Read("a"), Write("b", Register("r"), 0)>>)

Pairs ==
  {Call(<<Tx("first", 4, <<Read("b"), i, j>>), Copy>>, State(1, 15)) : i \in Alphabet, j \in Alphabet}

Singles ==
  {Call(<<Tx("only", 3, <<i, j>>)>>, State(Malformed, Nil)) : i \in Alphabet, j \in Alphabet \cup Faulty}

Sums ==
  {Call(<<Tx("sum", 4, <<Read("a"), Write("b", Register("r"), d), Return_(Register("r"), d)>>)>>,
        State(word, Nil)) : word \in 0 .. MaxUint, d \in MinInt .. MaxInt}

Charges ==
  {Call(<<Tx("charge", units, <<Write("a", Literal(1), 0), Compute(n), Delete("b")>>)>>, State(Nil, 1)) :
     units \in 0 .. 6, n \in {0, 1, 2, 4, MaxUint - 1, MaxUint}}

\* One transaction that loops over the conditions not in the alphabet.
Loops ==
  {Call(<<Tx("loop", 6, <<Read("a"), JumpIf(kind, 0), Write("b", Register("r"), 1)>>)>>, State(word, Nil)) :
     kind \in Comparisons, word \in {0, 1, 2}}

Good == Call(<<Copy>>, State(1, 2))

RefusedCalls ==
  {[Good EXCEPT !.id = ""], [Good EXCEPT !.block = <<Copy, Copy>>],
   [Good EXCEPT !.block = <<Tx("", 1, <<>>)>>], [Good EXCEPT !.config.executors = 2],
   [Good EXCEPT !.config.window = 2],
   [Good EXCEPT !.config.dependency.source = "static_program"],
   [Good EXCEPT !.config.dependency.mode = "summary"],
   [Good EXCEPT !.config.trace = "all"], [Good EXCEPT !.config.policyNamed = FALSE]}

AllInputs == Pairs \cup Singles \cup Sums \cup Charges \cup Loops \cup RefusedCalls
=============================================================================
