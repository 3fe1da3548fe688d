SPECIFICATION SerialSpec
CONSTANTS
  Half = 8
  ComputeCheck = 2
  Nil = Nil
  Malformed = Malformed
  NoKey = NoKey
  Keys = {"a", "b"}
  Inputs <- AllInputs
INVARIANTS
  OracleIsSerial
  WorkPaid
PROPERTIES
  ArithmeticExact
  Halts
