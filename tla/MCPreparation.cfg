SPECIFICATION PrepSpec
CONSTANTS
  Nil = Nil
  BlockSize = 3
  Keys = {"a", "b"}
  Inputs <- AllInputs
INVARIANTS
  RunsAsReported
  GraphExact
  WaitCoversReads
