SPECIFICATION EngSpec
CONSTANTS
  BlockSize = 3
  Workers = {w1, w2}
  NoWorker = NoWorker
  Nil = Nil
  NoKey = NoKey
  Keys = {"a", "b"}
  InitStorage <- Storage0
  NextRead <- PairRead
  WriteSet <- PairWrite
  Estimates <- PairEstimates
  Policies <- EnginePolicies
  Gates = {"explicit", "summary"}
INVARIANTS
  ResultsAreSerial
  CauseReported
  GateHolds
PROPERTIES
  EngineImplements
  EngineReturns
