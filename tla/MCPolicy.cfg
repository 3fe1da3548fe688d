SPECIFICATION PolSpec
CONSTANTS
  BlockSize = 3
  Workers = {w1, w2}
  NoWorker = NoWorker
  Nil = Nil
  NoKey = NoKey
  Keys = {"a", "b"}
  InitStorage <- Storage0
  NextRead <- CopyRead
  WriteSet <- CopyWrite
  Estimates <- CopyEstimates
  Policies <- CopyPolicies
INVARIANTS
  ReservationsKept
  OnePlace
  AbortsReleased
  SleeperMissesNothing
  GateExact
PROPERTIES
  ImplementsSerial
  Terminates
