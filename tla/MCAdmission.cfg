SPECIFICATION AdmSpec
CONSTANTS
  BlockSize = 3
  Limit = 2
  Workers = {w1, w2}
  NoWorker = NoWorker
  Nil = Nil
  NoKey = NoKey
  Keys = {"a"}
  InitStorage <- Storage0
  NextRead <- HotRead
  WriteSet <- HotWrite
  Estimates <- NoEstimates
INVARIANTS
  WindowBound
  StalledIsFull
PROPERTIES
  ImplementsSerial
  Terminates
