SPECIFICATION Spec
CONSTANTS
  BlockSize = 3
  Workers = {w1, w2}
  NoWorker = NoWorker
  Nil = Nil
  NoKey = NoKey
  Keys = {"a", "b", "c"}
  InitStorage <- Storage0
  NextRead <- BranchRead
  WriteSet <- BranchWrite
  Estimates <- BranchEstimates
INVARIANTS
  EntriesMatchStatus
  NoMissedValidation
PROPERTIES
  SchedSpec
  ImplementsSerial
  Terminates
