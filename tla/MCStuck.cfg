SPECIFICATION SpecRunsOn
CONSTANTS
  BlockSize = 5
  Workers = {w1, w2}
  NoWorker = NoWorker
  Nil = Nil
  NoKey = NoKey
  Keys = {"k", "x"}
  InitStorage <- Storage0
  NextRead <- SkipRead
  WriteSet <- SkipWrite
  Estimates <- SkipEstimates
  Policies <- SkipPolicies
SYMMETRY
  WorkerSymmetry
CHECK_DEADLOCK FALSE
INVARIANT
  SomeoneRuns
