SPECIFICATION SpecRunsOn
CONSTANTS
  BlockSize = 4
  Limit = 3
  Workers = {w1, w2, w3}
  NoWorker = NoWorker
  Nil = Nil
  NoKey = NoKey
  Keys = {"x", "k"}
  InitStorage <- Storage0
  NextRead <- ReaderRead
  WriteSet <- ReaderWrite
  Estimates <- NoEstimates
INVARIANTS
  IncarnationsHoldSlots
SYMMETRY WorkerSymmetry
