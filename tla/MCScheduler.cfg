SPECIFICATION MCSpec
CONSTANTS
  BlockSize = 3
  Workers = {w1, w2}
  NoWorker = NoWorker
  MaxIncarnation = 1
INVARIANTS
  TaskAccounting
  OneOwner
  ResumeFindsWaiter
  NoLostWakeup
  DoneIsQuiescent
  IndInv
PROPERTIES
  StatusDiagram
