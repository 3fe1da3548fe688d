SPECIFICATION PoolSpec
CONSTANTS
  Goroutines = {g1, g2, g3, g4, g5, g6}
  Target = 2
  BlockSize = 4
SYMMETRY GoroutineSymmetry
INVARIANTS
  CountersExact
  CapacityKept
  SurplusHandedBack
