SPECIFICATION Spec
CONSTANTS
  World = 4
  TPSize = 2
  SPSize = 2
  Offloaded = {"params", "optimizer"}
  Sizes <- MCSizes
  MaxBytes = 3
  Batch = 5
  Masks <- MCMasks
  Saved = 10
  MaxCalls = 3
INVARIANTS
  ServesNewestWeights
  RowsComeBack
  MemoryIsExclusive
PROPERTY
  EveryRankReturns
CHECK_DEADLOCK FALSE
