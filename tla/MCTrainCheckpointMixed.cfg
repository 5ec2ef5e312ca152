SPECIFICATION Spec
CONSTANTS
  WGs = {"solver", "verifier"}
  Configs <- ByOperator
  TotalSteps = 3
  EpochLen = 3
  Epochs = 1
  MaxRuns = 3
CHECK_DEADLOCK FALSE
INVARIANTS
  FoldersAreWhole
