SPECIFICATION Spec
CONSTANTS
  WGs = {"solver", "verifier"}
  Configs <- MCConfigs
  TotalSteps = 4
  EpochLen = 2
  Epochs = 2
  MaxRuns = 3
CHECK_DEADLOCK FALSE
INVARIANTS
  LineageAgrees
  TrackedIsReadable
  BoundedLoss
  EndsAtLastStep
