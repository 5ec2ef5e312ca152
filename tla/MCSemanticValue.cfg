CONSTANTS
  TrainQ = TrainQ
  ValQ = ValQ
  solver = solver
  verifier = verifier
  Roles = {solver, verifier}
  Questions = {TrainQ, ValQ}
  HeldOut = {ValQ}
  PretrainedOn = {TrainQ}
  Batches <- AllBatches
  MaxBatch = 4
  Warmup = 2
  ReplayMax = 5
  MinTrain = 2
  MinVal = 2
  MinPerClass = 1
  Patience = 2
  DisableMiscalibrated = TRUE
  DisableWhenInsufficient = TRUE
SYMMETRY RoleSymmetry
SPECIFICATION Spec
CHECK_DEADLOCK FALSE
INVARIANTS
  ServedBeforeLearnt
  DeployedIsHeldOut
  StrikesAreEvidence
PROPERTIES
  DeployKeepsQualified
  ResumeIsExact
