CONSTANTS
  solver = solver
  verifier = verifier
  Roles = {solver, verifier}
  Turns = {0, 1}
  Batches <- AllBatches
  MaxStep = 3
  CalibrationSteps = 2
  MinCalibration = 2
  MinGroup = 1
  RampSteps = 2
SPECIFICATION Spec
CHECK_DEADLOCK FALSE
INVARIANTS
  CapsFromInitialPolicy
  RampIsEarned
  WeightIsGated
