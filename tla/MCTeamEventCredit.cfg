CONSTANTS
  t1 = t1
  t2 = t2
  t3 = t3
  a = a
  NoKey = NoKey
  NoDocs = NoDocs
  Trajectories = {t1, t2, t3}
  MaxLoop = 3
  Keys = {a}
  Strength = 2
  Beta = 1
  ParentAlpha = 1
  ParentBeta = 2
  DepthWindow = 1
  Penalty = 46448640
  Scale = 46448640
  Discounts <- MCDiscounts
SYMMETRY TrajectorySymmetry
SPECIFICATION CreditSpec
INVARIANTS
  BaselineSeesNoOutcome
  BaselineWithinPeers
  FullTraceIsReturnLessBaseline
  CohortsAreCentred
