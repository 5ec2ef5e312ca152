SPECIFICATION MCSpec
CONSTANTS
  r1 = r1
  r2 = r2
  r3 = r3
  r4 = r4
  Rows = {r1, r2, r3, r4}
  AnyRow = r1
  MaxLoop = 3
  MaxSteps = 2
  Agents = {"Solver Agent", "Verifier Agent"}
  Groups = {1, 2}
  GroupOf <- MCGroupOf
  MaxTries = 3
INVARIANTS
  LegalChain
  AnswerIsJudged
  ReadersAgree
  CreditFollowsGrade
  SampledBatchIsUsable
PROPERTIES
  ApprovedRowsAreFinal
  RunReturns
  RowsAreIndependent
