CONSTANTS
  r1 = r1
  r2 = r2
  a = a
  A = A
  b = b
  NoQuery = NoQuery
  Rows = {r1, r2}
  MaxSteps = 3
  Queries = {a, A, b}
  Spelling <- SpellingOf
  Retrieval = {TRUE}
  HistoryLimit = 0
  InvalidRoute = "Answer Agent"
SYMMETRY RowSymmetry
SPECIFICATION Spec
INVARIANTS
  CountersAreExact
  EveryRowIsAnswered
  PaidOnce
  TraceIsAudited
PROPERTY
  RowsAreIndependent
