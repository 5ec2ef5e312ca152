CONSTANTS
  r1 = r1
  a = a
  A = A
  b = b
  NoQuery = NoQuery
  Rows = {r1}
  MaxSteps = 3
  Queries = {a, A, b}
  Spelling <- SpellingOf
  Retrieval = {TRUE, FALSE}
  HistoryLimit = 2
  InvalidRoute = "Answer Agent"
SPECIFICATION Spec
INVARIANTS
  EvidenceIsRecorded
