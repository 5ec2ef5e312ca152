SPECIFICATION Spec
CONSTANTS
  Requests = {r1, r2}
  MaxTurns = 2
  MaxCalls = 2
  PromptLen = 1
  MaxModelLen = 8
  ResponseLen = 2
  NumWorkers = 2
  RateLimit = 1
  MaxRetries = 2
  MaxBatches = 2
INVARIANTS
  NoneEndsInAToolCall
  InstancesOutliveCalls
  TokensComeBack
PROPERTY
  EveryBatchEnds
CHECK_DEADLOCK FALSE
