SPECIFICATION Spec
CONSTANTS
  Requests = {r1, r2}
  MaxTurns = 1
  MaxCalls = 1
  PromptLen = 1
  MaxModelLen = 8
  ResponseLen = 2
  NumWorkers = 1
  RateLimit = 1
  MaxRetries = 1
  MaxBatches = 1
INVARIANT SamplingRestored
CHECK_DEADLOCK FALSE
