SPECIFICATION FairSpec
CONSTANTS
  N = 2
  Companion = {}
  Retryable = {0}
  MaxThrottle = 0
  MaxRetries = 1
  None = None
  Call = {c1, c2, c3}
INVARIANTS
  McpInv
  CreatesOncePerApply
  SuccessIsOwn
PROPERTIES
  EveryCallIsAnswered
CHECK_DEADLOCK FALSE
