SPECIFICATION Spec
CONSTANTS
  N = 4
  Companion = {3}
  Retryable = {}
  MaxThrottle = 1
  MaxRetries = 1
  MaxLoops = 50
  None = None
INVARIANT SuccessCreates
CHECK_DEADLOCK FALSE
