SPECIFICATION Spec
CONSTANTS
  N = 2
  Companion = {}
  Retryable = {0}
  MaxThrottle = 1
  MaxRetries = 1
  MaxLoops = 50
  None = None
  Origins = {"pattern_plan"}
INVARIANT HonestVerdict
CHECK_DEADLOCK FALSE
