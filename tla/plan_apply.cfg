SPECIFICATION FairSpec
CONSTANTS
  N = 4
  Companion = {3}
  Retryable = {0, 1}
  MaxThrottle = 1
  MaxRetries = 1
  MaxLoops = 50
  None = None
INVARIANTS
  PlanInv
  LastCreateExists
PROPERTIES
  CreatesOnlyAfterYes
  BlockedPlanIsNotApplied
  EveryPlanIsReported
CHECK_DEADLOCK FALSE
