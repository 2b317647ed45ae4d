SPECIFICATION FairSpec
CONSTANTS
  N = 4
  Companion = {2, 3}
  Retryable = {0, 1}
  MaxThrottle = 1
  MaxRetries = 1
  MaxLoops = 50
  None = None
  Origins = {"intent", "plan"}
INVARIANTS
  ApplyInv
  DependencyOrder
  NoDuplicateResource
  PlannedForItsType
  NothingUnattended
  HonestVerdict
  LimitsNeedARetry
PROPERTIES
  OnlySoundPlans
  ThrottleBudgetIsFresh
  ImplementsOrderedApply
  EveryApplyIsReported
CHECK_DEADLOCK FALSE
