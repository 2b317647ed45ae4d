SPECIFICATION Spec
CONSTANTS
  Proc = {p1, p2, p3}
  NoLock = NoLock
  StaleTimeout = 3
  MaxRetries = 1
  MaxHold = 1
  MaxProbe = 1
  MaxCrashes = 1
  MaxErrors = 0
INVARIANTS
  NeverWithoutLock
