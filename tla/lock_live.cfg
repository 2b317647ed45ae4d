SPECIFICATION FairSpec
CONSTANTS
  Proc = {p1, p2}
  NoLock = NoLock
  StaleTimeout = 2
  MaxRetries = 1
  MaxHold = 1
  MaxProbe = 1
  MaxCrashes = 1
  MaxErrors = 1
PROPERTIES
  EveryCallResolves
  OrphanIsReclaimed
