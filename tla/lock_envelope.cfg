SPECIFICATION Spec
CONSTANTS
  Proc = {p1, p2, p3}
  NoLock = NoLock
  StaleTimeout = 4
  MaxRetries = 1
  MaxHold = 2
  MaxProbe = 1
  MaxCrashes = 0
  MaxErrors = 1
SYMMETRY Symmetry
INVARIANTS
  LockInv
  NeverWithoutLock
  MutualExclusion
PROPERTIES
  NoForeignUnlink
  ImplementsPromise
