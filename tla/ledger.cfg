SPECIFICATION Spec
CONSTANTS
  Proc = {p1, p2}
  Nobody = Nobody
  Orphan = Orphan
  None = None
  Written = Written
  Junk = Junk
  TheKey = TheKey
  Lock = {"provisions", "failures", "audit"}
  File = {"provisions", "failures"}
  Ops = {"record", "clear", "list", "clean", "restore", "revert", "warm"}
  OldId = {1, 2}
  StaleId = {3}
  InitLogs <- UsedLogs
  ArnOf <- Resources
  Backup <- SavedLedger
  MaxRecords = 1
  MaxJobs = 3
  MaxFaults = 1
  Event = {1, 2, 3, 4, 5, 6, 7}
  KeyStates = {"absent", TheKey}
  Past <- PastEvents
INVARIANTS
  LedgerInv
  FaultsCostOneEach
  Recoverable
PROPERTIES
  NoBlindWrite
  RecentSurvives
  RestoreAddsNoDuplicate
SYMMETRY Symmetry
CHECK_DEADLOCK FALSE
