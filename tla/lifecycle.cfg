SPECIFICATION Spec
CONSTANTS
  Proc = {"cli", "mcp"}
  None = None
  Run <- Runs
  Kind <- KindOfRun
  Holders <- HoldersOfRun
  Foreign = {"theirs"}
  Rank <- RankOfKind
  Worlds <- AnyAccount
  Commands <- Everything
  MaxJobs = 2
  MaxFaults = 1
  MaxPolls = 1
INVARIANTS
  LifecycleInv
  CleanExitMeansGone
  RefusedCreateLeavesNothing
  NoSpareAddress
PROPERTIES
  DestroyedInstanceLeavesNothing
  TombstoneIsTrue
  EveryCommandEnds
CHECK_DEADLOCK FALSE
