SPECIFICATION Spec
CONSTANTS
  Proc = {"cli", "mcp"}
  None = None
  Run <- Runs
  Kind <- KindOfRun
  Holders <- HoldersOfRun
  Foreign = {"theirs"}
  Rank <- RankOfKind
  Worlds <- OnlyEmpty
  Commands <- Launches
  MaxJobs = 3
  MaxFaults = 0
  MaxPolls = 1
INVARIANTS
  KeyOnDisk
CHECK_DEADLOCK FALSE
