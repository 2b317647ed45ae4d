SPECIFICATION Spec
CONSTANTS
  Proc = {"cli", "mcp"}
  None = None
  Run <- Runs
  Kind <- KindOfRun
  Holders <- HoldersOfRun
  Foreign = {"theirs"}
  Rank <- RankOfKind
  Worlds <- OnlyWebsite
  Commands <- Buckets
  MaxJobs = 2
  MaxFaults = 0
  MaxPolls = 1
INVARIANTS
  LiveIsListed
CHECK_DEADLOCK FALSE
