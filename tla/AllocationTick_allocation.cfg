CONSTANTS
  Machine = {"m1"}
  Offer = {"v1", "v2"}
  Endpoints <- MCEndpoints
  Gpu <- MCGpu
  Cap <- MCCap
  Share <- MCShare
  GpuPercent = 50
  Groups <- MCGroups
  Rankings <- MCRankings
  GpuCap = 2
  MaxGroups = 1
  MaxTargets = 2
  MaxRetries = 2
  Life = 1
  MaxFailures = 2
  MaxFaults = 1
  MaxTrouble = 1
SPECIFICATION FairSpec
INVARIANTS TypeOK CapKept PlannedOncePerSnapshot FramesConserved FailedNotRepeated
PROPERTY EventuallyPlaced
CHECK_DEADLOCK FALSE
