CONSTANTS
  Frames = 2
  TTL = 1
  Grace = 1
  Stale = 1
  Startup = 1
  Ceiling = 3
  MinAge = 2
  MaxFaults = 1

SPECIFICATION FairSpec

INVARIANTS
  TypeOK

PROPERTIES
  FailedForCause
  CompleteNotFailed
  DestroyedOnlyWhenOver
  JobSettles

CHECK_DEADLOCK FALSE
