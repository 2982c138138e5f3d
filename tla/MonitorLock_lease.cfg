CONSTANTS
  Replica = {r1, r2, r3}
  TTL = 6
  Interval = 1
  MaxTick = 2
  MaxBlips = 1
  MaxCrashes = 2
  Nobody = nobody
  Ghost = ghost

SPECIFICATION FairSpec

INVARIANTS
  TypeOK
  OneTicks
  OwnerRuns

PROPERTIES
  Failover
