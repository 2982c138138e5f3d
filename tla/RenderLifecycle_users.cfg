CONSTANTS
  h1 = h1
  h2 = h2
  Chunk = {c1}
  Handler = {h1, h2}
  Daemon = daemon
  NoChunk = noChunk
  Does <- Users
  MaxRetries = 0
  MaxJobs = 2
  MaxRows = 2
  MaxCrashes = 0
  DispatchRaises = FALSE

SPECIFICATION Spec
CHECK_DEADLOCK FALSE

INVARIANTS
  LedgerNamesLiveJob
