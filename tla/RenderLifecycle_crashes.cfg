CONSTANTS
  h1 = h1
  h2 = h2
  Chunk = {c1}
  Handler = {h1}
  Daemon = daemon
  NoChunk = noChunk
  Does <- Everyone
  MaxRetries = 0
  MaxJobs = 2
  MaxRows = 2
  MaxCrashes = 1
  DispatchRaises = TRUE

SPECIFICATION Spec
CHECK_DEADLOCK FALSE

INVARIANTS
  OneDispatchPerChunk

PROPERTIES
  NoSteal
