CONSTANTS
  h1 = h1
  h2 = h2
  Chunk = {c1, c2}
  Handler = {h1}
  Daemon = daemon
  NoChunk = noChunk
  Does <- Outcomes
  MaxRetries = 0
  MaxJobs = 2
  MaxRows = 1
  MaxCrashes = 0
  DispatchRaises = FALSE

SPECIFICATION Spec
CHECK_DEADLOCK FALSE

INVARIANTS
  DoneIsComplete
