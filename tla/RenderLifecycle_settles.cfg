CONSTANTS
  h1 = h1
  h2 = h2
  Chunk = {c1}
  Handler = {h1}
  Daemon = daemon
  NoChunk = noChunk
  Does <- InTurns
  MaxRetries = 2
  MaxJobs = 3
  MaxRows = 2
  MaxCrashes = 0
  DispatchRaises = FALSE

SPECIFICATION FairSpec
CHECK_DEADLOCK FALSE

PROPERTIES
  EventuallySettled
