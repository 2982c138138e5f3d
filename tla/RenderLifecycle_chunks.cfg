CONSTANTS
  h1 = h1
  h2 = h2
  Chunk = {c1, c2}
  Handler = {h1}
  Daemon = daemon
  NoChunk = noChunk
  Does <- InTurns
  MaxRetries = 1
  MaxJobs = 4
  MaxRows = 3
  MaxCrashes = 0
  DispatchRaises = FALSE

SPECIFICATION Spec
CHECK_DEADLOCK FALSE
SYMMETRY ChunkSymmetry

INVARIANTS
  AttemptDispatchedOnce
  LedgerNamesLiveJob

PROPERTIES
  PromiseKept
