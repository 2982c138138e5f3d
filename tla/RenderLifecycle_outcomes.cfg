CONSTANTS
  h1 = h1
  h2 = h2
  Chunk = {c1}
  Handler = {h1, h2}
  Daemon = daemon
  NoChunk = noChunk
  Does <- Outcomes
  MaxRetries = 2
  MaxJobs = 4
  MaxRows = 2
  MaxCrashes = 0
  DispatchRaises = FALSE

SPECIFICATION Spec
CHECK_DEADLOCK FALSE
SYMMETRY Symmetry

INVARIANTS
  TypeOK
  AttemptDispatchedOnce
  RetryBudget
  OneRunnerPerChunk

PROPERTIES
  PromiseKept
