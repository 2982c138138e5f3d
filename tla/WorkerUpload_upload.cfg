CONSTANTS
  Container = {k1, k2}
  FrameOf <- TwoFrames
  MaxFaults = 1

SPECIFICATION Spec
CHECK_DEADLOCK FALSE
SYMMETRY Symmetry

INVARIANTS
  TypeOK
  OneRenderer
  RegisteredIsStored
  TruncatedByKill
  FlushMakesUp
  DoneCoversChunk
