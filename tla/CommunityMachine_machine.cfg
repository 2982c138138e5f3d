CONSTANTS
  Jobs = 1
  Handlers = 2
  MaxTrouble = 1

SPECIFICATION FairSpec

INVARIANTS
  TypeOK

PROPERTIES
  KilledForCause
  JobEnds
  MachineComesBack

CHECK_DEADLOCK FALSE
