CONSTANTS
  Requests = 3
  Opens = 2
  Frames = 5
SPECIFICATION FairSpec
INVARIANTS
  ExclusiveCamera
  Gapless
  ErrorIsLast
PROPERTIES
  DropReturns
  DeathReported
CHECK_DEADLOCK FALSE
