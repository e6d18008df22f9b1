CONSTANTS
  cam = cam
  yard = yard
  Id <- MCId
  Variable <- MCVariable
  Scenarios <- MCScenarios
  MaxWord = 50000000
  FrameBytes = 3110400
  Packets = 5
  Delay = 2
  Streams <- MCStreams
SPECIFICATION Spec
INVARIANTS
  FitsLimit
  HostServes
  AdaptersSuffice
  TargetGuarded
  InOrder
  FlushedAll
  NeverRefused
  UnitsKept
CHECK_DEADLOCK FALSE
