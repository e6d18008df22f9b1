CONSTANTS
  Depth = 2
  Builds = 2
  Packets = 2
  Failures = 2
SPECIFICATION FairSpec
INVARIANTS
  Gapless
  EndIsLast
PROPERTIES
  FailureReported
  WorkersEnd
CHECK_DEADLOCK FALSE
