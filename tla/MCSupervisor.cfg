CONSTANTS
  p1 = p1
  p2 = p2
  Order <- TwoPipelines
  MaxRestarts = 1
  ResetAfter = 2
  Watchdog = 1
  Caller = {c1}
SPECIFICATION FairSpec
INVARIANTS
  OkMeansEnded
  NoEndMissed
  BudgetExact
PROPERTIES
  ImplementsLifecycle
  ShutdownCompletes
  MediaOrEnd
CHECK_DEADLOCK FALSE
