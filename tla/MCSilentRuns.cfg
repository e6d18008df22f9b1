CONSTANTS
  p1 = p1
  p2 = p2
  Order <- OnePipeline
  MaxRestarts = 2
  ResetAfter = 2
  Watchdog = 2
  Caller = {c1}
SPECIFICATION SilentSpec
INVARIANT BarrenRunsBounded
CHECK_DEADLOCK FALSE
