CONSTANTS
  Policy <- OnlyOldest
  QueueLimit <- LongQueues
  Payloads = 5
SPECIFICATION Spec
INVARIANT NewestSurvives
CHECK_DEADLOCK FALSE
