CONSTANTS
  Policy <- EachPolicy
  QueueLimit <- ShortQueues
  Payloads = 4
SPECIFICATION FairSpec
INVARIANTS
  InOrder
  BlockLosesNothing
PROPERTIES
  ImplementsQueues
  ConsumeReturns
CHECK_DEADLOCK FALSE
