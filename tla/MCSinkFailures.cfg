CONSTANTS
  Policy <- BlockAndNewest
  QueueLimit <- LongQueues
  Payloads = 3
SPECIFICATION FailureSpec
INVARIANT FailureEndsPipeline
CHECK_DEADLOCK FALSE
