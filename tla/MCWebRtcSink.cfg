CONSTANTS
  QueueLimit = 3
  Policies = {"Block", "DropNewest", "DropOldest"}
  Executors = {"current_thread", "multi_thread"}
  Packets = 5
  Keyframes <- SomeKeyframes
SPECIFICATION FairSpec
INVARIANTS
  InOrder
  FlushedAll
PROPERTIES
  ImplementsQueue
  QueueDrains
  FlushReturns
CHECK_DEADLOCK FALSE
