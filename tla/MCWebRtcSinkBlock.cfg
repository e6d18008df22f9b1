CONSTANTS
  QueueLimit = 2
  Policies = {"Block"}
  Executors = {"multi_thread"}
  Packets = 4
  Keyframes <- NoKeyframes
SPECIFICATION FairSpec
PROPERTY BackPressureEnds
CHECK_DEADLOCK FALSE
