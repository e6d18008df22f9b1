CONSTANTS
  QueueLimit = 2
  Policies = {"Block"}
  Executors = {"multi_thread"}
  Packets = 4
  Keyframes <- NoKeyframes
SPECIFICATION FairSpec
PROPERTY FailureReleases
CHECK_DEADLOCK FALSE
