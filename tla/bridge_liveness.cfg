SPECIFICATION FairSpec
CONSTANTS
  s1 = s1  s2 = s2  s3 = s3  s4 = s4  none = none
  Slots <- MCSlots
  NoSlot = none
  QueueCapacity = 1
  MaxConnectAttempts = 1
  StaleTicks = 1
  AckStatuses = {TRUE, FALSE}
  MaxRetryTimers = 1
  MaxPosts = 0
  MaxFaults = 2
  MaxAbandoned = 1
  MaxCalls = 3
CHECK_DEADLOCK FALSE
PROPERTY PeerLossIsRepaired
