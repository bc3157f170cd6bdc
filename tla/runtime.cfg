SPECIFICATION FairSpec
CONSTANTS
  c1 = c1  c2 = c2
  Clients <- MCClients
  QueueCapacity = 1
  SocketCapacity = 1
  Kinds = {"ping", "request", "cancel", "shutdown", "malformed", "blank"}
  MaxFrames <- MCFrames
  MaxErrors = 1
INVARIANTS TypeOK QueueAccounts ShutdownStopsThreads
PROPERTY FramesAreRead
CHECK_DEADLOCK FALSE
