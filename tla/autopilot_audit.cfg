SPECIFICATION Spec
CONSTANTS
  Destructive = {"kill"}
  MinInterval = 1
  MaxBurst = 1
  BurstWindow = 2
  ClockRange = 64
  Commands = {"say", "buy", "put", "quit"}
  RuleLists <- MCRuleLists
  GateContexts <- MCContexts
  GateQueueCapacity = 0
  StartTime = 10
  MaxTime = 11
  MaxSkew = 0
  MaxProposals = 2
  Modes = {"disabled", "confirm-every", "allowlist-auto"}
  Allowlist = {"say", "buy"}
  Capacity = 1
  RateCap = 2
  RateWindow = 2
CHECK_DEADLOCK FALSE
INVARIANT AuditIsTruthful
