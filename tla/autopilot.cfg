SPECIFICATION Spec
CONSTANTS
  Destructive = {"kill"}
  MinInterval = 1
  MaxBurst = 1
  BurstWindow = 2
  ClockRange = 64
  Commands = {"say", "buy", "quit"}
  RuleLists <- MCRuleLists
  GateContexts <- MCContexts
  GateQueueCapacity = 0
  StartTime = 10
  MaxTime = 13
  MaxSkew = 1
  MaxProposals = 3
  Modes = {"disabled", "confirm-every", "allowlist-auto"}
  Allowlist = {"say", "buy"}
  Capacity = 2
  RateCap = 1
  RateWindow = 2
CHECK_DEADLOCK FALSE
INVARIANTS TypeOK StoppedMeansQuiet SentAtMostOnce OnlyPolicySends AuditAccountsForAll RateBudget
