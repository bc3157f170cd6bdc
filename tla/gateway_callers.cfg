SPECIFICATION CallersSpec
CONSTANTS
  Destructive = {"kill"}
  MinInterval = 2
  MaxBurst = 2
  BurstWindow = 2
  ClockRange = 64
  Commands = {"look", "kill", "say", "put", "quit"}
  RuleLists <- MCRuleLists
  GateContexts <- MCContexts
  GateQueueCapacity = 2
  StartTime = 10
  MaxTime = 12
  MaxSkew = 1
  MaxProposals = 2
CHECK_DEADLOCK FALSE
INVARIANTS CallersTypeOK GateHolds BurstBudget
