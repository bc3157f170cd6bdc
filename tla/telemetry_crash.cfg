SPECIFICATION Spec
CONSTANTS
  Capacity = 1
  Fingerprints = {fpA, fpB}
  Times <- TwoTimes
  CoalesceWindow = 1
  MaxEvents = 3
INVARIANTS CrashLosesOnlyTail
CHECK_DEADLOCK FALSE
