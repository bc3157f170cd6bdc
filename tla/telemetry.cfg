SPECIFICATION Spec
CONSTANTS
  Capacity = 2
  Fingerprints = {fpA, fpB}
  Times <- TwoTimes
  CoalesceWindow = 1
  MaxEvents = 4
INVARIANTS TypeOK AckedSurvives RingIsRecentHistory EventsAccounted
