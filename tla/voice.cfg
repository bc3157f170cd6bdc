SPECIFICATION Spec
CONSTANTS
  MaxSpeechQueue = 2
  MaxJobs = 3
INVARIANTS TypeOK StoppedMeansSilent StateAgrees
PROPERTIES CriticalSpeechKept
