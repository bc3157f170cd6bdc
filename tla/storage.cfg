SPECIFICATION FairSpec
CONSTANTS
  Migrations <- TwoMigrations
  Strict <- StrictObjects
  Table = "transcripts"
  InsertTrigger = "transcripts_ai"
  DeleteTrigger = "transcripts_ad"
  Profiles = {alice, bob}
  QueueMax = 2
  MaxOps = 3
  MaxFaults = 1
  MaxCrashes = 2
INVARIANTS TypeOK VersionMeansApplied IndexMatchesTable TranscriptInOrder LinesAccounted
PROPERTIES MigrationsComplete
