SPECIFICATION FairSpec
CONSTANTS
  Jobs = {j1, j2}
  Workers = {w1, w2}
  NoWorker = NoWorker
  NoJob = NoJob
  MaxConcurrentJobs = 1
  MaxRetries = 1
  MaxCrashes = 1
INVARIANTS
  RegistryTypeOK
  HiddenOnlyByOthers
  NeverAddsUp
PROPERTIES
  AliveIsSeen
