SPECIFICATION FairSysSpec
CONSTANTS
  JobIds = {j1, j2}
  UpscaleIds = {j2}
  Workers = {w1}
  Handlers = {h1}
  NoWorker = NoWorker
  NoJob = NoJob
  DevMode = TRUE
  Upgraded = TRUE
  ReuseIds = FALSE
  MaxConcurrentJobs = 1
  MaxCreations = 2
  MaxAttempts = 2
  MaxCrashes = 1
  MaxRestarts = 0
INVARIANTS CancelledOnlyIfAsked
PROPERTIES
  CancellationConverges EveryJobSettles
