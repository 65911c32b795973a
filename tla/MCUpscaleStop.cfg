SPECIFICATION SysSpec
CONSTANTS
  JobIds = {j1}
  UpscaleIds = {j1}
  Workers = {w1}
  Handlers = {h1}
  NoWorker = NoWorker
  NoJob = NoJob
  DevMode = FALSE
  Upgraded = FALSE
  ReuseIds = TRUE
  MaxConcurrentJobs = 1
  MaxCreations = 1
  MaxAttempts = 2
  MaxCrashes = 0
  MaxRestarts = 0
PROPERTIES
  CooperativeStopIsCancelled
