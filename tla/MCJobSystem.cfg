SPECIFICATION SysSpec
CONSTANTS
  JobIds = {j1}
  UpscaleIds = {}
  Workers = {w1, w2}
  Handlers = {h1, h2}
  NoWorker = NoWorker
  NoJob = NoJob
  DevMode = FALSE
  Upgraded = FALSE
  ReuseIds = TRUE
  MaxConcurrentJobs = 1
  MaxCreations = 2
  MaxAttempts = 2
  MaxCrashes = 1
  MaxRestarts = 1
SYMMETRY Interchangeable
INVARIANTS
  SysTypeOK
  SingleExecutor
  SucceededHasOutput
  ProbeSeesOwnJob
PROPERTIES
  StopIsStable
  ImplementsStore
