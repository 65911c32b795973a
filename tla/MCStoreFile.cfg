SPECIFICATION FairSpec
CHECK_DEADLOCK FALSE
CONSTANTS
  Api = Api
  ApiThreads = {a1, a2}
  WorkerProcs = {w1}
  NoThread = NoThread
  MaxUpdates = 1
  MaxFaults = 1
  MaxCrashes = 1
INVARIANTS
  FileTypeOK
PROPERTIES
  ImplementsAtomicFile
  FailureStaysInside
