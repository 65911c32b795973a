SPECIFICATION FairSpec
CONSTANTS
  Jobs = {1, 2, 3}
  CreatedAt <- MCCreatedAt
  Statuses = {"queued", "cancelling", "succeeded", "failed"}
  NoJob = NoJob
  Absent = Absent
  All = All
  MaxWrites = 2
  MaxRequests = 2
  MaxLoads = 1
INVARIANTS
  WorkbenchTypeOK
  SummaryIsSound
  QuietPageAgrees
PROPERTIES
  KeepsItsResult
  PlayableStaysSelected
  PageCatchesUp
CHECK_DEADLOCK FALSE
