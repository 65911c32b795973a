SPECIFICATION Spec
CONSTANTS
  JobIds = {j1, j2}
  Workers = {w1, w2}
  NoWorker = NoWorker
  DevMode = FALSE
  Upgraded = TRUE
  MaxCreations = 2
  MaxAttempts = 2
SYMMETRY Interchangeable
INVARIANTS
  RecordsCoherent
PROPERTIES
  MovesAreLegal
  SucceededIsFinal
  OwnerNeverChanges
  ImplementsLedger
