SPECIFICATION FairSpec
CONSTANTS
  Jobs = {j1, j2}
  Sources = {s1, s2}
  Payloads <- MCPayloads
  Size <- MCSize
  s1 = s1
  None = None
  MaxParallel = 2
  MaxFaults = 1
INVARIANTS
  UpscaleTypeOK
PROPERTIES
  OwnWhenAlone
  RunEnds
CHECK_DEADLOCK FALSE
