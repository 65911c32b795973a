SPECIFICATION Spec
CONSTANTS
  Jobs = {j1}
  Sources = {s1}
  Payloads <- MCPayloads
  Size <- MCSize
  s1 = s1
  None = None
  MaxParallel = 2
  MaxFaults = 1
INVARIANTS
  QueuedStaysExecutable
CHECK_DEADLOCK FALSE
