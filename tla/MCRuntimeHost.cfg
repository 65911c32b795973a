SPECIFICATION HostSpec
CONSTANTS
  Threads = {t1, t2}
  NoThread = NoThread
  Identities = {a, b}
  NoIdentity = NoIdentity
  MaxLoads = 4
SYMMETRY Interchangeable
INVARIANTS OneResident RightModel RunsOnSound
