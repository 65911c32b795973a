SPECIFICATION FairSpec
CONSTANTS
  TreeFiles = {t1, t2}
  NamedFiles = {n1, n2}
  Revisions = {r1, r2}
  SourceVersions = {s1, s2}
  Absent = Absent
  Cut = Cut
  HubFiles = {f1, f2}
  HubListed = {f1}
  MaxChanges = 2
  MaxFaults = 2
INVARIANTS
  InstallTypeOK
  VerifiedIsWhole
  EnsureDelivers
PROPERTIES
  InstallConverges
