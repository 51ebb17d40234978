SPECIFICATION FairSpec
CONSTANTS
  p1 = p1
  p2 = p2
  x1 = x1
  q1 = q1
  q2 = q2
  q3 = q3
  Ours = {p1, p2}
  Foreign = {x1}
  Pids = {q1, q2, q3}
  None = None
  MaxReuses = 1
  Panics = 1
  MaxCrashes = 2
  MaxFaults = 1
INVARIANTS
  TypeOK
  StartsFromACleanSlate
PROPERTIES
  OrphansKeepTheirEntry
  NoPodBillsForever
