SPECIFICATION FairSpec
CONSTANTS
  p1 = p1
  p2 = p2
  Pods = {p1, p2}
  None = None
  Keep = FALSE
  MaxAttempts = 1
  MaxSignals = 0
  MaxFaults = 1
PROPERTY EveryRunEnds
