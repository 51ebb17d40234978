SPECIFICATION Spec
CONSTANTS
  Requests <- MCRequests
  Bounds <- MCBounds
  Durations <- MCDurations
  Probe = FALSE
  ProbeDuration = 1
  Slo <- MCSlo
  MaxRequests = 1
  MaxOthers = 1
  None = None
INVARIANT ClientUsageIfServersIsMissing
