SPECIFICATION Spec
CONSTANTS
  Requests <- MCRequests
  Bounds <- MCBounds
  Durations <- MCDurations
  Probe = TRUE
  ProbeDuration = 1
  Slo <- MCSlo
  MaxRequests = 3
  MaxOthers = 1
  None = None
INVARIANTS
  QuantilesAreTheLevels
  SloNeedsTraffic
  PriceIsForServedTokens
  UtilizationIsAFraction
