SPECIFICATION FairSpec
CONSTANTS
  Teams <- MCTeams
  Probe = TRUE
  Iterations = 5
  ScanEvery = 2
  MaxDeaths = 2
  MaxFaults = 2
  None = None
INVARIANTS
  TypeOK
  ZeroExitMeansEveryLevel
  AbortedLevelIsNotReported
  DeathCostsOneMeasurement
  NothingOutlivesTheRun
  StallLeavesEvidence
PROPERTY AbortEndsTheBody
