SPECIFICATION FairSpec
CONSTANTS
  p1 = p1
  p2 = p2
  Pods = {p1, p2}
  None = None
  Keep = FALSE
  MaxAttempts = 2
  MaxSignals = 2
  MaxFaults = 2
INVARIANTS
  NoSilentLeak
  PendingSignalStopsTheRun
  GatesScoreWithPodDown
  CrashLeavesAnEntry
PROPERTIES
  RunEndsOrWatchdogDies
  AbortStopsThePod
