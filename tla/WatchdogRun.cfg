SPECIFICATION Spec
CONSTANTS
  MaxStartup = 6
  StallStartup = 5
  StallGen = 3
  MaxRun = 16
  Poll = 1
  SampleMax = 1
  Margin = 3
  ReadyMax = 7
  SshMax = 2
  DownloadMax = 8
  DownloadMargin = 4
  Devs = {4, 5}
  MaxFlaps = 1
  None = None
INVARIANTS
  RunIsBounded
  SilentPodIsStopped
  HealthyPodIsNotStalled
  GuardGovernsStartup
  DownloadKeepsItsTimeout
