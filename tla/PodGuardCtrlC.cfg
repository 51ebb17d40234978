SPECIFICATION Spec
CONSTANTS
  p1 = p1
  p2 = p2
  Pods = {p1, p2}
  None = None
  Keep = FALSE
  MaxAttempts = 1
  MaxSignals = 1
  MaxFaults = 0
INVARIANT UnabortedExitLeavesNoBilledPod
SYMMETRY PodSymmetry
