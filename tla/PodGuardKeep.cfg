SPECIFICATION Spec
CONSTANTS
  p1 = p1
  p2 = p2
  Pods = {p1, p2}
  None = None
  Keep = TRUE
  MaxAttempts = 2
  MaxSignals = 2
  MaxFaults = 2
INVARIANT IInv
PROPERTIES
  ReleasedPodSurvives
  KeepsPromise
SYMMETRY PodSymmetry
