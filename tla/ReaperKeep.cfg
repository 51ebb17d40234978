SPECIFICATION Spec
CONSTANTS
  p1 = p1
  p2 = p2
  x1 = x1
  q1 = q1
  q2 = q2
  q3 = q3
  Ours = {p1, p2}
  Foreign = {x1}
  Pids = {q1, q2, q3}
  None = None
  MaxReuses = 0
  Panics = 0
  MaxCrashes = 0
  MaxFaults = 0
PROPERTY KeptPodSurvives
SYMMETRY ReaperSymmetry
