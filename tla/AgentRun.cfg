SPECIFICATION Spec
CONSTANTS
  typecheck = typecheck
  acceptance = acceptance
  N = 2
  Phases = 2
  Needs <- MCNeeds
  Completions <- MCCompletions
  Walls <- MCWalls
  MinValidWall = 30
  MaxTurns = 2
  None = None
INVARIANTS
  TypeOK
  HearsWhatWasDecided
  PassedWorkIsThere
  WipedWorkIsStillMeasured
  GarbageLevelIsInvalid
