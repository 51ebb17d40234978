SPECIFICATION Spec
CONSTANTS
  qwen = qwen
  fp8 = fp8
  awq = awq
  gptq = gptq
  l40s = l40s
  l4 = l4
  dev_load = dev_load
  smoke = smoke
  draft = draft
  full = full
  half = half
  tiny = tiny
  Families <- MCFamilies
  Models <- MCModels
  Quants <- MCQuants
  Hardware <- MCHardware
  Benchmarks <- MCBenchmarks
  SupportedQuants <- MCSupportedQuants
  HardwareCap <- MCHardwareCap
  Variants <- MCVariants
  Scenarios <- MCScenarios
  PathOrder <- MCPathOrder
  Preflight <- MCPreflight
  Requests <- MCRequests
  Prices <- MCPrices
  Outcomes <- MCOutcomes
  Thetas <- MCThetas
  HoursPerMonth = 1
  MaxRuns = 3
  Unset = Unset
  None = None
INVARIANTS
  UnservableIsNeverPaid
  ServerFitsTheSweep
  RankingAgreesWithTheCurves
  
  DetailKeepsItsArtifacts
PROPERTY CurvesKeepWhatWasMeasured
CHECK_DEADLOCK FALSE
