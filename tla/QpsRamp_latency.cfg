CONSTANTS
  Levels = 5
  Consecutive = 2
  Outcomes <- SlowOutcomes
  Samples <- TwoSamples
  Failed = Failed
  NoResult = NoResult
  NoStatus = NoStatus
SPECIFICATION Spec
INVARIANT SustainedLatencyStops
CHECK_DEADLOCK FALSE
