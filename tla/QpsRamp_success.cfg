CONSTANTS
  Levels = 5
  Consecutive = 2
  Outcomes <- RateOutcomes
  Samples <- TwoSamples
  Failed = Failed
  NoResult = NoResult
  NoStatus = NoStatus
SPECIFICATION Spec
INVARIANT ReportedLoadWasReached
CHECK_DEADLOCK FALSE
