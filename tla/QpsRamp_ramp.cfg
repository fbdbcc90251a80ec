CONSTANTS
  Levels = 4
  Consecutive = 2
  Outcomes <- ThreeOutcomes
  Samples <- TwoSamples
  Failed = Failed
  NoResult = NoResult
  NoStatus = NoStatus
SPECIFICATION Spec
INVARIANT StopsAreEarned
INVARIANT HealthyStopsAreDegraded
INVARIANT VerdictIsLastRuling
CHECK_DEADLOCK FALSE
