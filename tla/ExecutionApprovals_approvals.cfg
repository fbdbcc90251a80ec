CONSTANTS
  Wordings = {w1, w2}
  MaxTurns = 4
  MaxEdits = 1
  MaxPlans = 2
  MaxCrashes = 1
  NoRequest = NoRequest
  NoPlan = NoPlan
  NoJob = NoJob
  NoAttempt = NoAttempt
SPECIFICATION Spec
INVARIANT EvidenceFitsConfig
INVARIANT FinalNeedsSmoke
INVARIANT OneFinalPerPlan
CHECK_DEADLOCK FALSE
