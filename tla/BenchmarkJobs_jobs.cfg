CONSTANTS
  Submitters = {s1, s2}
  Jobs = {j1, j2}
  b1 = b1
  b2 = b2
  p1 = p1
  p2 = p2
  Bases <- MCBases
  Plans <- MCPlans
  Requests <- MCRequests
  NoRequest = NoRequest
  NoJob = NoJob
  NoRecord = NoRecord
  NoOutput = NoOutput
  NoSubmitter = NoSubmitter
SPECIFICATION Spec
INVARIANT TypeOK
INVARIANT OneRunPerKey
INVARIANT AnsweredInKind
PROPERTY ResultsStay
PROPERTY SubmissionsReturn
PROPERTY ImplementsJobLedger
CHECK_DEADLOCK FALSE
