CONSTANTS
  TxIds = {t1, t2}
  DetourIds = {}
  Ckpts = {c1}
  Payloads <- MCPayloads
  Messages = {}
  Effects = {}
  MaxChunks = 0
  Root = Root
  NoHead = NoHead
  NoPayload = NoPayload
  NoVerdict = NoVerdict
  NoRev = NoRev
  Revs = {r1, r2}
  CanUpgrade = TRUE
  CanTear = TRUE
  MaxCrashes = 2
SPECIFICATION RuntimeSpec
SYMMETRY MCSymmetry
INVARIANT LogHoldsCommitsOnce
INVARIANT PublishedIsLogged
INVARIANT InvokedIsNeverAborted
PROPERTY PresentationFollowsEvidence
CHECK_DEADLOCK FALSE
