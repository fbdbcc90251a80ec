CONSTANTS
  TxIds = {t1, t2}
  DetourIds = {}
  Ckpts = {c1}
  Payloads <- MCPayloads
  Messages = {}
  Effects = {}
  MaxChunks = 0
  Root = Root
  NoHead = NoHead
  NoPayload = NoPayload
  NoVerdict = NoVerdict
  NoRev = NoRev
  Revs = {r1}
  CanUpgrade = FALSE
  CanTear = FALSE
  MaxCrashes = 2
SPECIFICATION FairRuntimeSpec
INVARIANT LogInRevisionOrder
PROPERTY RestartServes
PROPERTY ObservationsCatchUp
PROPERTY InterruptedTurnsClose
CHECK_DEADLOCK FALSE
