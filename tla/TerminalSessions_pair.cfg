CONSTANTS
  Sessions = {s1, s2}
  TxIds = {t1, t2}
  DetourIds = {d1, d2}
  Ckpts = {c1}
  Payloads = {p1}
  Messages = {m1}
  Effects <- PlainOnly
  MaxChunks = 0
  MayBeBlocked = TRUE
  MayOffer = TRUE
  MaxCrashes = 1
  Root = Root
  NoHead = NoHead
  NoPayload = NoPayload
  NoVerdict = NoVerdict
SPECIFICATION SessionsSpec
SYMMETRY MCSymmetry
INVARIANT LiveTurnIsActive
INVARIANT DeliveredWasProjected
INVARIANT ProjectionsAreSettled
CHECK_DEADLOCK FALSE
