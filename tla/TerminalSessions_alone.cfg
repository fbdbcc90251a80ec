CONSTANTS
  Sessions = {s1}
  TxIds = {t1, t2}
  DetourIds = {d1, d2}
  Ckpts = {c1}
  Payloads = {p1}
  Messages = {m1}
  Effects <- PlainAndStream
  MaxChunks = 1
  MayBeBlocked = FALSE
  MayOffer = FALSE
  MaxCrashes = 2
  Root = Root
  NoHead = NoHead
  NoPayload = NoPayload
  NoVerdict = NoVerdict
SPECIFICATION FairSessionsSpec
PROPERTY OutcomesShown
PROPERTY CommandsAnswered
CHECK_DEADLOCK FALSE
