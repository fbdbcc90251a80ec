CONSTANTS
  TxIds = {t1, t2}
  DetourIds = {d1, d2}
  Ckpts = {c1}
  Payloads = {p1, p2}
  Messages = {m1, m2}
  Effects <- EveryEffect
  MaxChunks = 1
  Root = Root
  NoHead = NoHead
  NoPayload = NoPayload
  NoVerdict = NoVerdict
SPECIFICATION Spec
SYMMETRY MCSymmetry
CONSTRAINT SmallStore
INVARIANT TypeOK
INVARIANT OneOpenAuthority
INVARIANT FenceCoversHead
INVARIANT RowsStayReadable
INVARIANT RepliesAnswerResolutions
INVARIANT StreamsAreReplayable
INVARIANT TablesAgree
INVARIANT CommitsFormOneChain
INVARIANT ActiveAttemptCanClose
PROPERTY HeadMovesOnlyByCommit
PROPERTY ImplementsProductHead
CHECK_DEADLOCK FALSE
