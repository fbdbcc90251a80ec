CONSTANTS
  Txs = {t1, t2}
  Refs = {r1, r2}
  Values = {v1}
  Scopes = {s1}
  NoValue = NoValue
  NoTx = NoTx
  Unseen = Unseen
  MaxRevision = 1
SPECIFICATION Spec
SYMMETRY MCSymmetry
INVARIANT ReservationsAreHeld
INVARIANT ReadsAreSettled
PROPERTY ImplementsAtomicSecrets
CHECK_DEADLOCK FALSE
