------------------------ MODULE SecretRegistryProofs ------------------------
(***************************************************************************)
(* What holds of the secret registry for any number of transactions and    *)
(* references, and for any bound on outside callers.                       *)
(*                                                                         *)
(* RegistryInv carries every result.  Besides who holds what               *)
(* (ReservationsAreHeld) it says what a transaction object says of itself  *)
(* (RowHolds), that a version stands for one content (VersionsFit), that   *)
(* what was prepared is still in the registry (PreparedHolds) and that     *)
(* what was published is still there (PublishedHolds).  The last one also  *)
(* says that a reference a clear wrote is of a version no other            *)
(* transaction has read: the undo of a clear takes such a reference back   *)
(* without counting its version up.                                        *)
(***************************************************************************)
EXTENDS SecretRegistry, FiniteSetTheorems, TLAPS

(* What a transaction object says of itself.                               *)
RowHolds(t) ==
    LET row == tx[t] IN
    /\ row.failed => row.stage = "published"
    /\ t \in uncertain => row.failed
    /\ decided[t] # "no" => row.stage \in {"published", "ended"}
    /\ decided[t] = "aborted" => row.failed \/ row.stage = "ended"
    /\ row.marked => decided[t] = "committed"
    /\ row.stage = "published" /\ decided[t] = "committed" => row.bound
    /\ row.stage \in {"new", "entering", "ended"} =>
          row.observed = Nothing /\ row.writes = Nothing /\ ~row.clearing
    /\ ~Holding(t) => row.reserved = {}
    /\ row.clearing => row.observed = Nothing /\ row.reserved = {}
    /\ ~row.clearing => \A r \in Refs : row.writes[r] # Unseen => row.observed[r] # Unseen
    /\ Holding(t) /\ ~row.clearing => row.reserved = {r \in Refs : row.observed[r] # Unseen}

(* A version stands for one content: whoever still has the version it      *)
(* read, has the content it read.                                          *)
VersionsFit(t) ==
    \A r \in Refs : tx[t].observed[r] # Unseen =>
        /\ tx[t].observed[r].version =< versions[r]
        /\ tx[t].stage # "published" /\ tx[t].observed[r].version = versions[r] =>
              tx[t].observed[r].content = values[r]

(* What was prepared is still what the registry holds.                     *)
PreparedHolds(t) ==
    tx[t].stage = "prepared" =>
        IF tx[t].clearing THEN \A r \in Refs : tx[t].clearBefore[r] = Snapshot(r)
        ELSE \A r \in tx[t].reserved : tx[t].observed[r].version = versions[r]

(* What was published is still there, and what a clear wrote is of a       *)
(* version nobody else has read.                                           *)
After(t, r) == IF tx[t].writes[r] # Unseen THEN tx[t].writes[r]
               ELSE IF tx[t].clearing THEN Absent ELSE tx[t].observed[r].content
PublishedHolds(t) ==
    tx[t].stage = "published" =>
        /\ \A r \in Refs : tx[t].clearing \/ r \in tx[t].reserved => values[r] = After(t, r)
        /\ tx[t].clearing => \A r \in Refs : tx[t].writes[r] # Unseen =>
              \A u \in Txs \ {t} : tx[u].observed[r] # Unseen =>
                 tx[u].observed[r].version < versions[r]

RegistryInv ==
    /\ TypeOK /\ ReservationsAreHeld
    /\ \A t \in Txs : RowHolds(t) /\ VersionsFit(t) /\ PreparedHolds(t) /\ PublishedHolds(t)
-----------------------------------------------------------------------------
(* Types.                                                                  *)
LEMMA Shapes ==
    /\ Absent \in Contents /\ Unseen \notin Contents /\ Unseen \notin Snapshots
    /\ Nothing \in [Refs -> Snapshots \cup {Unseen}]
    /\ Nothing \in [Refs -> Contents \cup {Unseen}]
    /\ NewTx \in TxRows /\ EndedTx \in TxRows
    /\ EndedTx.stage = "ended" /\ ~EndedTx.failed /\ ~EndedTx.bound /\ ~EndedTx.marked
    /\ EndedTx.observed = Nothing /\ EndedTx.writes = Nothing /\ ~EndedTx.clearing
    /\ EndedTx.reserved = {}
<1>1. Absent \in Contents
  BY DEF Contents
<1>2. [content |-> Absent, version |-> 0] \in Snapshots
  BY <1>1 DEF Snapshots
<1>3. /\ Nothing \in [Refs -> Snapshots \cup {Unseen}]
      /\ Nothing \in [Refs -> Contents \cup {Unseen}]
  BY DEF Nothing
<1>4. NewTx \in TxRows
  BY <1>2, <1>3 DEF NewTx, TxRows, Stages
<1>5. EndedTx \in TxRows
  BY <1>4 DEF EndedTx, TxRows, Stages
<1>6. Unseen \notin Contents /\ Unseen \notin Snapshots
  BY UnseenAssumption DEF Snapshots
<1>7. /\ EndedTx.stage = "ended" /\ ~EndedTx.failed /\ ~EndedTx.bound /\ ~EndedTx.marked
      /\ EndedTx.observed = Nothing /\ EndedTx.writes = Nothing /\ ~EndedTx.clearing
      /\ EndedTx.reserved = {}
  BY DEF EndedTx, NewTx
<1>8. QED BY <1>1, <1>3, <1>4, <1>5, <1>6, <1>7

(* The fields of a row, for every row a step writes.                       *)
LEMMA RowFields ==
    ASSUME NEW row \in TxRows
    PROVE  /\ row.stage \in Stages /\ row.failed \in BOOLEAN /\ row.bound \in BOOLEAN
           /\ row.marked \in BOOLEAN /\ row.toResolve \in SUBSET Txs
           /\ row.observed \in [Refs -> Snapshots \cup {Unseen}]
           /\ row.writes \in [Refs -> Contents \cup {Unseen}]
           /\ row.clearing \in BOOLEAN /\ row.clearBefore \in [Refs -> Snapshots]
           /\ row.reserved \in SUBSET Refs
           /\ row.startEpoch \in Nat /\ row.baseRevision \in Nat
BY DEF TxRows

LEMMA Counted == \A S \in SUBSET Refs : Cardinality(S) \in Nat
BY SecretsAssumption, FS_Subset, FS_CardinalityType

(* What a publication, a clear and an undo write.                          *)
LEMMA PublishWrites ==
    ASSUME TypeOK, NEW wanted \in [Refs -> Contents \cup {Unseen}], Publish(wanted)
    PROVE  /\ values' \in [Refs -> Contents] /\ versions' \in [Refs -> Nat]
           /\ revision' \in Nat /\ clearEpoch' \in Nat
           /\ \A r \in Refs : /\ wanted[r] = Unseen => /\ values'[r] = values[r]
                                                       /\ versions'[r] = versions[r]
                              /\ wanted[r] # Unseen => /\ values'[r] = wanted[r]
                                                       /\ versions'[r] = versions[r] + 1
<1>1. Cardinality({r \in Refs : wanted[r] # Unseen}) \in Nat
  BY Counted
<1>2. QED BY <1>1 DEF TypeOK, Publish

LEMMA ClearedWrites ==
    ASSUME TypeOK, NEW wanted \in [Refs -> Contents \cup {Unseen}], PublishCleared(wanted)
    PROVE  /\ values' \in [Refs -> Contents] /\ versions' \in [Refs -> Nat]
           /\ revision' \in Nat /\ clearEpoch' \in Nat
           /\ \A r \in Refs : /\ wanted[r] = Unseen => values'[r] = Absent
                              /\ wanted[r] # Unseen => values'[r] = wanted[r]
                              /\ versions'[r] >= versions[r]
                              /\ values'[r] # values[r] => versions'[r] > versions[r]
                              /\ wanted[r] # Unseen => versions'[r] > versions[r]
<1>1. Cardinality({r \in Refs : wanted[r] # Unseen}) \in Nat
  BY Counted
<1>2. revision' \in Nat /\ clearEpoch' \in Nat
  BY <1>1 DEF TypeOK, PublishCleared
<1>3. values' \in [Refs -> Contents]
  BY Shapes DEF TypeOK, PublishCleared
<1>4. ASSUME NEW r \in Refs
      PROVE  /\ versions'[r] \in Nat
             /\ wanted[r] = Unseen => values'[r] = Absent
             /\ wanted[r] # Unseen => values'[r] = wanted[r]
             /\ versions'[r] >= versions[r]
             /\ values'[r] # values[r] => versions'[r] > versions[r]
             /\ wanted[r] # Unseen => versions'[r] > versions[r]
  <2>1. versions[r] \in Nat
    BY DEF TypeOK
  <2>2. versions'[r] = versions[r] + (IF values[r] # Absent THEN 1 ELSE 0)
                                   + (IF wanted[r] # Unseen THEN 1 ELSE 0)
    BY DEF PublishCleared
  <2>3. values'[r] = IF wanted[r] = Unseen THEN Absent ELSE wanted[r]
    BY DEF PublishCleared
  <2>4. QED BY <2>1, <2>2, <2>3
<1>5. versions' \in [Refs -> Nat]
  BY <1>4 DEF PublishCleared
<1>6. QED BY <1>2, <1>3, <1>4, <1>5

(* What an undo of a clear writes, and of anything else.                   *)
LEMMA UnclearWrites ==
    ASSUME TypeOK, NEW t \in Txs, tx[t].clearing, RestorePublishedOverlay(t)
    PROVE  /\ values' \in [Refs -> Contents] /\ versions' \in [Refs -> Nat]
           /\ revision' \in Nat /\ clearEpoch' \in Nat
           /\ \A r \in Refs : /\ values'[r] = tx[t].clearBefore[r].content
                              /\ versions'[r] >= versions[r]
                              /\ Known(tx[t].clearBefore[r]) => versions'[r] > versions[r]
<1>1. tx[t].clearBefore \in [Refs -> Snapshots]
  BY RowFields DEF TypeOK
<1>2. /\ values' = [r \in Refs |-> tx[t].clearBefore[r].content]
      /\ versions' = [r \in Refs |-> IF Known(tx[t].clearBefore[r])
                                       THEN versions[r] + 1 ELSE versions[r]]
      /\ clearEpoch' = clearEpoch + 1 /\ revision' = revision + 1
  BY DEF RestorePublishedOverlay
<1>3. \A r \in Refs : tx[t].clearBefore[r].content \in Contents
  BY <1>1 DEF Snapshots
<1>4. QED BY <1>2, <1>3 DEF TypeOK

LEMMA UnpublishWrites ==
    ASSUME TypeOK, NEW t \in Txs, ~tx[t].clearing, RestorePublishedOverlay(t),
           \A r \in tx[t].reserved : tx[t].observed[r] # Unseen
    PROVE  /\ values' \in [Refs -> Contents] /\ versions' \in [Refs -> Nat]
           /\ revision' \in Nat /\ clearEpoch' \in Nat
           /\ \A r \in Refs :
                 /\ r \notin tx[t].reserved => values'[r] = values[r] /\ versions'[r] = versions[r]
                 /\ r \in tx[t].reserved => /\ values'[r] = tx[t].observed[r].content
                                            /\ versions'[r] = versions[r] + 1
<1> DEFINE wanted == [r \in Refs |->
              CASE r \notin tx[t].reserved -> Unseen
                [] r \in tx[t].reserved /\ tx[t].observed[r] = Unseen -> Absent
                [] OTHER -> tx[t].observed[r].content]
<1>1. Publish(wanted)
  BY DEF RestorePublishedOverlay
<1>2. tx[t].observed \in [Refs -> Snapshots \cup {Unseen}] /\ tx[t].reserved \in SUBSET Refs
  BY RowFields DEF TypeOK
<1>3. \A r \in tx[t].reserved : tx[t].observed[r].content \in Contents
  BY <1>2 DEF Snapshots
<1>4. \A r \in Refs : wanted[r] = IF r \in tx[t].reserved THEN tx[t].observed[r].content
                                                         ELSE Unseen
  OBVIOUS
<1>5. wanted \in [Refs -> Contents \cup {Unseen}]
  BY <1>3, <1>4
<1> HIDE DEF wanted
<1>6. QED BY <1>1, <1>3, <1>4, <1>5, PublishWrites, Shapes
-----------------------------------------------------------------------------
(* Overlays: what stands in for the settled content of a reference.        *)

LEMMA InvFacts ==
    ASSUME RegistryInv, NEW t \in Txs
    PROVE  /\ tx[t] \in TxRows /\ RowHolds(t) /\ VersionsFit(t)
           /\ PreparedHolds(t) /\ PublishedHolds(t)
BY DEF RegistryInv, TypeOK

(* One owner per reference, and none beside a prepared clear.              *)
LEMMA OneOwner ==
    ASSUME ReservationsAreHeld, NEW t \in Txs, NEW u \in Txs, NEW r \in Refs,
           Holding(t), Holding(u),
           tx[t].clearing \/ r \in tx[t].reserved,
           tx[u].clearing \/ r \in tx[u].reserved,
           tx[t].clearing => tx[t].reserved = {}, tx[u].clearing => tx[u].reserved = {},
           NoTx \notin Txs
    PROVE  t = u
<1>1. CASE tx[t].clearing /\ tx[u].clearing
  BY <1>1 DEF ReservationsAreHeld, HoldsReservations
<1>2. CASE ~tx[t].clearing /\ ~tx[u].clearing
  BY <1>2 DEF ReservationsAreHeld, HoldsReservations
<1>3. CASE tx[t].clearing /\ ~tx[u].clearing
  <2>1. clearer = t /\ r \in tx[u].reserved
    BY <1>3 DEF ReservationsAreHeld, HoldsReservations
  <2>2. QED BY <1>3, <2>1 DEF ReservationsAreHeld
<1>4. CASE ~tx[t].clearing /\ tx[u].clearing
  <2>1. clearer = u /\ r \in tx[t].reserved
    BY <1>4 DEF ReservationsAreHeld, HoldsReservations
  <2>2. QED BY <1>4, <2>1 DEF ReservationsAreHeld
<1>5. QED BY <1>1, <1>2, <1>3, <1>4

LEMMA OneOverlay ==
    RegistryInv => \A t, u \in Txs, r \in Refs : Overlaid(t, r) /\ Overlaid(u, r) => t = u
<1> SUFFICES ASSUME RegistryInv, NEW t \in Txs, NEW u \in Txs, NEW r \in Refs,
                    Overlaid(t, r), Overlaid(u, r)
             PROVE  t = u
  OBVIOUS
<1>1. /\ Holding(t) /\ Holding(u)
      /\ (tx[t].clearing \/ r \in tx[t].reserved)
      /\ (tx[u].clearing \/ r \in tx[u].reserved)
  BY DEF Overlaid, Holding
<1>2. ReservationsAreHeld /\ RowHolds(t) /\ RowHolds(u)
  BY DEF RegistryInv
<1>3. /\ tx[t].clearing => tx[t].reserved = {}
      /\ tx[u].clearing => tx[u].reserved = {}
  BY <1>2 DEF RowHolds
<1>4. QED BY <1>1, <1>2, <1>3, OneOwner, SecretsAssumption

(* c is what a reference stands for while only durable heads count.        *)
Means(r, c) == \/ \E t \in Txs : Overlaid(t, r) /\ Before(t, r) = c
               \/ (\A t \in Txs : ~Overlaid(t, r)) /\ values[r] = c

LEMMA SettledMeans == RegistryInv => \A r \in Refs : \A c : Means(r, c) => Settled[r] = c
<1> SUFFICES ASSUME RegistryInv, NEW r \in Refs, NEW c, Means(r, c) PROVE Settled[r] = c
  OBVIOUS
<1>1. CASE \A t \in Txs : ~Overlaid(t, r)
  BY <1>1 DEF Means, Settled
<1>2. CASE \E t \in Txs : Overlaid(t, r)
  <2>1. PICK t \in Txs : Overlaid(t, r) /\ Before(t, r) = c
    BY <1>2 DEF Means
  <2> DEFINE k == CHOOSE u \in Txs : Overlaid(u, r)
  <2>2. k \in Txs /\ Overlaid(k, r)
    BY <2>1
  <2>3. Settled[r] = Before(k, r)
    BY <2>1 DEF Settled
  <2> HIDE DEF k
  <2>4. k = t
    BY <2>1, <2>2, OneOverlay
  <2>5. QED BY <2>1, <2>3, <2>4
<1>3. QED BY <1>1, <1>2

LEMMA SettledMeansNext ==
    RegistryInv' => (\A r \in Refs : \A c : Means(r, c) => Settled[r] = c)'
BY SettledMeans, PTL

(* What a transaction may read or change stands for itself.                *)
LEMMA FreeIsSettled ==
    ASSUME RegistryInv, NEW t \in Txs, ~Holding(t), NEW r \in Refs, clearer \in {NoTx, t},
           reservations[r] \in {NoTx, t}
    PROVE  /\ clearer = NoTx /\ reservations[r] = NoTx
           /\ \A u \in Txs : ~Overlaid(u, r)
           /\ Settled[r] = values[r]
<1> USE SecretsAssumption
<1>1. ReservationsAreHeld /\ \A u \in Txs : RowHolds(u)
  BY DEF RegistryInv
<1>2. clearer = NoTx /\ reservations[r] = NoTx
  BY <1>1 DEF ReservationsAreHeld
<1>3. ASSUME NEW u \in Txs, Overlaid(u, r) PROVE FALSE
  <2>1. Holding(u) /\ (tx[u].clearing \/ r \in tx[u].reserved)
    BY <1>3 DEF Overlaid, Holding
  <2>2. HoldsReservations(u)
    BY <1>1, <2>1 DEF ReservationsAreHeld
  <2>3. QED BY <1>1, <1>2, <2>1, <2>2 DEF HoldsReservations, RowHolds
<1>4. Means(r, values[r])
  BY <1>3 DEF Means
<1>5. QED BY <1>2, <1>3, <1>4, SettledMeans

(* The secrets of a turn that holds its reads are the settled ones.        *)
LEMMA HeldReadsAreSettled == RegistryInv => ReadsAreSettled
<1> SUFFICES ASSUME RegistryInv, NEW t \in Txs, NEW r \in Refs, Holding(t),
                    decided[t] # "committed", tx[t].observed[r] # Unseen
             PROVE  tx[t].observed[r].content = Settled[r]
  BY DEF ReadsAreSettled
<1>1. /\ ReservationsAreHeld /\ RowHolds(t) /\ VersionsFit(t) /\ PreparedHolds(t)
      /\ \A u \in Txs : RowHolds(u)
  BY DEF RegistryInv
<1>2. ~tx[t].clearing /\ r \in tx[t].reserved
  BY <1>1 DEF RowHolds, Nothing
<1>3. CASE tx[t].stage = "published"
  <2>1. Overlaid(t, r) /\ Before(t, r) = tx[t].observed[r].content
    BY <1>2, <1>3 DEF Overlaid, Before
  <2>2. Means(r, tx[t].observed[r].content)
    BY <2>1 DEF Means
  <2>3. QED BY <2>2, SettledMeans
<1>4. CASE tx[t].stage = "prepared"
  <2>1. tx[t].observed[r].content = values[r]
    BY <1>1, <1>2, <1>4 DEF VersionsFit, PreparedHolds
  <2>2. ASSUME NEW u \in Txs, Overlaid(u, r) PROVE FALSE
    <3>1. Holding(u) /\ (tx[u].clearing \/ r \in tx[u].reserved) /\ tx[u].stage = "published"
      BY <2>2 DEF Overlaid, Holding
    <3>2. tx[u].clearing => tx[u].reserved = {}
      BY <1>1 DEF RowHolds
    <3>3. u = t
      BY <1>1, <1>2, <3>1, <3>2, OneOwner, SecretsAssumption
    <3>4. QED BY <1>4, <3>1, <3>3
  <2>3. Means(r, values[r])
    BY <2>2 DEF Means
  <2>4. QED BY <2>1, <2>3, SettledMeans
<1>5. QED BY <1>3, <1>4 DEF Holding
-----------------------------------------------------------------------------
(* What a step leaves as it is for the transactions it does not move.      *)

(* t stands on r: it has prepared or published it, or clears everything.   *)
Covers(t, r) == Holding(t) /\ (tx[t].clearing \/ r \in tx[t].reserved)

LEMMA CoverIsHeld ==
    ASSUME RegistryInv, NEW t \in Txs, NEW r \in Refs, Covers(t, r)
    PROVE  IF tx[t].clearing THEN clearer = t ELSE reservations[r] = t
BY DEF RegistryInv, ReservationsAreHeld, HoldsReservations, Covers

LEMMA OneCover ==
    ASSUME RegistryInv, NEW t \in Txs, NEW u \in Txs, NEW r \in Refs, Covers(t, r), Covers(u, r)
    PROVE  t = u
<1>1. /\ tx[t].clearing => tx[t].reserved = {}
      /\ tx[u].clearing => tx[u].reserved = {}
  BY DEF RegistryInv, RowHolds
<1>2. ReservationsAreHeld
  BY DEF RegistryInv
<1>3. QED BY <1>1, <1>2, OneOwner, SecretsAssumption DEF Covers

(* Nothing is covered where no clear and no reservation is.                *)
LEMMA FreeIsUncovered ==
    ASSUME RegistryInv, NEW t \in Txs, NEW r \in Refs, clearer = NoTx, reservations[r] = NoTx
    PROVE  ~Covers(t, r)
BY CoverIsHeld, SecretsAssumption

(* While u holds a clear, no other transaction covers anything.            *)
LEMMA ClearIsAlone ==
    ASSUME RegistryInv, NEW t \in Txs, NEW u \in Txs, NEW r \in Refs, Covers(t, r),
           Holding(u), tx[u].clearing
    PROVE  t = u
BY OneCover DEF Covers

Kept(x) == VersionsFit(x) /\ PreparedHolds(x) /\ PublishedHolds(x)

LEMMA OthersHold ==
    ASSUME RegistryInv, NEW x \in Txs, tx'[x] = tx[x],
           versions' \in [Refs -> Nat],
           \A r \in Refs : /\ versions'[r] >= versions[r]
                           /\ values'[r] # values[r] =>
                                 \/ versions'[r] > versions[r]
                                 \/ tx[x].observed[r] = Unseen
                                 \/ tx[x].observed[r].version < versions[r]
                           /\ Covers(x, r) => values'[r] = values[r] /\ versions'[r] = versions[r],
           Holding(x) /\ tx[x].clearing =>
              \A u \in Txs \ {x}, r \in Refs : tx'[u].observed[r] # Unseen =>
                 tx'[u].observed[r] = tx[u].observed[r]
    PROVE  Kept(x)'
<1>1. /\ VersionsFit(x) /\ PreparedHolds(x) /\ PublishedHolds(x)
      /\ versions \in [Refs -> Nat] /\ tx \in [Txs -> TxRows]
  BY DEF RegistryInv, TypeOK
<1>2. ASSUME NEW u \in Txs, NEW r \in Refs, tx[u].observed[r] # Unseen
      PROVE  tx[u].observed[r].version \in Nat
  <2>1. tx[u].observed \in [Refs -> Snapshots \cup {Unseen}]
    BY <1>1, RowFields
  <2>2. QED BY <1>2, <2>1 DEF Snapshots
<1>3. VersionsFit(x)'
  <2> SUFFICES ASSUME NEW r \in Refs, tx[x].observed[r] # Unseen
               PROVE  /\ tx[x].observed[r].version =< versions'[r]
                      /\ tx[x].stage # "published" /\ tx[x].observed[r].version = versions'[r] =>
                            tx[x].observed[r].content = values'[r]
    BY DEF VersionsFit
  <2>1. /\ versions[r] \in Nat /\ versions'[r] \in Nat /\ tx[x].observed[r].version \in Nat
    BY <1>1, <1>2
  <2>2. /\ tx[x].observed[r].version =< versions[r]
        /\ tx[x].stage # "published" /\ tx[x].observed[r].version = versions[r] =>
              tx[x].observed[r].content = values[r]
    BY <1>1 DEF VersionsFit
  <2>3. QED BY <2>1, <2>2
<1>4. PreparedHolds(x)'
  <2>1. CASE tx[x].stage = "prepared"
    <3>1. \A r \in Refs : tx[x].clearing \/ r \in tx[x].reserved =>
             values'[r] = values[r] /\ versions'[r] = versions[r]
      BY <2>1 DEF Covers, Holding
    <3>2. tx[x].reserved \in SUBSET Refs
      BY <1>1, RowFields
    <3>3. QED BY <1>1, <2>1, <3>1, <3>2 DEF PreparedHolds, Snapshot
  <2>2. QED BY <2>1 DEF PreparedHolds
<1>5. PublishedHolds(x)'
  <2> SUFFICES ASSUME tx[x].stage = "published" PROVE PublishedHolds(x)'
    BY DEF PublishedHolds
  <2>1. \A r \in Refs : Covers(x, r) => values'[r] = After(x, r) /\ After(x, r)' = After(x, r)
    BY <1>1 DEF PublishedHolds, After, Covers
  <2>2. \A r \in Refs : tx'[x].clearing \/ r \in tx'[x].reserved => values'[r] = After(x, r)'
    BY <2>1 DEF Covers, Holding
  <2>3. ASSUME tx[x].clearing, NEW r \in Refs, tx[x].writes[r] # Unseen, NEW u \in Txs \ {x},
               tx'[u].observed[r] # Unseen
        PROVE  tx'[u].observed[r].version < versions'[r]
    <3>1. Holding(x) /\ tx'[u].observed[r] = tx[u].observed[r]
      BY <2>3 DEF Holding
    <3>2. tx[u].observed[r].version < versions[r]
      BY <1>1, <2>3, <3>1 DEF PublishedHolds
    <3>3. versions'[r] = versions[r]
      BY <2>3, <3>1 DEF Covers
    <3>4. QED BY <3>1, <3>2, <3>3
  <2>4. QED BY <2>2, <2>3 DEF PublishedHolds
<1>6. QED BY <1>3, <1>4, <1>5 DEF Kept

(* Reservations and the clear stay, and with them who holds what.          *)
LEMMA SameHolders ==
    ASSUME RegistryInv, UNCHANGED <<reservations, clearer>>,
           \A x \in Txs : /\ Holding(x)' = Holding(x)
                          /\ Holding(x) => /\ tx'[x].clearing = tx[x].clearing
                                           /\ tx'[x].reserved = tx[x].reserved
    PROVE  ReservationsAreHeld'
<1>1. /\ ReservationsAreHeld
      /\ reservations \in [Refs -> Txs \cup {NoTx}] /\ clearer \in Txs \cup {NoTx}
  BY DEF RegistryInv, TypeOK
<1>2. \A x \in Txs : Holding(x)' => HoldsReservations(x)'
  BY <1>1 DEF ReservationsAreHeld, HoldsReservations
<1>3. \A r \in Refs : reservations'[r] # NoTx =>
          /\ Holding(reservations[r])' /\ ~tx'[reservations[r]].clearing
          /\ r \in tx'[reservations[r]].reserved
  BY <1>1 DEF ReservationsAreHeld
<1>4. clearer' # NoTx => /\ Holding(clearer)' /\ tx'[clearer].clearing
                         /\ \A x \in Txs \ {clearer} : Holding(x)' => tx'[x].reserved = {}
  BY <1>1 DEF ReservationsAreHeld
<1>5. QED BY <1>2, <1>3, <1>4 DEF ReservationsAreHeld, Holding

LEMMA SameRow ==
    ASSUME RegistryInv, NEW x \in Txs, tx'[x] = tx[x], decided'[x] = decided[x],
           x \in uncertain' => x \in uncertain
    PROVE  RowHolds(x)'
<1>1. RowHolds(x)
  BY DEF RegistryInv
<1>2. QED BY <1>1 DEF RowHolds, Holding
-----------------------------------------------------------------------------
(* Steps that write one row and leave the registry alone.                  *)

LEMMA RowBecomes ==
    ASSUME TypeOK, NEW t \in Txs, NEW row \in TxRows, Becomes(t, row)
    PROVE  /\ tx' \in [Txs -> TxRows] /\ tx'[t] = row
           /\ \A x \in Txs \ {t} : tx'[x] = tx[x]
BY DEF TypeOK, Becomes

LEMMA RowStep ==
    ASSUME RegistryInv, NEW t \in Txs, NEW row \in TxRows, Becomes(t, row),
           UNCHANGED <<registry, reservations, clearer>>,
           uncertain' \subseteq Txs, decided' \in [Txs -> {"no", "committed", "aborted"}],
           \A x \in Txs \ {t} : /\ decided'[x] = decided[x]
                                /\ x \in uncertain' => x \in uncertain,
           RowHolds(t)', VersionsFit(t)',
           ~Holding(t) => row.stage \notin {"prepared", "published"},
           Holding(t) => /\ row.stage = tx[t].stage /\ row.observed = tx[t].observed
                         /\ row.writes = tx[t].writes /\ row.clearing = tx[t].clearing
                         /\ row.clearBefore = tx[t].clearBefore
                         /\ row.reserved = tx[t].reserved,
           \A r \in Refs : \/ row.observed[r] \in {Unseen, tx[t].observed[r]}
                           \/ clearer = NoTx
    PROVE  RegistryInv'
<1>1. /\ tx' \in [Txs -> TxRows] /\ tx'[t] = row
      /\ \A x \in Txs \ {t} : tx'[x] = tx[x]
  BY RowBecomes DEF RegistryInv
<1>2. TypeOK'
  BY <1>1 DEF RegistryInv, TypeOK, registry
<1>3. ReservationsAreHeld'
  BY <1>1, SameHolders DEF Holding
<1>4. ASSUME NEW x \in Txs \ {t} PROVE RowHolds(x)' /\ Kept(x)'
  <2>1. RowHolds(x)'
    BY <1>1, SameRow
  <2>2. \A r \in Refs : /\ versions'[r] >= versions[r] /\ versions'[r] = versions[r]
                        /\ values'[r] = values[r]
    BY DEF RegistryInv, TypeOK, registry
  <2>3. ASSUME Holding(x), tx[x].clearing, NEW u \in Txs \ {x}, NEW r \in Refs,
               tx'[u].observed[r] # Unseen
        PROVE  tx'[u].observed[r] = tx[u].observed[r]
    <3>1. clearer = x /\ x # NoTx
      BY <2>3, SecretsAssumption DEF RegistryInv, ReservationsAreHeld, HoldsReservations
    <3>2. QED BY <1>1, <2>3, <3>1
  <2>4. Kept(x)'
    BY <1>1, <1>2, <2>2, <2>3, OthersHold DEF TypeOK
  <2>5. QED BY <2>1, <2>4
<1>5. PreparedHolds(t)' /\ PublishedHolds(t)'
  <2>1. CASE ~Holding(t)
    BY <1>1, <2>1 DEF Holding, PreparedHolds, PublishedHolds
  <2>2. CASE Holding(t)
    <3>1. PreparedHolds(t) /\ PublishedHolds(t)
      BY DEF RegistryInv
    <3>2. values' = values /\ versions' = versions
      BY DEF registry
    <3>3. PreparedHolds(t)'
      <4>1. \A r \in Refs : Snapshot(r)' = Snapshot(r)
        BY <3>2 DEF Snapshot
      <4>2. QED BY <1>1, <2>2, <3>1, <3>2, <4>1 DEF PreparedHolds
    <3>4. PublishedHolds(t)'
      <4>1. \A r \in Refs : After(t, r)' = After(t, r)
        BY <1>1, <2>2 DEF After
      <4>2. \A u \in Txs \ {t} : tx'[u] = tx[u]
        BY <1>1
      <4>3. QED BY <1>1, <2>2, <3>1, <3>2, <4>1, <4>2 DEF PublishedHolds
    <3>5. QED BY <3>3, <3>4
  <2>3. QED BY <2>1, <2>2
<1>6. \A x \in Txs : RowHolds(x)' /\ VersionsFit(x)' /\ PreparedHolds(x)' /\ PublishedHolds(x)'
  BY <1>4, <1>5 DEF Kept
<1>7. QED BY <1>2, <1>3, <1>6 DEF RegistryInv

(* A step that leaves what was read, written and prepared.                 *)
LEMMA PlainStep ==
    ASSUME RegistryInv, NEW t \in Txs, NEW row \in TxRows, Becomes(t, row),
           UNCHANGED <<registry, reservations, clearer>>,
           uncertain' \subseteq Txs, decided' \in [Txs -> {"no", "committed", "aborted"}],
           \A x \in Txs \ {t} : /\ decided'[x] = decided[x]
                                /\ x \in uncertain' => x \in uncertain,
           RowHolds(t)',
           ~Holding(t) => row.stage \notin {"prepared", "published"},
           Holding(t) => row.stage = tx[t].stage,
           /\ row.observed = tx[t].observed
           /\ row.writes = tx[t].writes /\ row.clearing = tx[t].clearing
           /\ row.clearBefore = tx[t].clearBefore
           /\ row.reserved = tx[t].reserved
    PROVE  RegistryInv'
<1>1. tx'[t] = row
  BY RowBecomes DEF RegistryInv
<1>2. VersionsFit(t)'
  <2>1. VersionsFit(t) /\ values' = values /\ versions' = versions
    BY DEF RegistryInv, registry
  <2>2. row.stage # "published" <=> tx[t].stage # "published"
    BY DEF Holding
  <2>3. QED BY <1>1, <2>1, <2>2 DEF VersionsFit
<1>3. QED BY <1>2, RowStep

LEMMA EnterStep ==
    ASSUME RegistryInv, NEW t \in Txs, Enter(t) \/ Entered(t) \/ BindExternalCommitProbe(t)
    PROVE  RegistryInv'
<1>1. /\ tx[t] \in TxRows /\ RowHolds(t) /\ TypeOK
  BY InvFacts DEF RegistryInv
<1>2. PICK row : /\ row \in TxRows /\ Becomes(t, row)
                 /\ row.observed = tx[t].observed
                 /\ row.writes = tx[t].writes /\ row.clearing = tx[t].clearing
                 /\ row.clearBefore = tx[t].clearBefore
                 /\ row.reserved = tx[t].reserved
                 /\ row.failed = tx[t].failed /\ row.marked = tx[t].marked
                 /\ tx[t].stage \in {"new", "entering", "active"}
                 /\ row.stage \in {"entering", "active"}
                 /\ row.stage = "entering" => tx[t].stage = "new"
  <2>1. CASE Enter(t)
    <3> DEFINE row == [tx[t] EXCEPT !.stage = "entering", !.toResolve = uncertain]
    <3>1. Becomes(t, row) /\ tx[t].stage = "new"
      BY <2>1 DEF Enter, At
    <3>2. /\ row \in TxRows /\ row.observed = tx[t].observed /\ row.stage = "entering"
          /\ row.writes = tx[t].writes /\ row.clearing = tx[t].clearing
          /\ row.clearBefore = tx[t].clearBefore /\ row.reserved = tx[t].reserved
          /\ row.failed = tx[t].failed /\ row.marked = tx[t].marked
      BY <1>1 DEF TypeOK, TxRows, Stages
    <3> HIDE DEF row
    <3>3. QED BY <3>1, <3>2
  <2>2. CASE Entered(t)
    <3> DEFINE row == [tx[t] EXCEPT !.stage = "active", !.toResolve = {},
                                    !.startEpoch = clearEpoch, !.baseRevision = revision]
    <3>1. Becomes(t, row) /\ tx[t].stage = "entering"
      BY <2>2 DEF Entered, At
    <3>2. /\ row \in TxRows /\ row.observed = tx[t].observed /\ row.stage = "active"
          /\ row.writes = tx[t].writes /\ row.clearing = tx[t].clearing
          /\ row.clearBefore = tx[t].clearBefore /\ row.reserved = tx[t].reserved
          /\ row.failed = tx[t].failed /\ row.marked = tx[t].marked
      BY <1>1 DEF TypeOK, TxRows, Stages
    <3> HIDE DEF row
    <3>3. QED BY <3>1, <3>2
  <2>3. CASE BindExternalCommitProbe(t)
    <3> DEFINE row == [tx[t] EXCEPT !.bound = TRUE]
    <3>1. Becomes(t, row) /\ tx[t].stage = "active"
      BY <2>3 DEF BindExternalCommitProbe, At
    <3>2. /\ row \in TxRows /\ row.observed = tx[t].observed /\ row.stage = tx[t].stage
          /\ row.writes = tx[t].writes /\ row.clearing = tx[t].clearing
          /\ row.clearBefore = tx[t].clearBefore /\ row.reserved = tx[t].reserved
          /\ row.failed = tx[t].failed /\ row.marked = tx[t].marked
      BY <1>1 DEF TxRows
    <3> HIDE DEF row
    <3>3. QED BY <3>1, <3>2
  <2>4. QED BY <2>1, <2>2, <2>3
<1>3. UNCHANGED <<registry, reservations, clearer, uncertain, decided>>
  BY DEF Enter, Entered, BindExternalCommitProbe
<1>4. tx'[t] = row
  BY <1>1, <1>2, RowBecomes
<1>5. RowHolds(t)'
  BY <1>1, <1>2, <1>3, <1>4 DEF RowHolds, Holding
<1>6. ~Holding(t)
  BY <1>2 DEF Holding
<1>7. QED BY <1>1, <1>2, <1>3, <1>5, <1>6, PlainStep DEF TypeOK

LEMMA OutcomeStep ==
    ASSUME RegistryInv, NEW t \in Txs,
           \/ CommitProductHead(t) \/ MarkProductHeadCommitted(t) \/ Fail(t)
           \/ TerminalizeFailedAttempt(t) \/ RollbackUncertain(t)
    PROVE  RegistryInv'
<1>1. /\ tx[t] \in TxRows /\ RowHolds(t) /\ TypeOK
  BY InvFacts DEF RegistryInv
<1>2. UNCHANGED <<registry, reservations, clearer>>
  BY DEF CommitProductHead, MarkProductHeadCommitted, Fail, TerminalizeFailedAttempt,
         RollbackUncertain
<1>3. PICK row : /\ row \in TxRows /\ Becomes(t, row)
                 /\ row.observed = tx[t].observed
                 /\ row.writes = tx[t].writes /\ row.clearing = tx[t].clearing
                 /\ row.clearBefore = tx[t].clearBefore /\ row.stage = tx[t].stage
                 /\ row.reserved = tx[t].reserved /\ row.bound = tx[t].bound
                 /\ \/ row = tx[t]
                    \/ /\ MarkProductHeadCommitted(t) /\ row.marked /\ row.failed = tx[t].failed
                    \/ /\ Fail(t) /\ row.failed /\ row.marked = tx[t].marked
  <2>1. CASE MarkProductHeadCommitted(t)
    <3> DEFINE row == [tx[t] EXCEPT !.marked = TRUE]
    <3>1. Becomes(t, row)
      BY <2>1 DEF MarkProductHeadCommitted
    <3>2. /\ row \in TxRows /\ row.marked /\ row.failed = tx[t].failed
          /\ row.observed = tx[t].observed
          /\ row.writes = tx[t].writes /\ row.clearing = tx[t].clearing
          /\ row.clearBefore = tx[t].clearBefore /\ row.stage = tx[t].stage
          /\ row.reserved = tx[t].reserved /\ row.bound = tx[t].bound
      BY <1>1 DEF TxRows
    <3> HIDE DEF row
    <3>3. QED BY <2>1, <3>1, <3>2
  <2>2. CASE Fail(t)
    <3> DEFINE row == [tx[t] EXCEPT !.failed = TRUE]
    <3>1. Becomes(t, row)
      BY <2>2 DEF Fail
    <3>2. /\ row \in TxRows /\ row.failed /\ row.marked = tx[t].marked
          /\ row.observed = tx[t].observed
          /\ row.writes = tx[t].writes /\ row.clearing = tx[t].clearing
          /\ row.clearBefore = tx[t].clearBefore /\ row.stage = tx[t].stage
          /\ row.reserved = tx[t].reserved /\ row.bound = tx[t].bound
      BY <1>1 DEF TxRows
    <3> HIDE DEF row
    <3>3. QED BY <2>2, <3>1, <3>2
  <2>3. CASE CommitProductHead(t) \/ TerminalizeFailedAttempt(t) \/ RollbackUncertain(t)
    <3>1. tx' = tx
      BY <2>3 DEF CommitProductHead, TerminalizeFailedAttempt, RollbackUncertain
    <3>2. Becomes(t, tx[t])
      BY <1>1, <3>1 DEF Becomes, TypeOK
    <3>3. QED BY <1>1, <3>2
  <2>4. QED BY <2>1, <2>2, <2>3
<1>4. tx'[t] = row
  BY <1>1, <1>3, RowBecomes
<1>5. /\ uncertain' \subseteq Txs /\ decided' \in [Txs -> {"no", "committed", "aborted"}]
      /\ \A x \in Txs \ {t} : /\ decided'[x] = decided[x]
                              /\ x \in uncertain' => x \in uncertain
  BY <1>1 DEF TypeOK, CommitProductHead, MarkProductHeadCommitted, Fail,
              TerminalizeFailedAttempt, RollbackUncertain
<1>6. RowHolds(t)'
  <2>1. CASE MarkProductHeadCommitted(t)
    BY <1>1, <1>3, <1>4, <2>1
       DEF RowHolds, Holding, MarkProductHeadCommitted, Fail, At
  <2>2. CASE Fail(t)
    BY <1>1, <1>3, <1>4, <2>2 DEF RowHolds, Holding, MarkProductHeadCommitted, Fail, At
  <2>3. CASE CommitProductHead(t) \/ TerminalizeFailedAttempt(t) \/ RollbackUncertain(t)
    <3>1. tx'[t] = tx[t]
      BY <2>3 DEF CommitProductHead, TerminalizeFailedAttempt, RollbackUncertain
    <3>2. CASE CommitProductHead(t)
      BY <1>1, <3>1, <3>2 DEF RowHolds, Holding, CommitProductHead, At, Live, TypeOK
    <3>3. CASE TerminalizeFailedAttempt(t)
      BY <1>1, <3>1, <3>3 DEF RowHolds, Holding, TerminalizeFailedAttempt, TypeOK
    <3>4. CASE RollbackUncertain(t)
      BY <1>1, <3>1, <3>4 DEF RowHolds, Holding, RollbackUncertain, Leaving
    <3>5. QED BY <2>3, <3>2, <3>3, <3>4
  <2>4. QED BY <2>1, <2>2, <2>3
<1>7. row.stage \notin {"prepared", "published"} <=> ~Holding(t)
  BY <1>3 DEF Holding
<1>8. QED BY <1>2, <1>3, <1>5, <1>6, <1>7, PlainStep
-----------------------------------------------------------------------------
(* Work inside a transaction.                                              *)

LEMMA ContentsGrow ==
    /\ \A c \in Contents, v \in Values, s \in Scopes : Stored(c, v, s) \in Contents
    /\ \A c \in Contents, s \in Scopes : c # Absent => Authorized(c, s) \in Contents
<1>1. \A c \in Contents : c.scopes \in SUBSET Scopes
  BY DEF Contents, Absent
<1>2. \A c \in Contents, v \in Values, s \in Scopes : Stored(c, v, s) \in Contents
  BY <1>1 DEF Stored, Contents
<1>3. \A c \in Contents, s \in Scopes : c # Absent => Authorized(c, s) \in Contents
  BY DEF Authorized, Contents
<1>4. QED BY <1>2, <1>3

(* What a transaction remembers after it looked at a reference.            *)
LEMMA ObservedFacts ==
    ASSUME RegistryInv, NEW t \in Txs, NEW r \in Refs, tx[t].stage = "active",
           Remembered(t, r) \/ MayRead(t, r)
    PROVE  /\ Observed(t, r) \in [Refs -> Snapshots \cup {Unseen}]
           /\ \A q \in Refs :
                 \/ Observed(t, r)[q] = tx[t].observed[q]
                 \/ /\ Observed(t, r)[q] = Snapshot(q) /\ tx[t].observed[q] = Unseen
                    /\ clearer = NoTx /\ reservations[q] = NoTx
           /\ tx[t].clearing => Observed(t, r) = tx[t].observed
           /\ ~tx[t].clearing => Observed(t, r)[r] # Unseen
           /\ Current(t, r) \in Contents
<1>1. /\ tx[t] \in TxRows /\ RowHolds(t) /\ TypeOK
  BY InvFacts DEF RegistryInv
<1>2. /\ tx[t].observed \in [Refs -> Snapshots \cup {Unseen}]
      /\ tx[t].writes \in [Refs -> Contents \cup {Unseen}]
      /\ Snapshot(r) \in Snapshots /\ Unseen \notin Snapshots
  BY <1>1, RowFields, Shapes DEF TypeOK, Snapshot, Snapshots
<1>3. CASE Remembered(t, r)
  <2>1. Observed(t, r) = tx[t].observed
    BY <1>3 DEF Observed
  <2>2. ~tx[t].clearing => tx[t].observed[r] # Unseen
    BY <1>1, <1>3 DEF Remembered, RowHolds
  <2>3. Current(t, r) \in Contents
    BY <1>2, <1>3, <2>1, Shapes DEF Current, Remembered, Snapshots
  <2>4. QED BY <1>2, <2>1, <2>2, <2>3
<1>4. CASE ~Remembered(t, r)
  <2>1. Observed(t, r) = [tx[t].observed EXCEPT ![r] = Snapshot(r)] /\ tx[t].observed[r] = Unseen
    BY <1>4 DEF Observed, Remembered
  <2>2. ~Holding(t) /\ MayRead(t, r)
    BY <1>4 DEF Holding
  <2>3. clearer = NoTx /\ reservations[r] = NoTx
    BY <2>2, FreeIsSettled DEF MayRead
  <2>4. ~tx[t].clearing /\ tx[t].writes[r] = Unseen
    BY <1>4 DEF Remembered
  <2>5. Observed(t, r)[r] = Snapshot(r)
    BY <1>2, <2>1
  <2>6. Snapshot(r).content \in Contents
    BY <1>2 DEF Snapshots
  <2>7. Current(t, r) \in Contents
    BY <2>4, <2>5, <2>6 DEF Current
  <2>8. \A q \in Refs \ {r} : Observed(t, r)[q] = tx[t].observed[q]
    BY <1>2, <2>1
  <2>9. Observed(t, r) \in [Refs -> Snapshots \cup {Unseen}]
    BY <1>2, <2>1
  <2>10. QED BY <1>2, <2>1, <2>3, <2>4, <2>5, <2>7, <2>8, <2>9
<1>5. QED BY <1>3, <1>4

(* The row of a transaction that looked at r and perhaps staged a content. *)
LEMMA LookStep ==
    ASSUME RegistryInv, NEW t \in Txs, NEW r \in Refs, tx[t].stage = "active",
           ~tx[t].failed, t \notin uncertain,
           Remembered(t, r) \/ MayRead(t, r), NEW row \in TxRows, Becomes(t, row),
           UNCHANGED <<registry, reservations, clearer, uncertain, decided>>,
           row.observed = Observed(t, r), row.stage = "active",
           row.clearing = tx[t].clearing, row.reserved = tx[t].reserved,
           row.failed = tx[t].failed, row.marked = tx[t].marked, row.bound = tx[t].bound,
           \A q \in Refs \ {r} : row.writes[q] = tx[t].writes[q]
    PROVE  RegistryInv'
<1>1. /\ tx[t] \in TxRows /\ RowHolds(t) /\ VersionsFit(t) /\ TypeOK
  BY InvFacts DEF RegistryInv
<1>2. tx'[t] = row /\ ~Holding(t)
  BY <1>1, RowBecomes DEF Holding
<1> DEFINE seen == Observed(t, r)
<1>3. /\ seen \in [Refs -> Snapshots \cup {Unseen}]
      /\ \A q \in Refs :
            \/ seen[q] = tx[t].observed[q]
            \/ /\ seen[q] = Snapshot(q) /\ tx[t].observed[q] = Unseen
               /\ clearer = NoTx /\ reservations[q] = NoTx
      /\ tx[t].clearing => seen = tx[t].observed
      /\ ~tx[t].clearing => seen[r] # Unseen
  BY ObservedFacts
<1>4. row.observed = seen
  OBVIOUS
<1> HIDE DEF seen
<1>5. \A q \in Refs : Snapshot(q).version = versions[q] /\ Snapshot(q).content = values[q]
                      /\ Snapshot(q) # Unseen
  <2>1. \A q \in Refs : Snapshot(q) \in Snapshots
    BY <1>1 DEF TypeOK, Snapshot, Snapshots
  <2>2. QED BY <2>1, Shapes DEF Snapshot
<1>6. RowHolds(t)'
  <2>1. decided'[t] = decided[t] /\ uncertain' = uncertain
    OBVIOUS
  <2>2. ~row.clearing => \A q \in Refs : row.writes[q] # Unseen => seen[q] # Unseen
    BY <1>1, <1>3, <1>5 DEF RowHolds
  <2>3. QED BY <1>1, <1>2, <1>3, <1>4, <2>1, <2>2 DEF RowHolds, Holding
<1>7. VersionsFit(t)'
  <2> SUFFICES ASSUME NEW q \in Refs, seen[q] # Unseen
               PROVE  /\ seen[q].version =< versions[q]
                      /\ seen[q].version = versions[q] => seen[q].content = values[q]
    BY <1>2, <1>4 DEF VersionsFit, registry
  <2>1. CASE seen[q] = tx[t].observed[q]
    BY <1>1, <2>1 DEF VersionsFit
  <2>2. CASE seen[q] = Snapshot(q)
    BY <1>1, <1>5, <2>2 DEF TypeOK
  <2>3. QED BY <1>3, <2>1, <2>2
<1>8. \A q \in Refs : \/ row.observed[q] \in {Unseen, tx[t].observed[q]}
                      \/ clearer = NoTx
  BY <1>3, <1>4
<1>9. uncertain' \subseteq Txs /\ decided' \in [Txs -> {"no", "committed", "aborted"}]
  BY <1>1 DEF TypeOK
<1>10. QED BY <1>2, <1>6, <1>7, <1>8, <1>9, RowStep

LEMMA ReadStep ==
    ASSUME RegistryInv, NEW t \in Txs, NEW r \in Refs, Read(t, r) PROVE RegistryInv'
<1>1. tx[t] \in TxRows
  BY InvFacts
<1> DEFINE row == [tx[t] EXCEPT !.observed = Observed(t, r)]
<1>2. /\ tx[t].stage = "active" /\ ~tx[t].failed /\ t \notin uncertain /\ MayRead(t, r)
      /\ Becomes(t, row) /\ UNCHANGED <<registry, reservations, clearer, uncertain, decided>>
  BY DEF Read, At, Live
<1>3. Observed(t, r) \in [Refs -> Snapshots \cup {Unseen}]
  BY <1>2, ObservedFacts
<1>4. /\ row \in TxRows /\ row.observed = Observed(t, r) /\ row.stage = "active"
      /\ row.clearing = tx[t].clearing /\ row.reserved = tx[t].reserved
      /\ row.failed = tx[t].failed /\ row.marked = tx[t].marked /\ row.bound = tx[t].bound
      /\ \A q \in Refs \ {r} : row.writes[q] = tx[t].writes[q]
  BY <1>1, <1>2, <1>3 DEF TxRows
<1> HIDE DEF row
<1>5. QED BY <1>2, <1>4, LookStep

LEMMA StageStep ==
    ASSUME RegistryInv, NEW t \in Txs, NEW r \in Refs, NEW c \in Contents, Stage(t, r, c)
    PROVE  RegistryInv'
<1>1. tx[t] \in TxRows
  BY InvFacts
<1> DEFINE row == [tx[t] EXCEPT !.observed = Observed(t, r), !.writes[r] = c]
<1>2. /\ tx[t].stage = "active" /\ ~tx[t].failed /\ t \notin uncertain
      /\ Remembered(t, r) \/ MayRead(t, r)
  BY DEF Stage, At, Live
<1>3. Becomes(t, row) /\ UNCHANGED <<registry, reservations, clearer, uncertain, decided>>
  BY DEF Stage
<1>4. Observed(t, r) \in [Refs -> Snapshots \cup {Unseen}]
  BY <1>2, ObservedFacts
<1>5. tx[t].writes \in [Refs -> Contents \cup {Unseen}]
  BY <1>1, RowFields
<1>6. /\ row.observed = Observed(t, r) /\ row.stage = "active"
      /\ row.clearing = tx[t].clearing /\ row.reserved = tx[t].reserved
      /\ row.failed = tx[t].failed /\ row.marked = tx[t].marked /\ row.bound = tx[t].bound
      /\ row.writes = [tx[t].writes EXCEPT ![r] = c]
  BY <1>1, <1>2 DEF TxRows
<1>7. row.writes \in [Refs -> Contents \cup {Unseen}]
  BY <1>5, <1>6
<1>8. row \in TxRows
  BY <1>1, <1>4, <1>7 DEF TxRows
<1>9. \A q \in Refs \ {r} : row.writes[q] = tx[t].writes[q]
  BY <1>5, <1>6
<1> HIDE DEF row
<1>10. QED BY <1>2, <1>3, <1>6, <1>8, <1>9, LookStep

LEMMA ClearStep ==
    ASSUME RegistryInv, NEW t \in Txs, Clear(t) PROVE RegistryInv'
<1>1. /\ tx[t] \in TxRows /\ RowHolds(t) /\ TypeOK
  BY InvFacts DEF RegistryInv
<1> DEFINE row == [tx[t] EXCEPT !.clearing = TRUE, !.observed = Nothing, !.writes = Nothing]
<1>2. /\ tx[t].stage = "active" /\ ~tx[t].failed /\ t \notin uncertain
      /\ Becomes(t, row) /\ UNCHANGED <<registry, reservations, clearer, uncertain, decided>>
  BY DEF Clear, At, Live
<1>3. /\ row \in TxRows /\ row.clearing /\ row.observed = Nothing /\ row.stage = "active"
      /\ row.reserved = tx[t].reserved
      /\ row.failed = tx[t].failed /\ row.marked = tx[t].marked /\ row.bound = tx[t].bound
  BY <1>1, <1>2, Shapes DEF TxRows
<1> HIDE DEF row
<1>4. tx'[t] = row /\ ~Holding(t)
  BY <1>1, <1>2, <1>3, RowBecomes DEF Holding
<1>5. \A q \in Refs : row.observed[q] = Unseen
  BY <1>3 DEF Nothing
<1>6. RowHolds(t)'
  BY <1>1, <1>2, <1>3, <1>4 DEF RowHolds, Holding
<1>7. VersionsFit(t)'
  BY <1>4, <1>5 DEF VersionsFit
<1>8. uncertain' \subseteq Txs /\ decided' \in [Txs -> {"no", "committed", "aborted"}]
  BY <1>1, <1>2 DEF TypeOK
<1>9. QED BY <1>2, <1>3, <1>4, <1>5, <1>6, <1>7, <1>8, RowStep

LEMMA WorkStep ==
    ASSUME RegistryInv, NEW t \in Txs, Work(t) \/ Clear(t) PROVE RegistryInv'
<1>1. CASE Clear(t)
  BY <1>1, ClearStep
<1>2. ASSUME NEW r \in Refs, Read(t, r) PROVE RegistryInv'
  BY <1>2, ReadStep
<1>3. ASSUME NEW r \in Refs, DiscardSecret(t, r) PROVE RegistryInv'
  BY <1>3, StageStep, Shapes DEF DiscardSecret
<1>4. ASSUME NEW r \in Refs, NEW s \in Scopes, AuthorizeSecret(t, r, s) PROVE RegistryInv'
  <2>1. /\ tx[t].stage = "active"
        /\ Remembered(t, r) \/ MayRead(t, r)
    BY <1>4 DEF AuthorizeSecret, Stage, At
  <2>2. Authorized(Current(t, r), s) \in Contents
    BY <1>4, <2>1, ObservedFacts, ContentsGrow DEF AuthorizeSecret
  <2>3. QED BY <1>4, <2>2, StageStep DEF AuthorizeSecret
<1>5. ASSUME NEW r \in Refs, NEW s \in Scopes, NEW v \in Values, StoreSecret(t, r, v, s)
      PROVE  RegistryInv'
  <2>1. /\ tx[t].stage = "active"
        /\ Remembered(t, r) \/ MayRead(t, r)
    BY <1>5 DEF StoreSecret, Stage, At
  <2>2. Stored(Current(t, r), v, s) \in Contents
    BY <2>1, ObservedFacts, ContentsGrow
  <2>3. QED BY <1>5, <2>2, StageStep DEF StoreSecret
<1>6. QED BY <1>1, <1>2, <1>3, <1>4, <1>5 DEF Work
-----------------------------------------------------------------------------
(* Prepare.                                                                *)

LEMMA ActiveHoldsNothing ==
    ASSUME RegistryInv, NEW t \in Txs, tx[t].stage = "active", clearer \in {NoTx, t}
    PROVE  /\ ~Holding(t) /\ clearer = NoTx /\ decided[t] = "no"
           /\ \A r \in Refs : reservations[r] # t
           /\ \A x \in Txs : Holding(x) => ~tx[x].clearing
<1>1. ~Holding(t)
  BY DEF Holding
<1>2. ReservationsAreHeld /\ RowHolds(t)
  BY DEF RegistryInv
<1>3. clearer = NoTx
  BY <1>1, <1>2 DEF ReservationsAreHeld
<1>4. decided[t] = "no"
  BY <1>2 DEF RowHolds
<1>5. \A r \in Refs : reservations[r] # t
  BY <1>1, <1>2, SecretsAssumption DEF ReservationsAreHeld
<1>6. \A x \in Txs : Holding(x) => ~tx[x].clearing
  BY <1>2, <1>3, SecretsAssumption DEF ReservationsAreHeld, HoldsReservations
<1>7. QED BY <1>1, <1>3, <1>4, <1>5, <1>6

LEMMA PrepareWritesStep ==
    ASSUME RegistryInv, NEW t \in Txs, Prepare(t), PrepareWrites(t) PROVE RegistryInv'
<1>1. /\ tx[t] \in TxRows /\ RowHolds(t) /\ VersionsFit(t) /\ TypeOK /\ ReservationsAreHeld
  BY InvFacts DEF RegistryInv
<1>2. /\ tx[t].stage = "active" /\ ~tx[t].failed /\ t \notin uncertain /\ clearer \in {NoTx, t}
      /\ ~tx[t].clearing /\ clearer' = clearer
      /\ values' = values /\ versions' = versions /\ clearEpoch' = clearEpoch
      /\ revision' = revision /\ uncertain' = uncertain /\ decided' = decided
      /\ \A r \in Touched(t) :
          /\ reservations[r] \in {NoTx, t}
          /\ tx[t].observed[r] # Unseen =>
                versions[r] = tx[t].observed[r].version
  BY DEF Prepare, PrepareWrites, At, Live, registry
<1>3. /\ ~Holding(t) /\ clearer = NoTx /\ decided[t] = "no"
      /\ \A r \in Refs : reservations[r] # t
      /\ \A x \in Txs : Holding(x) => ~tx[x].clearing
  BY <1>2, ActiveHoldsNothing
<1> DEFINE mine == Touched(t)
           row == [tx[t] EXCEPT !.stage = "prepared", !.reserved = mine]
<1>4. /\ mine \subseteq Refs /\ mine = {r \in Refs : tx[t].observed[r] # Unseen}
      /\ \A r \in mine : reservations[r] = NoTx /\ versions[r] = tx[t].observed[r].version
  BY <1>1, <1>2, <1>3 DEF Touched, RowHolds
<1>5. /\ Becomes(t, row)
      /\ reservations' = [r \in Refs |-> IF r \in mine THEN t ELSE reservations[r]]
  BY DEF PrepareWrites
<1> HIDE DEF mine
<1>6. /\ row \in TxRows /\ row.stage = "prepared" /\ row.reserved = mine
      /\ row.failed = tx[t].failed /\ row.bound = tx[t].bound /\ row.marked = tx[t].marked
      /\ row.observed = tx[t].observed /\ row.writes = tx[t].writes
      /\ row.clearing = tx[t].clearing
  BY <1>1, <1>4 DEF TxRows, Stages
<1> HIDE DEF row
<1>7. /\ tx' \in [Txs -> TxRows] /\ tx'[t] = row
      /\ \A x \in Txs \ {t} : tx'[x] = tx[x]
  BY <1>1, <1>5, <1>6, RowBecomes
<1>8. TypeOK'
  BY <1>1, <1>2, <1>5, <1>7 DEF TypeOK
<1>9. ReservationsAreHeld'
  <2>1. \A x \in Txs \ {t} : Holding(x)' <=> Holding(x)
    BY <1>7 DEF Holding
  <2>2. Holding(t)' /\ HoldsReservations(t)'
    BY <1>2, <1>4, <1>5, <1>6, <1>7 DEF Holding, HoldsReservations
  <2>3. ASSUME NEW x \in Txs \ {t}, Holding(x) PROVE HoldsReservations(x)'
    <3>1. ~tx[x].clearing /\ tx[x].reserved \in SUBSET Refs
      BY <1>1, <1>3, <2>3, RowFields DEF TypeOK
    <3>2. \A r \in tx[x].reserved : reservations[r] = x
      BY <1>1, <2>3, <3>1 DEF ReservationsAreHeld, HoldsReservations
    <3>3. \A r \in tx[x].reserved : reservations'[r] = x
      BY <1>4, <1>5, <3>1, <3>2, SecretsAssumption
    <3>4. QED BY <1>7, <3>1, <3>3 DEF HoldsReservations
  <2>4. ASSUME NEW r \in Refs, reservations'[r] # NoTx
        PROVE  /\ Holding(reservations[r])' /\ ~tx'[reservations'[r]].clearing
               /\ r \in tx'[reservations'[r]].reserved
    <3>1. CASE r \in mine
      <4>1. reservations'[r] = t
        BY <1>5, <3>1
      <4>2. QED BY <1>2, <1>6, <1>7, <3>1, <4>1 DEF Holding
    <3>2. CASE r \notin mine
      <4>1. reservations'[r] = reservations[r] /\ reservations[r] \in Txs \ {t}
        BY <1>1, <1>3, <1>5, <2>4, <3>2 DEF TypeOK
      <4>2. /\ Holding(reservations[r]) /\ ~tx[reservations[r]].clearing
            /\ r \in tx[reservations[r]].reserved
        BY <1>1, <2>4, <4>1 DEF ReservationsAreHeld
      <4>3. QED BY <1>7, <4>1, <4>2 DEF Holding
    <3>3. QED BY <3>1, <3>2
  <2>5. clearer' = NoTx
    BY <1>2, <1>3
  <2>6. QED BY <2>1, <2>2, <2>3, <2>4, <2>5 DEF ReservationsAreHeld, Holding
<1>10. ASSUME NEW x \in Txs \ {t} PROVE RowHolds(x)' /\ Kept(x)'
  <2>1. RowHolds(x)'
    BY <1>2, <1>7, SameRow
  <2>2. \A u \in Txs : tx'[u].observed = tx[u].observed
    BY <1>6, <1>7
  <2>3. Kept(x)'
    BY <1>1, <1>2, <1>7, <2>2, OthersHold DEF TypeOK
  <2>4. QED BY <2>1, <2>3
<1>11. RowHolds(t)'
  BY <1>1, <1>2, <1>3, <1>4, <1>6, <1>7 DEF RowHolds, Holding
<1>12. VersionsFit(t)'
  BY <1>1, <1>2, <1>6, <1>7 DEF VersionsFit
<1>13. PreparedHolds(t)' /\ PublishedHolds(t)'
  BY <1>2, <1>4, <1>6, <1>7 DEF PreparedHolds, PublishedHolds
<1>14. QED BY <1>8, <1>9, <1>10, <1>11, <1>12, <1>13 DEF RegistryInv, Kept

LEMMA PrepareClearStep ==
    ASSUME RegistryInv, NEW t \in Txs, Prepare(t), PrepareClear(t) PROVE RegistryInv'
<1>1. /\ tx[t] \in TxRows /\ RowHolds(t) /\ VersionsFit(t) /\ TypeOK /\ ReservationsAreHeld
  BY InvFacts DEF RegistryInv
<1>2. /\ tx[t].stage = "active" /\ ~tx[t].failed /\ t \notin uncertain /\ clearer \in {NoTx, t}
      /\ tx[t].clearing /\ clearer' = t /\ reservations' = reservations
      /\ values' = values /\ versions' = versions /\ clearEpoch' = clearEpoch
      /\ revision' = revision /\ uncertain' = uncertain /\ decided' = decided
      /\ \A r \in Refs : reservations[r] \in {NoTx, t}
  BY DEF Prepare, PrepareClear, At, Live, registry
<1>3. /\ ~Holding(t) /\ clearer = NoTx /\ decided[t] = "no"
      /\ \A r \in Refs : reservations[r] = NoTx
      /\ \A x \in Txs : Holding(x) => ~tx[x].clearing
  BY <1>2, ActiveHoldsNothing
<1> DEFINE now == [r \in Refs |-> Snapshot(r)]
           row == [tx[t] EXCEPT !.stage = "prepared", !.clearBefore = now]
<1>4. now \in [Refs -> Snapshots] /\ \A r \in Refs : now[r] = Snapshot(r)
  BY <1>1 DEF TypeOK, Snapshot, Snapshots
<1>5. Becomes(t, row)
  BY DEF PrepareClear
<1> HIDE DEF now
<1>6. /\ row \in TxRows /\ row.stage = "prepared" /\ row.clearBefore = now
      /\ row.failed = tx[t].failed /\ row.bound = tx[t].bound /\ row.marked = tx[t].marked
      /\ row.observed = tx[t].observed /\ row.writes = tx[t].writes
      /\ row.clearing = tx[t].clearing /\ row.reserved = tx[t].reserved
  BY <1>1, <1>4 DEF TxRows, Stages
<1> HIDE DEF row
<1>7. /\ tx' \in [Txs -> TxRows] /\ tx'[t] = row
      /\ \A x \in Txs \ {t} : tx'[x] = tx[x]
  BY <1>1, <1>5, <1>6, RowBecomes
<1>8. TypeOK'
  BY <1>1, <1>2, <1>7 DEF TypeOK
<1>9. \A x \in Txs \ {t} : Holding(x) => ~tx[x].clearing /\ tx[x].reserved = {}
  <2> SUFFICES ASSUME NEW x \in Txs \ {t}, Holding(x)
               PROVE  ~tx[x].clearing /\ tx[x].reserved = {}
    OBVIOUS
  <2>1. ~tx[x].clearing /\ tx[x].reserved \in SUBSET Refs
    BY <1>1, <1>3, RowFields DEF TypeOK
  <2>2. \A r \in tx[x].reserved : reservations[r] = x
    BY <1>1, <2>1 DEF ReservationsAreHeld, HoldsReservations
  <2>3. QED BY <1>3, <2>1, <2>2, SecretsAssumption
<1>10. ReservationsAreHeld'
  <2>1. \A x \in Txs \ {t} : Holding(x)' <=> Holding(x)
    BY <1>7 DEF Holding
  <2>2. Holding(t)' /\ HoldsReservations(t)' /\ tx'[t].clearing
    BY <1>2, <1>6, <1>7 DEF Holding, HoldsReservations
  <2>3. \A x \in Txs \ {t} : Holding(x) => HoldsReservations(x)'
    BY <1>7, <1>9 DEF HoldsReservations
  <2>4. \A x \in Txs \ {t} : Holding(x)' => tx'[x].reserved = {}
    BY <1>7, <1>9, <2>1
  <2>5. QED BY <1>2, <1>3, <2>1, <2>2, <2>3, <2>4 DEF ReservationsAreHeld
<1>11. ASSUME NEW x \in Txs \ {t} PROVE RowHolds(x)' /\ Kept(x)'
  <2>1. RowHolds(x)'
    BY <1>2, <1>7, SameRow
  <2>2. \A u \in Txs : tx'[u].observed = tx[u].observed
    BY <1>6, <1>7
  <2>3. Kept(x)'
    BY <1>1, <1>2, <1>7, <2>2, OthersHold DEF TypeOK
  <2>4. QED BY <2>1, <2>3
<1>12. RowHolds(t)'
  BY <1>1, <1>2, <1>3, <1>6, <1>7 DEF RowHolds, Holding
<1>13. VersionsFit(t)'
  BY <1>1, <1>2, <1>6, <1>7 DEF VersionsFit
<1>14. PreparedHolds(t)' /\ PublishedHolds(t)'
  <2>1. \A r \in Refs : Snapshot(r)' = Snapshot(r)
    BY <1>2 DEF Snapshot
  <2>2. QED BY <1>2, <1>4, <1>6, <1>7, <2>1 DEF PreparedHolds, PublishedHolds
<1>15. QED BY <1>8, <1>10, <1>11, <1>12, <1>13, <1>14 DEF RegistryInv, Kept
-----------------------------------------------------------------------------
(* Steps that write the registry.                                          *)

LEMMA DirectStep ==
    ASSUME RegistryInv, UNCHANGED <<reservations, clearer, uncertain, tx, decided>>,
           values' \in [Refs -> Contents], versions' \in [Refs -> Nat],
           revision' \in Nat, clearEpoch' \in Nat,
           \A r \in Refs : /\ versions'[r] >= versions[r]
                           /\ values'[r] # values[r] => versions'[r] > versions[r]
                           /\ (clearer # NoTx \/ reservations[r] # NoTx) =>
                                 values'[r] = values[r] /\ versions'[r] = versions[r]
    PROVE  RegistryInv'
<1>1. TypeOK'
  BY DEF RegistryInv, TypeOK
<1>2. ReservationsAreHeld'
  BY SameHolders DEF Holding
<1>3. ASSUME NEW x \in Txs PROVE RowHolds(x)' /\ Kept(x)'
  <2>1. RowHolds(x)'
    BY SameRow
  <2>2. \A r \in Refs : Covers(x, r) => values'[r] = values[r] /\ versions'[r] = versions[r]
    BY FreeIsUncovered
  <2>3. Kept(x)'
    BY <2>2, OthersHold
  <2>4. QED BY <2>1, <2>3
<1>4. QED BY <1>1, <1>2, <1>3 DEF RegistryInv, Kept

LEMMA OutsideStep == ASSUME RegistryInv, Outside PROVE RegistryInv'
<1>1. TypeOK
  BY DEF RegistryInv
<1>2. ASSUME NEW r \in Refs, NEW c \in Contents, PublishDirect(r, c) PROVE RegistryInv'
  <2> DEFINE wanted == [Nothing EXCEPT ![r] = c]
  <2>1. /\ wanted \in [Refs -> Contents \cup {Unseen}] /\ wanted[r] # Unseen
        /\ \A q \in Refs \ {r} : wanted[q] = Unseen
    BY Shapes DEF Nothing
  <2>2. /\ Publish(wanted) /\ clearer = NoTx /\ reservations[r] = NoTx
        /\ UNCHANGED <<reservations, clearer, uncertain, tx, decided>>
    BY <1>2 DEF PublishDirect, GlobalMutationAvailable
  <2> HIDE DEF wanted
  <2>3. /\ values' \in [Refs -> Contents] /\ versions' \in [Refs -> Nat]
        /\ revision' \in Nat /\ clearEpoch' \in Nat
        /\ \A q \in Refs : /\ wanted[q] = Unseen => /\ values'[q] = values[q]
                                                    /\ versions'[q] = versions[q]
                           /\ wanted[q] # Unseen => /\ values'[q] = wanted[q]
                                                    /\ versions'[q] = versions[q] + 1
    BY <1>1, <2>1, <2>2, PublishWrites
  <2>4. \A q \in Refs : /\ versions[q] \in Nat
                        /\ versions'[q] >= versions[q]
                        /\ values'[q] # values[q] => versions'[q] > versions[q]
    BY <1>1, <2>3 DEF TypeOK
  <2>5. \A q \in Refs : (clearer # NoTx \/ reservations[q] # NoTx) =>
                           values'[q] = values[q] /\ versions'[q] = versions[q]
    BY <2>1, <2>2, <2>3
  <2>6. QED BY <2>2, <2>3, <2>4, <2>5, DirectStep
<1>3. ASSUME ClearDirect PROVE RegistryInv'
  <2>1. /\ PublishCleared(Nothing) /\ clearer = NoTx /\ \A r \in Refs : reservations[r] = NoTx
        /\ UNCHANGED <<reservations, clearer, uncertain, tx, decided>>
    BY <1>3 DEF ClearDirect
  <2>2. /\ values' \in [Refs -> Contents] /\ versions' \in [Refs -> Nat]
        /\ revision' \in Nat /\ clearEpoch' \in Nat
        /\ \A q \in Refs : /\ versions'[q] >= versions[q]
                           /\ values'[q] # values[q] => versions'[q] > versions[q]
    BY <1>1, <2>1, ClearedWrites, Shapes
  <2>3. QED BY <2>1, <2>2, DirectStep
<1>4. \A r \in Refs : values[r] \in Contents
  BY <1>1 DEF TypeOK
<1>5. QED
  BY <1>2, <1>3, <1>4, ContentsGrow, Shapes
     DEF Outside, DiscardDirect, AuthorizeDirect, StoreDirect

(* A published transaction: what it wrote is what the registry holds.      *)
LEMMA PublishStep == ASSUME RegistryInv, NEW t \in Txs, PublishPrepared(t) PROVE RegistryInv'
<1>1. /\ tx[t] \in TxRows /\ RowHolds(t) /\ VersionsFit(t) /\ PreparedHolds(t)
      /\ TypeOK /\ ReservationsAreHeld
  BY InvFacts DEF RegistryInv
<1>2. /\ tx[t].stage = "prepared" /\ ~tx[t].failed /\ t \notin uncertain
      /\ IF tx[t].clearing THEN PublishCleared(tx[t].writes) ELSE Publish(tx[t].writes)
      /\ UNCHANGED <<reservations, clearer, uncertain, decided>>
  BY DEF PublishPrepared, At, Live
<1> DEFINE row == [tx[t] EXCEPT !.stage = "published"]
<1>3. Becomes(t, row)
  BY DEF PublishPrepared
<1>4. /\ row \in TxRows /\ row.stage = "published"
      /\ row.failed = tx[t].failed /\ row.bound = tx[t].bound /\ row.marked = tx[t].marked
      /\ row.observed = tx[t].observed /\ row.writes = tx[t].writes
      /\ row.clearing = tx[t].clearing /\ row.reserved = tx[t].reserved
  BY <1>1 DEF TxRows, Stages
<1> HIDE DEF row
<1>5. /\ tx' \in [Txs -> TxRows] /\ tx'[t] = row
      /\ \A x \in Txs \ {t} : tx'[x] = tx[x]
  BY <1>1, <1>3, <1>4, RowBecomes
<1>6. Holding(t) /\ decided[t] = "no"
  BY <1>1, <1>2 DEF RowHolds, Holding
<1>7. /\ tx[t].observed \in [Refs -> Snapshots \cup {Unseen}]
      /\ tx[t].writes \in [Refs -> Contents \cup {Unseen}]
      /\ tx[t].reserved \in SUBSET Refs /\ tx[t].clearing \in BOOLEAN
  BY <1>1, RowFields
<1>8. /\ values' \in [Refs -> Contents] /\ versions' \in [Refs -> Nat]
      /\ revision' \in Nat /\ clearEpoch' \in Nat
      /\ \A r \in Refs : versions'[r] >= versions[r]
      /\ \A r \in Refs : values'[r] # values[r] => versions'[r] > versions[r]
  <2>1. CASE tx[t].clearing
    BY <1>1, <1>2, <1>7, <2>1, ClearedWrites
  <2>2. CASE ~tx[t].clearing
    <3>1. Publish(tx[t].writes)
      BY <1>2, <2>2
    <3>2. /\ values' \in [Refs -> Contents] /\ versions' \in [Refs -> Nat]
          /\ revision' \in Nat /\ clearEpoch' \in Nat
          /\ \A r \in Refs :
                /\ tx[t].writes[r] = Unseen => /\ values'[r] = values[r]
                                               /\ versions'[r] = versions[r]
                /\ tx[t].writes[r] # Unseen => versions'[r] = versions[r] + 1
      BY <1>1, <1>7, <3>1, PublishWrites
    <3>3. \A r \in Refs : versions[r] \in Nat
      BY <1>1 DEF TypeOK
    <3>4. QED BY <3>2, <3>3
  <2>3. QED BY <1>7, <2>1, <2>2
<1>9. \A r \in Refs : ~Covers(t, r) => values'[r] = values[r] /\ versions'[r] = versions[r]
  <2> SUFFICES ASSUME NEW r \in Refs, ~Covers(t, r)
               PROVE  values'[r] = values[r] /\ versions'[r] = versions[r]
    OBVIOUS
  <2>1. ~tx[t].clearing /\ r \notin tx[t].reserved
    BY <1>6 DEF Covers
  <2>2. tx[t].writes[r] = Unseen
    BY <1>1, <1>6, <2>1 DEF RowHolds
  <2>3. Publish(tx[t].writes)
    BY <1>2, <2>1
  <2>4. QED BY <1>1, <1>7, <2>2, <2>3, PublishWrites
<1>10. TypeOK'
  BY <1>1, <1>2, <1>5, <1>8 DEF TypeOK
<1>11. ReservationsAreHeld'
  <2>1. \A x \in Txs : /\ Holding(x)' = Holding(x)
                       /\ tx'[x].clearing = tx[x].clearing
                       /\ tx'[x].reserved = tx[x].reserved
    BY <1>2, <1>4, <1>5 DEF Holding
  <2>2. QED BY <1>2, <2>1, SameHolders
<1>12. \A u \in Txs : tx'[u].observed = tx[u].observed
  BY <1>4, <1>5
<1>13. ASSUME NEW x \in Txs \ {t} PROVE RowHolds(x)' /\ Kept(x)'
  <2>1. RowHolds(x)'
    BY <1>2, <1>5, SameRow
  <2>2. \A r \in Refs : Covers(x, r) => values'[r] = values[r] /\ versions'[r] = versions[r]
    BY <1>9, OneCover
  <2>3. Kept(x)'
    BY <1>5, <1>8, <1>12, <2>2, OthersHold
  <2>4. QED BY <2>1, <2>3
<1>14. RowHolds(t)'
  BY <1>1, <1>2, <1>4, <1>5, <1>6 DEF RowHolds, Holding
<1>15. VersionsFit(t)'
  <2>1. \A r \in Refs : tx[t].observed[r] # Unseen =>
           /\ tx[t].observed[r].version \in Nat /\ versions[r] \in Nat /\ versions'[r] \in Nat
           /\ tx[t].observed[r].version =< versions[r]
    BY <1>1, <1>7, <1>8 DEF VersionsFit, TypeOK, Snapshots
  <2>2. \A r \in Refs : tx[t].observed[r] # Unseen => tx[t].observed[r].version =< versions'[r]
    BY <1>8, <2>1
  <2>3. QED BY <1>4, <1>5, <2>2 DEF VersionsFit
<1>16. PreparedHolds(t)'
  BY <1>4, <1>5 DEF PreparedHolds
<1>17. PublishedHolds(t)'
  <2>1. ASSUME NEW r \in Refs, tx[t].clearing \/ r \in tx[t].reserved
        PROVE  values'[r] = After(t, r)'
    <3>1. After(t, r)' = After(t, r)
      BY <1>4, <1>5 DEF After
    <3>2. CASE tx[t].clearing
      BY <1>1, <1>2, <1>7, <3>1, <3>2, ClearedWrites DEF After
    <3>3. CASE ~tx[t].clearing
      <4>1. r \in tx[t].reserved /\ tx[t].observed[r] # Unseen
        BY <1>1, <1>6, <2>1, <3>3 DEF RowHolds
      <4>2. tx[t].observed[r].content = values[r]
        BY <1>1, <1>2, <3>3, <4>1 DEF PreparedHolds, VersionsFit
      <4>3. values'[r] = IF tx[t].writes[r] = Unseen THEN values[r] ELSE tx[t].writes[r]
        BY <1>2, <3>3 DEF Publish
      <4>4. QED BY <3>1, <3>3, <4>2, <4>3 DEF After
    <3>4. QED BY <1>7, <3>2, <3>3
  <2>2. ASSUME tx[t].clearing, NEW r \in Refs, tx[t].writes[r] # Unseen, NEW u \in Txs \ {t},
               tx[u].observed[r] # Unseen
        PROVE  tx[u].observed[r].version < versions'[r]
    <3>1. versions'[r] > versions[r]
      BY <1>1, <1>2, <1>7, <2>2, ClearedWrites
    <3>2. tx[u].observed[r].version =< versions[r]
      BY <2>2 DEF RegistryInv, VersionsFit
    <3>3. tx[u].observed \in [Refs -> Snapshots \cup {Unseen}]
      BY <1>1, RowFields DEF TypeOK
    <3>4. tx[u].observed[r].version \in Nat /\ versions[r] \in Nat /\ versions'[r] \in Nat
      BY <1>1, <1>8, <2>2, <3>3 DEF TypeOK, Snapshots
    <3>5. QED BY <3>1, <3>2, <3>4
  <2>3. /\ tx'[t].clearing = tx[t].clearing /\ tx'[t].reserved = tx[t].reserved
        /\ tx'[t].writes = tx[t].writes
    BY <1>4, <1>5
  <2>4. QED BY <1>12, <2>1, <2>2, <2>3 DEF PublishedHolds
<1>18. QED BY <1>10, <1>11, <1>13, <1>14, <1>15, <1>16, <1>17 DEF RegistryInv, Kept
-----------------------------------------------------------------------------
(* Closing: a transaction gives back its reservations and is gone.         *)

(* An undo changes only what u covers, and the undo of a clear changes no  *)
(* content without a new version that anybody still counts on.             *)
LEMMA UndoWrites ==
    ASSUME RegistryInv, NEW u \in Txs, tx[u].stage = "published", RestorePublishedOverlay(u)
    PROVE  /\ values' \in [Refs -> Contents] /\ versions' \in [Refs -> Nat]
           /\ revision' \in Nat /\ clearEpoch' \in Nat
           /\ \A r \in Refs :
                 /\ versions'[r] >= versions[r]
                 /\ ~Covers(u, r) => values'[r] = values[r] /\ versions'[r] = versions[r]
                 /\ Covers(u, r) => values'[r] = Before(u, r)
           /\ \A r \in Refs, x \in Txs \ {u} :
                 values'[r] # values[r] =>
                    \/ versions'[r] > versions[r]
                    \/ tx[x].observed[r] = Unseen
                    \/ tx[x].observed[r].version < versions[r]
<1>1. /\ tx[u] \in TxRows /\ RowHolds(u) /\ TypeOK /\ PublishedHolds(u) /\ Holding(u)
      /\ \A r \in Refs : versions[r] \in Nat
  BY InvFacts DEF RegistryInv, Holding, TypeOK
<1>2. CASE tx[u].clearing
  <2>1. /\ values' \in [Refs -> Contents] /\ versions' \in [Refs -> Nat]
        /\ revision' \in Nat /\ clearEpoch' \in Nat
        /\ \A r \in Refs : /\ values'[r] = tx[u].clearBefore[r].content
                           /\ versions'[r] >= versions[r]
                           /\ Known(tx[u].clearBefore[r]) => versions'[r] > versions[r]
    BY <1>1, <1>2, UnclearWrites
  <2>2. \A r \in Refs : Covers(u, r) /\ Before(u, r) = tx[u].clearBefore[r].content
    BY <1>1, <1>2 DEF Covers, Before
  <2>3. ASSUME NEW r \in Refs, NEW x \in Txs \ {u}, values'[r] # values[r]
        PROVE  \/ versions'[r] > versions[r]
               \/ tx[x].observed[r] = Unseen
               \/ tx[x].observed[r].version < versions[r]
    <3>1. CASE Known(tx[u].clearBefore[r])
      BY <2>1, <3>1
    <3>2. CASE ~Known(tx[u].clearBefore[r])
      <4>1. values'[r] = Absent
        BY <2>1, <3>2 DEF Known
      <4>2. values[r] = After(u, r)
        BY <1>1, <1>2 DEF PublishedHolds, Holding
      <4>3. tx[u].writes[r] # Unseen
        BY <1>2, <2>3, <4>1, <4>2 DEF After
      <4>4. QED BY <1>1, <1>2, <4>3 DEF PublishedHolds
    <3>3. QED BY <3>1, <3>2
  <2>4. QED BY <2>1, <2>2, <2>3
<1>3. CASE ~tx[u].clearing
  <2>1. tx[u].reserved = {r \in Refs : tx[u].observed[r] # Unseen}
    BY <1>1, <1>3 DEF RowHolds
  <2>2. /\ values' \in [Refs -> Contents] /\ versions' \in [Refs -> Nat]
        /\ revision' \in Nat /\ clearEpoch' \in Nat
        /\ \A r \in Refs :
              /\ r \notin tx[u].reserved => values'[r] = values[r] /\ versions'[r] = versions[r]
              /\ r \in tx[u].reserved => /\ values'[r] = tx[u].observed[r].content
                                         /\ versions'[r] = versions[r] + 1
    BY <1>1, <1>3, <2>1, UnpublishWrites
  <2>3. \A r \in Refs : /\ Covers(u, r) <=> r \in tx[u].reserved
                        /\ Before(u, r) = tx[u].observed[r].content
    BY <1>1, <1>3 DEF Covers, Before
  <2>4. \A r \in Refs : versions'[r] >= versions[r]
    BY <1>1, <2>2
  <2>5. \A r \in Refs : values'[r] # values[r] => versions'[r] > versions[r]
    BY <1>1, <2>2
  <2>6. QED BY <2>2, <2>3, <2>4, <2>5
<1>4. tx[u].clearing \in BOOLEAN
  BY <1>1, RowFields
<1>5. QED BY <1>2, <1>3, <1>4

LEMMA ReleaseKeepsOthers ==
    ASSUME RegistryInv, NEW u \in Txs, Becomes(u, EndedTx), ReleaseReservations(u)
    PROVE  /\ ReservationsAreHeld'
           /\ reservations' \in [Refs -> Txs \cup {NoTx}] /\ clearer' \in Txs \cup {NoTx}
<1>1. /\ TypeOK /\ ReservationsAreHeld
      /\ reservations \in [Refs -> Txs \cup {NoTx}] /\ clearer \in Txs \cup {NoTx}
  BY DEF RegistryInv, TypeOK
<1>2. /\ tx'[u] = EndedTx /\ \A x \in Txs \ {u} : tx'[x] = tx[x]
  BY <1>1, RowBecomes, Shapes
<1>3. ~Holding(u)' /\ \A x \in Txs \ {u} : Holding(x)' <=> Holding(x)
  BY <1>2, Shapes DEF Holding
<1>4. /\ reservations' = [r \in Refs |->
                          IF r \in tx[u].reserved /\ reservations[r] = u
                            THEN NoTx ELSE reservations[r]]
      /\ clearer' = IF clearer = u THEN NoTx ELSE clearer
  BY DEF ReleaseReservations
<1>5. ASSUME NEW x \in Txs \ {u}, Holding(x) PROVE HoldsReservations(x)'
  <2>1. tx[x].reserved \in SUBSET Refs /\ HoldsReservations(x)
    BY <1>1, <1>5, RowFields DEF TypeOK, ReservationsAreHeld
  <2>2. \A r \in Refs : reservations[r] = x => reservations'[r] = x
    BY <1>4
  <2>3. clearer = x => clearer' = x
    BY <1>4
  <2>4. QED BY <1>2, <2>1, <2>2, <2>3 DEF HoldsReservations
<1>6. ASSUME NEW r \in Refs, reservations'[r] # NoTx
      PROVE  /\ Holding(reservations[r])' /\ ~tx'[reservations'[r]].clearing
             /\ r \in tx'[reservations'[r]].reserved
  <2>1. reservations'[r] = reservations[r] /\ reservations[r] # NoTx
    BY <1>4, <1>6
  <2>2. /\ Holding(reservations[r]) /\ ~tx[reservations[r]].clearing
        /\ r \in tx[reservations[r]].reserved
    BY <1>1, <2>1 DEF ReservationsAreHeld
  <2>3. reservations[r] \in Txs \ {u}
    BY <1>1, <1>4, <1>6, <2>1, <2>2
  <2>4. QED BY <1>2, <2>1, <2>2, <2>3 DEF Holding
<1>7. clearer' # NoTx => /\ Holding(clearer)' /\ tx'[clearer'].clearing
                         /\ \A x \in Txs \ {clearer'} : Holding(x)' => tx'[x].reserved = {}
  <2> SUFFICES ASSUME clearer' # NoTx
               PROVE  /\ Holding(clearer)' /\ tx'[clearer'].clearing
                      /\ \A x \in Txs \ {clearer'} : Holding(x)' => tx'[x].reserved = {}
    OBVIOUS
  <2>1. clearer' = clearer /\ clearer \in Txs \ {u}
    BY <1>1, <1>4
  <2>2. /\ Holding(clearer) /\ tx[clearer].clearing
        /\ \A x \in Txs \ {clearer} : Holding(x) => tx[x].reserved = {}
    BY <1>1, <2>1, SecretsAssumption DEF ReservationsAreHeld
  <2>3. Holding(clearer)' /\ tx'[clearer'].clearing
    BY <1>2, <2>1, <2>2 DEF Holding
  <2>4. QED BY <1>2, <1>3, <2>1, <2>2, <2>3
<1>8. /\ reservations' \in [Refs -> Txs \cup {NoTx}] /\ clearer' \in Txs \cup {NoTx}
  BY <1>1, <1>4
<1>9. QED BY <1>3, <1>5, <1>6, <1>7, <1>8 DEF ReservationsAreHeld

LEMMA CloseStep ==
    ASSUME RegistryInv, NEW u \in Txs, Becomes(u, EndedTx), ReleaseReservations(u),
           uncertain' \subseteq uncertain, u \notin uncertain',
           decided' \in [Txs -> {"no", "committed", "aborted"}],
           \A x \in Txs \ {u} : decided'[x] = decided[x],
           \/ UNCHANGED registry
           \/ tx[u].stage = "published" /\ RestorePublishedOverlay(u)
    PROVE  RegistryInv'
<1>1. TypeOK /\ \A r \in Refs : versions[r] \in Nat
  BY DEF RegistryInv, TypeOK
<1>2. /\ tx' \in [Txs -> TxRows] /\ tx'[u] = EndedTx /\ \A x \in Txs \ {u} : tx'[x] = tx[x]
  BY <1>1, RowBecomes, Shapes
<1>3. /\ values' \in [Refs -> Contents] /\ versions' \in [Refs -> Nat]
      /\ revision' \in Nat /\ clearEpoch' \in Nat
      /\ \A r \in Refs :
            /\ versions'[r] >= versions[r]
            /\ ~Covers(u, r) => values'[r] = values[r] /\ versions'[r] = versions[r]
      /\ \A r \in Refs, x \in Txs \ {u} :
            values'[r] # values[r] =>
               \/ versions'[r] > versions[r]
               \/ tx[x].observed[r] = Unseen
               \/ tx[x].observed[r].version < versions[r]
  <2>1. CASE UNCHANGED registry
    BY <1>1, <2>1 DEF registry, TypeOK
  <2>2. CASE tx[u].stage = "published" /\ RestorePublishedOverlay(u)
    BY <2>2, UndoWrites
  <2>3. QED BY <2>1, <2>2
<1>4. ReservationsAreHeld' /\ TypeOK'
  BY <1>1, <1>2, <1>3, ReleaseKeepsOthers DEF TypeOK
<1>5. \A x \in Txs, r \in Refs :
         tx'[x].observed[r] # Unseen => tx'[x].observed[r] = tx[x].observed[r]
  BY <1>2, Shapes DEF Nothing
<1>6. ASSUME NEW x \in Txs \ {u} PROVE RowHolds(x)' /\ Kept(x)'
  <2>1. RowHolds(x)'
    BY <1>2, SameRow
  <2>2. \A r \in Refs : Covers(x, r) => values'[r] = values[r] /\ versions'[r] = versions[r]
    BY <1>3, OneCover
  <2>3. Kept(x)'
    BY <1>2, <1>3, <1>5, <2>2, OthersHold
  <2>4. QED BY <2>1, <2>3
<1>7. RowHolds(u)'
  BY <1>2, Shapes DEF RowHolds, Holding
<1>8. VersionsFit(u)' /\ PreparedHolds(u)' /\ PublishedHolds(u)'
  BY <1>2, Shapes DEF VersionsFit, PreparedHolds, PublishedHolds, Nothing
<1>9. QED BY <1>4, <1>6, <1>7, <1>8 DEF RegistryInv, Kept

(* Every way a transaction ends.                                           *)
LEMMA EndStep ==
    ASSUME RegistryInv, NEW t \in Txs,
           \/ Finalize(t) \/ RollbackUnpublished(t) \/ RollbackPublished(t)
           \/ \E u \in Txs : ReconcileUncertain(t, u) \/ EnterRefused(t, u)
    PROVE  RegistryInv'
<1>1. TypeOK /\ decided \in [Txs -> {"no", "committed", "aborted"}]
  BY DEF RegistryInv, TypeOK
<1>2. CASE Finalize(t)
  <2>1. /\ Becomes(t, EndedTx) /\ ReleaseReservations(t) /\ UNCHANGED registry
        /\ uncertain' = uncertain /\ t \notin uncertain
        /\ decided' = [decided EXCEPT ![t] = "committed"]
    BY <1>2 DEF Finalize, At, Live, KeepOverlay
  <2>2. QED BY <1>1, <2>1, CloseStep
<1>3. CASE RollbackUnpublished(t)
  <2>1. /\ Becomes(t, EndedTx) /\ ReleaseReservations(t) /\ UNCHANGED registry
        /\ uncertain' = uncertain /\ t \notin uncertain /\ decided' = decided
    BY <1>3 DEF RollbackUnpublished, At, Live, KeepOverlay
  <2>2. QED BY <1>1, <2>1, CloseStep
<1>4. CASE RollbackPublished(t)
  <2>1. /\ Becomes(t, EndedTx) /\ ReleaseReservations(t)
        /\ (UNCHANGED registry \/ RestorePublishedOverlay(t))
        /\ uncertain' = uncertain /\ t \notin uncertain /\ decided' = decided
        /\ tx[t].failed
    BY <1>4 DEF RollbackPublished, Leaving, KeepOverlay, UndoOverlay
  <2>2. tx[t].stage = "published"
    BY <2>1 DEF RegistryInv, RowHolds
  <2>3. QED BY <1>1, <2>1, <2>2, CloseStep
<1>5. ASSUME NEW u \in Txs, ReconcileUncertain(t, u) PROVE RegistryInv'
  <2>1. /\ Becomes(u, EndedTx) /\ ReleaseReservations(u) /\ u \in uncertain
        /\ (UNCHANGED registry \/ RestorePublishedOverlay(u))
        /\ uncertain' = uncertain \ {u} /\ decided' = decided
    BY <1>5 DEF ReconcileUncertain, KeepOverlay, UndoOverlay
  <2>2. tx[u].stage = "published"
    BY <2>1 DEF RegistryInv, RowHolds
  <2>3. QED BY <1>1, <2>1, <2>2, CloseStep
<1>6. ASSUME NEW u \in Txs, EnterRefused(t, u) PROVE RegistryInv'
  <2>1. /\ Becomes(t, EndedTx) /\ UNCHANGED <<registry, reservations, clearer>>
        /\ uncertain' = uncertain /\ t \notin uncertain /\ decided' = decided
        /\ tx[t].stage = "entering"
    BY <1>6 DEF EnterRefused, At, Live
  <2>2. /\ ReservationsAreHeld /\ RowHolds(t) /\ ~Holding(t)
        /\ reservations \in [Refs -> Txs \cup {NoTx}]
    BY <2>1 DEF RegistryInv, Holding, TypeOK
  <2>3. tx[t].reserved = {} /\ clearer # t
    BY <2>2, SecretsAssumption DEF RowHolds, ReservationsAreHeld
  <2>4. ReleaseReservations(t)
    BY <2>1, <2>2, <2>3 DEF ReleaseReservations
  <2>5. QED BY <1>1, <2>1, <2>4, CloseStep
<1>7. QED BY <1>2, <1>3, <1>4, <1>5, <1>6
-----------------------------------------------------------------------------
(* The invariant.                                                          *)

LEMMA RegistryInit == Init => RegistryInv
<1> SUFFICES ASSUME Init PROVE RegistryInv
  OBVIOUS
<1>1. TypeOK
  BY Shapes DEF Init, TypeOK
<1>2. ASSUME NEW t \in Txs
      PROVE  /\ tx[t].stage = "new" /\ ~tx[t].failed /\ ~tx[t].marked /\ ~tx[t].clearing
             /\ tx[t].observed = Nothing /\ tx[t].writes = Nothing /\ tx[t].reserved = {}
             /\ decided[t] = "no" /\ t \notin uncertain
  BY DEF Init, NewTx
<1>3. ReservationsAreHeld
  BY <1>2 DEF Init, ReservationsAreHeld, Holding
<1>4. \A t \in Txs : RowHolds(t) /\ PreparedHolds(t) /\ PublishedHolds(t)
  BY <1>2 DEF RowHolds, PreparedHolds, PublishedHolds, Holding
<1>5. \A t \in Txs : VersionsFit(t)
  BY <1>2 DEF VersionsFit, Nothing
<1>6. QED BY <1>1, <1>3, <1>4, <1>5 DEF RegistryInv

LEMMA RegistryStutter == ASSUME RegistryInv, UNCHANGED vars PROVE RegistryInv'
<1>1. TypeOK'
  BY DEF vars, RegistryInv, TypeOK
<1>2. ReservationsAreHeld'
  BY SameHolders DEF vars, Holding
<1>3. \A r \in Refs : Snapshot(r)' = Snapshot(r)
  BY DEF vars, Snapshot
<1>4. \A x \in Txs, r \in Refs : After(x, r)' = After(x, r)
  BY DEF vars, After
<1>5. ASSUME NEW x \in Txs
      PROVE  RowHolds(x)' /\ VersionsFit(x)' /\ PreparedHolds(x)' /\ PublishedHolds(x)'
  BY <1>3, <1>4, SameRow
     DEF vars, RegistryInv, VersionsFit, PreparedHolds, PublishedHolds
<1>6. QED BY <1>1, <1>2, <1>5 DEF RegistryInv

LEMMA RegistryStep == RegistryInv /\ [Next]_vars => RegistryInv'
<1> SUFFICES ASSUME RegistryInv, [Next]_vars PROVE RegistryInv'
  OBVIOUS
<1>1. ASSUME NEW t \in Txs, Enter(t) \/ Entered(t) \/ BindExternalCommitProbe(t)
      PROVE  RegistryInv'
  BY <1>1, EnterStep
<1>2. ASSUME NEW t \in Txs, NEW u \in Txs, ReconcileUncertain(t, u) \/ EnterRefused(t, u)
      PROVE  RegistryInv'
  BY <1>2, EndStep
<1>3. ASSUME NEW t \in Txs, Work(t) \/ Clear(t) PROVE RegistryInv'
  BY <1>3, WorkStep
<1>4. ASSUME NEW t \in Txs, Close(t) PROVE RegistryInv'
  <2>1. CASE Prepare(t)
    BY <2>1, PrepareWritesStep, PrepareClearStep DEF Prepare
  <2>2. CASE PublishPrepared(t)
    BY <2>2, PublishStep
  <2>3. CASE \/ CommitProductHead(t) \/ MarkProductHeadCommitted(t) \/ Fail(t)
             \/ TerminalizeFailedAttempt(t) \/ RollbackUncertain(t)
    BY <2>3, OutcomeStep
  <2>4. CASE Finalize(t) \/ RollbackUnpublished(t) \/ RollbackPublished(t)
    BY <2>4, EndStep
  <2>5. QED BY <1>4, <2>1, <2>2, <2>3, <2>4 DEF Close
<1>5. CASE Outside
  BY <1>5, OutsideStep
<1>6. CASE UNCHANGED vars
  BY <1>6, RegistryStutter
<1>7. QED BY <1>1, <1>2, <1>3, <1>4, <1>5, <1>6 DEF Next

(* The inductive invariant: what a transaction object, the versions, the   *)
(* reservations and the published references say of each other.            *)
THEOREM RegistryInvariant == Spec => []RegistryInv
BY RegistryInit, RegistryStep, PTL DEF Spec

(* Every variable of the registry keeps its shape (secret_refs.py: values, *)
(* scopes, versions, reservations and the fields of a transaction).        *)
THEOREM SecretTypeTheorem == Spec => []TypeOK
<1>1. RegistryInv => TypeOK
  BY DEF RegistryInv
<1>2. QED BY <1>1, RegistryInvariant, PTL

(* No reservation is lost before its transaction publishes or closes, and  *)
(* none outlives it (secret_refs.py: "reservation was lost" is unreachable,*)
(* and finalize and rollback give back what prepare took).                 *)
THEOREM ReservationsTheorem == Spec => []ReservationsAreHeld
<1>1. RegistryInv => ReservationsAreHeld
  BY DEF RegistryInv
<1>2. QED BY <1>1, RegistryInvariant, PTL

(* What a prepared turn has read are the secrets of durable heads: what    *)
(* another turn publishes early, or takes back, cannot get into it         *)
(* (prepare's version check, and the reservations it then holds).          *)
THEOREM ReadsTheorem == Spec => []ReadsAreSettled
BY HeldReadsAreSettled, RegistryInvariant, PTL
-----------------------------------------------------------------------------
(* The registry and AtomicSecrets.                                         *)

(* The state of AtomicSecrets the registry stands for, beside Settled.     *)
TheStatus == [t \in Txs |-> CASE decided[t] = "committed" -> "committed"
                              [] OpenTurn(t) -> "open"
                              [] OTHER -> "dropped"]
TheView == [t \in Txs |-> IF OpenTurn(t) THEN Seen(tx[t]) ELSE Nothing]
ThePlan == [t \in Txs |-> IF OpenTurn(t) THEN tx[t].writes ELSE Nothing]
TheWipe == {t \in Txs : OpenTurn(t) /\ tx[t].clearing}

Turns == <<TheStatus, TheView, ThePlan, TheWipe>>

LEMMA AtomicIs ==
    /\ Atomic!Init <=> /\ Settled = [r \in Refs |-> Absent]
                       /\ TheStatus = [t \in Txs |-> "open"]
                       /\ TheView = [t \in Txs |-> Nothing]
                       /\ ThePlan = [t \in Txs |-> Nothing]
                       /\ TheWipe = {}
    /\ \A t \in Txs :
          /\ Atomic!Work(t) <=>
                /\ TheStatus[t] = "open"
                /\ Settled' = Settled /\ TheStatus' = TheStatus
                /\ TheView' = [TheView EXCEPT ![t] = TheView'[t]]
                /\ \A r \in Refs : TheView'[t][r] \in {Unseen, TheView[t][r], Settled[r]}
                /\ ThePlan' = [ThePlan EXCEPT ![t] = ThePlan'[t]]
                /\ ThePlan'[t] \in [Refs -> Contents \cup {Unseen}]
                /\ TheWipe' \in {TheWipe, TheWipe \cup {t}}
          /\ Atomic!Close(t, "committed") <=>
                /\ TheStatus' = [TheStatus EXCEPT ![t] = "committed"]
                /\ TheView' = [TheView EXCEPT ![t] = Nothing]
                /\ ThePlan' = [ThePlan EXCEPT ![t] = Nothing]
                /\ TheWipe' = TheWipe \ {t}
          /\ Atomic!Close(t, "dropped") <=>
                /\ TheStatus' = [TheStatus EXCEPT ![t] = "dropped"]
                /\ TheView' = [TheView EXCEPT ![t] = Nothing]
                /\ ThePlan' = [ThePlan EXCEPT ![t] = Nothing]
                /\ TheWipe' = TheWipe \ {t}
          /\ Atomic!Commit(t) <=>
                /\ TheStatus[t] = "open"
                /\ \A r \in Refs : TheView[t][r] \in {Unseen, Settled[r]}
                /\ Settled' = [r \in Refs |->
                       CASE ThePlan[t][r] # Unseen -> ThePlan[t][r]
                         [] ThePlan[t][r] = Unseen /\ t \in TheWipe -> Absent
                         [] OTHER -> Settled[r]]
                /\ Atomic!Close(t, "committed")
          /\ Atomic!Drop(t) <=> /\ TheStatus[t] = "open"
                                /\ Settled' = Settled
                                /\ Atomic!Close(t, "dropped")
    /\ \A r \in Refs, c \in Contents :
          Atomic!Direct(r, c) <=> Turns' = Turns /\ Settled' = [Settled EXCEPT ![r] = c]
    /\ Atomic!DirectWipe <=> Turns' = Turns /\ Settled' = [r \in Refs |-> Absent]
BY DEF Atomic!Init, Atomic!Work, Atomic!Close, Atomic!Commit, Atomic!Drop, Atomic!Direct,
       Atomic!DirectWipe, Atomic!Nothing, Nothing, TheStatus, TheView, ThePlan, TheWipe, Turns

(* How a turn is shown.                                                    *)
LEMMA TurnShows ==
    ASSUME NEW x \in Txs
    PROVE  /\ TheStatus[x] = IF decided[x] = "committed" THEN "committed"
                             ELSE IF OpenTurn(x) THEN "open" ELSE "dropped"
           /\ TheView[x] = IF OpenTurn(x) THEN Seen(tx[x]) ELSE Nothing
           /\ ThePlan[x] = IF OpenTurn(x) THEN tx[x].writes ELSE Nothing
           /\ x \in TheWipe <=> OpenTurn(x) /\ tx[x].clearing
BY DEF TheStatus, TheView, ThePlan, TheWipe, OpenTurn

LEMMA TurnShowsNext ==
    ASSUME NEW x \in Txs
    PROVE  /\ TheStatus'[x] = IF decided'[x] = "committed" THEN "committed"
                              ELSE IF OpenTurn(x)' THEN "open" ELSE "dropped"
           /\ TheView'[x] = IF OpenTurn(x)' THEN Seen(tx'[x]) ELSE Nothing
           /\ ThePlan'[x] = IF OpenTurn(x)' THEN tx'[x].writes ELSE Nothing
           /\ x \in TheWipe' <=> OpenTurn(x)' /\ tx'[x].clearing
BY DEF TheStatus, TheView, ThePlan, TheWipe, OpenTurn

(* Nothing AtomicSecrets sees of x moves.                                  *)
Still(x) == /\ decided'[x] = "committed" <=> decided[x] = "committed"
            /\ OpenTurn(x)' <=> OpenTurn(x)
            /\ OpenTurn(x) => /\ tx'[x].observed = tx[x].observed
                              /\ tx'[x].writes = tx[x].writes
                              /\ tx'[x].clearing = tx[x].clearing

LEMMA StillShows ==
    ASSUME NEW x \in Txs, Still(x)
    PROVE  /\ TheStatus'[x] = TheStatus[x] /\ TheView'[x] = TheView[x]
           /\ ThePlan'[x] = ThePlan[x] /\ (x \in TheWipe' <=> x \in TheWipe)
<1>1. OpenTurn(x) => Seen(tx'[x]) = Seen(tx[x])
  BY DEF Still, Seen
<1>2. QED BY <1>1, TurnShows, TurnShowsNext DEF Still

LEMMA ShownDomains ==
    /\ TheStatus = [t \in Txs |-> TheStatus[t]] /\ TheView = [t \in Txs |-> TheView[t]]
    /\ ThePlan = [t \in Txs |-> ThePlan[t]] /\ TheWipe \subseteq Txs
    /\ TheStatus' = [t \in Txs |-> TheStatus'[t]] /\ TheView' = [t \in Txs |-> TheView'[t]]
    /\ ThePlan' = [t \in Txs |-> ThePlan'[t]] /\ TheWipe' \subseteq Txs
BY DEF TheStatus, TheView, ThePlan, TheWipe

LEMMA AllStill == ASSUME \A x \in Txs : Still(x) PROVE Turns' = Turns
<1>1. TheStatus' = TheStatus /\ TheView' = TheView /\ ThePlan' = ThePlan
  BY StillShows, ShownDomains
<1>2. TheWipe' = TheWipe
  BY StillShows, ShownDomains
<1>3. QED BY <1>1, <1>2 DEF Turns

LEMMA OneCloses ==
    ASSUME NEW t \in Txs, OpenTurn(t), ~OpenTurn(t)', \A x \in Txs \ {t} : Still(x)
    PROVE  /\ TheStatus[t] = "open"
           /\ decided'[t] = "committed" => Atomic!Close(t, "committed")
           /\ decided'[t] # "committed" => Atomic!Close(t, "dropped")
<1>1. TheStatus[t] = "open"
  BY TurnShows DEF OpenTurn
<1>2. /\ TheStatus'[t] = IF decided'[t] = "committed" THEN "committed" ELSE "dropped"
      /\ TheView'[t] = Nothing /\ ThePlan'[t] = Nothing /\ t \notin TheWipe'
  BY TurnShowsNext
<1>3. \A x \in Txs \ {t} : /\ TheStatus'[x] = TheStatus[x] /\ TheView'[x] = TheView[x]
                           /\ ThePlan'[x] = ThePlan[x] /\ (x \in TheWipe' <=> x \in TheWipe)
  BY StillShows
<1>4. /\ TheStatus' = [TheStatus EXCEPT ![t] = TheStatus'[t]]
      /\ TheView' = [TheView EXCEPT ![t] = Nothing]
      /\ ThePlan' = [ThePlan EXCEPT ![t] = Nothing]
  BY <1>2, <1>3, ShownDomains
<1>5. TheWipe' = TheWipe \ {t}
  BY <1>2, <1>3, ShownDomains
<1>6. QED BY <1>1, <1>2, <1>4, <1>5, AtomicIs
-----------------------------------------------------------------------------
(* Every step of the registry is one of AtomicSecrets or leaves it alone.  *)

(* What the settled secrets become, reference by reference.                *)
LEMMA SettledBecomes ==
    ASSUME RegistryInv', NEW f, \A r \in Refs : Means(r, f[r])'
    PROVE  Settled' = [r \in Refs |-> f[r]]
<1>1. \A r \in Refs : Settled'[r] = f[r]
  BY SettledMeansNext
<1>2. Settled' = [r \in Refs |-> Settled'[r]]
  BY DEF Settled
<1>3. QED BY <1>1, <1>2

LEMMA SettledIs ==
    ASSUME RegistryInv, NEW r \in Refs
    PROVE  Means(r, Settled[r]) /\ Settled = [q \in Refs |-> Settled[q]]
<1>1. \E c : Means(r, c)
  BY DEF Means
<1>2. QED BY <1>1, SettledMeans DEF Settled

LEMMA SettledKept ==
    ASSUME RegistryInv, RegistryInv', \A r \in Refs : \A c : Means(r, c) => Means(r, c)'
    PROVE  Settled' = Settled
<1>1. PICK f : f = Settled
  OBVIOUS
<1>2. \A r \in Refs : Means(r, f[r])
  BY <1>1, SettledIs
<1>3. \A r \in Refs : Means(r, f[r])'
  BY <1>2
<1>4. Settled' = [r \in Refs |-> f[r]]
  BY <1>3, SettledBecomes
<1>5. Settled = [r \in Refs |-> Settled[r]]
  BY DEF Settled
<1>6. QED BY <1>1, <1>4, <1>5

(* The overlays stay as they are.                                          *)
LEMMA OverlaysKept ==
    ASSUME RegistryInv, RegistryInv', values' = values,
           \A x \in Txs, r \in Refs : /\ Overlaid(x, r)' <=> Overlaid(x, r)
                                      /\ Overlaid(x, r) => Before(x, r)' = Before(x, r)
    PROVE  Settled' = Settled
<1>1. \A r \in Refs : \A c : Means(r, c) => Means(r, c)'
  BY DEF Means
<1>2. QED BY <1>1, SettledKept

(* A row that is not published before nor after has no overlay.            *)
LEMMA RowsKeepOverlays ==
    ASSUME RegistryInv, RegistryInv', values' = values,
           \A x \in Txs :
              \/ /\ tx'[x] = tx[x]
                 /\ decided'[x] = "committed" <=> decided[x] = "committed"
              \/ tx[x].stage # "published" /\ tx'[x].stage # "published"
              \/ decided[x] = "committed" /\ decided'[x] = "committed"
              \/ /\ tx'[x].stage = tx[x].stage /\ decided'[x] = decided[x]
                 /\ tx'[x].clearing = tx[x].clearing /\ tx'[x].reserved = tx[x].reserved
                 /\ tx'[x].observed = tx[x].observed /\ tx'[x].clearBefore = tx[x].clearBefore
    PROVE  Settled' = Settled
<1>1. \A x \in Txs, r \in Refs : /\ Overlaid(x, r)' <=> Overlaid(x, r)
                                 /\ Overlaid(x, r) => Before(x, r)' = Before(x, r)
  BY DEF Overlaid, Before
<1>2. QED BY <1>1, OverlaysKept

(* Steps that show nothing.                                                *)
LEMMA QuietShows ==
    ASSUME RegistryInv, RegistryInv', NEW t \in Txs,
           \/ Enter(t) \/ Entered(t) \/ BindExternalCommitProbe(t) \/ Prepare(t)
           \/ MarkProductHeadCommitted(t) \/ Fail(t) \/ TerminalizeFailedAttempt(t)
           \/ RollbackUncertain(t)
    PROVE  Settled' = Settled /\ Turns' = Turns
<1>1. /\ tx[t] \in TxRows /\ RowHolds(t) /\ TypeOK /\ tx'[t] \in TxRows
  BY InvFacts DEF RegistryInv, TypeOK
<1>2. values' = values
  BY DEF Enter, Entered, BindExternalCommitProbe, Prepare, MarkProductHeadCommitted, Fail,
         TerminalizeFailedAttempt, RollbackUncertain, registry
<1>3. /\ \A x \in Txs \ {t} : tx'[x] = tx[x] /\ decided'[x] = decided[x]
      /\ decided'[t] = "committed" <=> decided[t] = "committed"
  BY <1>1 DEF Enter, Entered, BindExternalCommitProbe, Prepare, PrepareWrites, PrepareClear,
         MarkProductHeadCommitted, Fail, TerminalizeFailedAttempt, RollbackUncertain, Becomes,
         TypeOK
<1>4. /\ tx'[t].observed = tx[t].observed /\ tx'[t].writes = tx[t].writes
      /\ tx'[t].clearing = tx[t].clearing
      /\ tx'[t].stage # "ended" <=> tx[t].stage # "ended"
      /\ \/ tx'[t] = tx[t]
         \/ tx[t].stage # "published" /\ tx'[t].stage # "published"
         \/ decided[t] = "committed" /\ decided'[t] = "committed"
         \/ /\ tx'[t].stage = tx[t].stage /\ decided'[t] = decided[t]
            /\ tx'[t].reserved = tx[t].reserved /\ tx'[t].clearBefore = tx[t].clearBefore
  <2>1. CASE Enter(t)
    <3>1. /\ tx'[t] = [tx[t] EXCEPT !.stage = "entering", !.toResolve = uncertain]
          /\ tx[t].stage = "new"
      BY <1>1, <2>1 DEF Enter, Becomes, At, TypeOK
    <3>2. QED BY <1>1, <3>1 DEF TxRows
  <2>2. CASE Entered(t)
    <3>1. /\ tx'[t] = [tx[t] EXCEPT !.stage = "active", !.toResolve = {},
                                    !.startEpoch = clearEpoch, !.baseRevision = revision]
          /\ tx[t].stage = "entering"
      BY <1>1, <2>2 DEF Entered, Becomes, At, TypeOK
    <3>2. QED BY <1>1, <3>1 DEF TxRows
  <2>3. CASE BindExternalCommitProbe(t)
    <3>1. tx'[t] = [tx[t] EXCEPT !.bound = TRUE] /\ tx[t].stage = "active"
      BY <1>1, <2>3 DEF BindExternalCommitProbe, Becomes, At, TypeOK
    <3>2. QED BY <1>1, <3>1 DEF TxRows
  <2>4. CASE Prepare(t)
    <3>1. tx[t].stage = "active"
      BY <2>4 DEF Prepare, At
    <3>2. CASE PrepareWrites(t)
      <4>1. tx'[t] = [tx[t] EXCEPT !.stage = "prepared", !.reserved = Touched(t)]
        BY <1>1, <3>2 DEF PrepareWrites, Becomes, TypeOK
      <4>2. QED BY <1>1, <3>1, <4>1 DEF TxRows
    <3>3. CASE PrepareClear(t)
      <4>1. tx'[t] = [tx[t] EXCEPT !.stage = "prepared",
                                   !.clearBefore = [r \in Refs |-> Snapshot(r)]]
        BY <1>1, <3>3 DEF PrepareClear, Becomes, TypeOK
      <4>2. QED BY <1>1, <3>1, <4>1 DEF TxRows
    <3>4. QED BY <2>4, <3>2, <3>3 DEF Prepare
  <2>5. CASE MarkProductHeadCommitted(t)
    <3>1. /\ tx'[t] = [tx[t] EXCEPT !.marked = TRUE]
          /\ decided[t] = "committed" /\ decided' = decided
      BY <1>1, <2>5 DEF MarkProductHeadCommitted, Becomes, TypeOK
    <3>2. QED BY <1>1, <3>1 DEF TxRows
  <2>6. CASE Fail(t)
    <3>1. tx'[t] = [tx[t] EXCEPT !.failed = TRUE] /\ decided' = decided
      BY <1>1, <2>6 DEF Fail, Becomes, TypeOK
    <3>2. QED BY <1>1, <3>1 DEF TxRows
  <2>7. CASE TerminalizeFailedAttempt(t) \/ RollbackUncertain(t)
    BY <2>7 DEF TerminalizeFailedAttempt, RollbackUncertain
  <2>8. QED BY <2>1, <2>2, <2>3, <2>4, <2>5, <2>6, <2>7
<1>5. Settled' = Settled
  BY <1>2, <1>3, <1>4, RowsKeepOverlays
<1>6. \A x \in Txs : Still(x)
  BY <1>3, <1>4 DEF Still, OpenTurn
<1>7. QED BY <1>5, <1>6, AllStill
(* A turn at work.                                                         *)
LEMMA ActiveShows ==
    ASSUME RegistryInv, RegistryInv', NEW t \in Txs,
           tx[t].stage = "active", tx'[t].stage = "active", values' = values, decided' = decided,
           \A x \in Txs \ {t} : tx'[x] = tx[x],
           tx[t].clearing => tx'[t].clearing,
           \A q \in Refs : \/ tx'[t].observed[q] \in {Unseen, tx[t].observed[q]}
                           \/ /\ tx'[t].observed[q] # Unseen
                              /\ tx'[t].observed[q].content = Settled[q]
    PROVE  Atomic!Work(t)
<1>1. /\ RowHolds(t) /\ tx'[t] \in TxRows
  BY DEF RegistryInv, TypeOK
<1>2. Settled' = Settled
  BY RowsKeepOverlays
<1>3. decided[t] = "no" /\ OpenTurn(t) /\ OpenTurn(t)'
  BY <1>1 DEF RowHolds, OpenTurn
<1>4. \A x \in Txs \ {t} : Still(x)
  BY DEF Still, OpenTurn
<1>5. \A x \in Txs \ {t} : /\ TheStatus'[x] = TheStatus[x] /\ TheView'[x] = TheView[x]
                           /\ ThePlan'[x] = ThePlan[x] /\ (x \in TheWipe' <=> x \in TheWipe)
  BY <1>4, StillShows
<1>6. /\ TheStatus[t] = "open" /\ TheStatus'[t] = "open"
      /\ TheView[t] = Seen(tx[t]) /\ TheView'[t] = Seen(tx'[t])
      /\ ThePlan'[t] = tx'[t].writes /\ (t \in TheWipe => t \in TheWipe')
  BY <1>3, TurnShows, TurnShowsNext DEF OpenTurn
<1>7. TheStatus' = TheStatus
  BY <1>5, <1>6, ShownDomains
<1>8. /\ TheView' = [TheView EXCEPT ![t] = TheView'[t]]
      /\ ThePlan' = [ThePlan EXCEPT ![t] = ThePlan'[t]]
  BY <1>5, ShownDomains
<1>9. TheWipe' \in {TheWipe, TheWipe \cup {t}}
  BY <1>5, <1>6, ShownDomains
<1>10. ThePlan'[t] \in [Refs -> Contents \cup {Unseen}]
  BY <1>1, <1>6, RowFields
<1>11. ASSUME NEW r \in Refs PROVE TheView'[t][r] \in {Unseen, TheView[t][r], Settled[r]}
  <2>1. /\ TheView'[t][r] = IF tx'[t].observed[r] = Unseen THEN Unseen
                            ELSE tx'[t].observed[r].content
        /\ TheView[t][r] = IF tx[t].observed[r] = Unseen THEN Unseen
                           ELSE tx[t].observed[r].content
    BY <1>6 DEF Seen
  <2>2. QED BY <2>1
<1>12. QED BY <1>2, <1>6, <1>7, <1>8, <1>9, <1>10, <1>11, AtomicIs

LEMMA LookShows ==
    ASSUME RegistryInv, RegistryInv', NEW t \in Txs, NEW r \in Refs,
           tx[t].stage = "active", tx'[t].stage = "active", Remembered(t, r) \/ MayRead(t, r),
           values' = values, decided' = decided,
           \A x \in Txs \ {t} : tx'[x] = tx[x],
           tx'[t].observed = Observed(t, r), tx'[t].clearing = tx[t].clearing
    PROVE  Atomic!Work(t)
<1>1. ASSUME NEW q \in Refs
      PROVE  \/ tx'[t].observed[q] \in {Unseen, tx[t].observed[q]}
             \/ /\ tx'[t].observed[q] # Unseen
                /\ tx'[t].observed[q].content = Settled[q]
  <2>1. CASE Observed(t, r)[q] = tx[t].observed[q]
    BY <2>1
  <2>2. CASE /\ Observed(t, r)[q] = Snapshot(q)
             /\ clearer = NoTx /\ reservations[q] = NoTx
    <3>1. ~Holding(t)
      BY DEF Holding
    <3>2. Settled[q] = values[q]
      BY <2>2, <3>1, FreeIsSettled
    <3>3. Snapshot(q) \in Snapshots
      BY DEF RegistryInv, TypeOK, Snapshot, Snapshots
    <3>4. QED BY <2>2, <3>2, <3>3, Shapes DEF Snapshot
  <2>3. QED BY <2>1, <2>2, ObservedFacts
<1>2. QED BY <1>1, ActiveShows

LEMMA WorkShows ==
    ASSUME RegistryInv, RegistryInv', NEW t \in Txs, Work(t) \/ Clear(t)
    PROVE  Atomic!Work(t)
<1>1. tx[t] \in TxRows /\ TypeOK
  BY InvFacts DEF RegistryInv
<1>2. CASE Clear(t)
  <2>1. /\ tx'[t] = [tx[t] EXCEPT !.clearing = TRUE, !.observed = Nothing, !.writes = Nothing]
        /\ \A x \in Txs \ {t} : tx'[x] = tx[x]
        /\ tx[t].stage = "active" /\ values' = values /\ decided' = decided
    BY <1>1, <1>2 DEF Clear, Becomes, TypeOK, At, registry
  <2>2. /\ tx'[t].clearing /\ tx'[t].observed = Nothing /\ tx'[t].stage = "active"
    BY <1>1, <2>1 DEF TxRows
  <2>3. \A q \in Refs : tx'[t].observed[q] = Unseen
    BY <2>2 DEF Nothing
  <2>4. QED BY <2>1, <2>2, <2>3, ActiveShows
<1>3. ASSUME NEW r \in Refs, Read(t, r) PROVE Atomic!Work(t)
  <2>1. /\ tx'[t] = [tx[t] EXCEPT !.observed = Observed(t, r)]
        /\ \A x \in Txs \ {t} : tx'[x] = tx[x]
        /\ tx[t].stage = "active" /\ values' = values /\ decided' = decided /\ MayRead(t, r)
    BY <1>1, <1>3 DEF Read, Becomes, TypeOK, At, registry
  <2>2. /\ tx'[t].observed = Observed(t, r) /\ tx'[t].clearing = tx[t].clearing
        /\ tx'[t].stage = "active"
    BY <1>1, <2>1 DEF TxRows
  <2>3. QED BY <2>1, <2>2, LookShows
<1>4. ASSUME NEW r \in Refs, NEW c, Stage(t, r, c) PROVE Atomic!Work(t)
  <2>1. /\ tx'[t] = [tx[t] EXCEPT !.observed = Observed(t, r), !.writes[r] = c]
        /\ \A x \in Txs \ {t} : tx'[x] = tx[x]
        /\ tx[t].stage = "active" /\ values' = values /\ decided' = decided
        /\ Remembered(t, r) \/ MayRead(t, r)
    BY <1>1, <1>4 DEF Stage, Becomes, TypeOK, At, registry
  <2>2. /\ tx'[t].observed = Observed(t, r) /\ tx'[t].clearing = tx[t].clearing
        /\ tx'[t].stage = "active"
    BY <1>1, <2>1 DEF TxRows
  <2>3. QED BY <2>1, <2>2, LookShows
<1>5. QED BY <1>2, <1>3, <1>4 DEF Work, DiscardSecret, AuthorizeSecret, StoreSecret

(* Secrets published before their head is durable are not settled.         *)
LEMMA PublishShows ==
    ASSUME RegistryInv, RegistryInv', NEW t \in Txs, PublishPrepared(t)
    PROVE  Settled' = Settled /\ Turns' = Turns
<1>1. /\ tx[t] \in TxRows /\ RowHolds(t) /\ VersionsFit(t) /\ PreparedHolds(t) /\ TypeOK
  BY InvFacts DEF RegistryInv
<1>2. /\ tx[t].stage = "prepared" /\ decided' = decided
      /\ IF tx[t].clearing THEN PublishCleared(tx[t].writes) ELSE Publish(tx[t].writes)
      /\ tx'[t] = [tx[t] EXCEPT !.stage = "published"]
      /\ \A x \in Txs \ {t} : tx'[x] = tx[x]
  BY <1>1 DEF PublishPrepared, At, Becomes, TypeOK
<1>3. /\ tx'[t].observed = tx[t].observed /\ tx'[t].writes = tx[t].writes
      /\ tx'[t].clearing = tx[t].clearing /\ tx'[t].clearBefore = tx[t].clearBefore
      /\ tx'[t].reserved = tx[t].reserved /\ tx'[t].stage = "published"
  BY <1>1, <1>2 DEF TxRows
<1>4. Holding(t) /\ decided[t] = "no"
  BY <1>1, <1>2 DEF RowHolds, Holding
<1>5. ASSUME NEW r \in Refs, Covers(t, r) PROVE \A c : Means(r, c) => Means(r, c)'
  <2>1. \A x \in Txs : ~Overlaid(x, r)
    <3>1. \A x \in Txs : Overlaid(x, r) => Covers(x, r) /\ tx[x].stage = "published"
      BY DEF Overlaid, Covers, Holding
    <3>2. QED BY <1>2, <1>5, <3>1, OneCover
  <2>2. Overlaid(t, r)'
    BY <1>2, <1>3, <1>4, <1>5 DEF Overlaid, Covers
  <2>3. Before(t, r)' = values[r]
    <3>1. CASE tx[t].clearing
      <4>1. tx[t].clearBefore[r] = Snapshot(r)
        BY <1>1, <1>2, <3>1 DEF PreparedHolds
      <4>2. tx[t].clearBefore[r].content = values[r]
        BY <4>1 DEF Snapshot
      <4>3. QED BY <1>3, <3>1, <4>2 DEF Before
    <3>2. CASE ~tx[t].clearing
      <4>1. r \in tx[t].reserved /\ tx[t].observed[r] # Unseen
        BY <1>1, <1>4, <1>5, <3>2 DEF RowHolds, Covers
      <4>2. QED BY <1>1, <1>2, <1>3, <3>2, <4>1 DEF PreparedHolds, VersionsFit, Before
    <3>3. QED BY <3>1, <3>2
  <2>4. QED BY <2>1, <2>2, <2>3 DEF Means
<1>6. ASSUME NEW r \in Refs, ~Covers(t, r) PROVE \A c : Means(r, c) => Means(r, c)'
  <2>1. ~tx[t].clearing /\ r \notin tx[t].reserved
    BY <1>4, <1>6 DEF Covers
  <2>2. tx[t].writes[r] = Unseen
    BY <1>1, <1>4, <2>1 DEF RowHolds
  <2>3. values'[r] = values[r]
    BY <1>2, <2>1, <2>2 DEF Publish
  <2>4. ~Overlaid(t, r) /\ ~Overlaid(t, r)'
    BY <1>3, <2>1 DEF Overlaid
  <2>5. \A x \in Txs \ {t} : /\ Overlaid(x, r)' <=> Overlaid(x, r)
                             /\ Before(x, r)' = Before(x, r)
    BY <1>2 DEF Overlaid, Before
  <2>6. QED BY <2>3, <2>4, <2>5 DEF Means
<1>7. Settled' = Settled
  BY <1>5, <1>6, SettledKept
<1>8. \A x \in Txs : Still(x)
  BY <1>2, <1>3 DEF Still, OpenTurn
<1>9. QED BY <1>7, <1>8, AllStill
(* The end of a turn whose head is not durable: what it covered is shown   *)
(* again as it was.                                                        *)
LEMMA DropShows ==
    ASSUME RegistryInv, RegistryInv', NEW t \in Txs, decided' = decided, decided[t] # "committed",
           tx[t].stage # "ended", tx'[t].stage = "ended", \A x \in Txs \ {t} : tx'[x] = tx[x],
           \/ tx[t].stage # "published" /\ values' = values
           \/ tx[t].stage = "published" /\ RestorePublishedOverlay(t)
    PROVE  Atomic!Drop(t)
<1>1. Settled' = Settled
  <2>1. CASE tx[t].stage # "published" /\ values' = values
    <3>1. \A x \in Txs :
             \/ tx'[x] = tx[x] /\ decided'[x] = decided[x]
             \/ tx[x].stage # "published" /\ tx'[x].stage # "published"
      BY <2>1
    <3>2. QED BY <2>1, <3>1, RowsKeepOverlays
  <2>2. CASE tx[t].stage = "published" /\ RestorePublishedOverlay(t)
    <3>1. /\ \A r \in Refs : Covers(t, r) => values'[r] = Before(t, r)
          /\ \A r \in Refs : ~Covers(t, r) => values'[r] = values[r]
      BY <2>2, UndoWrites
    <3>2. \A r \in Refs : Covers(t, r) <=> Overlaid(t, r)
      BY <2>2 DEF Covers, Overlaid, Holding
    <3>3. \A x \in Txs \ {t}, r \in Refs : /\ Overlaid(x, r)' <=> Overlaid(x, r)
                                           /\ Before(x, r)' = Before(x, r)
      BY DEF Overlaid, Before
    <3>4. \A r \in Refs : ~Overlaid(t, r)'
      BY DEF Overlaid
    <3>5. ASSUME NEW r \in Refs, Overlaid(t, r) PROVE \A c : Means(r, c) => Means(r, c)'
      <4>1. \A x \in Txs \ {t} : ~Overlaid(x, r)
        BY <3>5, OneOverlay
      <4>2. QED BY <3>1, <3>2, <3>3, <3>4, <3>5, <4>1 DEF Means
    <3>6. ASSUME NEW r \in Refs, ~Overlaid(t, r) PROVE \A c : Means(r, c) => Means(r, c)'
      BY <3>1, <3>2, <3>3, <3>4, <3>6 DEF Means
    <3>7. QED BY <3>5, <3>6, SettledKept
  <2>3. QED BY <2>1, <2>2
<1>2. OpenTurn(t) /\ ~OpenTurn(t)'
  BY DEF OpenTurn
<1>3. \A x \in Txs \ {t} : Still(x)
  BY DEF Still, OpenTurn
<1>4. QED BY <1>1, <1>2, <1>3, OneCloses, AtomicIs

(* The instant at which a head becomes durable, or a transaction that has  *)
(* none finalizes.                                                         *)
LEMMA CommitShows ==
    ASSUME RegistryInv, RegistryInv', NEW t \in Txs,
           tx[t].stage = "published", decided[t] # "committed",
           decided' = [decided EXCEPT ![t] = "committed"], values' = values,
           \A x \in Txs \ {t} : tx'[x] = tx[x]
    PROVE  Atomic!Commit(t)
<1>1. /\ RowHolds(t) /\ PublishedHolds(t) /\ TypeOK /\ Holding(t)
  BY DEF RegistryInv, Holding
<1>2. decided'[t] = "committed" /\ \A x \in Txs \ {t} : decided'[x] = decided[x]
  BY <1>1 DEF TypeOK
<1>3. /\ OpenTurn(t) /\ ~OpenTurn(t)' /\ \A x \in Txs \ {t} : Still(x)
  BY <1>2 DEF OpenTurn, Still
<1>4. /\ TheStatus[t] = "open" /\ TheView[t] = Seen(tx[t]) /\ ThePlan[t] = tx[t].writes
      /\ t \in TheWipe <=> tx[t].clearing
  BY <1>3, TurnShows DEF OpenTurn
<1>5. \A r \in Refs : TheView[t][r] \in {Unseen, Settled[r]}
  BY <1>1, <1>4, HeldReadsAreSettled DEF ReadsAreSettled, Seen
<1> DEFINE f == [r \in Refs |-> CASE tx[t].writes[r] # Unseen -> tx[t].writes[r]
                                  [] tx[t].writes[r] = Unseen /\ tx[t].clearing -> Absent
                                  [] OTHER -> Settled[r]]
<1>6. \A x \in Txs \ {t}, r \in Refs : /\ Overlaid(x, r)' <=> Overlaid(x, r)
                                       /\ Before(x, r)' = Before(x, r)
  BY <1>2 DEF Overlaid, Before
<1>7. \A r \in Refs : ~Overlaid(t, r)' /\ (Overlaid(t, r) <=> Covers(t, r))
  BY <1>2 DEF Overlaid, Covers, Holding
<1>8. ASSUME NEW r \in Refs, NEW c, c = f[r] PROVE Means(r, c)'
  <2>1. CASE Covers(t, r)
    <3>1. \A x \in Txs : ~Overlaid(x, r)'
      BY <1>6, <1>7, <2>1, OneOverlay
    <3>2. values[r] = After(t, r)
      BY <1>1, <2>1 DEF PublishedHolds, Covers
    <3>3. After(t, r) = c
      <4>1. CASE tx[t].writes[r] # Unseen \/ tx[t].clearing
        BY <1>8, <4>1 DEF After
      <4>2. CASE tx[t].writes[r] = Unseen /\ ~tx[t].clearing
        <5>1. After(t, r) = Before(t, r) /\ c = Settled[r]
          BY <1>8, <4>2 DEF After, Before
        <5>2. Means(r, Before(t, r))
          BY <1>7, <2>1 DEF Means
        <5>3. QED BY <5>1, <5>2, SettledMeans
      <4>3. QED BY <4>1, <4>2
    <3>4. QED BY <3>1, <3>2, <3>3 DEF Means
  <2>2. CASE ~Covers(t, r)
    <3>1. ~tx[t].clearing /\ r \notin tx[t].reserved
      BY <1>1, <2>2 DEF Covers
    <3>2. tx[t].writes[r] = Unseen
      BY <1>1, <3>1 DEF RowHolds
    <3>3. c = Settled[r]
      BY <1>8, <3>1, <3>2
    <3>4. Means(r, c)
      BY <3>3, SettledIs
    <3>5. QED BY <1>6, <1>7, <2>2, <3>4 DEF Means
  <2>3. QED BY <2>1, <2>2
<1>9. PICK g : g = f
  OBVIOUS
<1>10. \A r \in Refs : Means(r, g[r])'
  BY <1>8, <1>9
<1>11. Settled' = [r \in Refs |-> g[r]]
  BY <1>10, SettledBecomes
<1>12. Settled' = f
  BY <1>9, <1>11
<1>13. f = [r \in Refs |-> CASE ThePlan[t][r] # Unseen -> ThePlan[t][r]
                             [] ThePlan[t][r] = Unseen /\ t \in TheWipe -> Absent
                             [] OTHER -> Settled[r]]
  BY <1>4
<1>14. Atomic!Close(t, "committed")
  BY <1>2, <1>3, OneCloses
<1>15. QED BY <1>4, <1>5, <1>12, <1>13, <1>14, AtomicIs

(* A durable head whose transaction ends changes nothing.                  *)
LEMMA KeepShows ==
    ASSUME RegistryInv, RegistryInv', NEW t \in Txs, decided' = decided, decided[t] = "committed",
           values' = values, \A x \in Txs \ {t} : tx'[x] = tx[x]
    PROVE  Settled' = Settled /\ Turns' = Turns
<1>1. Settled' = Settled
  BY RowsKeepOverlays
<1>2. \A x \in Txs : Still(x)
  BY DEF Still, OpenTurn
<1>3. QED BY <1>1, <1>2, AllStill
(* What the probe says of a published transaction is what became of it.    *)
LEMMA ProbeTells ==
    ASSUME RegistryInv, NEW u \in Txs, tx[u].stage = "published"
    PROVE  /\ ProbeSays(u, "yes") => decided[u] = "committed"
           /\ ProbeSays(u, "no") => decided[u] # "committed"
<1>1. RowHolds(u)
  BY DEF RegistryInv
<1>2. QED BY <1>1 DEF RowHolds, ProbeSays, HeadCommitted

(* An uncertain, a failed or a prepared transaction ends.                  *)
LEMMA AnswerShows ==
    ASSUME RegistryInv, RegistryInv', NEW u \in Txs, tx[u].stage = "published",
           Becomes(u, EndedTx), decided' = decided,
           \/ ProbeSays(u, "yes") /\ KeepOverlay(u)
           \/ ProbeSays(u, "no") /\ UndoOverlay(u)
    PROVE  \/ Settled' = Settled /\ Turns' = Turns
           \/ Atomic!Drop(u)
<1>1. /\ tx'[u].stage = "ended" /\ \A x \in Txs \ {u} : tx'[x] = tx[x]
  BY RowBecomes, Shapes DEF RegistryInv
<1>2. CASE ProbeSays(u, "yes") /\ KeepOverlay(u)
  <2>1. decided[u] = "committed" /\ values' = values
    BY <1>2, ProbeTells DEF KeepOverlay, registry
  <2>2. QED BY <1>1, <2>1, KeepShows
<1>3. CASE ProbeSays(u, "no") /\ UndoOverlay(u)
  <2>1. decided[u] # "committed" /\ RestorePublishedOverlay(u)
    BY <1>3, ProbeTells DEF UndoOverlay
  <2>2. QED BY <1>1, <2>1, DropShows
<1>4. QED BY <1>2, <1>3

LEMMA EndShows ==
    ASSUME RegistryInv, RegistryInv', NEW t \in Txs,
           \/ Finalize(t) \/ CommitProductHead(t) \/ RollbackUnpublished(t)
           \/ RollbackPublished(t)
           \/ \E u \in Txs : ReconcileUncertain(t, u) \/ EnterRefused(t, u)
    PROVE  \/ Settled' = Settled /\ Turns' = Turns
           \/ Atomic!Next
<1>1. /\ TypeOK /\ RowHolds(t)
      /\ Becomes(t, EndedTx) =>
            tx'[t].stage = "ended" /\ \A x \in Txs \ {t} : tx'[x] = tx[x]
  BY RowBecomes, Shapes DEF RegistryInv
<1>2. CASE Finalize(t)
  <2>1. /\ tx[t].stage = "published" /\ values' = values /\ (tx[t].bound => tx[t].marked)
        /\ Becomes(t, EndedTx) /\ decided' = [decided EXCEPT ![t] = "committed"]
    BY <1>2 DEF Finalize, At, KeepOverlay, registry
  <2>2. CASE decided[t] = "committed"
    <3>1. decided' = decided
      BY <1>1, <2>1, <2>2 DEF TypeOK
    <3>2. QED BY <1>1, <2>1, <2>2, <3>1, KeepShows
  <2>3. CASE decided[t] # "committed"
    <3>1. Atomic!Commit(t)
      BY <1>1, <2>1, <2>3, CommitShows
    <3>2. QED BY <3>1 DEF Atomic!Next
  <2>4. QED BY <2>2, <2>3
<1>3. CASE CommitProductHead(t)
  <2>1. /\ tx[t].stage = "published" /\ values' = values /\ tx' = tx
        /\ decided[t] # "committed" /\ decided' = [decided EXCEPT ![t] = "committed"]
    BY <1>3 DEF CommitProductHead, At, registry
  <2>2. Atomic!Commit(t)
    BY <2>1, CommitShows
  <2>3. QED BY <2>2 DEF Atomic!Next
<1>4. CASE RollbackUnpublished(t)
  <2>1. /\ tx[t].stage \in {"active", "prepared"} /\ values' = values
        /\ Becomes(t, EndedTx) /\ decided' = decided
    BY <1>4 DEF RollbackUnpublished, At, KeepOverlay, registry
  <2>2. decided[t] # "committed"
    BY <1>1, <2>1 DEF RowHolds
  <2>3. Atomic!Drop(t)
    BY <1>1, <2>1, <2>2, DropShows
  <2>4. QED BY <2>3 DEF Atomic!Next
<1>5. CASE RollbackPublished(t)
  <2>1. /\ tx[t].failed /\ Becomes(t, EndedTx) /\ decided' = decided
        /\ \/ ProbeSays(t, "yes") /\ KeepOverlay(t)
           \/ ProbeSays(t, "no") /\ UndoOverlay(t)
    BY <1>5 DEF RollbackPublished, Leaving
  <2>2. tx[t].stage = "published"
    BY <1>1, <2>1 DEF RowHolds
  <2>3. QED BY <2>1, <2>2, AnswerShows DEF Atomic!Next
<1>6. ASSUME NEW u \in Txs, ReconcileUncertain(t, u)
      PROVE  \/ Settled' = Settled /\ Turns' = Turns
             \/ Atomic!Next
  <2>1. /\ u \in uncertain /\ Becomes(u, EndedTx) /\ decided' = decided
        /\ \/ ProbeSays(u, "yes") /\ KeepOverlay(u)
           \/ ProbeSays(u, "no") /\ UndoOverlay(u)
    BY <1>6 DEF ReconcileUncertain
  <2>2. tx[u].stage = "published"
    BY <2>1 DEF RegistryInv, RowHolds
  <2>3. QED BY <2>1, <2>2, AnswerShows DEF Atomic!Next
<1>7. ASSUME NEW u \in Txs, EnterRefused(t, u)
      PROVE  Atomic!Next
  <2>1. /\ tx[t].stage = "entering" /\ values' = values
        /\ Becomes(t, EndedTx) /\ decided' = decided
    BY <1>7 DEF EnterRefused, At, registry
  <2>2. decided[t] # "committed"
    BY <1>1, <2>1 DEF RowHolds
  <2>3. Atomic!Drop(t)
    BY <1>1, <2>1, <2>2, DropShows
  <2>4. QED BY <2>3 DEF Atomic!Next
<1>8. QED BY <1>2, <1>3, <1>4, <1>5, <1>6, <1>7

LEMMA OutsideShows ==
    ASSUME RegistryInv, RegistryInv', Outside PROVE Atomic!Next
<1>1. UNCHANGED <<tx, decided, reservations, clearer>>
  BY DEF Outside, ClearDirect, DiscardDirect, AuthorizeDirect, StoreDirect, PublishDirect
<1>2. Turns' = Turns
  <2>1. \A x \in Txs : Still(x)
    BY <1>1 DEF Still, OpenTurn
  <2>2. QED BY <2>1, AllStill
<1>3. \A x \in Txs, r \in Refs : /\ Overlaid(x, r)' <=> Overlaid(x, r)
                                 /\ Before(x, r)' = Before(x, r)
  BY <1>1 DEF Overlaid, Before
<1>4. \A x \in Txs, r \in Refs : clearer = NoTx /\ reservations[r] = NoTx => ~Overlaid(x, r)
  BY FreeIsUncovered DEF Overlaid, Covers, Holding
<1>5. ASSUME NEW r \in Refs, NEW c \in Contents, PublishDirect(r, c) PROVE Atomic!Direct(r, c)
  <2>1. /\ clearer = NoTx /\ reservations[r] = NoTx
        /\ Publish([Nothing EXCEPT ![r] = c])
    BY <1>5 DEF PublishDirect, GlobalMutationAvailable
  <2>2. values'[r] = c /\ \A q \in Refs \ {r} : values'[q] = values[q]
    BY <2>1, Shapes DEF Publish, Nothing
  <2> DEFINE f == [Settled EXCEPT ![r] = c]
  <2>3. PICK g : g = f
    OBVIOUS
  <2>4. f[r] = c /\ \A q \in Refs \ {r} : f[q] = Settled[q]
    BY DEF Settled
  <2>5. Means(r, c)'
    BY <1>3, <1>4, <2>1, <2>2 DEF Means
  <2>6. ASSUME NEW q \in Refs \ {r}, NEW d, d = Settled[q] PROVE Means(q, d)'
    <3>1. Means(q, d)
      BY <2>6, SettledIs
    <3>2. QED BY <1>3, <2>2, <3>1 DEF Means
  <2>7. \A q \in Refs : Means(q, g[q])'
    BY <2>3, <2>4, <2>5, <2>6
  <2>8. Settled' = [q \in Refs |-> g[q]]
    BY <2>7, SettledBecomes
  <2>9. f = [q \in Refs |-> f[q]]
    BY DEF Settled
  <2>10. Settled' = f
    BY <2>3, <2>8, <2>9
  <2>11. QED BY <1>2, <2>10, AtomicIs
<1>6. ASSUME ClearDirect PROVE Atomic!DirectWipe
  <2>1. /\ clearer = NoTx /\ \A r \in Refs : reservations[r] = NoTx
        /\ PublishCleared(Nothing)
    BY <1>6 DEF ClearDirect
  <2>2. \A r \in Refs : values'[r] = Absent
    BY <2>1 DEF PublishCleared, Nothing
  <2> DEFINE g == [r \in Refs |-> Absent]
  <2>3. \A r \in Refs : Means(r, Absent)'
    BY <1>3, <1>4, <2>1, <2>2 DEF Means
  <2>4. \A r \in Refs : Means(r, g[r])'
    BY <2>3
  <2>5. Settled' = [r \in Refs |-> g[r]]
    BY <2>4, SettledBecomes
  <2>6. QED BY <1>2, <2>5, AtomicIs
<1>7. \A r \in Refs : values[r] \in Contents
  BY DEF RegistryInv, TypeOK
<1>8. QED
  BY <1>5, <1>6, <1>7, ContentsGrow, Shapes
     DEF Outside, DiscardDirect, AuthorizeDirect, StoreDirect, Atomic!Next

LEMMA SecretsStep ==
    RegistryInv /\ RegistryInv' /\ [Next]_vars =>
        Atomic!Next \/ (Settled' = Settled /\ Turns' = Turns)
<1> SUFFICES ASSUME RegistryInv, RegistryInv', [Next]_vars
             PROVE  Atomic!Next \/ (Settled' = Settled /\ Turns' = Turns)
  OBVIOUS
<1>1. ASSUME NEW t \in Txs,
             \/ Enter(t) \/ Entered(t) \/ BindExternalCommitProbe(t) \/ Prepare(t)
             \/ MarkProductHeadCommitted(t) \/ Fail(t) \/ TerminalizeFailedAttempt(t)
             \/ RollbackUncertain(t)
      PROVE  Settled' = Settled /\ Turns' = Turns
  BY <1>1, QuietShows
<1>2. ASSUME NEW t \in Txs, Work(t) \/ Clear(t) PROVE Atomic!Next
  BY <1>2, WorkShows DEF Atomic!Next
<1>3. ASSUME NEW t \in Txs, PublishPrepared(t) PROVE Settled' = Settled /\ Turns' = Turns
  BY <1>3, PublishShows
<1>4. ASSUME NEW t \in Txs,
             \/ Finalize(t) \/ CommitProductHead(t) \/ RollbackUnpublished(t)
             \/ RollbackPublished(t)
             \/ \E u \in Txs : ReconcileUncertain(t, u) \/ EnterRefused(t, u)
      PROVE  Atomic!Next \/ (Settled' = Settled /\ Turns' = Turns)
  BY <1>4, EndShows
<1>5. CASE Outside
  BY <1>5, OutsideShows
<1>6. CASE UNCHANGED vars
  <2>1. \A x \in Txs : Still(x)
    BY <1>6 DEF vars, Still, OpenTurn
  <2>2. values' = values /\ tx' = tx /\ decided' = decided
    BY <1>6 DEF vars
  <2>3. Settled' = Settled
    BY <2>2, RowsKeepOverlays
  <2>4. QED BY <2>1, <2>3, AllStill
<1>7. ASSUME NEW t \in Txs, Close(t)
      PROVE  Atomic!Next \/ (Settled' = Settled /\ Turns' = Turns)
  BY <1>1, <1>3, <1>4, <1>7 DEF Close
<1>8. QED BY <1>1, <1>2, <1>4, <1>5, <1>6, <1>7 DEF Next

LEMMA SecretsInit == Init => Atomic!Init
<1> SUFFICES ASSUME Init PROVE Atomic!Init
  OBVIOUS
<1>1. ASSUME NEW t \in Txs
      PROVE  /\ tx[t].stage = "new" /\ ~tx[t].clearing /\ tx[t].observed = Nothing
             /\ tx[t].writes = Nothing /\ decided[t] = "no"
  BY DEF Init, NewTx
<1>2. Settled = [r \in Refs |-> Absent]
  <2>1. \A r \in Refs, t \in Txs : ~Overlaid(t, r)
    BY <1>1 DEF Overlaid
  <2>2. QED BY <2>1 DEF Settled, Init
<1>3. \A t \in Txs : OpenTurn(t) /\ Seen(tx[t]) = Nothing
  BY <1>1 DEF OpenTurn, Seen, Nothing
<1>4. /\ TheStatus = [t \in Txs |-> "open"]
      /\ TheView = [t \in Txs |-> Nothing] /\ ThePlan = [t \in Txs |-> Nothing]
      /\ TheWipe = {}
  BY <1>1, <1>3 DEF TheStatus, TheView, ThePlan, TheWipe
<1>5. QED BY <1>2, <1>4, AtomicIs

(* The registry implements AtomicSecrets: the secrets every reference      *)
(* stands for change at the one instant a head becomes durable, whatever   *)
(* was published early, taken back or left uncertain, and only for a turn  *)
(* whose reads are then still current (SecretRegistryTransaction).         *)
THEOREM SecretsTheorem == Spec => ImplementsAtomicSecrets
<1>1. RegistryInv /\ RegistryInv' /\ [Next]_vars => [Atomic!Next]_Atomic!vars
  BY SecretsStep DEF Atomic!vars, Turns, TheStatus, TheView, ThePlan, TheWipe
<1>2. QED
  BY <1>1, SecretsInit, RegistryInvariant, PTL DEF Spec, ImplementsAtomicSecrets, Atomic!Spec
=============================================================================
