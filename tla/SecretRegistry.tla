--------------------------- MODULE SecretRegistry ---------------------------
(***************************************************************************)
(* agent/harness/secret_refs.py: the secrets of one process, kept in       *)
(* memory only, and SecretRegistryTransaction, which graph.py opens around *)
(* every turn.  The secrets a turn writes are published just before its    *)
(* Product Head is committed and are taken back if the commit does not     *)
(* become durable; when that cannot be found out they stay, reserved,      *)
(* until a later transaction asks again.  Threads interleave between any   *)
(* two critical sections of _LOCK.                                         *)
(***************************************************************************)
EXTENDS Naturals, FiniteSets

CONSTANTS Txs,          \* transactions, each entered at most once
          Refs,         \* secret references
          Values,       \* secret values
          Scopes,       \* (draft, atom) pairs a secret is authorized for
          NoValue,      \* the value of a discarded reference
          NoTx,         \* no owner of a reservation
          Unseen,       \* marks what is not in observed or writes
          MaxRevision   \* bound: registry revisions at which an outside caller writes

(* A process names finitely many references.                               *)
ASSUME SecretsAssumption ==
    /\ NoValue \notin Values /\ NoTx \notin Txs
    /\ MaxRevision \in Nat
    /\ IsFiniteSet(Refs)

Absent == [value |-> NoValue, scopes |-> {}]
Contents == [value : Values, scopes : SUBSET Scopes] \cup {Absent}

ASSUME UnseenAssumption ==
    /\ Unseen \notin Contents
    /\ Unseen \notin [content : Contents, version : Nat]

VARIABLES values,       \* _VALUES and _SCOPES: the live content of a reference
          versions,     \* _VERSIONS
          reservations, \* _RESERVATIONS: the transaction that prepared it
          clearer,      \* _CLEAR_RESERVATION
          clearEpoch,   \* _CLEAR_EPOCH
          revision,     \* _REGISTRY_REVISION
          uncertain,    \* _UNCERTAIN_TRANSACTIONS
          tx,           \* the transaction objects
          decided       \* the terminal outcome of the turn's attempt (TT)

registry == <<values, versions, clearEpoch, revision>>
vars == <<values, versions, reservations, clearer, clearEpoch, revision,
          uncertain, tx, decided>>

Snapshots == [content : Contents, version : Nat]
Stages == {"new", "entering", "active", "prepared", "published", "ended"}
TxRows == [stage : Stages,
           failed : BOOLEAN,           \* an exception is on its way out
           bound : BOOLEAN,            \* an external commit probe is bound
           marked : BOOLEAN,           \* _product_head_committed
           toResolve : SUBSET Txs,     \* what __enter__ still reconciles
           observed : [Refs -> Snapshots \cup {Unseen}],
           writes : [Refs -> Contents \cup {Unseen}],
           clearing : BOOLEAN,         \* _clear_requested
           clearBefore : [Refs -> Snapshots],
           reserved : SUBSET Refs,     \* _reserved_references
           startEpoch : Nat, baseRevision : Nat]

Nothing == [r \in Refs |-> Unseen]
NewTx == [stage |-> "new", failed |-> FALSE, bound |-> FALSE, marked |-> FALSE,
          toResolve |-> {}, observed |-> Nothing, writes |-> Nothing,
          clearing |-> FALSE,
          clearBefore |-> [r \in Refs |-> [content |-> Absent, version |-> 0]],
          reserved |-> {}, startEpoch |-> 0, baseRevision |-> 0]
EndedTx == [NewTx EXCEPT !.stage = "ended"]

Init == /\ values = [r \in Refs |-> Absent]
        /\ versions = [r \in Refs |-> 0]
        /\ reservations = [r \in Refs |-> NoTx]
        /\ clearer = NoTx
        /\ clearEpoch = 0
        /\ revision = 0
        /\ uncertain = {}
        /\ tx = [t \in Txs |-> NewTx]
        /\ decided = [t \in Txs |-> "no"]

Snapshot(r) == [content |-> values[r], version |-> versions[r]]
Becomes(t, row) == tx' = [tx EXCEPT ![t] = row]
Live(t) == ~tx[t].failed /\ t \notin uncertain
At(t, stage) == tx[t].stage = stage /\ Live(t)
Bounded(bound) == revision < bound

-----------------------------------------------------------------------------
(* _publish_snapshot_locked for all references in the domain of wanted     *)
(* that are not Unseen.                                                    *)
Publish(wanted) ==
    /\ values' = [r \in Refs |->
                    IF wanted[r] = Unseen THEN values[r] ELSE wanted[r]]
    /\ versions' = [r \in Refs |->
                    IF wanted[r] = Unseen THEN versions[r] ELSE versions[r] + 1]
    /\ revision' = revision + Cardinality({r \in Refs : wanted[r] # Unseen})
    /\ UNCHANGED clearEpoch

(* The values are cleared, then the writes of the same transaction are     *)
(* published over them.                                                    *)
PublishCleared(wanted) ==
    /\ values' = [r \in Refs |->
                    IF wanted[r] = Unseen THEN Absent ELSE wanted[r]]
    /\ versions' = [r \in Refs |->
                    versions[r] + (IF values[r] # Absent THEN 1 ELSE 0)
                                + (IF wanted[r] # Unseen THEN 1 ELSE 0)]
    /\ revision' = revision + 1
                     + Cardinality({r \in Refs : wanted[r] # Unseen})
    /\ clearEpoch' = clearEpoch + 1

Known(snapshot) == snapshot.content # Absent \/ snapshot.version > 0

(* _restore_published_overlay_locked                                       *)
RestorePublishedOverlay(t) ==
    LET row == tx[t] IN
    \/ /\ row.clearing
       /\ values' = [r \in Refs |-> row.clearBefore[r].content]
       /\ versions' = [r \in Refs |-> IF Known(row.clearBefore[r])
                                        THEN versions[r] + 1 ELSE versions[r]]
       /\ clearEpoch' = clearEpoch + 1
       /\ revision' = revision + 1
    \/ /\ ~row.clearing
       /\ Publish([r \in Refs |->
             CASE r \notin row.reserved -> Unseen
               [] r \in row.reserved /\ row.observed[r] = Unseen -> Absent
               [] OTHER -> row.observed[r].content])

ReleaseReservations(t) ==
    /\ reservations' = [r \in Refs |->
                          IF r \in tx[t].reserved /\ reservations[r] = t
                            THEN NoTx ELSE reservations[r]]
    /\ clearer' = IF clearer = t THEN NoTx ELSE clearer

(* Close with the overlay kept, or with the former secrets put back.       *)
KeepOverlay(t) == ReleaseReservations(t) /\ UNCHANGED registry
UndoOverlay(t) == ReleaseReservations(t) /\ RestorePublishedOverlay(t)

-----------------------------------------------------------------------------
(* __enter__: what is uncertain is listed, then reconciled one by one, then *)
(* the epoch and the revision are read.                                    *)

Enter(t) ==
    /\ At(t, "new")
    /\ Becomes(t, [tx[t] EXCEPT !.stage = "entering", !.toResolve = uncertain])
    /\ UNCHANGED <<registry, reservations, clearer, uncertain, decided>>

(* What the probe of u answers; unknown when the authority cannot be read. *)
HeadCommitted(u) == tx[u].marked \/ (tx[u].bound /\ decided[u] = "committed")
ProbeSays(u, answer) ==
    \/ answer = IF HeadCommitted(u) THEN "yes" ELSE "no"
    \/ answer = "unknown" /\ tx[u].bound /\ ~tx[u].marked

ReconcileUncertain(t, u) ==
    /\ At(t, "entering") /\ u \in tx[t].toResolve \cap uncertain
    /\ \/ ProbeSays(u, "yes") /\ KeepOverlay(u)
       \/ ProbeSays(u, "no") /\ UndoOverlay(u)
    /\ uncertain' = uncertain \ {u}
    /\ Becomes(u, EndedTx)
    /\ UNCHANGED decided

EnterRefused(t, u) ==
    /\ At(t, "entering") /\ u \in tx[t].toResolve \cap uncertain
    /\ ProbeSays(u, "unknown")
    /\ Becomes(t, EndedTx)
    /\ UNCHANGED <<registry, reservations, clearer, uncertain, decided>>

(* What another thread has reconciled meanwhile is passed over.            *)
Entered(t) ==
    /\ At(t, "entering") /\ tx[t].toResolve \cap uncertain = {}
    /\ Becomes(t, [tx[t] EXCEPT !.stage = "active", !.toResolve = {},
                                !.startEpoch = clearEpoch,
                                !.baseRevision = revision])
    /\ UNCHANGED <<registry, reservations, clearer, uncertain, decided>>

(* _bind_registry_to_attempt, once the attempt exists.                     *)
BindExternalCommitProbe(t) ==
    /\ At(t, "active") /\ ~tx[t].bound
    /\ Becomes(t, [tx[t] EXCEPT !.bound = TRUE])
    /\ UNCHANGED <<registry, reservations, clearer, uncertain, decided>>

-----------------------------------------------------------------------------
(* Work inside a transaction.                                              *)

MayRead(t, r) ==
    /\ clearEpoch = tx[t].startEpoch
    /\ clearer \in {NoTx, t}
    /\ reservations[r] \in {NoTx, t}

(* read: a reference the transaction has no opinion on is snapshotted.     *)
Remembered(t, r) ==
    tx[t].writes[r] # Unseen \/ tx[t].clearing \/ tx[t].observed[r] # Unseen
Observed(t, r) ==
    IF Remembered(t, r) THEN tx[t].observed
    ELSE [tx[t].observed EXCEPT ![r] = Snapshot(r)]
Current(t, r) ==
    CASE tx[t].writes[r] # Unseen -> tx[t].writes[r]
      [] tx[t].writes[r] = Unseen /\ tx[t].clearing -> Absent
      [] OTHER -> Observed(t, r)[r].content

Read(t, r) ==
    /\ At(t, "active") /\ ~Remembered(t, r)
    /\ MayRead(t, r)
    /\ Becomes(t, [tx[t] EXCEPT !.observed = Observed(t, r)])
    /\ UNCHANGED <<registry, reservations, clearer, uncertain, decided>>

Stage(t, r, content) ==
    /\ At(t, "active")
    /\ Remembered(t, r) \/ MayRead(t, r)
    /\ Becomes(t, [tx[t] EXCEPT !.observed = Observed(t, r),
                                !.writes[r] = content])
    /\ UNCHANGED <<registry, reservations, clearer, uncertain, decided>>

(* What storing, authorizing and discarding make of a content.             *)
Stored(content, v, s) == [value |-> v, scopes |-> content.scopes \cup {s}]
Authorized(content, s) == [content EXCEPT !.scopes = @ \cup {s}]

StoreSecret(t, r, v, s) == Stage(t, r, Stored(Current(t, r), v, s))

AuthorizeSecret(t, r, s) == /\ Current(t, r) # Absent
                            /\ Stage(t, r, Authorized(Current(t, r), s))
DiscardSecret(t, r) == Stage(t, r, Absent)

Clear(t) ==
    /\ At(t, "active")
    /\ Becomes(t, [tx[t] EXCEPT !.clearing = TRUE, !.observed = Nothing,
                                !.writes = Nothing])
    /\ UNCHANGED <<registry, reservations, clearer, uncertain, decided>>

-----------------------------------------------------------------------------
(* The two phases around the head commit.                                  *)

Touched(t) == {r \in Refs : tx[t].observed[r] # Unseen \/ tx[t].writes[r] # Unseen}

PrepareWrites(t) ==
    /\ ~tx[t].clearing
    /\ \A r \in Touched(t) :
          /\ reservations[r] \in {NoTx, t}
          /\ tx[t].observed[r] # Unseen =>
                versions[r] = tx[t].observed[r].version
    /\ reservations' = [r \in Refs |->
                          IF r \in Touched(t) THEN t ELSE reservations[r]]
    /\ Becomes(t, [tx[t] EXCEPT !.stage = "prepared", !.reserved = Touched(t)])
    /\ UNCHANGED clearer

PrepareClear(t) ==
    /\ tx[t].clearing
    /\ revision = tx[t].baseRevision
    /\ \A r \in Refs : reservations[r] \in {NoTx, t}
    /\ clearer' = t
    /\ Becomes(t, [tx[t] EXCEPT !.stage = "prepared",
                                !.clearBefore = [r \in Refs |-> Snapshot(r)]])
    /\ UNCHANGED reservations

Prepare(t) ==
    /\ At(t, "active")
    /\ clearEpoch = tx[t].startEpoch
    /\ clearer \in {NoTx, t}
    /\ PrepareWrites(t) \/ PrepareClear(t)
    /\ UNCHANGED <<registry, uncertain, decided>>

HoldsReservations(t) ==
    IF tx[t].clearing THEN clearer = t
    ELSE \A r \in tx[t].reserved : reservations[r] = t

PublishPrepared(t) ==
    /\ At(t, "prepared")
    /\ HoldsReservations(t)
    /\ IF tx[t].clearing THEN PublishCleared(tx[t].writes)
                         ELSE Publish(tx[t].writes)
    /\ Becomes(t, [tx[t] EXCEPT !.stage = "published"])
    /\ UNCHANGED <<reservations, clearer, uncertain, decided>>

(* The attempt's commit in TurnTransactions becomes durable.               *)
CommitProductHead(t) ==
    /\ At(t, "published") /\ tx[t].bound /\ decided[t] = "no"
    /\ decided' = [decided EXCEPT ![t] = "committed"]
    /\ UNCHANGED <<registry, reservations, clearer, uncertain, tx>>

MarkProductHeadCommitted(t) ==
    /\ At(t, "published") /\ ~tx[t].marked /\ decided[t] = "committed"
    /\ Becomes(t, [tx[t] EXCEPT !.marked = TRUE])
    /\ UNCHANGED <<registry, reservations, clearer, uncertain, decided>>

(* A registry-only transaction (commit) finalizes without a head.          *)
Finalize(t) ==
    /\ At(t, "published")
    /\ tx[t].bound => tx[t].marked
    /\ KeepOverlay(t)
    /\ Becomes(t, EndedTx)
    /\ decided' = [decided EXCEPT ![t] = "committed"]
    /\ UNCHANGED uncertain

-----------------------------------------------------------------------------
(* Leaving with an exception, at any point.  Before anything is published  *)
(* no one asks what became of the attempt; afterwards other threads may    *)
(* run between the exception, the attempt's terminal outcome and rollback. *)

RollbackUnpublished(t) ==
    /\ At(t, "active") \/ At(t, "prepared")
    /\ KeepOverlay(t)
    /\ Becomes(t, EndedTx)
    /\ UNCHANGED <<uncertain, decided>>

Fail(t) ==
    /\ At(t, "published")
    /\ Becomes(t, [tx[t] EXCEPT !.failed = TRUE])
    /\ UNCHANGED <<registry, reservations, clearer, uncertain, decided>>

(* _terminalize_failed_attempt_once, or the recovery of a later start.     *)
TerminalizeFailedAttempt(t) ==
    /\ tx[t].failed /\ tx[t].bound /\ decided[t] = "no"
    /\ decided' = [decided EXCEPT ![t] = "aborted"]
    /\ UNCHANGED <<registry, reservations, clearer, uncertain, tx>>

(* rollback                                                                *)
Leaving(t) == tx[t].failed /\ t \notin uncertain

RollbackGuessing(t) ==     \* variant: an unknown commit counts as failed
    /\ Leaving(t)
    /\ UndoOverlay(t)
    /\ Becomes(t, EndedTx)
    /\ UNCHANGED <<uncertain, decided>>

RollbackPublished(t) ==
    /\ Leaving(t)
    /\ \/ ProbeSays(t, "yes") /\ KeepOverlay(t)
       \/ ProbeSays(t, "no") /\ UndoOverlay(t)
    /\ Becomes(t, EndedTx)
    /\ UNCHANGED <<uncertain, decided>>

RollbackReleasing(t) ==    \* variant: the reservations are not kept
    /\ Leaving(t)
    /\ ProbeSays(t, "unknown")
    /\ KeepOverlay(t)
    /\ uncertain' = uncertain \cup {t}
    /\ UNCHANGED <<tx, decided>>

RollbackUncertain(t) ==
    /\ Leaving(t)
    /\ ProbeSays(t, "unknown")
    /\ uncertain' = uncertain \cup {t}
    /\ UNCHANGED <<registry, reservations, clearer, tx, decided>>

-----------------------------------------------------------------------------
(* Callers outside any transaction.                                        *)

DirectUnguarded(r, content) ==   \* variant: reservations are ignored
    /\ Publish([Nothing EXCEPT ![r] = content])
    /\ UNCHANGED <<reservations, clearer, uncertain, tx, decided>>

GlobalMutationAvailable(r) == clearer = NoTx /\ reservations[r] = NoTx

PublishDirect(r, content) ==
    /\ GlobalMutationAvailable(r)
    /\ Publish([Nothing EXCEPT ![r] = content])
    /\ UNCHANGED <<reservations, clearer, uncertain, tx, decided>>

StoreDirect(r, v, s) == /\ Bounded(MaxRevision)
                        /\ PublishDirect(r, Stored(values[r], v, s))
AuthorizeDirect(r, s) == /\ Bounded(MaxRevision + 1)   \* it follows a store
                         /\ values[r] # Absent
                         /\ PublishDirect(r, Authorized(values[r], s))
DiscardDirect(r) == Bounded(MaxRevision) /\ PublishDirect(r, Absent)

ClearDirect ==
    /\ Bounded(MaxRevision)
    /\ clearer = NoTx /\ \A r \in Refs : reservations[r] = NoTx
    /\ PublishCleared(Nothing)
    /\ UNCHANGED <<reservations, clearer, uncertain, tx, decided>>

-----------------------------------------------------------------------------
Work(t) == \E r \in Refs : \/ Read(t, r)
                           \/ DiscardSecret(t, r)
                           \/ \E s \in Scopes :
                                 \/ AuthorizeSecret(t, r, s)
                                 \/ \E v \in Values : StoreSecret(t, r, v, s)
Close(t) == \/ Prepare(t) \/ PublishPrepared(t) \/ CommitProductHead(t)
            \/ MarkProductHeadCommitted(t) \/ Finalize(t)
            \/ Fail(t) \/ TerminalizeFailedAttempt(t)
            \/ RollbackUnpublished(t) \/ RollbackPublished(t)
            \/ RollbackUncertain(t)
Outside == \/ ClearDirect
           \/ \E r \in Refs :
                 \/ DiscardDirect(r)
                 \/ \E s \in Scopes : \/ AuthorizeDirect(r, s)
                                      \/ \E v \in Values : StoreDirect(r, v, s)

Next == \/ \E t \in Txs :
              \/ Enter(t) \/ Entered(t) \/ BindExternalCommitProbe(t)
              \/ \E u \in Txs : \/ ReconcileUncertain(t, u)
                                \/ EnterRefused(t, u)
              \/ Work(t) \/ Clear(t) \/ Close(t)
        \/ Outside

Spec == Init /\ [][Next]_vars

-----------------------------------------------------------------------------
(* What must hold.                                                         *)

(* Every variable keeps its shape: snapshots, reservations and the fields  *)
(* of a transaction object.                                                *)
TypeOK == /\ values \in [Refs -> Contents]
          /\ versions \in [Refs -> Nat]
          /\ reservations \in [Refs -> Txs \cup {NoTx}]
          /\ clearer \in Txs \cup {NoTx}
          /\ clearEpoch \in Nat /\ revision \in Nat
          /\ uncertain \subseteq Txs
          /\ tx \in [Txs -> TxRows]
          /\ decided \in [Txs -> {"no", "committed", "aborted"}]

Holding(t) == tx[t].stage \in {"prepared", "published"}

(* A reservation belongs to a transaction that is prepared or published,   *)
(* which has all of its own; a prepared clear excludes every other.  So    *)
(* "reservation was lost" is never raised, and nothing stays reserved for  *)
(* a transaction that is gone.                                             *)
ReservationsAreHeld ==
    /\ \A t \in Txs : Holding(t) => HoldsReservations(t)
    /\ \A r \in Refs : reservations[r] # NoTx =>
          /\ Holding(reservations[r]) /\ ~tx[reservations[r]].clearing
          /\ r \in tx[reservations[r]].reserved
    /\ clearer # NoTx => /\ Holding(clearer) /\ tx[clearer].clearing
                         /\ \A t \in Txs \ {clearer} :
                               Holding(t) => tx[t].reserved = {}

(* The overlay of a transaction whose head is not durable.                 *)
Overlaid(t, r) == /\ tx[t].stage = "published" /\ decided[t] # "committed"
                  /\ tx[t].clearing \/ r \in tx[t].reserved
Before(t, r) == IF tx[t].clearing THEN tx[t].clearBefore[r].content
                                  ELSE tx[t].observed[r].content
Settled == [r \in Refs |->
              IF \E t \in Txs : Overlaid(t, r)
                THEN Before(CHOOSE t \in Txs : Overlaid(t, r), r)
                ELSE values[r]]

(* What a prepared turn read is what the durable heads say, until its own  *)
(* head is: nothing another turn published, or took back, gets into it.    *)
ReadsAreSettled ==
    \A t \in Txs, r \in Refs :
        Holding(t) /\ decided[t] # "committed" /\ tx[t].observed[r] # Unseen
            => tx[t].observed[r].content = Settled[r]

(* The turns and the settled secrets as AtomicSecrets sees them.           *)
OpenTurn(t) == decided[t] # "committed" /\ tx[t].stage # "ended"
Seen(row) == [r \in Refs |-> IF row.observed[r] = Unseen THEN Unseen
                                                       ELSE row.observed[r].content]
Atomic == INSTANCE AtomicSecrets WITH
    store <- Settled,
    status <- [t \in Txs |-> CASE decided[t] = "committed" -> "committed"
                               [] OpenTurn(t) -> "open"
                               [] OTHER -> "dropped"],
    view <- [t \in Txs |-> IF OpenTurn(t) THEN Seen(tx[t]) ELSE Nothing],
    plan <- [t \in Txs |-> IF OpenTurn(t) THEN tx[t].writes ELSE Nothing],
    wipe <- {t \in Txs : OpenTurn(t) /\ tx[t].clearing}

(* The registry implements AtomicSecrets: secrets published early, put     *)
(* back or left uncertain change nothing that is settled, and a turn whose *)
(* reads are no longer current does not commit.                            *)
ImplementsAtomicSecrets == Atomic!Spec
=============================================================================
