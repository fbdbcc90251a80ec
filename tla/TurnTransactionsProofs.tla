----------------------- MODULE TurnTransactionsProofs -----------------------
(***************************************************************************)
(* Proofs about TurnTransactions for every set of transactions, detours,   *)
(* checkpoints, payloads and messages, and every chunk bound.              *)
(***************************************************************************)
EXTENDS TurnTransactions, FiniteSetTheorems, TLAPS

(* The turn tables never depend on the detours, so their invariant is      *)
(* proved first; the fence a detour carries is typed from it.              *)
Turns == TurnTypes /\ TablesAgree /\ CommitsFormOneChain

turnVars == <<head, attempts, outbox, resolutions>>

(* What closing an attempt writes, spelt out row by row.                   *)
LEMMA FinishWrites ==
    ASSUME Turns, NEW t \in TxIds, NEW kind \in Kinds, NEW product,
           FinishAttempt(t, kind, product)
    PROVE  /\ attempts[t].status = "active" /\ outbox[t].kind = "none"
           /\ head \in Heads /\ head = attempts[t].base
           /\ attempts' = [attempts EXCEPT ![t] = [status |-> kind, base |-> head]]
           /\ outbox' = [outbox EXCEPT ![t] =
                 [kind |-> kind, product |-> product,
                  event |-> IF kind = "committed" THEN "pending" ELSE "not_applicable",
                  payload |-> NoPayload, delivered |-> FALSE]]
           /\ head' = product /\ resolutions' = resolutions
<1>1. /\ attempts[t].status = "active" /\ head = attempts[t].base
      /\ attempts' = [attempts EXCEPT ![t].status = kind]
  BY DEF FinishAttempt
<1>2. head # NoHead /\ head \in Heads
  BY <1>1 DEF Turns, TurnTypes, TablesAgree, MaybeHead
<1>3. attempts[t] \in [status : Kinds \cup {"absent", "active"}, base : MaybeHead]
  BY DEF Turns, TurnTypes
<1>4. [attempts[t] EXCEPT !.status = kind] = [status |-> kind, base |-> head]
  BY <1>1, <1>3
<1>5. attempts' = [attempts EXCEPT ![t] = [status |-> kind, base |-> head]]
  BY <1>1, <1>4
<1>6. QED BY <1>1, <1>2, <1>5 DEF FinishAttempt

(* Closing an attempt without a commit leaves the chain as it was.         *)
LEMMA KeepHeadKeepsTurns ==
    ASSUME Turns, NEW t \in TxIds, NEW kind \in {"aborted", "reconciliation_required"},
           FinishAttempt(t, kind, head)
    PROVE  Turns'
<1> USE RootAssumption, NoHeadAssumption, NoPayloadAssumption, NoVerdictAssumption
<1>1. /\ attempts[t].status = "active" /\ outbox[t].kind = "none"
      /\ head \in Heads
      /\ attempts' = [attempts EXCEPT ![t] = [status |-> kind, base |-> head]]
      /\ outbox' = [outbox EXCEPT ![t] =
                     [kind |-> kind, product |-> head, event |-> "not_applicable",
                      payload |-> NoPayload, delivered |-> FALSE]]
      /\ head' = head /\ resolutions' = resolutions
  BY FinishWrites DEF Kinds
<1>2. TurnTypes'
  BY <1>1 DEF Turns, TurnTypes, Kinds, MaybeHead
<1>3. TablesAgree'
  BY <1>1 DEF Turns, TurnTypes, TablesAgree, MaybeHead, Kinds
<1>4. Committed' = Committed
  BY <1>1 DEF Committed, Turns, TurnTypes
<1>5. \A u \in Committed : outbox'[u] = outbox[u] /\ attempts'[u].base = attempts[u].base
  BY <1>1 DEF Committed, Turns, TurnTypes
<1>6. CommitsFormOneChain'
  BY <1>1, <1>4, <1>5 DEF Turns, CommitsFormOneChain
<1>7. QED BY <1>2, <1>3, <1>6 DEF Turns

(* A commit appends exactly one link.                                      *)
LEMMA CommitKeepsTurns ==
    ASSUME Turns, NEW t \in TxIds, NEW c \in Ckpts, CommitAttempt(t, c)
    PROVE  Turns'
<1> USE RootAssumption, NoHeadAssumption, NoPayloadAssumption, NoVerdictAssumption
<1> DEFINE new == [rev |-> head.rev + 1, thread |-> t, ckpt |-> c]
<1>1. /\ attempts[t].status = "active" /\ outbox[t].kind = "none"
      /\ head \in Heads /\ head = attempts[t].base
      /\ attempts' = [attempts EXCEPT ![t] = [status |-> "committed", base |-> head]]
      /\ outbox' = [outbox EXCEPT ![t] =
                     [kind |-> "committed", product |-> new, event |-> "pending",
                      payload |-> NoPayload, delivered |-> FALSE]]
      /\ head' = new /\ resolutions' = resolutions
  BY FinishWrites DEF CommitAttempt, Kinds
<1>2. new \in Heads /\ new # NoHead /\ new.rev = head.rev + 1 /\ head.rev \in Nat
      /\ new.thread = t
  BY <1>1 DEF Heads
<1> HIDE DEF new
<1>3. TurnTypes'
  BY <1>1, <1>2 DEF Turns, TurnTypes, Kinds, MaybeHead
<1>4. TablesAgree'
  BY <1>1, <1>2 DEF Turns, TurnTypes, TablesAgree, MaybeHead, Kinds
<1>5. Committed' = Committed \cup {t} /\ t \notin Committed
  BY <1>1 DEF Committed, Turns, TurnTypes
<1>6. \A u \in Committed : /\ outbox'[u] = outbox[u]
                           /\ attempts'[u].base = attempts[u].base
                           /\ outbox[u].product.rev \in Nat
                           /\ attempts[u].base.rev \in Nat
  BY <1>1, <1>5 DEF Committed, Turns, TurnTypes, TablesAgree, MaybeHead, Heads
<1>7. outbox'[t].product = new /\ attempts'[t].base = head
  BY <1>1 DEF Turns, TurnTypes
<1>8. \A u \in Committed' :
        /\ attempts'[u].base # NoHead /\ head' # NoHead
        /\ outbox'[u].product.thread = u
        /\ outbox'[u].product.rev = attempts'[u].base.rev + 1
        /\ outbox'[u].product.rev =< head'.rev
        /\ outbox'[u].product.rev = head'.rev => outbox'[u].product = head'
  <2>1. \A u \in Committed : outbox[u].product.rev =< head.rev /\ attempts[u].base # NoHead
                             /\ outbox[u].product.thread = u
                             /\ outbox[u].product.rev = attempts[u].base.rev + 1
    BY DEF Turns, CommitsFormOneChain
  <2>2. head # NoHead
    BY <1>1
  <2>3. QED BY <1>1, <1>2, <1>5, <1>6, <1>7, <2>1, <2>2
<1>9. \A u, w \in Committed' :
        /\ outbox'[u].product.rev = outbox'[w].product.rev => u = w
        /\ outbox'[w].product.rev = attempts'[u].base.rev =>
              outbox'[w].product = attempts'[u].base
  <2>1. \A u, w \in Committed :
          /\ outbox[u].product.rev = outbox[w].product.rev => u = w
          /\ outbox[w].product.rev = attempts[u].base.rev =>
                outbox[w].product = attempts[u].base
    BY DEF Turns, CommitsFormOneChain
  <2>2. \A u \in Committed :
          /\ outbox[u].product.rev =< head.rev
          /\ outbox[u].product.rev = head.rev => outbox[u].product = head
          /\ attempts[u].base.rev < head.rev
    BY <1>2, <1>6 DEF Turns, CommitsFormOneChain
  <2>3. \A u \in Committed : outbox'[u].product.rev # new.rev /\ attempts'[u].base.rev # new.rev
    BY <1>2, <1>6, <2>2
  <2>4. new.rev # head.rev
    BY <1>2
  <2>5. QED BY <1>5, <1>6, <1>7, <2>1, <2>2, <2>3, <2>4
<1>10. \A k \in 1..head'.rev : \E u \in Committed' : outbox'[u].product.rev = k
  <2>1. \A k \in 1..head.rev : \E u \in Committed : outbox[u].product.rev = k
    BY <1>1 DEF Turns, CommitsFormOneChain
  <2>2. \A k \in 1..new.rev : k \in 1..head.rev \/ k = new.rev
    BY <1>2
  <2>3. QED BY <1>1, <1>5, <1>6, <1>7, <2>1, <2>2
<1>11. CommitsFormOneChain'
  BY <1>8, <1>9, <1>10 DEF CommitsFormOneChain
<1>12. QED BY <1>3, <1>4, <1>11 DEF Turns

(* Delivery and publication marks leave kinds and products alone.          *)
OutboxRows == [kind : Kinds \cup {"none"}, product : MaybeHead,
               event : {"not_applicable", "pending", "published"},
               payload : Payloads \cup {NoPayload}, delivered : BOOLEAN]

LEMMA MarksKeepTurns ==
    ASSUME Turns, UNCHANGED <<head, attempts, resolutions>>,
           outbox' \in [TxIds -> OutboxRows],
           \A t \in TxIds :
             /\ outbox'[t].kind = outbox[t].kind
             /\ outbox'[t].product = outbox[t].product
             /\ outbox'[t].event \in {"pending", "published"}
                  <=> outbox[t].event \in {"pending", "published"}
    PROVE  Turns'
<1>1. TurnTypes' /\ TablesAgree'
  BY DEF Turns, TurnTypes, TablesAgree, OutboxRows
<1>2. Committed' = Committed
  BY DEF Committed
<1>3. CommitsFormOneChain'
  BY <1>2 DEF Turns, CommitsFormOneChain, Committed
<1>4. QED BY <1>1, <1>3 DEF Turns

LEMMA TurnsInit == Init => Turns
<1> SUFFICES ASSUME Init PROVE Turns
  OBVIOUS
<1>1. TurnTypes
  BY DEF Init, TurnTypes, AbsentAttempt, AbsentOutcome, MaybeHead, Kinds
<1>2. TablesAgree
  BY DEF Init, TablesAgree, AbsentAttempt, AbsentOutcome
<1>3. Committed = {} /\ head = NoHead
  BY DEF Init, Committed, AbsentOutcome
<1>4. CommitsFormOneChain
  BY <1>3 DEF CommitsFormOneChain
<1>5. QED BY <1>1, <1>2, <1>4 DEF Turns

LEMMA TurnsStep == Turns /\ [Next]_vars => Turns'
<1> SUFFICES ASSUME Turns, [Next]_vars PROVE Turns'
  OBVIOUS
<1> USE RootAssumption, NoHeadAssumption, NoPayloadAssumption, NoVerdictAssumption
<1>1. ASSUME UNCHANGED turnVars PROVE Turns'
  BY <1>1 DEF turnVars, Turns, TurnTypes, TablesAgree, CommitsFormOneChain, Committed
<1>2. ASSUME NEW c \in Ckpts, BootstrapProductHead(c) PROVE Turns'
  <2>1. Committed = {} /\ Committed' = {}
    BY <1>2 DEF BootstrapProductHead, Turns, TurnTypes, TablesAgree, Committed, Kinds
  <2>2. head' \in Heads /\ head' # NoHead /\ head'.rev = 0
    BY <1>2 DEF BootstrapProductHead, Heads
  <2>3. CommitsFormOneChain'
    BY <2>1, <2>2 DEF CommitsFormOneChain
  <2>4. TurnTypes' /\ TablesAgree'
    BY <1>2, <2>2 DEF BootstrapProductHead, Turns, TurnTypes, TablesAgree, MaybeHead
  <2>5. QED BY <2>3, <2>4 DEF Turns
<1>3. ASSUME NEW t \in TxIds, BeginAttempt(t) PROVE Turns'
  <2>1. outbox[t].kind = "none"
    BY <1>3 DEF BeginAttempt, Turns, TablesAgree
  <2>2. TurnTypes'
    BY <1>3 DEF BeginAttempt, Turns, TurnTypes
  <2>3. TablesAgree'
    BY <1>3, <2>1 DEF BeginAttempt, Turns, TurnTypes, TablesAgree
  <2>4. Committed' = Committed /\ t \notin Committed
    BY <1>3, <2>1 DEF BeginAttempt, Committed
  <2>5. \A u \in Committed : attempts'[u] = attempts[u] /\ outbox'[u] = outbox[u]
    BY <1>3, <2>4 DEF BeginAttempt, Committed, Turns, TurnTypes
  <2>6. head' = head
    BY <1>3 DEF BeginAttempt
  <2>7. CommitsFormOneChain'
    BY <2>4, <2>5, <2>6 DEF Turns, CommitsFormOneChain
  <2>8. QED BY <2>2, <2>3, <2>7 DEF Turns
<1>4. ASSUME NEW t \in TxIds, AbortAttempt(t) \/ RequireReconciliation(t) PROVE Turns'
  BY <1>4, KeepHeadKeepsTurns DEF AbortAttempt, RequireReconciliation
<1>5. ASSUME NEW t \in TxIds, NEW c \in Ckpts, CommitAttempt(t, c) PROVE Turns'
  BY <1>5, CommitKeepsTurns
<1>6. ASSUME NEW t \in UnresolvedReconciliations, NEW v \in Verdicts,
             resolutions' = [resolutions EXCEPT ![t] = v],
             UNCHANGED <<head, attempts, outbox>>
      PROVE  Turns'
  <2>1. TurnTypes' /\ TablesAgree'
    BY <1>6 DEF UnresolvedReconciliations, Turns, TurnTypes, TablesAgree
  <2>2. CommitsFormOneChain'
    BY <1>6 DEF Turns, CommitsFormOneChain, Committed
  <2>3. QED BY <2>1, <2>2 DEF Turns
<1>7. ASSUME NEW t \in TxIds, MarkTerminalDelivered(t) PROVE Turns'
  <2>1. outbox' = [outbox EXCEPT ![t].delivered = TRUE]
        /\ UNCHANGED <<head, attempts, resolutions>>
    BY <1>7 DEF MarkTerminalDelivered
  <2>2. outbox[t] \in OutboxRows /\ outbox \in [TxIds -> OutboxRows]
    BY DEF Turns, TurnTypes, OutboxRows
  <2>3. [outbox[t] EXCEPT !.delivered = TRUE] \in OutboxRows
    BY <2>2 DEF OutboxRows
  <2>4. outbox' \in [TxIds -> OutboxRows]
    BY <2>1, <2>2, <2>3
  <2>5. \A u \in TxIds : /\ outbox'[u].kind = outbox[u].kind
                         /\ outbox'[u].product = outbox[u].product
                         /\ outbox'[u].event = outbox[u].event
    BY <2>1, <2>2 DEF OutboxRows
  <2>6. QED BY <2>1, <2>4, <2>5, MarksKeepTurns
<1>8. ASSUME NEW t \in TxIds, NEW p \in Payloads, MarkRuntimeEventPublished(t, p)
      PROVE  Turns'
  <2>1. /\ outbox[t].event \in {"pending", "published"}
        /\ outbox' = [outbox EXCEPT ![t].event = "published", ![t].payload = p]
        /\ UNCHANGED <<head, attempts, resolutions>>
    BY <1>8 DEF MarkRuntimeEventPublished, Committed, Turns, TablesAgree
  <2>2. outbox[t] \in OutboxRows /\ outbox \in [TxIds -> OutboxRows]
    BY DEF Turns, TurnTypes, OutboxRows
  <2>3. outbox' \in [TxIds -> OutboxRows]
    BY <2>1, <2>2 DEF OutboxRows
  <2>4. \A u \in TxIds : /\ outbox'[u].kind = outbox[u].kind
                         /\ outbox'[u].product = outbox[u].product
                         /\ outbox'[u].event \in {"pending", "published"}
                              <=> outbox[u].event \in {"pending", "published"}
    BY <2>1, <2>2 DEF OutboxRows
  <2>5. QED BY <2>1, <2>3, <2>4, MarksKeepTurns
<1>9. ASSUME RequeueRuntimeEvents PROVE Turns'
  <2>1. \A t \in Committed : outbox[t].event \in {"pending", "published"}
    BY DEF Committed, Turns, TablesAgree
  <2>2. /\ outbox' = [t \in TxIds |->
                       IF t \in Committed
                       THEN [outbox[t] EXCEPT !.event = "pending",
                                              !.payload = NoPayload]
                       ELSE outbox[t]]
        /\ UNCHANGED <<head, attempts, resolutions>>
    BY <1>9 DEF RequeueRuntimeEvents
  <2>3. outbox \in [TxIds -> OutboxRows]
    BY DEF Turns, TurnTypes, OutboxRows
  <2>4. outbox' \in [TxIds -> OutboxRows]
    <3>1. \A u \in TxIds : [outbox[u] EXCEPT !.event = "pending",
                                           !.payload = NoPayload] \in OutboxRows
      BY <2>3 DEF OutboxRows
    <3>2. QED BY <2>2, <2>3, <3>1
  <2>5. \A u \in TxIds : /\ outbox'[u].kind = outbox[u].kind
                         /\ outbox'[u].product = outbox[u].product
                         /\ outbox'[u].event \in {"pending", "published"}
                              <=> outbox[u].event \in {"pending", "published"}
    BY ZenonT(60), <2>1, <2>2, <2>3 DEF OutboxRows
  <2>6. QED BY <2>2, <2>4, <2>5, MarksKeepTurns
<1>10. CASE DetourNext
  <2>1. ASSUME NEW d \in DetourIds, NEW t \in TxIds, NEW v \in Verdicts, NEW m \in Messages,
               ResolveTurnWithDetour(d, t, v, <<m>>)
        PROVE  Turns'
    BY <1>6, <2>1 DEF ResolveTurnWithDetour
  <2>2. ASSUME NEW d \in DetourIds,
               \/ RequireDetourReconciliation(d) \/ InterruptTermination(d)
               \/ MarkDetourDelivered(d)
        PROVE  Turns'
    BY <1>1, <2>2 DEF turnVars, RequireDetourReconciliation, InterruptTermination,
                      MarkDetourDelivered
  <2>3. ASSUME NEW d \in DetourIds, NEW k, NEW e, PrepareDetour(d, k, e) PROVE Turns'
    BY <1>1, <2>3 DEF turnVars, PrepareDetour
  <2>4. ASSUME NEW d \in DetourIds, NEW m, RecordStreamChunk(d, m) PROVE Turns'
    BY <1>1, <2>4 DEF turnVars, RecordStreamChunk
  <2>5. ASSUME NEW d \in DetourIds, NEW r, NEW e, NEW s, CompleteDetour(d, r, e, s)
        PROVE  Turns'
    BY <1>1, <2>5 DEF turnVars, CompleteDetour
  <2>6. ASSUME NEW d \in DetourIds, NEW g, NEW v, NEW r, ResolveDetourWithDetour(d, g, v, r)
        PROVE  Turns'
    BY <1>1, <2>6 DEF turnVars, ResolveDetourWithDetour
  <2>7. QED BY <1>10, <2>1, <2>2, <2>3, <2>4, <2>5, <2>6 DEF DetourNext
<1>11. CASE TurnNext
  <2>1. ASSUME NEW t \in TxIds, NEW v \in Verdicts, ResolveReconciliation(t, v)
        PROVE  Turns'
    BY <1>6, <2>1 DEF ResolveReconciliation
  <2>2. QED BY <1>2, <1>3, <1>4, <1>5, <1>7, <1>8, <1>9, <1>11, <2>1 DEF TurnNext
<1>12. CASE UNCHANGED vars
  BY <1>1, <1>12 DEF vars, turnVars
<1>13. QED BY <1>10, <1>11, <1>12 DEF Next

(* The committed turns of any conversation form one chain of revisions     *)
(* from the bootstrap head to the current one, one outcome per revision,   *)
(* whatever is begun, retried, closed, resolved or requeued in between.    *)
THEOREM ChainTheorem == Spec => [](CommitsFormOneChain /\ TablesAgree)
<1>1. Turns => CommitsFormOneChain /\ TablesAgree
  BY DEF Turns
<1>2. QED BY <1>1, TurnsInit, TurnsStep, PTL DEF Spec

-----------------------------------------------------------------------------
(* With nothing pending, the last published event is the head's own.       *)
LEMMA QuietFence ==
    ASSUME Turns, PendingEvents = {}
    PROVE  /\ PublishedFence \in Fences
           /\ head = NoHead => PublishedFence = NoFence
           /\ head # NoHead =>
                /\ PublishedFence.seq = head.rev
                /\ PublishedFence.seq > 0 => PublishedFence.tx = head.thread
           /\ \/ PublishedFence = NoFence
              \/ \E t \in PublishedEvents :
                    PublishedFence = [seq |-> outbox[t].product.rev, tx |-> t,
                                      payload |-> outbox[t].payload]
<1>1. PublishedEvents = Committed
  BY DEF Turns, TablesAgree, TurnTypes, PendingEvents, PublishedEvents, Committed
<1>2. NoFence \in Fences /\ NoFence.seq = 0
  BY DEF NoFence, Fences
<1>3. CASE Committed = {}
  <2>1. PublishedFence = NoFence
    BY <1>1, <1>3 DEF PublishedFence
  <2>2. head # NoHead => head.rev \in Nat /\ 1..head.rev = {}
    BY <1>3 DEF Turns, TurnTypes, CommitsFormOneChain, MaybeHead, Heads
  <2>3. head # NoHead => head.rev = 0
    BY <2>2
  <2>4. QED BY <1>2, <2>1, <2>3
<1>4. CASE Committed # {}
  <2> DEFINE P(t) == \A u \in PublishedEvents :
                        outbox[u].product.rev =< outbox[t].product.rev
             last == CHOOSE t \in PublishedEvents : P(t)
  <2>1. head \in Heads /\ head # NoHead
    BY <1>4, NoHeadAssumption DEF Turns, TurnTypes, CommitsFormOneChain, MaybeHead
  <2>2. \A t \in Committed : outbox[t].product.rev \in Nat
    BY DEF Turns, TurnTypes, TablesAgree, MaybeHead, Heads, Committed
  <2>3. head.rev \in 1..head.rev
    <3>1. PICK t \in Committed : TRUE
      BY <1>4
    <3>2. attempts[t].base \in Heads
      BY DEF Turns, TurnTypes, CommitsFormOneChain, MaybeHead, Committed
    <3>3. outbox[t].product.rev > 0 /\ outbox[t].product.rev =< head.rev
      BY <2>2, <3>2 DEF Turns, CommitsFormOneChain, Heads
    <3>4. QED BY <2>1, <2>2, <3>3 DEF Heads
  <2>4. PICK t \in Committed : outbox[t].product.rev = head.rev
    BY <2>1, <2>3 DEF Turns, CommitsFormOneChain
  <2>5. P(t)
    BY <1>1, <2>4 DEF Turns, CommitsFormOneChain
  <2>6. last \in Committed /\ P(last)
    BY <1>1, <2>5
  <2>7. PublishedFence = [seq |-> outbox[last].product.rev, tx |-> last,
                          payload |-> outbox[last].payload]
    BY <1>1, <1>4 DEF PublishedFence
  <2> HIDE DEF last
  <2>8. outbox[last].product.rev = head.rev
    <3>1. head.rev =< outbox[last].product.rev
      BY <1>1, <2>4, <2>6
    <3>2. outbox[last].product.rev =< head.rev
      BY <2>6 DEF Turns, CommitsFormOneChain
    <3>3. head.rev \in Nat
      BY <2>1 DEF Heads
    <3>4. outbox[last].product.rev \in Nat
      BY <2>2, <2>6
    <3>5. QED BY <3>1, <3>2, <3>3, <3>4
  <2>9. last = head.thread
    BY <2>6, <2>8 DEF Turns, CommitsFormOneChain
  <2>10. outbox[last].payload \in Payloads \cup {NoPayload} /\ last \in TxIds
    BY <2>6 DEF Turns, TurnTypes, Committed
  <2>11. PublishedFence \in Fences
    BY <2>2, <2>6, <2>7, <2>10 DEF Fences
  <2>12. \E u \in PublishedEvents :
            PublishedFence = [seq |-> outbox[u].product.rev, tx |-> u,
                              payload |-> outbox[u].payload]
    BY <1>1, <2>6, <2>7
  <2>13. QED BY <2>1, <2>7, <2>8, <2>9, <2>11, <2>12
<1>5. QED BY <1>3, <1>4

-----------------------------------------------------------------------------
(* Detour rows keep their shape.                                           *)
DetourTypes == detours \in [DetourIds -> DetourRows]

LEMMA AbsentIsARow == AbsentDetour \in DetourRows
<1>1. NoFence \in Fences /\ <<>> \in Seq(Messages)
  BY DEF NoFence, Fences
<1>2. QED BY <1>1 DEF AbsentDetour, DetourRows, MaybeHead, PreparableEffects, PlainEffects,
                      StopReasons

LEMMA DetourTypesInit == Init => DetourTypes
BY AbsentIsARow DEF Init, DetourTypes

LEMMA TextsAreSequences == \A n \in Nat : \A r \in Texts(n) : r \in Seq(Messages)
<1> SUFFICES ASSUME NEW n \in Nat, NEW k \in 0..n, NEW r \in [1..k -> Messages]
             PROVE  r \in Seq(Messages)
  BY DEF Texts
<1>1. QED OBVIOUS

LEMMA DetourTypesStep == Turns /\ DetourTypes /\ [Next]_vars => DetourTypes'
<1> SUFFICES ASSUME Turns, DetourTypes, [Next]_vars PROVE DetourTypes'
  OBVIOUS
<1>1. ASSUME UNCHANGED detours PROVE DetourTypes'
  BY <1>1 DEF DetourTypes
<1>2. ASSUME NEW d \in DetourIds, NEW row \in DetourRows,
             detours' = [detours EXCEPT ![d] = row]
      PROVE  DetourTypes'
  BY <1>2 DEF DetourTypes
<1>3. \A d \in DetourIds : detours[d] \in DetourRows
  BY DEF DetourTypes
<1>4. head \in MaybeHead
  BY DEF Turns, TurnTypes
<1>5. ASSUME NEW d \in DetourIds, NEW k \in {"command", "session_termination"},
             NEW e \in Effects, PrepareDetour(d, k, e)
      PROVE  DetourTypes'
  <2>1. PublishedFence \in Fences
    BY <1>5, QuietFence DEF PrepareDetour
  <2> DEFINE row == [AbsentDetour EXCEPT !.status = "prepared", !.kind = k, !.class = e,
                                         !.before = head, !.fence = PublishedFence]
  <2>2. AbsentDetour \in DetourRows
    BY AbsentIsARow
  <2>3. row \in DetourRows
    BY <1>4, <2>1, <2>2, EffectsAssumption DEF DetourRows
  <2>4. detours' = [detours EXCEPT ![d] = row]
    BY <1>5 DEF PrepareDetour
  <2> HIDE DEF row
  <2>5. QED BY <1>2, <2>3, <2>4
<1>6. ASSUME NEW d \in DetourIds, NEW m \in Messages, RecordStreamChunk(d, m)
      PROVE  DetourTypes'
  <2>1. Append(detours[d].chunks, m) \in Seq(Messages)
    BY <1>3 DEF DetourRows
  <2>2. [detours[d] EXCEPT !.chunks = Append(detours[d].chunks, m)] \in DetourRows
    BY ZenonT(60), <1>3, <2>1 DEF DetourRows
  <2>3. detours' = [detours EXCEPT ![d] =
                      [detours[d] EXCEPT !.chunks = Append(detours[d].chunks, m)]]
    BY <1>6 DEF RecordStreamChunk
  <2>4. QED BY <1>2, <2>2, <2>3
<1>7. ASSUME NEW d \in DetourIds, NEW r \in Texts(MaxChunks + 1), NEW s \in StopReasons,
             NEW e \in {"not_applicable", "succeeded", "failed"}, CompleteDetour(d, r, e, s)
      PROVE  DetourTypes'
  <2>1. r \in Seq(Messages)
    BY TextsAreSequences, MaxChunksAssumption
  <2> DEFINE row == [detours[d] EXCEPT !.status = "completed", !.after = head,
                                       !.response = r, !.effect = e, !.stop = s]
  <2>2. row \in DetourRows
    BY ZenonT(60), <1>3, <1>4, <2>1 DEF DetourRows
  <2>3. detours' = [detours EXCEPT ![d] = row]
    BY <1>7 DEF CompleteDetour
  <2>4. QED BY <1>2, <2>2, <2>3
<1>8. ASSUME NEW d \in DetourIds, RequireDetourReconciliation(d) PROVE DetourTypes'
  <2> DEFINE row == [detours[d] EXCEPT !.status = "reconciliation_required",
                                       !.effect = "uncertain"]
  <2>1. row \in DetourRows
    BY ZenonT(60), <1>3 DEF DetourRows
  <2>2. detours' = [detours EXCEPT ![d] = row]
    BY <1>8 DEF RequireDetourReconciliation
  <2>3. QED BY <1>2, <2>1, <2>2
<1>9. ASSUME NEW d \in DetourIds, InterruptTermination(d) PROVE DetourTypes'
  <2> DEFINE row == [detours[d] EXCEPT !.kind = "command", !.interrupted = TRUE]
  <2>1. row \in DetourRows
    BY ZenonT(60), <1>3 DEF DetourRows
  <2>2. detours' = [detours EXCEPT ![d] = row]
    BY <1>9 DEF InterruptTermination
  <2>3. QED BY <1>2, <2>1, <2>2
<1>10. ASSUME NEW d \in DetourIds, MarkDetourDelivered(d) PROVE DetourTypes'
  <2> DEFINE row == [detours[d] EXCEPT !.delivered = TRUE]
  <2>1. row \in DetourRows
    BY ZenonT(60), <1>3 DEF DetourRows
  <2>2. detours' = [detours EXCEPT ![d] = row]
    BY <1>10 DEF MarkDetourDelivered
  <2>3. QED BY <1>2, <2>1, <2>2
<1>11. ASSUME NEW m \in Messages, NEW v \in Verdicts PROVE AuthorityReply(<<m>>, v) \in DetourRows
  <2>1. <<m>> \in Seq(Messages) /\ <<>> \in Seq(Messages) /\ NoFence \in Fences
    BY DEF NoFence, Fences
  <2>2. QED BY <1>4, <2>1 DEF AuthorityReply, AbsentDetour, DetourRows, StopReasons
<1>12. ASSUME NEW d \in DetourIds, NEW t \in TxIds, NEW v \in Verdicts, NEW m \in Messages,
              ResolveTurnWithDetour(d, t, v, <<m>>)
       PROVE  DetourTypes'
  BY <1>2, <1>11, <1>12 DEF ResolveTurnWithDetour
<1>13. ASSUME NEW d \in DetourIds, NEW g \in DetourIds, NEW v \in Verdicts,
              NEW m \in Messages, ResolveDetourWithDetour(d, g, v, <<m>>)
       PROVE  DetourTypes'
  <2> DEFINE row == [detours[g] EXCEPT
                       !.status = "completed", !.after = detours[g].before,
                       !.response = <<>>, !.delivered = TRUE, !.verdict = v,
                       !.effect = IF v = "effect_confirmed" THEN "succeeded" ELSE "failed"]
  <2>1. row \in DetourRows
    <3>1. <<>> \in Seq(Messages) /\ detours[g].before \in MaybeHead
      BY <1>3 DEF DetourRows
    <3>2. QED BY ZenonT(60), <1>3, <3>1 DEF DetourRows
  <2>2. detours' = [detours EXCEPT ![g] = row, ![d] = AuthorityReply(<<m>>, v)]
    BY <1>13 DEF ResolveDetourWithDetour
  <2> HIDE DEF row
  <2>3. QED BY <1>11, <2>1, <2>2 DEF DetourTypes
<1>14. CASE DetourNext
  BY <1>5, <1>6, <1>7, <1>8, <1>9, <1>10, <1>12, <1>13, <1>14 DEF DetourNext
<1>15. CASE TurnNext
  BY <1>1, <1>15 DEF TurnNext, BootstrapProductHead, RequeueRuntimeEvents, BeginAttempt,
       AbortAttempt, RequireReconciliation, CommitAttempt, FinishAttempt,
       MarkTerminalDelivered, ResolveReconciliation, MarkRuntimeEventPublished
<1>16. QED BY <1>1, <1>14, <1>15 DEF Next, vars

(* Every reachable state of the store is made of well-formed rows.         *)
THEOREM TypeTheorem == Spec => []TypeOK
<1>1. Turns /\ DetourTypes => TypeOK
  BY DEF Turns, DetourTypes, TypeOK
<1>2. QED BY <1>1, TurnsInit, TurnsStep, DetourTypesInit, DetourTypesStep, PTL DEF Spec

-----------------------------------------------------------------------------
(* Mutual exclusion of attempts, detours and barriers.  Neither half is    *)
(* inductive alone: the base of an active attempt stays current because    *)
(* nobody else can close another one, which is the exclusion.              *)
Authority == OneOpenAuthority /\ ActiveAttemptCanClose

LEMMA AuthorityInit == Init => Authority
<1> SUFFICES ASSUME Init PROVE Authority
  OBVIOUS
<1>1. /\ ActiveAttempts = {} /\ UnresolvedReconciliations = {} /\ PreparedDetours = {}
  BY DEF Init, ActiveAttempts, UnresolvedReconciliations, PreparedDetours, AbsentAttempt,
         AbsentOutcome, AbsentDetour
<1>2. QED BY <1>1 DEF Authority, OneOpenAuthority, ActiveAttemptCanClose

(* Work that leaves the turn tables alone and opens no detour.             *)
LEMMA ClosingDetoursKeepsAuthority ==
    ASSUME Authority, UNCHANGED <<head, attempts, outbox, resolutions>>,
           PreparedDetours' \subseteq PreparedDetours, OpenDetours' \subseteq OpenDetours
    PROVE  Authority'
<1>1. ActiveAttempts' = ActiveAttempts /\ UnresolvedReconciliations' = UnresolvedReconciliations
  BY DEF ActiveAttempts, UnresolvedReconciliations
<1>2. QED BY <1>1 DEF Authority, OneOpenAuthority, ActiveAttemptCanClose

LEMMA FinishKeepsAuthority ==
    ASSUME Turns, Authority, NEW t \in TxIds, NEW kind \in Kinds, NEW product,
           FinishAttempt(t, kind, product)
    PROVE  Authority'
<1>1. /\ attempts[t].status = "active"
      /\ attempts' = [attempts EXCEPT ![t] = [status |-> kind, base |-> head]]
      /\ outbox' = [outbox EXCEPT ![t] =
            [kind |-> kind, product |-> product,
             event |-> IF kind = "committed" THEN "pending" ELSE "not_applicable",
             payload |-> NoPayload, delivered |-> FALSE]]
      /\ resolutions' = resolutions
  BY FinishWrites
<1>2. ActiveAttempts = {t} /\ UnresolvedReconciliations = {} /\ OpenDetours = {}
  BY <1>1 DEF Authority, OneOpenAuthority, ActiveAttempts
<1>3. ActiveAttempts' = {}
  BY <1>1, <1>2 DEF ActiveAttempts, Turns, TurnTypes, Kinds
<1>4. UnresolvedReconciliations' \subseteq {t}
  BY <1>1, <1>2 DEF UnresolvedReconciliations, Turns, TurnTypes
<1>5. OpenDetours' = OpenDetours /\ PreparedDetours' = PreparedDetours
  BY DEF FinishAttempt, OpenDetours, PreparedDetours, UnresolvedDetours
<1>6. QED BY <1>2, <1>3, <1>4, <1>5 DEF Authority, OneOpenAuthority, ActiveAttemptCanClose

LEMMA AuthorityStep == Turns /\ DetourTypes /\ Authority /\ [Next]_vars => Authority'
<1> SUFFICES ASSUME Turns, DetourTypes, Authority, [Next]_vars PROVE Authority'
  OBVIOUS
<1> USE NoVerdictAssumption
<1>1. CASE UNCHANGED vars
  BY <1>1 DEF vars, Authority, OneOpenAuthority, ActiveAttemptCanClose, ActiveAttempts,
       UnresolvedReconciliations, PreparedDetours, OpenDetours, UnresolvedDetours
<1>2. ASSUME NEW c \in Ckpts, BootstrapProductHead(c) PROVE Authority'
  <2>1. ActiveAttempts = {}
    BY <1>2 DEF BootstrapProductHead, Turns, TablesAgree, ActiveAttempts
  <2>2. /\ ActiveAttempts' = ActiveAttempts
        /\ UnresolvedReconciliations' = UnresolvedReconciliations
        /\ PreparedDetours' = PreparedDetours
    BY <1>2 DEF BootstrapProductHead, ActiveAttempts, UnresolvedReconciliations,
         PreparedDetours
  <2>3. QED BY <2>1, <2>2 DEF Authority, OneOpenAuthority, ActiveAttemptCanClose
<1>3. ASSUME NEW t \in TxIds, BeginAttempt(t) PROVE Authority'
  <2>1. ActiveAttempts' = {t} /\ attempts'[t].base = head /\ outbox'[t].kind = "none"
    BY <1>3 DEF BeginAttempt, ActiveAttempts, Turns, TurnTypes, TablesAgree
  <2>2. /\ UnresolvedReconciliations' = {} /\ OpenDetours' = {} /\ PreparedDetours' = {}
    BY <1>3 DEF BeginAttempt, UnresolvedReconciliations, OpenDetours, PreparedDetours,
         UnresolvedDetours
  <2>3. head' = head /\ head # NoHead
    BY <1>3 DEF BeginAttempt
  <2>4. QED BY <2>1, <2>2, <2>3 DEF Authority, OneOpenAuthority, ActiveAttemptCanClose
<1>4. ASSUME NEW t \in TxIds, NEW kind \in Kinds, NEW p, FinishAttempt(t, kind, p)
      PROVE  Authority'
  BY <1>4, FinishKeepsAuthority
<1>5. ASSUME NEW t \in UnresolvedReconciliations, NEW v \in Verdicts,
             resolutions' = [resolutions EXCEPT ![t] = v],
             UNCHANGED <<head, attempts, outbox>>,
             PreparedDetours' = PreparedDetours, OpenDetours' = OpenDetours
      PROVE  Authority'
  <2>1. UnresolvedReconciliations' \subseteq UnresolvedReconciliations
    BY <1>5 DEF UnresolvedReconciliations, Turns, TurnTypes
  <2>2. ActiveAttempts' = ActiveAttempts
    BY <1>5 DEF ActiveAttempts
  <2>3. QED BY <1>5, <2>1, <2>2 DEF Authority, OneOpenAuthority, ActiveAttemptCanClose
<1>6. ASSUME UNCHANGED <<head, attempts, resolutions, detours>>,
             \A t \in TxIds : outbox'[t].kind = outbox[t].kind
      PROVE  Authority'
  <2>1. /\ ActiveAttempts' = ActiveAttempts
        /\ UnresolvedReconciliations' = UnresolvedReconciliations
        /\ PreparedDetours' = PreparedDetours /\ OpenDetours' = OpenDetours
    BY <1>6 DEF ActiveAttempts, UnresolvedReconciliations, PreparedDetours, OpenDetours,
         UnresolvedDetours
  <2>2. ActiveAttempts \subseteq TxIds
    BY DEF ActiveAttempts
  <2>3. QED BY <1>6, <2>1, <2>2 DEF Authority, OneOpenAuthority, ActiveAttemptCanClose
<1>7. ASSUME NEW d \in DetourIds, NEW k, NEW e, PrepareDetour(d, k, e) PROVE Authority'
  <2>1. ActiveAttempts' = {} /\ UnresolvedReconciliations' = UnresolvedReconciliations
    BY <1>7 DEF PrepareDetour, ActiveAttempts, UnresolvedReconciliations
  <2>2. PreparedDetours' \subseteq {d}
    BY <1>7 DEF PrepareDetour, PreparedDetours, DetourTypes
  <2>3. QED BY <2>1, <2>2 DEF Authority, OneOpenAuthority, ActiveAttemptCanClose
<1>8. ASSUME NEW d \in DetourIds,
             \/ RequireDetourReconciliation(d) \/ InterruptTermination(d)
             \/ MarkDetourDelivered(d) \/ (\E m \in Messages : RecordStreamChunk(d, m))
             \/ (\E r, e, s : CompleteDetour(d, r, e, s))
      PROVE  Authority'
  <2> DEFINE Shrinks == /\ PreparedDetours' \subseteq PreparedDetours
                        /\ OpenDetours' \subseteq OpenDetours
  <2>1. \A x \in DetourIds : detours[x] \in DetourRows
    BY DEF DetourTypes
  <2>2. ASSUME \A x \in DetourIds : x # d => detours'[x] = detours[x],
               detours'[d].status \in {"prepared", "reconciliation_required"} =>
                  /\ detours[d].status \in {"prepared", "reconciliation_required"}
                  /\ detours'[d].status = "prepared" => detours[d].status = "prepared"
        PROVE  Shrinks
    BY <2>2 DEF PreparedDetours, OpenDetours, UnresolvedDetours
  <2>3. ASSUME RequireDetourReconciliation(d) PROVE Shrinks
    <3>1. /\ \A x \in DetourIds : x # d => detours'[x] = detours[x]
          /\ detours[d].status = "prepared"
          /\ detours'[d].status = "reconciliation_required"
      BY <2>1, <2>3 DEF RequireDetourReconciliation, DetourTypes, DetourRows
    <3>2. QED BY <2>2, <3>1
  <2>4. ASSUME InterruptTermination(d) PROVE Shrinks
    <3>1. /\ \A x \in DetourIds : x # d => detours'[x] = detours[x]
          /\ detours'[d].status = detours[d].status
      BY <2>1, <2>4 DEF InterruptTermination, DetourTypes, DetourRows
    <3>2. QED BY <2>2, <3>1
  <2>5. ASSUME MarkDetourDelivered(d) PROVE Shrinks
    <3>1. /\ \A x \in DetourIds : x # d => detours'[x] = detours[x]
          /\ detours'[d].status = detours[d].status
      BY <2>1, <2>5 DEF MarkDetourDelivered, DetourTypes, DetourRows
    <3>2. QED BY <2>2, <3>1
  <2>6. ASSUME NEW m \in Messages, RecordStreamChunk(d, m) PROVE Shrinks
    <3>1. /\ \A x \in DetourIds : x # d => detours'[x] = detours[x]
          /\ detours'[d].status = detours[d].status
      BY <2>1, <2>6 DEF RecordStreamChunk, DetourTypes, DetourRows
    <3>2. QED BY <2>2, <3>1
  <2>7. ASSUME NEW r, NEW e, NEW s, CompleteDetour(d, r, e, s) PROVE Shrinks
    <3>1. /\ \A x \in DetourIds : x # d => detours'[x] = detours[x]
          /\ detours'[d].status = "completed"
      BY <2>1, <2>7 DEF CompleteDetour, DetourTypes, DetourRows
    <3>2. QED BY <2>2, <3>1
  <2>8. Shrinks
    BY <1>8, <2>3, <2>4, <2>5, <2>6, <2>7
  <2>9. UNCHANGED <<head, attempts, outbox, resolutions>>
    BY <1>8 DEF RequireDetourReconciliation, InterruptTermination, MarkDetourDelivered,
         RecordStreamChunk, CompleteDetour
  <2>10. QED BY <2>8, <2>9, ClosingDetoursKeepsAuthority
<1>9. ASSUME NEW m, NEW v PROVE AuthorityReply(<<m>>, v).status = "completed"
  BY DEF AuthorityReply, AbsentDetour
<1>10. ASSUME NEW d \in DetourIds, NEW t \in TxIds, NEW v \in Verdicts, NEW m \in Messages,
              ResolveTurnWithDetour(d, t, v, <<m>>)
       PROVE  Authority'
  <2>1. PreparedDetours' = PreparedDetours /\ OpenDetours' = OpenDetours
    BY <1>9, <1>10 DEF ResolveTurnWithDetour, PreparedDetours, OpenDetours,
         UnresolvedDetours, DetourTypes
  <2>2. QED BY <1>5, <1>10, <2>1 DEF ResolveTurnWithDetour
<1>11. ASSUME NEW d \in DetourIds, NEW g \in DetourIds, NEW v \in Verdicts,
              NEW m \in Messages, ResolveDetourWithDetour(d, g, v, <<m>>)
       PROVE  Authority'
  <2>1. /\ PreparedDetours' \subseteq PreparedDetours /\ OpenDetours' \subseteq OpenDetours
    <3>1. detours'[d].status = "completed" /\ detours'[g].status = "completed"
      BY ZenonT(60), <1>9, <1>11 DEF ResolveDetourWithDetour, DetourTypes, DetourRows
    <3>2. \A x \in DetourIds \ {d, g} : detours'[x] = detours[x]
      BY <1>11 DEF ResolveDetourWithDetour, DetourTypes
    <3>3. QED BY <3>1, <3>2 DEF PreparedDetours, OpenDetours, UnresolvedDetours
  <2>2. QED BY <1>11, <2>1, ClosingDetoursKeepsAuthority DEF ResolveDetourWithDetour
<1>12. CASE DetourNext
  BY <1>7, <1>8, <1>10, <1>11, <1>12 DEF DetourNext
<1>13. ASSUME NEW t \in TxIds, NEW v \in Verdicts, ResolveReconciliation(t, v)
       PROVE  Authority'
  BY <1>5, <1>13 DEF ResolveReconciliation, PreparedDetours, OpenDetours, UnresolvedDetours
<1>14. ASSUME NEW t \in TxIds,
              \/ MarkTerminalDelivered(t)
              \/ (\E p \in Payloads : MarkRuntimeEventPublished(t, p))
       PROVE  Authority'
  <2>1. ASSUME MarkTerminalDelivered(t) PROVE Authority'
    BY <1>6, <2>1 DEF MarkTerminalDelivered, Turns, TurnTypes
  <2>2. ASSUME NEW p \in Payloads, MarkRuntimeEventPublished(t, p) PROVE Authority'
    BY <1>6, <2>2 DEF MarkRuntimeEventPublished, Turns, TurnTypes
  <2>3. QED BY <1>14, <2>1, <2>2
<1>15. ASSUME RequeueRuntimeEvents PROVE Authority'
  <2>1. \A u \in TxIds : outbox'[u].kind = outbox[u].kind
    BY <1>15 DEF RequeueRuntimeEvents, Turns, TurnTypes
  <2>2. QED BY <1>6, <1>15, <2>1 DEF RequeueRuntimeEvents
<1>16. CASE TurnNext
  <2>1. ASSUME NEW t \in TxIds, AbortAttempt(t) \/ RequireReconciliation(t) PROVE Authority'
    BY <1>4, <2>1 DEF AbortAttempt, RequireReconciliation, Kinds
  <2>2. ASSUME NEW t \in TxIds, NEW c \in Ckpts, CommitAttempt(t, c) PROVE Authority'
    BY <1>4, <2>2 DEF CommitAttempt, Kinds
  <2>3. QED BY <1>2, <1>3, <1>13, <1>14, <1>15, <1>16, <2>1, <2>2 DEF TurnNext
<1>17. QED BY <1>1, <1>12, <1>16 DEF Next

(* An attempt, an open detour and an unresolved reconciliation exclude     *)
(* each other, and an active attempt can always be closed.                 *)
THEOREM AuthorityTheorem == Spec => [](OneOpenAuthority /\ ActiveAttemptCanClose)
<1>1. Authority => OneOpenAuthority /\ ActiveAttemptCanClose
  BY DEF Authority
<1>2. QED BY <1>1, TurnsInit, TurnsStep, DetourTypesInit, DetourTypesStep, AuthorityInit,
             AuthorityStep, PTL DEF Spec

-----------------------------------------------------------------------------
(* The tables implement ProductHead.                                       *)
Lineage == {outbox[t].product : t \in Committed}
Spent == {t \in TxIds : attempts[t].status # "absent"}

LEMMA FinishMaps ==
    ASSUME Turns, Authority, NEW t \in TxIds, NEW kind \in Kinds, NEW product,
           FinishAttempt(t, kind, product)
    PROVE  /\ ActiveAttempts = {t} /\ ActiveAttempts' = {} /\ Spent' = Spent
           /\ head' = product
           /\ kind = "committed" => /\ Lineage' = Lineage \cup {product}
                                    /\ UnresolvedReconciliations' = UnresolvedReconciliations
           /\ kind # "committed" => Lineage' = Lineage
           /\ kind = "aborted" => UnresolvedReconciliations' = UnresolvedReconciliations
           /\ kind = "reconciliation_required" => UnresolvedReconciliations' = {t}
<1>1. /\ attempts[t].status = "active" /\ outbox[t].kind = "none"
      /\ attempts' = [attempts EXCEPT ![t] = [status |-> kind, base |-> head]]
      /\ outbox' = [outbox EXCEPT ![t] =
            [kind |-> kind, product |-> product,
             event |-> IF kind = "committed" THEN "pending" ELSE "not_applicable",
             payload |-> NoPayload, delivered |-> FALSE]]
      /\ head' = product /\ resolutions' = resolutions
  BY FinishWrites
<1>2. ActiveAttempts = {t} /\ UnresolvedReconciliations = {}
  BY <1>1 DEF Authority, OneOpenAuthority, ActiveAttempts
<1>3. ActiveAttempts' = {} /\ Spent' = Spent
  BY <1>1, <1>2 DEF ActiveAttempts, Spent, Turns, TurnTypes, Kinds
<1>4. /\ outbox'[t].kind = kind /\ outbox'[t].product = product
      /\ \A u \in TxIds \ {t} : outbox'[u] = outbox[u]
  BY <1>1 DEF Turns, TurnTypes
<1>5. Committed' = IF kind = "committed" THEN Committed \cup {t} ELSE Committed
  BY <1>1, <1>4 DEF Committed
<1>6. t \notin Committed
  BY <1>1 DEF Committed
<1>7. Committed \subseteq TxIds
  BY DEF Committed
<1>8. /\ kind = "committed" => Lineage' = Lineage \cup {product}
      /\ kind # "committed" => Lineage' = Lineage
  BY <1>4, <1>5, <1>6, <1>7 DEF Lineage
<1>9. resolutions[t] = NoVerdict
  BY <1>1 DEF Turns, TablesAgree
<1>10. UnresolvedReconciliations' =
         IF kind = "reconciliation_required" THEN {t} ELSE {}
  BY <1>1, <1>2, <1>4, <1>9 DEF UnresolvedReconciliations
<1>11. QED BY <1>1, <1>2, <1>3, <1>8, <1>10

LEMMA RefinementInit == Init => PH!Init
BY DEF Init, PH!Init, Committed, ActiveAttempts, UnresolvedReconciliations, AbsentAttempt,
       AbsentOutcome

LEMMA RefinementStep ==
    Turns /\ DetourTypes /\ Authority /\ [Next]_vars => [PH!Next]_(PH!vars)
<1> SUFFICES ASSUME Turns, DetourTypes, Authority, [Next]_vars
             PROVE  [PH!Next]_(PH!vars)
  OBVIOUS
<1> USE NoVerdictAssumption
<1>1. ASSUME UNCHANGED <<head, attempts, resolutions>>,
             \A t \in TxIds : /\ outbox'[t].kind = outbox[t].kind
                              /\ outbox'[t].product = outbox[t].product
      PROVE  UNCHANGED PH!vars
  <2>1. /\ Committed' = Committed /\ ActiveAttempts' = ActiveAttempts /\ Spent' = Spent
        /\ UnresolvedReconciliations' = UnresolvedReconciliations
    BY <1>1 DEF Committed, ActiveAttempts, UnresolvedReconciliations, Spent
  <2>2. Lineage' = Lineage
    BY <1>1, <2>1 DEF Lineage, Committed
  <2>3. QED BY <1>1, <2>1, <2>2 DEF PH!vars, Lineage, Spent
<1>2. ASSUME UNCHANGED turnVars PROVE UNCHANGED PH!vars
  BY <1>1, <1>2 DEF turnVars
<1>3. ASSUME NEW c \in Ckpts, BootstrapProductHead(c) PROVE PH!Create(c)
  BY <1>3 DEF BootstrapProductHead, PH!Create, Committed, ActiveAttempts,
       UnresolvedReconciliations
<1>4. ASSUME NEW t \in TxIds, BeginAttempt(t) PROVE PH!Open(t)
  <2>1. ActiveAttempts' = {t} /\ Spent' = Spent \cup {t} /\ t \notin Spent
    BY <1>4 DEF BeginAttempt, ActiveAttempts, Spent, Turns, TurnTypes
  <2>2. /\ UnresolvedReconciliations' = UnresolvedReconciliations /\ Lineage' = Lineage
    BY <1>4 DEF BeginAttempt, UnresolvedReconciliations, Lineage, Committed
  <2>3. QED BY <1>4, <2>1, <2>2 DEF BeginAttempt, PH!Open, Lineage, Spent
<1>5. ASSUME NEW t \in TxIds, NEW c \in Ckpts, CommitAttempt(t, c) PROVE PH!Accept(t, c)
  <2> DEFINE new == [rev |-> head.rev + 1, thread |-> t, ckpt |-> c]
  <2>1. FinishAttempt(t, "committed", new) /\ "committed" \in Kinds
    BY <1>5 DEF CommitAttempt, Kinds
  <2>2. /\ ActiveAttempts = {t} /\ ActiveAttempts' = {} /\ Spent' = Spent /\ head' = new
        /\ Lineage' = Lineage \cup {new}
        /\ UnresolvedReconciliations' = UnresolvedReconciliations
    BY <2>1, FinishMaps
  <2>3. QED BY <2>2 DEF PH!Accept, Lineage, Spent
<1>6. ASSUME NEW t \in TxIds, AbortAttempt(t) PROVE PH!Drop(t)
  <2>1. FinishAttempt(t, "aborted", head) /\ "aborted" \in Kinds
    BY <1>6 DEF AbortAttempt, Kinds
  <2>2. /\ ActiveAttempts = {t} /\ ActiveAttempts' = {} /\ Spent' = Spent /\ head' = head
        /\ Lineage' = Lineage /\ UnresolvedReconciliations' = UnresolvedReconciliations
    BY <2>1, FinishMaps
  <2>3. QED BY <2>2 DEF PH!Drop, Lineage, Spent
<1>7. ASSUME NEW t \in TxIds, RequireReconciliation(t) PROVE PH!Suspect(t)
  <2>1. FinishAttempt(t, "reconciliation_required", head)
        /\ "reconciliation_required" \in Kinds
    BY <1>7 DEF RequireReconciliation, Kinds
  <2>2. /\ ActiveAttempts = {t} /\ ActiveAttempts' = {} /\ Spent' = Spent /\ head' = head
        /\ Lineage' = Lineage /\ UnresolvedReconciliations' = {t}
    BY <2>1, FinishMaps
  <2>3. QED BY <2>2 DEF PH!Suspect, Lineage, Spent
<1>8. ASSUME NEW t \in UnresolvedReconciliations, NEW v \in Verdicts,
             resolutions' = [resolutions EXCEPT ![t] = v],
             UNCHANGED <<head, attempts, outbox>>
      PROVE  PH!Settle(t)
  <2>1. UnresolvedReconciliations = {t}
    BY <1>8 DEF Authority, OneOpenAuthority
  <2>2. UnresolvedReconciliations' = {}
    BY <1>8, <2>1 DEF UnresolvedReconciliations, Turns, TurnTypes
  <2>3. ActiveAttempts' = ActiveAttempts /\ Lineage' = Lineage /\ Spent' = Spent
    BY <1>8 DEF ActiveAttempts, Lineage, Spent, Committed
  <2>4. QED BY <1>8, <2>1, <2>2, <2>3 DEF PH!Settle, Lineage, Spent
<1>9. CASE TurnNext
  <2>1. ASSUME NEW t \in TxIds, NEW v \in Verdicts, ResolveReconciliation(t, v)
        PROVE  PH!Next
    BY <1>8, <2>1 DEF ResolveReconciliation, PH!Next, UnresolvedReconciliations
  <2>2. ASSUME NEW t \in TxIds, MarkTerminalDelivered(t) PROVE UNCHANGED PH!vars
    BY <1>1, <2>2 DEF MarkTerminalDelivered, Turns, TurnTypes
  <2>3. ASSUME NEW t \in TxIds, NEW p \in Payloads, MarkRuntimeEventPublished(t, p)
        PROVE  UNCHANGED PH!vars
    BY <1>1, <2>3 DEF MarkRuntimeEventPublished, Turns, TurnTypes
  <2>4. ASSUME RequeueRuntimeEvents PROVE UNCHANGED PH!vars
    BY <1>1, <2>4 DEF RequeueRuntimeEvents, Turns, TurnTypes
  <2>5. QED BY <1>3, <1>4, <1>5, <1>6, <1>7, <1>9, <2>1, <2>2, <2>3, <2>4
          DEF TurnNext, PH!Next
<1>10. CASE DetourNext
  <2>1. ASSUME NEW d \in DetourIds, NEW t \in TxIds, NEW v \in Verdicts, NEW m \in Messages,
               ResolveTurnWithDetour(d, t, v, <<m>>)
        PROVE  PH!Next
    BY <1>8, <2>1 DEF ResolveTurnWithDetour, PH!Next, UnresolvedReconciliations
  <2>2. ASSUME NEW d \in DetourIds,
               \/ RequireDetourReconciliation(d) \/ InterruptTermination(d)
               \/ MarkDetourDelivered(d) \/ (\E m \in Messages : RecordStreamChunk(d, m))
               \/ (\E k, e : PrepareDetour(d, k, e))
               \/ (\E r, e, s : CompleteDetour(d, r, e, s))
               \/ (\E g, v, r : ResolveDetourWithDetour(d, g, v, r))
        PROVE  UNCHANGED PH!vars
    BY <1>2, <2>2 DEF turnVars, RequireDetourReconciliation, InterruptTermination,
         MarkDetourDelivered, RecordStreamChunk, PrepareDetour, CompleteDetour,
         ResolveDetourWithDetour
  <2>3. QED BY <1>10, <2>1, <2>2 DEF DetourNext
<1>11. CASE UNCHANGED vars
  BY <1>2, <1>11 DEF vars, turnVars
<1>12. QED BY <1>9, <1>10, <1>11 DEF Next

(* The store's tables implement the abstract Product Head: one line of     *)
(* accepted revisions, one open turn, stopped by an uncertain effect.      *)
THEOREM RefinementTheorem == Spec => ImplementsProductHead
<1> DEFINE Inv == Turns /\ DetourTypes /\ Authority
<1>1. Init => Inv
  BY TurnsInit, DetourTypesInit, AuthorityInit
<1>2. Inv /\ [Next]_vars => Inv'
  BY TurnsStep, DetourTypesStep, AuthorityStep
<1>3. Inv /\ [Next]_vars => [PH!Next]_(PH!vars)
  BY RefinementStep
<1>4. QED BY <1>1, <1>2, <1>3, RefinementInit, PTL DEF Spec, PH!Spec, ImplementsProductHead

-----------------------------------------------------------------------------
(* The head moves only when the active attempt commits, and never while an *)
(* open detour or an unresolved reconciliation stands.                     *)
HeadMove ==
    head # NoHead /\ head' # head =>
      /\ OpenDetours = {} /\ UnresolvedReconciliations = {}
      /\ PendingEvents' = PendingEvents \cup {head'.thread}
      /\ head'.rev = head.rev + 1
      /\ ActiveAttempts = {head'.thread}

LEMMA HeadMoveStep == Turns /\ Authority /\ [Next]_vars => HeadMove
<1> SUFFICES ASSUME Turns, Authority, [Next]_vars, head # NoHead, head' # head
             PROVE  /\ OpenDetours = {} /\ UnresolvedReconciliations = {}
                    /\ PendingEvents' = PendingEvents \cup {head'.thread}
                    /\ head'.rev = head.rev + 1
                    /\ ActiveAttempts = {head'.thread}
  BY DEF HeadMove
<1>1. PICK t \in TxIds, c \in Ckpts : CommitAttempt(t, c)
  <2>1. ~ UNCHANGED vars
    BY DEF vars
  <2>2. ~ DetourNext
    <3>1. \A d \in DetourIds : ~ (\/ RequireDetourReconciliation(d) \/ InterruptTermination(d)
                                 \/ MarkDetourDelivered(d))
      BY DEF RequireDetourReconciliation, InterruptTermination, MarkDetourDelivered
    <3>2. \A d, k, e, m : ~ (PrepareDetour(d, k, e) \/ RecordStreamChunk(d, m))
      BY DEF PrepareDetour, RecordStreamChunk
    <3>3. \A d, r, e, s : ~ CompleteDetour(d, r, e, s)
      BY DEF CompleteDetour
    <3>4. \A d, g, v, r : ~ (\/ ResolveTurnWithDetour(d, g, v, r)
                            \/ ResolveDetourWithDetour(d, g, v, r))
      BY DEF ResolveTurnWithDetour, ResolveDetourWithDetour
    <3>5. QED BY <3>1, <3>2, <3>3, <3>4 DEF DetourNext
  <2>3. TurnNext
    BY <2>1, <2>2 DEF Next
  <2>4. QED BY <2>3 DEF TurnNext, BootstrapProductHead, RequeueRuntimeEvents, BeginAttempt,
          AbortAttempt, RequireReconciliation, FinishAttempt, MarkTerminalDelivered,
          ResolveReconciliation, MarkRuntimeEventPublished
<1> DEFINE new == [rev |-> head.rev + 1, thread |-> t, ckpt |-> c]
<1>2. /\ attempts[t].status = "active"
      /\ outbox' = [outbox EXCEPT ![t] =
            [kind |-> "committed", product |-> new, event |-> "pending",
             payload |-> NoPayload, delivered |-> FALSE]]
      /\ head' = new
  BY <1>1, FinishWrites DEF CommitAttempt, Kinds
<1>3. head'.thread = t /\ head'.rev = head.rev + 1
  BY <1>2
<1>4. ActiveAttempts = {t} /\ UnresolvedReconciliations = {} /\ OpenDetours = {}
  BY <1>2 DEF Authority, OneOpenAuthority, ActiveAttempts
<1>5. PendingEvents' = PendingEvents \cup {t}
  BY <1>2 DEF PendingEvents, Turns, TurnTypes
<1>6. QED BY <1>3, <1>4, <1>5

THEOREM HeadMoveTheorem == Spec => HeadMovesOnlyByCommit
<1> DEFINE Inv == Turns /\ DetourTypes /\ Authority
<1>1. Init => Inv
  BY TurnsInit, DetourTypesInit, AuthorityInit
<1>2. Inv /\ [Next]_vars => Inv'
  BY TurnsStep, DetourTypesStep, AuthorityStep
<1>3. Inv /\ [Next]_vars => HeadMove
  BY HeadMoveStep
<1>4. QED BY <1>1, <1>2, <1>3, PTL DEF Spec, HeadMovesOnlyByCommit, HeadMove

-----------------------------------------------------------------------------
(* A detour keeps the fence it was prepared with, and that fence was the   *)
(* event of the head it observed.                                          *)
LEMMA FenceStep ==
    Turns /\ DetourTypes /\ FenceCoversHead /\ [Next]_vars => FenceCoversHead'
<1> SUFFICES ASSUME Turns, DetourTypes, FenceCoversHead, [Next]_vars,
                    NEW d \in DetourIds
             PROVE  FenceFits(detours[d])'
  BY DEF FenceCoversHead
<1>1. FenceFits(detours[d])
  BY DEF FenceCoversHead
<1>2. ASSUME detours'[d].class = detours[d].class, detours'[d].before = detours[d].before,
             detours'[d].fence = detours[d].fence, detours[d].status # "absent"
      PROVE  FenceFits(detours[d])'
  BY <1>1, <1>2 DEF FenceFits
<1>3. ASSUME detours'[d] = detours[d] PROVE FenceFits(detours[d])'
  BY <1>1, <1>3
<1>4. ASSUME NEW g \in DetourIds, NEW k \in {"command", "session_termination"},
             NEW e \in Effects, PrepareDetour(g, k, e)
      PROVE  FenceFits(detours[d])'
  <2> DEFINE row == [AbsentDetour EXCEPT !.status = "prepared", !.kind = k, !.class = e,
                                         !.before = head, !.fence = PublishedFence]
  <2>1. /\ head = NoHead => PublishedFence = NoFence
        /\ head # NoHead => /\ PublishedFence.seq = head.rev
                            /\ PublishedFence.seq > 0 => PublishedFence.tx = head.thread
    BY <1>4, QuietFence DEF PrepareDetour
  <2>2. row.before = head /\ row.fence = PublishedFence
    BY DEF AbsentDetour
  <2> HIDE DEF row
  <2>3. FenceFits(row)
    BY <2>1, <2>2 DEF FenceFits
  <2>4. detours'[d] = IF d = g THEN row ELSE detours[d]
    BY <1>4 DEF PrepareDetour, DetourTypes, row
  <2>5. QED BY <1>3, <2>3, <2>4
<1>5. ASSUME NEW g \in DetourIds,
             \/ RequireDetourReconciliation(g) \/ InterruptTermination(g)
             \/ MarkDetourDelivered(g) \/ (\E m \in Messages : RecordStreamChunk(g, m))
             \/ (\E r, e, s : CompleteDetour(g, r, e, s))
      PROVE  FenceFits(detours[d])'
  <2>1. CASE d # g
    BY <1>3, <1>5, <2>1 DEF RequireDetourReconciliation, InterruptTermination,
         MarkDetourDelivered, RecordStreamChunk, CompleteDetour, DetourTypes
  <2>2. CASE d = g
    <3>1. detours[d] \in DetourRows
      BY DEF DetourTypes
    <3> DEFINE Kept == /\ detours'[d].class = detours[d].class
                       /\ detours'[d].before = detours[d].before
                       /\ detours'[d].fence = detours[d].fence
                       /\ detours[d].status # "absent"
    <3>2. ASSUME RequireDetourReconciliation(d) \/ InterruptTermination(d)
          PROVE  Kept
      BY <3>1, <3>2 DEF RequireDetourReconciliation, InterruptTermination, DetourTypes,
           DetourRows
    <3>3. ASSUME MarkDetourDelivered(d) PROVE Kept
      BY <3>1, <3>3 DEF MarkDetourDelivered, DetourTypes, DetourRows
    <3>4. ASSUME NEW m \in Messages, RecordStreamChunk(d, m) PROVE Kept
      BY <3>1, <3>4 DEF RecordStreamChunk, DetourTypes, DetourRows
    <3>5. ASSUME NEW r, NEW e, NEW s, CompleteDetour(d, r, e, s) PROVE Kept
      BY <3>1, <3>5 DEF CompleteDetour, DetourTypes, DetourRows
    <3>6. Kept
      BY <1>5, <2>2, <3>2, <3>3, <3>4, <3>5
    <3>7. QED BY <1>2, <3>6
  <2>3. QED BY <2>1, <2>2
<1>6. ASSUME NEW m, NEW v PROVE FenceFits(AuthorityReply(<<m>>, v))
  BY DEF FenceFits, AuthorityReply, AbsentDetour
<1>7. ASSUME NEW g \in DetourIds, NEW t, NEW v, NEW m, ResolveTurnWithDetour(g, t, v, <<m>>)
      PROVE  FenceFits(detours[d])'
  <2>1. detours'[d] = IF d = g THEN AuthorityReply(<<m>>, v) ELSE detours[d]
    BY <1>7 DEF ResolveTurnWithDetour, DetourTypes
  <2>2. QED BY <1>3, <1>6, <2>1
<1>8. ASSUME NEW g \in DetourIds, NEW x \in DetourIds, NEW v, NEW m,
             ResolveDetourWithDetour(g, x, v, <<m>>)
      PROVE  FenceFits(detours[d])'
  <2>1. detours[g].status = "absent" /\ detours[x].status = "reconciliation_required"
    BY <1>8 DEF ResolveDetourWithDetour, UnresolvedDetours
  <2>2. CASE d = g
    BY <1>6, <1>8, <2>1, <2>2 DEF ResolveDetourWithDetour, DetourTypes
  <2>3. CASE d = x
    <3>1. detours[d] \in DetourRows /\ d # g
      BY <2>1, <2>3 DEF DetourTypes
    <3>2. /\ detours'[d].class = detours[d].class /\ detours'[d].before = detours[d].before
          /\ detours'[d].fence = detours[d].fence /\ detours[d].status # "absent"
      BY <1>8, <2>1, <2>3, <3>1 DEF ResolveDetourWithDetour, DetourTypes, DetourRows
    <3>3. QED BY <1>2, <3>2
  <2>4. CASE d # g /\ d # x
    BY <1>3, <1>8, <2>4 DEF ResolveDetourWithDetour, DetourTypes
  <2>5. QED BY <2>2, <2>3, <2>4
<1>9. CASE DetourNext
  BY <1>4, <1>5, <1>7, <1>8, <1>9 DEF DetourNext
<1>10. CASE TurnNext
  BY <1>3, <1>10 DEF TurnNext, BootstrapProductHead, RequeueRuntimeEvents, BeginAttempt,
       AbortAttempt, RequireReconciliation, CommitAttempt, FinishAttempt,
       MarkTerminalDelivered, ResolveReconciliation, MarkRuntimeEventPublished
<1>11. CASE UNCHANGED vars
  BY <1>3, <1>11 DEF vars
<1>12. QED BY <1>9, <1>10, <1>11 DEF Next

(* Every detour but an authority reply carries the publication fence of    *)
(* the head it observed, however long it stays open or requeued.           *)
THEOREM FenceTheorem == Spec => []FenceCoversHead
<1> DEFINE Inv == Turns /\ DetourTypes /\ FenceCoversHead
<1>1. Init => FenceCoversHead
  BY DEF Init, FenceCoversHead, FenceFits, AbsentDetour
<1>2. Init => Inv
  BY <1>1, TurnsInit, DetourTypesInit
<1>3. Inv /\ [Next]_vars => Inv'
  BY TurnsStep, DetourTypesStep, FenceStep
<1>4. QED BY <1>2, <1>3, PTL DEF Spec

-----------------------------------------------------------------------------
(* Rows stay readable: first the outcomes, which detours never touch.      *)
OutcomesRead == \A t \in TxIds : outbox[t].kind # "none" => OutcomeReads(t)

LEMMA OutcomesReadStep == Turns /\ OutcomesRead /\ [Next]_vars => OutcomesRead'
<1> SUFFICES ASSUME Turns, OutcomesRead, [Next]_vars, NEW t \in TxIds,
                    outbox'[t].kind # "none"
             PROVE  OutcomeReads(t)'
  BY DEF OutcomesRead
<1> USE NoPayloadAssumption
<1>1. outbox[t].kind # "none" => OutcomeReads(t)
  BY DEF OutcomesRead
<1>2. outbox[t] \in OutboxRows
  BY DEF Turns, TurnTypes, OutboxRows
<1>3. ASSUME outbox'[t] = outbox[t], attempts'[t].base = attempts[t].base
      PROVE  OutcomeReads(t)'
  BY <1>1, <1>3 DEF OutcomeReads
<1>4. ASSUME NEW u \in TxIds, NEW kind \in Kinds, NEW product, FinishAttempt(u, kind, product),
             \/ kind # "committed" /\ product = head
             \/ /\ kind = "committed"
                /\ product.rev = head.rev + 1 /\ product.thread = u
      PROVE  OutcomeReads(t)'
  <2>1. /\ attempts' = [attempts EXCEPT ![u] = [status |-> kind, base |-> head]]
        /\ outbox' = [outbox EXCEPT ![u] =
              [kind |-> kind, product |-> product,
               event |-> IF kind = "committed" THEN "pending" ELSE "not_applicable",
               payload |-> NoPayload, delivered |-> FALSE]]
    BY <1>4, FinishWrites
  <2>2. CASE t # u
    BY <1>3, <2>1, <2>2 DEF Turns, TurnTypes
  <2>3. CASE t = u
    <3>1. /\ attempts'[t].base = head /\ outbox'[t].kind = kind
          /\ outbox'[t].product = product /\ outbox'[t].payload = NoPayload
          /\ outbox'[t].event = IF kind = "committed" THEN "pending" ELSE "not_applicable"
      BY <2>1, <2>3 DEF Turns, TurnTypes
    <3>2. QED BY <1>4, <2>3, <3>1 DEF OutcomeReads
  <2>4. QED BY <2>2, <2>3
<1>5. ASSUME NEW u \in TxIds, NEW c \in Ckpts, CommitAttempt(u, c) PROVE OutcomeReads(t)'
  BY <1>4, <1>5 DEF CommitAttempt, Kinds
<1>6. ASSUME NEW u \in TxIds, AbortAttempt(u) \/ RequireReconciliation(u)
      PROVE  OutcomeReads(t)'
  BY <1>4, <1>6 DEF AbortAttempt, RequireReconciliation, Kinds
<1>7. ASSUME NEW u \in TxIds, BeginAttempt(u) PROVE OutcomeReads(t)'
  <2>1. t # u
    BY <1>7 DEF BeginAttempt, Turns, TablesAgree
  <2>2. QED BY <1>3, <1>7, <2>1 DEF BeginAttempt, Turns, TurnTypes
<1>8. ASSUME NEW u \in TxIds, MarkTerminalDelivered(u) PROVE OutcomeReads(t)'
  <2>1. outbox'[t] = outbox[t] \/ outbox'[t] = [outbox[t] EXCEPT !.delivered = TRUE]
    BY <1>8 DEF MarkTerminalDelivered, Turns, TurnTypes
  <2>2. /\ outbox'[t].kind = outbox[t].kind /\ outbox'[t].product = outbox[t].product
        /\ outbox'[t].event = outbox[t].event /\ outbox'[t].payload = outbox[t].payload
    BY <1>2, <2>1 DEF OutboxRows
  <2>3. QED BY <1>1, <1>8, <2>2 DEF OutcomeReads, MarkTerminalDelivered
<1>9. ASSUME NEW u \in TxIds, NEW p \in Payloads, MarkRuntimeEventPublished(u, p)
      PROVE  OutcomeReads(t)'
  <2>1. CASE t # u
    BY <1>3, <1>9, <2>1 DEF MarkRuntimeEventPublished, Turns, TurnTypes
  <2>2. CASE t = u
    <3>1. /\ outbox'[t].kind = "committed" /\ outbox'[t].product = outbox[t].product
          /\ outbox'[t].event = "published" /\ outbox'[t].payload = p
          /\ outbox[t].kind = "committed"
      BY <1>2, <1>9, <2>2 DEF MarkRuntimeEventPublished, Committed, OutboxRows, Turns, TurnTypes
    <3>2. QED BY <1>1, <1>9, <3>1 DEF OutcomeReads, MarkRuntimeEventPublished
  <2>3. QED BY <2>1, <2>2
<1>10. ASSUME RequeueRuntimeEvents PROVE OutcomeReads(t)'
  <2>1. CASE t \notin Committed
    BY <1>3, <1>10, <2>1 DEF RequeueRuntimeEvents
  <2>2. CASE t \in Committed
    <3>1. /\ outbox'[t].kind = "committed" /\ outbox'[t].product = outbox[t].product
          /\ outbox'[t].event = "pending" /\ outbox'[t].payload = NoPayload
          /\ outbox[t].kind = "committed"
      BY <1>2, <1>10, <2>2 DEF RequeueRuntimeEvents, Committed, OutboxRows
    <3>2. QED BY <1>1, <1>10, <3>1 DEF OutcomeReads, RequeueRuntimeEvents
  <2>3. QED BY <2>1, <2>2
<1>11. CASE TurnNext
  BY <1>3, <1>5, <1>6, <1>7, <1>8, <1>9, <1>10, <1>11
  DEF TurnNext, BootstrapProductHead, ResolveReconciliation
<1>12. CASE DetourNext
  <2>1. ASSUME NEW d, NEW u, NEW v, NEW r, ResolveTurnWithDetour(d, u, v, r)
        PROVE  OutcomeReads(t)'
    BY <1>3, <2>1 DEF ResolveTurnWithDetour
  <2>2. ASSUME NEW d, \/ RequireDetourReconciliation(d) \/ InterruptTermination(d)
                      \/ MarkDetourDelivered(d)
        PROVE  OutcomeReads(t)'
    BY <1>3, <2>2 DEF RequireDetourReconciliation, InterruptTermination, MarkDetourDelivered
  <2>3. ASSUME NEW d, NEW k, NEW e, PrepareDetour(d, k, e) PROVE OutcomeReads(t)'
    BY <1>3, <2>3 DEF PrepareDetour
  <2>4. ASSUME NEW d, NEW m, RecordStreamChunk(d, m) PROVE OutcomeReads(t)'
    BY <1>3, <2>4 DEF RecordStreamChunk
  <2>5. ASSUME NEW d, NEW r, NEW e, NEW s, CompleteDetour(d, r, e, s) PROVE OutcomeReads(t)'
    BY <1>3, <2>5 DEF CompleteDetour
  <2>6. ASSUME NEW d, NEW g, NEW v, NEW r, ResolveDetourWithDetour(d, g, v, r)
        PROVE  OutcomeReads(t)'
    BY <1>3, <2>6 DEF ResolveDetourWithDetour
  <2>7. QED BY <1>12, <2>1, <2>2, <2>3, <2>4, <2>5, <2>6 DEF DetourNext
<1>13. CASE UNCHANGED vars
  BY <1>3, <1>13 DEF vars
<1>14. QED BY <1>11, <1>12, <1>13 DEF Next

(* A fence taken with nothing pending names a published event.             *)
LEMMA FenceIsPublished ==
    ASSUME Turns, OutcomesRead, PendingEvents = {}
    PROVE  \/ PublishedFence = NoFence
           \/ /\ PublishedFence.seq > 0 /\ PublishedFence.tx \in TxIds
              /\ PublishedFence.payload \in Payloads
<1>1. CASE PublishedFence = NoFence
  BY <1>1
<1>2. CASE PublishedFence # NoFence
  <2>1. PICK t \in PublishedEvents :
           PublishedFence = [seq |-> outbox[t].product.rev, tx |-> t,
                             payload |-> outbox[t].payload]
    BY <1>2, QuietFence
  <2>2. t \in TxIds /\ outbox[t] \in OutboxRows
    BY DEF Turns, TurnTypes, OutboxRows, PublishedEvents
  <2>3. outbox[t].kind = "committed" /\ outbox[t].event = "published"
    BY DEF Turns, TablesAgree, PublishedEvents
  <2>4. outbox[t].payload \in Payloads
    BY <2>2, <2>3 DEF OutcomesRead, OutcomeReads, OutboxRows
  <2>5. attempts[t].base \in Heads /\ outbox[t].product.rev = attempts[t].base.rev + 1
    BY <2>2, <2>3 DEF Turns, TurnTypes, CommitsFormOneChain, Committed, MaybeHead
  <2>6. outbox[t].product.rev > 0
    BY <2>5 DEF Heads
  <2>7. QED BY <2>1, <2>2, <2>4, <2>6
<1>3. QED BY <1>1, <1>2

DetoursRead == \A d \in DetourIds :
                   detours[d].status # "absent" => DetourReads(detours[d])

(* What each operation leaves in the one row it changes.                   *)
LEMMA PreparedReads ==
    ASSUME Turns, OutcomesRead, PendingEvents = {},
           NEW k \in {"command", "session_termination"}, NEW e \in Effects
    PROVE  DetourReads([AbsentDetour EXCEPT !.status = "prepared", !.kind = k, !.class = e,
                                            !.before = head, !.fence = PublishedFence])
<1> DEFINE row == [AbsentDetour EXCEPT !.status = "prepared", !.kind = k, !.class = e,
                                       !.before = head, !.fence = PublishedFence]
<1>1. /\ row.status = "prepared" /\ row.class = e /\ row.fence = PublishedFence
      /\ row.interrupted = FALSE /\ row.after = NoHead /\ row.response = <<>>
      /\ row.chunks = <<>> /\ row.effect = "not_applicable"
      /\ row.stop = "not_streaming" /\ row.verdict = NoVerdict /\ row.delivered = FALSE
  BY DEF AbsentDetour
<1>2. e # "authority_resolution"
  BY EffectsAssumption DEF PreparableEffects, PlainEffects
<1>3. FenceReads(row)
  BY <1>1, FenceIsPublished DEF FenceReads, NoFence
<1> HIDE DEF row
<1>4. StreamReads(row) /\ ResolutionReads(row) /\ StatusReads(row)
  BY <1>1, <1>2 DEF StreamReads, ResolutionReads, StatusReads
<1>5. DetourReads(row)
  BY <1>1, <1>3, <1>4 DEF DetourReads
<1>6. QED BY <1>5 DEF row

(* A prepared row completed within the stream rules reads back.           *)
LEMMA CompletedReads ==
    ASSUME NEW row \in DetourRows, DetourReads(row), row.status = "prepared",
           NEW r \in Seq(Messages), r # <<>>, NEW s,
           NEW e \in {"not_applicable", "succeeded", "failed"},
           CompletionFits(row, r, e, s)
    PROVE  DetourReads([row EXCEPT !.status = "completed", !.after = row.before,
                                   !.response = r, !.effect = e, !.stop = s])
<1> DEFINE new == [row EXCEPT !.status = "completed", !.after = row.before,
                              !.response = r, !.effect = e, !.stop = s]
<1>1. /\ new.status = "completed" /\ new.after = new.before /\ new.response = r
      /\ new.effect = e /\ new.stop = s
      /\ new.kind = row.kind /\ new.interrupted = row.interrupted
      /\ new.class = row.class /\ new.verdict = row.verdict
      /\ new.fence = row.fence /\ new.chunks = row.chunks
  BY DEF DetourRows
<1> HIDE DEF new
<1>2. /\ row.verdict = NoVerdict /\ row.class # "authority_resolution" /\ FenceReads(row)
      /\ row.class # "streaming_observation" => row.chunks = <<>>
      /\ row.kind = "session_termination" => ~row.interrupted
  BY DEF DetourReads, StatusReads, ResolutionReads, StreamReads
<1>3. StatusReads(new) /\ ResolutionReads(new) /\ FenceReads(new)
  BY <1>1, <1>2 DEF StatusReads, ResolutionReads, FenceReads
<1>4. Len(row.chunks) \in Nat /\ Len(r) \in Nat
  BY DEF DetourRows
<1>5. StreamReads(new)
  <2>1. CASE row.class = "streaming_observation"
    <3>1. /\ Len(r) >= Len(row.chunks) /\ SubSeq(r, 1, Len(row.chunks)) = row.chunks
          /\ e = "succeeded" => s \in FinishedStream
          /\ e = "failed" => s \in BrokenStream
      BY <2>1 DEF CompletionFits
    <3>2. Len(new.chunks) =< Len(new.response)
      BY <1>1, <1>4, <3>1
    <3>3. QED BY <1>1, <2>1, <3>1, <3>2 DEF StreamReads
  <2>2. CASE row.class # "streaming_observation"
    BY <1>1, <1>2, <2>2 DEF StreamReads, CompletionFits
  <2>3. QED BY <2>1, <2>2
<1>6. DetourReads(new)
  BY <1>1, <1>2, <1>3, <1>5 DEF DetourReads
<1>7. QED BY <1>6 DEF new

(* No operation leaves a detour row, its own or another, unreadable.       *)
LEMMA DetoursReadStep ==
    Turns /\ DetourTypes /\ OutcomesRead /\ DetoursRead /\ [Next]_vars => DetoursRead'
<1> SUFFICES ASSUME Turns, DetourTypes, OutcomesRead, DetoursRead, [Next]_vars,
                    NEW d \in DetourIds, detours'[d].status # "absent"
             PROVE  DetourReads(detours'[d])
  BY DEF DetoursRead, DetourReads, StreamReads, ResolutionReads, StatusReads, FenceReads
<1> USE NoVerdictAssumption
<1>1. ASSUME detours'[d] = detours[d] PROVE DetourReads(detours'[d])
  BY <1>1 DEF DetoursRead
<1>2. detours[d] \in DetourRows /\ detours \in [DetourIds -> DetourRows]
  BY DEF DetourTypes
<1>3. detours[d].status # "absent" => DetourReads(detours[d])
  BY DEF DetoursRead
<1>4. ASSUME NEW g \in DetourIds, NEW row, detours' = [detours EXCEPT ![g] = row],
             g = d => DetourReads(row)
      PROVE  DetourReads(detours'[d])
  <2>1. detours'[d] = IF d = g THEN row ELSE detours[d]
    BY <1>2, <1>4
  <2>2. QED BY <1>1, <1>4, <2>1
<1>5. ASSUME NEW g \in DetourIds, NEW k \in {"command", "session_termination"},
             NEW e \in Effects, PrepareDetour(g, k, e)
      PROVE  DetourReads(detours'[d])
  BY <1>4, <1>5, PreparedReads DEF PrepareDetour
<1>6. ASSUME NEW g \in DetourIds, NEW m \in Messages, RecordStreamChunk(g, m)
      PROVE  DetourReads(detours'[d])
  <2> DEFINE row == [detours[g] EXCEPT !.chunks = Append(detours[g].chunks, m)]
  <2>1. ASSUME g = d PROVE DetourReads(row)
    <3>1. detours[d].status = "prepared" /\ detours[d].class = "streaming_observation"
      BY <1>6, <2>1 DEF RecordStreamChunk
    <3>2. /\ row.status = "prepared" /\ row.class = "streaming_observation"
          /\ row.kind = detours[d].kind /\ row.interrupted = detours[d].interrupted
          /\ row.after = detours[d].after /\ row.response = detours[d].response
          /\ row.fence = detours[d].fence /\ row.effect = detours[d].effect
          /\ row.stop = detours[d].stop /\ row.verdict = detours[d].verdict
          /\ row.delivered = detours[d].delivered
      BY <1>2, <2>1, <3>1 DEF DetourRows
    <3> HIDE DEF row
    <3>3. QED BY <1>3, <3>1, <3>2
          DEF DetourReads, StreamReads, ResolutionReads, StatusReads, FenceReads
  <2>2. detours' = [detours EXCEPT ![g] = row]
    BY <1>6 DEF RecordStreamChunk
  <2> HIDE DEF row
  <2>3. QED BY <1>4, <2>1, <2>2
<1>7. ASSUME NEW g \in DetourIds, NEW r \in Texts(MaxChunks + 1), NEW s \in StopReasons,
             NEW e \in {"not_applicable", "succeeded", "failed"}, CompleteDetour(g, r, e, s)
      PROVE  DetourReads(detours'[d])
  <2>1. r \in Seq(Messages)
    BY TextsAreSequences, MaxChunksAssumption
  <2> DEFINE row == [detours[g] EXCEPT !.status = "completed", !.after = detours[g].before,
                                       !.response = r, !.effect = e, !.stop = s]
  <2>2. ASSUME g = d PROVE DetourReads(row)
    BY ZenonT(60), <1>2, <1>3, <1>7, <2>1, <2>2, CompletedReads DEF CompleteDetour
  <2>3. detours' = [detours EXCEPT ![g] = row]
    BY <1>7 DEF CompleteDetour
  <2> HIDE DEF row
  <2>4. QED BY <1>4, <2>2, <2>3
<1>8. ASSUME NEW g \in DetourIds, RequireDetourReconciliation(g)
      PROVE  DetourReads(detours'[d])
  <2> DEFINE row == [detours[g] EXCEPT !.status = "reconciliation_required",
                                       !.effect = "uncertain"]
  <2>1. ASSUME g = d PROVE DetourReads(row)
    <3>1. detours[d].status = "prepared" /\ detours[d].class = "local_external_effect"
      BY <1>8, <2>1 DEF RequireDetourReconciliation
    <3>2. /\ row.status = "reconciliation_required" /\ row.class = detours[d].class
          /\ row.kind = detours[d].kind /\ row.interrupted = detours[d].interrupted
          /\ row.after = detours[d].after /\ row.response = detours[d].response
          /\ row.fence = detours[d].fence /\ row.effect = "uncertain"
          /\ row.stop = detours[d].stop /\ row.verdict = detours[d].verdict
          /\ row.delivered = detours[d].delivered /\ row.chunks = detours[d].chunks
      BY <1>2, <2>1, <3>1 DEF DetourRows
    <3> HIDE DEF row
    <3>3. QED BY <1>3, <3>1, <3>2
          DEF DetourReads, StreamReads, ResolutionReads, StatusReads, FenceReads
  <2>2. detours' = [detours EXCEPT ![g] = row]
    BY <1>8 DEF RequireDetourReconciliation
  <2> HIDE DEF row
  <2>3. QED BY <1>4, <2>1, <2>2
<1>9. ASSUME NEW g \in DetourIds, InterruptTermination(g) PROVE DetourReads(detours'[d])
  <2> DEFINE row == [detours[g] EXCEPT !.kind = "command", !.interrupted = TRUE]
  <2>1. ASSUME g = d PROVE DetourReads(row)
    <3>1. /\ row.status = detours[d].status /\ row.class = detours[d].class
          /\ row.kind = "command" /\ row.effect = detours[d].effect
          /\ row.before = detours[d].before
          /\ row.after = detours[d].after /\ row.response = detours[d].response
          /\ row.fence = detours[d].fence /\ row.chunks = detours[d].chunks
          /\ row.stop = detours[d].stop /\ row.verdict = detours[d].verdict
          /\ row.delivered = detours[d].delivered
          /\ detours[d].status = "prepared"
      BY <1>2, <1>9, <2>1 DEF DetourRows, InterruptTermination
    <3> HIDE DEF row
    <3>2. QED BY <1>3, <3>1
          DEF DetourReads, StreamReads, ResolutionReads, StatusReads, FenceReads
  <2>2. detours' = [detours EXCEPT ![g] = row]
    BY <1>9 DEF InterruptTermination
  <2> HIDE DEF row
  <2>3. QED BY <1>4, <2>1, <2>2
<1>10. ASSUME NEW g \in DetourIds, MarkDetourDelivered(g) PROVE DetourReads(detours'[d])
  <2> DEFINE row == [detours[g] EXCEPT !.delivered = TRUE]
  <2>1. ASSUME g = d PROVE DetourReads(row)
    <3>1. /\ row.status = "completed" /\ row.class = detours[d].class
          /\ row.kind = detours[d].kind /\ row.interrupted = detours[d].interrupted
          /\ row.before = detours[d].before
          /\ row.after = detours[d].after /\ row.response = detours[d].response
          /\ row.fence = detours[d].fence /\ row.chunks = detours[d].chunks
          /\ row.stop = detours[d].stop /\ row.verdict = detours[d].verdict
          /\ row.effect = detours[d].effect /\ detours[d].status = "completed"
      BY <1>2, <1>10, <2>1 DEF DetourRows, MarkDetourDelivered
    <3> HIDE DEF row
    <3>2. QED BY <1>3, <3>1
          DEF DetourReads, StreamReads, ResolutionReads, StatusReads, FenceReads
  <2>2. detours' = [detours EXCEPT ![g] = row]
    BY <1>10 DEF MarkDetourDelivered
  <2> HIDE DEF row
  <2>3. QED BY <1>4, <2>1, <2>2
<1>11. ASSUME NEW m \in Messages, NEW v \in Verdicts
       PROVE  DetourReads(AuthorityReply(<<m>>, v))
  <2> DEFINE row == AuthorityReply(<<m>>, v)
  <2>1. /\ row.status = "completed" /\ row.class = "authority_resolution"
        /\ row.kind = "command" /\ row.before = row.after /\ row.fence = NoFence
        /\ row.response = <<m>> /\ row.chunks = <<>> /\ row.stop = "not_streaming"
        /\ row.verdict = v /\ row.effect = "not_applicable"
    BY DEF AuthorityReply, AbsentDetour
  <2>2. v # NoVerdict /\ <<m>> # <<>> /\ row.fence.seq = 0
    BY <2>1 DEF NoFence
  <2> HIDE DEF row
  <2>3. DetourReads(row)
    BY <2>1, <2>2 DEF DetourReads, StreamReads, ResolutionReads, StatusReads, FenceReads
  <2>4. QED BY <2>3 DEF row
<1>12. ASSUME NEW g \in DetourIds, NEW t \in TxIds, NEW v \in Verdicts, NEW m \in Messages,
              ResolveTurnWithDetour(g, t, v, <<m>>)
       PROVE  DetourReads(detours'[d])
  BY <1>4, <1>11, <1>12 DEF ResolveTurnWithDetour
<1>13. ASSUME NEW x \in DetourIds, NEW v \in Verdicts, x = d,
              detours[x].status = "reconciliation_required"
       PROVE  DetourReads([detours[x] EXCEPT
                       !.status = "completed", !.after = detours[x].before,
                       !.response = <<>>, !.delivered = TRUE, !.verdict = v,
                       !.effect = IF v = "effect_confirmed" THEN "succeeded" ELSE "failed"])
  <2> DEFINE row == [detours[x] EXCEPT
                       !.status = "completed", !.after = detours[x].before,
                       !.response = <<>>, !.delivered = TRUE, !.verdict = v,
                       !.effect = IF v = "effect_confirmed" THEN "succeeded" ELSE "failed"]
  <2>1. /\ row.status = "completed" /\ row.class = detours[d].class
        /\ row.kind = detours[d].kind /\ row.interrupted = detours[d].interrupted
        /\ row.before = detours[d].before /\ row.after = detours[d].before
        /\ row.response = <<>> /\ row.fence = detours[d].fence
        /\ row.chunks = detours[d].chunks /\ row.stop = detours[d].stop
        /\ row.verdict = v
        /\ row.effect = IF v = "effect_confirmed" THEN "succeeded" ELSE "failed"
    BY <1>2, <1>13 DEF DetourRows
  <2>2. DetourReads(detours[d]) /\ detours[d].class = "local_external_effect"
    BY <1>3, <1>13 DEF DetourReads, StatusReads
  <2>3. /\ row.chunks = <<>> /\ row.stop = "not_streaming" /\ FenceReads(row)
        /\ row.kind = "session_termination" => ~row.interrupted
    BY <2>1, <2>2 DEF DetourReads, StreamReads, FenceReads
  <2> HIDE DEF row
  <2>4. DetourReads(row)
    BY <2>1, <2>2, <2>3 DEF DetourReads, StreamReads, ResolutionReads, StatusReads
  <2>5. QED BY <2>4 DEF row
<1>14. ASSUME NEW g \in DetourIds, NEW x \in DetourIds, NEW v \in Verdicts,
              NEW m \in Messages, ResolveDetourWithDetour(g, x, v, <<m>>)
       PROVE  DetourReads(detours'[d])
  <2> DEFINE settled == [detours[x] EXCEPT
                       !.status = "completed", !.after = detours[x].before,
                       !.response = <<>>, !.delivered = TRUE, !.verdict = v,
                       !.effect = IF v = "effect_confirmed" THEN "succeeded" ELSE "failed"]
  <2>1. detours' = [detours EXCEPT ![x] = settled, ![g] = AuthorityReply(<<m>>, v)]
    BY <1>14 DEF ResolveDetourWithDetour
  <2>2. x = d => DetourReads(settled)
    BY <1>13, <1>14 DEF ResolveDetourWithDetour, UnresolvedDetours
  <2> HIDE DEF settled
  <2>3. detours'[d] = IF d = g THEN AuthorityReply(<<m>>, v)
                      ELSE IF d = x THEN settled ELSE detours[d]
    BY <1>2, <2>1
  <2>4. QED BY <1>1, <1>11, <2>2, <2>3
<1>15. CASE DetourNext
  BY <1>5, <1>6, <1>7, <1>8, <1>9, <1>10, <1>12, <1>14, <1>15 DEF DetourNext
<1>16. CASE TurnNext
  BY <1>1, <1>16 DEF TurnNext, BootstrapProductHead, RequeueRuntimeEvents, BeginAttempt,
       AbortAttempt, RequireReconciliation, CommitAttempt, FinishAttempt,
       MarkTerminalDelivered, ResolveReconciliation, MarkRuntimeEventPublished
<1>17. CASE UNCHANGED vars
  BY <1>1, <1>17 DEF vars
<1>18. QED BY <1>15, <1>16, <1>17 DEF Next

(* No sequence of operations leaves a row that the next read of it would   *)
(* refuse, for any number of turns and detours and streams of any length.  *)
THEOREM ReadableTheorem == Spec => []RowsStayReadable
<1> DEFINE Inv == Turns /\ DetourTypes /\ OutcomesRead /\ DetoursRead
<1>1. Init => OutcomesRead /\ DetoursRead
  BY DEF Init, OutcomesRead, DetoursRead, AbsentOutcome, AbsentDetour
<1>2. Init => Inv
  BY <1>1, TurnsInit, DetourTypesInit
<1>3. Inv /\ [Next]_vars => Inv'
  BY TurnsStep, DetourTypesStep, OutcomesReadStep, DetoursReadStep
<1>4. Inv => RowsStayReadable
  BY DEF OutcomesRead, DetoursRead, RowsStayReadable
<1>5. QED BY <1>2, <1>3, <1>4, PTL DEF Spec

(* A completed stream replays what it showed: a stream by the rules above, *)
(* any other detour because it never records a chunk.                      *)
THEOREM StreamsTheorem == Spec => []StreamsAreReplayable
<1>1. DetourTypes /\ RowsStayReadable => StreamsAreReplayable
  <2> SUFFICES ASSUME DetourTypes, RowsStayReadable, NEW d \in DetourIds,
                      detours[d].status = "completed"
               PROVE  /\ Len(detours[d].chunks) =< Len(detours[d].response)
                      /\ SubSeq(detours[d].response, 1, Len(detours[d].chunks))
                            = detours[d].chunks
    BY DEF StreamsAreReplayable
  <2>1. StreamReads(detours[d])
    BY DEF RowsStayReadable, DetourReads
  <2>2. CASE detours[d].class = "streaming_observation"
    BY <2>1, <2>2 DEF StreamReads
  <2>3. CASE detours[d].class # "streaming_observation"
    <3>1. detours[d].chunks = <<>> /\ Len(detours[d].chunks) = 0
      BY <2>1, <2>3 DEF StreamReads
    <3>2. detours[d].response \in Seq(Messages)
      BY DEF DetourTypes, DetourRows
    <3>3. SubSeq(detours[d].response, 1, 0) = <<>> /\ Len(detours[d].response) >= 0
      BY <3>2
    <3>4. QED BY <3>1, <3>3
  <2>4. QED BY <2>2, <2>3
<1>2. TypeOK => DetourTypes
  BY DEF TypeOK, DetourTypes
<1>3. QED BY <1>1, <1>2, TypeTheorem, ReadableTheorem, PTL
-----------------------------------------------------------------------------
(* Replies are counted against what they answer.  The counted sets start   *)
(* empty and a step adds at most one element to each, so they are finite   *)
(* whatever the sets of transactions and detours are; a row that is not    *)
(* completed has no verdict, so no operation takes an answer away.         *)
Replies(v) == {d \in DetourIds : /\ detours[d].class = "authority_resolution"
                                 /\ detours[d].verdict = v}
AnsweredTurns(v) == {t \in TxIds : resolutions[t] = v}
AnsweredDetours(v) == {d \in DetourIds : /\ detours[d].class = "local_external_effect"
                                         /\ detours[d].verdict = v}

Matched(v) ==
    /\ IsFiniteSet(Replies(v)) /\ IsFiniteSet(AnsweredTurns(v))
    /\ IsFiniteSet(AnsweredDetours(v))
    /\ Cardinality(Replies(v))
         =< Cardinality(AnsweredTurns(v)) + Cardinality(AnsweredDetours(v))
RepliesMatched == \A v \in Verdicts : Matched(v)
AbsentUnanswered ==
    \A d \in DetourIds : detours[d].status = "absent" => detours[d].verdict = NoVerdict

(* A finite set that gains at most one element.                            *)
LEMMA OneMore ==
    ASSUME NEW S, IsFiniteSet(S), NEW e, NEW S2, S2 \in {S, S \cup {e}}
    PROVE  /\ IsFiniteSet(S2) /\ Cardinality(S) \in Nat /\ Cardinality(S2) \in Nat
           /\ Cardinality(S) =< Cardinality(S2) /\ Cardinality(S2) =< Cardinality(S) + 1
           /\ e \notin S /\ S2 = S \cup {e} => Cardinality(S2) = Cardinality(S) + 1
<1>1. Cardinality(S) \in Nat
  BY FS_CardinalityType
<1>2. /\ IsFiniteSet(S \cup {e})
      /\ Cardinality(S \cup {e}) = IF e \in S THEN Cardinality(S) ELSE Cardinality(S) + 1
  BY FS_AddElement
<1>3. CASE S2 = S
  BY <1>1, <1>2, <1>3
<1>4. CASE S2 = S \cup {e}
  BY <1>1, <1>2, <1>4
<1>5. QED BY <1>3, <1>4

(* Nothing is lost and a reply comes only with an answer of its own.       *)
LEMMA OneReplyOneAnswer ==
    ASSUME NEW v, Matched(v), NEW d, NEW x,
           \/ Replies(v)' = Replies(v)
           \/ /\ Replies(v)' = Replies(v) \cup {d}
              /\ \/ x \notin AnsweredTurns(v) /\ AnsweredTurns(v)' = AnsweredTurns(v) \cup {x}
                 \/ x \notin AnsweredDetours(v)
                    /\ AnsweredDetours(v)' = AnsweredDetours(v) \cup {x},
           AnsweredTurns(v)' \in {AnsweredTurns(v), AnsweredTurns(v) \cup {x}},
           AnsweredDetours(v)' \in {AnsweredDetours(v), AnsweredDetours(v) \cup {x}}
    PROVE  Matched(v)'
<1>1. Matched(v)
  OBVIOUS
<1>2. Replies(v)' \in {Replies(v), Replies(v) \cup {d}}
  OBVIOUS
<1>3. /\ IsFiniteSet(Replies(v)') /\ Cardinality(Replies(v)) \in Nat
      /\ Cardinality(Replies(v)') \in Nat
      /\ Cardinality(Replies(v)') =< Cardinality(Replies(v)) + 1
  BY <1>1, <1>2, OneMore DEF Matched
<1>4. /\ IsFiniteSet(AnsweredTurns(v)') /\ Cardinality(AnsweredTurns(v)) \in Nat
      /\ Cardinality(AnsweredTurns(v)') \in Nat
      /\ Cardinality(AnsweredTurns(v)) =< Cardinality(AnsweredTurns(v)')
      /\ x \notin AnsweredTurns(v) /\ AnsweredTurns(v)' = AnsweredTurns(v) \cup {x} =>
            Cardinality(AnsweredTurns(v)') = Cardinality(AnsweredTurns(v)) + 1
  BY <1>1, OneMore DEF Matched
<1>5. /\ IsFiniteSet(AnsweredDetours(v)') /\ Cardinality(AnsweredDetours(v)) \in Nat
      /\ Cardinality(AnsweredDetours(v)') \in Nat
      /\ Cardinality(AnsweredDetours(v)) =< Cardinality(AnsweredDetours(v)')
      /\ x \notin AnsweredDetours(v) /\ AnsweredDetours(v)' = AnsweredDetours(v) \cup {x} =>
            Cardinality(AnsweredDetours(v)') = Cardinality(AnsweredDetours(v)) + 1
  BY <1>1, OneMore DEF Matched
<1>6. Cardinality(Replies(v))
        =< Cardinality(AnsweredTurns(v)) + Cardinality(AnsweredDetours(v))
  BY <1>1 DEF Matched
<1>7. Cardinality(Replies(v)')
        =< Cardinality(AnsweredTurns(v)') + Cardinality(AnsweredDetours(v)')
  <2>1. CASE Replies(v)' = Replies(v)
    BY <1>3, <1>4, <1>5, <1>6, <2>1
  <2>2. CASE x \notin AnsweredTurns(v) /\ AnsweredTurns(v)' = AnsweredTurns(v) \cup {x}
    BY <1>3, <1>4, <1>5, <1>6, <2>2
  <2>3. CASE x \notin AnsweredDetours(v) /\ AnsweredDetours(v)' = AnsweredDetours(v) \cup {x}
    BY <1>3, <1>4, <1>5, <1>6, <2>3
  <2>4. QED BY <2>1, <2>2, <2>3
<1>8. QED BY <1>3, <1>4, <1>5, <1>7 DEF Matched

(* A step that moves no verdict, whatever else it does to the detours.     *)
LEMMA VerdictsKept ==
    ASSUME RepliesMatched, AbsentUnanswered,
           \A d \in DetourIds :
              /\ detours'[d].verdict = detours[d].verdict
              /\ detours[d].verdict # NoVerdict => detours'[d].class = detours[d].class
              /\ detours'[d].status = "absent" => detours[d].status = "absent",
           \/ resolutions' = resolutions
           \/ \E t \in TxIds, v \in Verdicts :
                 /\ resolutions[t] = NoVerdict
                 /\ \A u \in TxIds : resolutions'[u] = IF u = t THEN v ELSE resolutions[u]
    PROVE  RepliesMatched' /\ AbsentUnanswered'
<1> USE NoVerdictAssumption
<1>1. AbsentUnanswered'
  BY DEF AbsentUnanswered
<1>2. ASSUME NEW v \in Verdicts PROVE Matched(v)'
  <2>1. Replies(v)' = Replies(v) /\ AnsweredDetours(v)' = AnsweredDetours(v)
    BY DEF Replies, AnsweredDetours
  <2>2. \E x : AnsweredTurns(v)' \in {AnsweredTurns(v), AnsweredTurns(v) \cup {x}}
    <3>1. CASE resolutions' = resolutions
      BY <3>1 DEF AnsweredTurns
    <3>2. ASSUME NEW t \in TxIds, NEW w \in Verdicts, resolutions[t] = NoVerdict,
                 \A u \in TxIds : resolutions'[u] = IF u = t THEN w ELSE resolutions[u]
          PROVE  AnsweredTurns(v)' \in {AnsweredTurns(v), AnsweredTurns(v) \cup {t}}
      BY <3>2 DEF AnsweredTurns
    <3>3. QED BY <3>1, <3>2
  <2>3. Matched(v)
    BY DEF RepliesMatched
  <2>4. QED BY <2>1, <2>2, <2>3, OneReplyOneAnswer
<1>3. QED BY <1>1, <1>2 DEF RepliesMatched

LEMMA RepliesInit == Init => RepliesMatched /\ AbsentUnanswered
<1> SUFFICES ASSUME Init PROVE RepliesMatched /\ AbsentUnanswered
  OBVIOUS
<1>1. AbsentUnanswered
  BY DEF Init, AbsentUnanswered, AbsentDetour
<1>2. ASSUME NEW v \in Verdicts PROVE Matched(v)
  <2>1. Replies(v) = {} /\ AnsweredTurns(v) = {} /\ AnsweredDetours(v) = {}
    BY NoVerdictAssumption DEF Init, Replies, AnsweredTurns, AnsweredDetours, AbsentDetour
  <2>2. QED BY <2>1, FS_EmptySet DEF Matched
<1>3. QED BY <1>1, <1>2 DEF RepliesMatched

LEMMA RepliesStep ==
    Turns /\ DetourTypes /\ DetoursRead /\ RepliesMatched /\ AbsentUnanswered /\ [Next]_vars
        => RepliesMatched' /\ AbsentUnanswered'
<1> SUFFICES ASSUME Turns, DetourTypes, DetoursRead, RepliesMatched, AbsentUnanswered,
                    [Next]_vars
             PROVE  RepliesMatched' /\ AbsentUnanswered'
  OBVIOUS
<1> USE NoVerdictAssumption
<1>1. detours \in [DetourIds -> DetourRows] /\ \A d \in DetourIds : detours[d] \in DetourRows
  BY DEF DetourTypes
<1>2. \A d \in DetourIds :
         detours[d].status # "completed" => detours[d].verdict = NoVerdict
  BY <1>1 DEF AbsentUnanswered, DetoursRead, DetourReads, StatusReads
<1>3. ASSUME UNCHANGED detours, resolutions' = resolutions
      PROVE  RepliesMatched' /\ AbsentUnanswered'
  BY <1>3, VerdictsKept
<1>4. ASSUME NEW d \in DetourIds, NEW row, detours' = [detours EXCEPT ![d] = row],
             row.verdict = detours[d].verdict, row.status # "absent",
             detours[d].verdict # NoVerdict => row.class = detours[d].class,
             resolutions' = resolutions
      PROVE  RepliesMatched' /\ AbsentUnanswered'
  <2>1. \A x \in DetourIds : detours'[x] = IF x = d THEN row ELSE detours[x]
    BY <1>1, <1>4
  <2>2. \A x \in DetourIds :
            /\ detours'[x].verdict = detours[x].verdict
            /\ detours[x].verdict # NoVerdict => detours'[x].class = detours[x].class
            /\ detours'[x].status = "absent" => detours[x].status = "absent"
    BY <1>4, <2>1
  <2>3. QED BY <1>4, <2>2, VerdictsKept
<1>5. ASSUME NEW d \in DetourIds, NEW k, NEW e, PrepareDetour(d, k, e)
      PROVE  RepliesMatched' /\ AbsentUnanswered'
  <2> DEFINE row == [AbsentDetour EXCEPT !.status = "prepared", !.kind = k, !.class = e,
                                         !.before = head, !.fence = PublishedFence]
  <2>1. row.verdict = NoVerdict /\ row.status = "prepared"
    BY DEF AbsentDetour
  <2>2. detours' = [detours EXCEPT ![d] = row] /\ detours[d].verdict = NoVerdict
        /\ resolutions' = resolutions
    BY <1>2, <1>5 DEF PrepareDetour
  <2> HIDE DEF row
  <2>3. QED BY <1>4, <2>1, <2>2
<1>6. ASSUME NEW d \in DetourIds, NEW m \in Messages, RecordStreamChunk(d, m)
      PROVE  RepliesMatched' /\ AbsentUnanswered'
  <2> DEFINE row == [detours[d] EXCEPT !.chunks = Append(detours[d].chunks, m)]
  <2>1. /\ row.verdict = detours[d].verdict /\ row.status = "prepared"
        /\ row.class = detours[d].class
    BY <1>1, <1>6 DEF DetourRows, RecordStreamChunk
  <2>2. detours' = [detours EXCEPT ![d] = row] /\ resolutions' = resolutions
    BY <1>6 DEF RecordStreamChunk
  <2> HIDE DEF row
  <2>3. QED BY <1>4, <2>1, <2>2
<1>7. ASSUME NEW d \in DetourIds, NEW r, NEW e, NEW s, CompleteDetour(d, r, e, s)
      PROVE  RepliesMatched' /\ AbsentUnanswered'
  <2> DEFINE row == [detours[d] EXCEPT !.status = "completed", !.after = head,
                                       !.response = r, !.effect = e, !.stop = s]
  <2>1. /\ row.verdict = detours[d].verdict /\ row.status = "completed"
        /\ row.class = detours[d].class
    BY <1>1 DEF DetourRows
  <2>2. detours' = [detours EXCEPT ![d] = row] /\ resolutions' = resolutions
    BY <1>7 DEF CompleteDetour
  <2> HIDE DEF row
  <2>3. QED BY <1>4, <2>1, <2>2
<1>8. ASSUME NEW d \in DetourIds, RequireDetourReconciliation(d)
      PROVE  RepliesMatched' /\ AbsentUnanswered'
  <2> DEFINE row == [detours[d] EXCEPT !.status = "reconciliation_required",
                                       !.effect = "uncertain"]
  <2>1. /\ row.verdict = detours[d].verdict /\ row.status = "reconciliation_required"
        /\ row.class = detours[d].class
    BY <1>1 DEF DetourRows
  <2>2. detours' = [detours EXCEPT ![d] = row] /\ resolutions' = resolutions
    BY <1>8 DEF RequireDetourReconciliation
  <2> HIDE DEF row
  <2>3. QED BY <1>4, <2>1, <2>2
<1>9. ASSUME NEW d \in DetourIds, InterruptTermination(d)
      PROVE  RepliesMatched' /\ AbsentUnanswered'
  <2> DEFINE row == [detours[d] EXCEPT !.kind = "command", !.interrupted = TRUE]
  <2>1. /\ row.verdict = detours[d].verdict /\ row.status = "prepared"
        /\ row.class = detours[d].class
    BY <1>1, <1>9 DEF DetourRows, InterruptTermination
  <2>2. detours' = [detours EXCEPT ![d] = row] /\ resolutions' = resolutions
    BY <1>9 DEF InterruptTermination
  <2> HIDE DEF row
  <2>3. QED BY <1>4, <2>1, <2>2
<1>10. ASSUME NEW d \in DetourIds, MarkDetourDelivered(d)
       PROVE  RepliesMatched' /\ AbsentUnanswered'
  <2> DEFINE row == [detours[d] EXCEPT !.delivered = TRUE]
  <2>1. /\ row.verdict = detours[d].verdict /\ row.status = "completed"
        /\ row.class = detours[d].class
    BY <1>1, <1>10 DEF DetourRows, MarkDetourDelivered
  <2>2. detours' = [detours EXCEPT ![d] = row] /\ resolutions' = resolutions
    BY <1>10 DEF MarkDetourDelivered
  <2> HIDE DEF row
  <2>3. QED BY <1>4, <2>1, <2>2
<1>11. ASSUME NEW m, NEW v
       PROVE  /\ AuthorityReply(<<m>>, v).status = "completed"
              /\ AuthorityReply(<<m>>, v).class = "authority_resolution"
              /\ AuthorityReply(<<m>>, v).verdict = v
  BY DEF AuthorityReply, AbsentDetour
<1>12. ASSUME NEW d \in DetourIds, NEW t \in TxIds, NEW v \in Verdicts, NEW m \in Messages,
              ResolveTurnWithDetour(d, t, v, <<m>>)
       PROVE  RepliesMatched' /\ AbsentUnanswered'
  <2>1. /\ detours[d].verdict = NoVerdict /\ resolutions[t] = NoVerdict
        /\ \A x \in DetourIds :
              detours'[x] = IF x = d THEN AuthorityReply(<<m>>, v) ELSE detours[x]
        /\ \A u \in TxIds : resolutions'[u] = IF u = t THEN v ELSE resolutions[u]
    BY <1>1, <1>2, <1>12
    DEF ResolveTurnWithDetour, UnresolvedReconciliations, Turns, TurnTypes
  <2>2. AbsentUnanswered'
    BY <1>11, <2>1 DEF AbsentUnanswered
  <2>3. ASSUME NEW w \in Verdicts PROVE Matched(w)'
    <3>1. /\ Replies(w)' = IF w = v THEN Replies(w) \cup {d} ELSE Replies(w)
          /\ AnsweredDetours(w)' = AnsweredDetours(w)
      BY <1>11, <2>1 DEF Replies, AnsweredDetours
    <3>2. /\ AnsweredTurns(w)' = IF w = v THEN AnsweredTurns(w) \cup {t} ELSE AnsweredTurns(w)
          /\ t \notin AnsweredTurns(w)
      BY <2>1 DEF AnsweredTurns
    <3>3. Matched(w)
      BY DEF RepliesMatched
    <3>4. QED BY <3>1, <3>2, <3>3, OneReplyOneAnswer
  <2>4. QED BY <2>2, <2>3 DEF RepliesMatched
<1>13. ASSUME NEW d \in DetourIds, NEW g \in DetourIds, NEW v \in Verdicts,
              NEW m \in Messages, ResolveDetourWithDetour(d, g, v, <<m>>)
       PROVE  RepliesMatched' /\ AbsentUnanswered'
  <2> DEFINE row == [detours[g] EXCEPT
                       !.status = "completed", !.after = detours[g].before,
                       !.response = <<>>, !.delivered = TRUE, !.verdict = v,
                       !.effect = IF v = "effect_confirmed" THEN "succeeded" ELSE "failed"]
  <2>1. /\ detours[d].status = "absent" /\ detours[g].status = "reconciliation_required"
        /\ detours' = [detours EXCEPT ![g] = row, ![d] = AuthorityReply(<<m>>, v)]
        /\ resolutions' = resolutions
    BY <1>13 DEF ResolveDetourWithDetour, UnresolvedDetours
  <2>2. /\ row.status = "completed" /\ row.class = detours[g].class /\ row.verdict = v
    BY <1>1 DEF DetourRows
  <2> HIDE DEF row
  <2>3. /\ d # g /\ detours[d].verdict = NoVerdict /\ detours[g].verdict = NoVerdict
        /\ detours[g].class = "local_external_effect"
    BY <1>2, <2>1 DEF DetoursRead, DetourReads, StatusReads
  <2>4. \A x \in DetourIds :
           detours'[x] = IF x = d THEN AuthorityReply(<<m>>, v)
                         ELSE IF x = g THEN row ELSE detours[x]
    BY <1>1, <2>1
  <2>5. AbsentUnanswered'
    BY <1>11, <2>2, <2>4 DEF AbsentUnanswered
  <2>6. ASSUME NEW w \in Verdicts PROVE Matched(w)'
    <3>1. Replies(w)' = IF w = v THEN Replies(w) \cup {d} ELSE Replies(w)
      BY <1>11, <2>2, <2>3, <2>4 DEF Replies
    <3>2. /\ AnsweredDetours(w)' = IF w = v THEN AnsweredDetours(w) \cup {g}
                                            ELSE AnsweredDetours(w)
          /\ g \notin AnsweredDetours(w)
      BY <1>11, <2>2, <2>3, <2>4 DEF AnsweredDetours
    <3>3. AnsweredTurns(w)' = AnsweredTurns(w) /\ Matched(w)
      BY <2>1 DEF AnsweredTurns, RepliesMatched
    <3>4. QED BY <3>1, <3>2, <3>3, OneReplyOneAnswer
  <2>7. QED BY <2>5, <2>6 DEF RepliesMatched
<1>14. CASE DetourNext
  BY <1>5, <1>6, <1>7, <1>8, <1>9, <1>10, <1>12, <1>13, <1>14 DEF DetourNext
<1>15. ASSUME NEW t \in TxIds, NEW v \in Verdicts, ResolveReconciliation(t, v)
       PROVE  RepliesMatched' /\ AbsentUnanswered'
  <2>1. /\ UNCHANGED detours /\ resolutions[t] = NoVerdict
        /\ \A u \in TxIds : resolutions'[u] = IF u = t THEN v ELSE resolutions[u]
    BY <1>15 DEF ResolveReconciliation, UnresolvedReconciliations, Turns, TurnTypes
  <2>2. QED BY <2>1, VerdictsKept
<1>16. CASE TurnNext
  BY <1>3, <1>15, <1>16 DEF TurnNext, BootstrapProductHead, RequeueRuntimeEvents,
       BeginAttempt, AbortAttempt, RequireReconciliation, CommitAttempt, FinishAttempt,
       MarkTerminalDelivered, MarkRuntimeEventPublished
<1>17. CASE UNCHANGED vars
  BY <1>3, <1>17 DEF vars
<1>18. QED BY <1>14, <1>16, <1>17 DEF Next

(* No operator's reply is recorded without the resolution it announces,    *)
(* and none twice, however replies, resolutions and recoveries interleave. *)
THEOREM RepliesTheorem == Spec => []RepliesAnswerResolutions
<1> DEFINE Inv == /\ Turns /\ DetourTypes /\ OutcomesRead /\ DetoursRead
                  /\ RepliesMatched /\ AbsentUnanswered
<1>1. Init => OutcomesRead /\ DetoursRead
  BY DEF Init, OutcomesRead, DetoursRead, AbsentOutcome, AbsentDetour
<1>2. Init => Inv
  BY <1>1, TurnsInit, DetourTypesInit, RepliesInit
<1>3. Inv /\ [Next]_vars => Inv'
  BY TurnsStep, DetourTypesStep, OutcomesReadStep, DetoursReadStep, RepliesStep
<1>4. Inv => RepliesAnswerResolutions
  BY DEF RepliesMatched, Matched, Replies, AnsweredTurns, AnsweredDetours,
         RepliesAnswerResolutions
<1>5. QED BY <1>2, <1>3, <1>4, PTL DEF Spec
=============================================================================
