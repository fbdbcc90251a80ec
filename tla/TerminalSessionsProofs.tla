------------------------ MODULE TerminalSessionsProofs ------------------------
(***************************************************************************)
(* Proofs about TerminalSessions for every set of processes, transactions  *)
(* and detours, every chunk bound and every number of crashes.  A step of  *)
(* a process is first read as a step of the store, so that the store's     *)
(* invariants hold of processes that run beside each other; then the row   *)
(* of the process that moves is followed, and the rows of the others.      *)
(***************************************************************************)
EXTENDS TerminalSessions, TurnTransactionsProofs, SequenceTheorems

(* What the processes do to the store is what the store allows: this is    *)
(* what lets its invariants be used here.  The recovery of a stream must   *)
(* not find more chunks than the store records.                            *)
ChunksBounded == \A d \in DetourIds : Len(detours[d].chunks) =< MaxChunks
Store == /\ Turns /\ DetourTypes /\ Authority /\ OutcomesRead /\ DetoursRead
         /\ ChunksBounded

(* The steps of a process that holds the lease, and the steps that go back *)
(* to where the process was going on.                                      *)
HarnessSteps == {"opening", "replaying", "recovering", "listing", "redelivering",
                 "entering", "announcing", "turn", "publishing"}
ReturnSteps == {"turn", "publishing", "detour", "showing", "acking"}
NextSteps == {"off", "prompt", "replaying", "redelivering", "entering", "announcing"}

ProcRows == [step : Steps, harness : BOOLEAN, next : Steps,
             cur : TxIds \cup DetourIds \cup {Root},
             heard : Seq(Messages), todo : SUBSET DetourIds]

RowFits(row) ==
    /\ row.step \in {"turn", "publishing"} => row.cur \in TxIds
    /\ row.step \in {"detour", "recovering"} => row.cur \in DetourIds
    /\ row.step \in {"showing", "acking"} => row.cur # Root
    /\ row.step \in HarnessSteps => row.harness
    /\ row.step \in ReturnSteps =>
          row.next \in NextSteps /\ (row.next \in HarnessSteps => row.harness)
    /\ row.step \in {"turn", "publishing", "detour"} => row.next # "replaying"
    /\ Len(row.heard) =< MaxChunks

Processes ==
    /\ procs \in [Sessions -> ProcRows]
    /\ \A p \in Sessions : RowFits(procs[p])
    /\ \A p, q \in Sessions : procs[p].harness /\ procs[q].harness => p = q

(* What can be shown: a closed turn whose event, if it has one, is         *)
(* published, and a completed detour.                                      *)
SettledTurns == {t \in TxIds : outbox[t].kind # "none" /\ outbox[t].event # "pending"}
CompletedDetours == {d \in DetourIds : detours[d].status = "completed"}

Replaying(row) == \/ row.step = "replaying"
                  \/ row.step \in {"showing", "acking"} /\ row.next = "replaying"

Works(row) ==
    /\ row.step = "turn" => row.cur \in ActiveAttempts
    /\ row.step \in {"showing", "acking"} => row.cur \in SettledTurns \cup CompletedDetours
    /\ row.step = "acking" => row.cur \in projected
    /\ Replaying(row) => PendingEvents = {}
    /\ row.todo \subseteq CompletedDetours

Work == \A p \in Sessions : Works(procs[p])

Shown == /\ projected \subseteq SettledTurns \cup CompletedDetours
         /\ DeliveredWasProjected
         /\ crashes \in 0..MaxCrashes
-----------------------------------------------------------------------------
(* What one process may do to the store, and when.                         *)
StoreAct(p) ==
    \/ UNCHANGED store
    \/ procs[p].harness /\ \E t \in TxIds :
          \/ AbortAttempt(t) \/ RequireReconciliation(t)
          \/ \E c \in Ckpts : CommitAttempt(t, c)
    \/ \E t \in TxIds : BeginAttempt(t)
    \/ \E c \in Ckpts : BootstrapProductHead(c)
    \/ \E t \in projected \cap TxIds : MarkTerminalDelivered(t)
    \/ \E d \in projected \cap DetourIds : MarkDetourDelivered(d)
    \/ \E t \in TxIds, e \in Payloads : MarkRuntimeEventPublished(t, e)
    \/ \E d \in DetourIds :
          \/ InterruptTermination(d)
          \/ \E m \in Messages : RecordStreamChunk(d, m)
          \/ \E k \in {"command", "session_termination"}, e \in Effects :
                PrepareDetour(d, k, e)
          \/ \E r \in Texts(MaxChunks + 1), s \in StopReasons,
                e \in {"not_applicable", "succeeded", "failed"} :
                CompleteDetour(d, r, e, s)
          \/ \E t \in TxIds, v \in Verdicts, m \in Messages :
                ResolveTurnWithDetour(d, t, v, <<m>>)

LEMMA StoreActIsNext ==
    ASSUME NEW p, StoreAct(p) PROVE [Next]_vars
<1>1. CASE UNCHANGED store
  BY <1>1 DEF store, vars
<1>2. CASE \E t \in TxIds :
              \/ AbortAttempt(t) \/ RequireReconciliation(t) \/ BeginAttempt(t)
              \/ MarkTerminalDelivered(t) \/ (\E c \in Ckpts : CommitAttempt(t, c))
              \/ (\E e \in Payloads : MarkRuntimeEventPublished(t, e))
  BY <1>2 DEF Next, TurnNext
<1>3. CASE \E c \in Ckpts : BootstrapProductHead(c)
  BY <1>3 DEF Next, TurnNext
<1>4. CASE \E d \in DetourIds :
              \/ InterruptTermination(d) \/ MarkDetourDelivered(d)
              \/ \E m \in Messages : RecordStreamChunk(d, m)
              \/ \E k \in {"command", "session_termination"}, e \in Effects :
                    PrepareDetour(d, k, e)
              \/ \E r \in Texts(MaxChunks + 1), s \in StopReasons,
                    e \in {"not_applicable", "succeeded", "failed"} :
                    CompleteDetour(d, r, e, s)
              \/ \E t \in TxIds, v \in Verdicts, m \in Messages :
                    ResolveTurnWithDetour(d, t, v, <<m>>)
  BY <1>4 DEF Next, DetourNext
<1>5. QED BY <1>1, <1>2, <1>3, <1>4 DEF StoreAct

(* A response made of recorded chunks and one message is short enough.     *)
LEMMA ResponseIsText ==
    ASSUME NEW chunks \in Seq(Messages), Len(chunks) =< MaxChunks, NEW m \in Messages
    PROVE  /\ Append(chunks, m) \in Texts(MaxChunks + 1)
           /\ Append(chunks, m) # <<>>
<1> DEFINE r == Append(chunks, m)
<1>1. Len(chunks) + 1 \in 0..(MaxChunks + 1) /\ Len(chunks) + 1 # 0
  BY MaxChunksAssumption
<1>2. r \in Seq(Messages) /\ Len(r) = Len(chunks) + 1
  OBVIOUS
<1> HIDE DEF r
<1>3. r \in [1..Len(r) -> Messages]
  BY <1>2, LenProperties
<1>4. r \in Texts(MaxChunks + 1)
  BY <1>1, <1>2, <1>3 DEF Texts
<1>5. r # <<>>
  <2>1. Len(<<>>) = 0
    OBVIOUS
  <2>2. QED BY <1>1, <1>2, <2>1
<1>6. QED BY <1>4, <1>5 DEF r

(* Every step of a process acts on the store in one of these ways.         *)
ProcessNext(p) ==
    \/ Proceed(p) \/ Starts(p) \/ Resolves(p) \/ CommandRefused(p) \/ Crash(p)
    \/ \E c \in Ckpts : EnsureProductHead(p, c)
    \/ \E t \in TxIds : BeginTurn(p, t)
    \/ \E d \in DetourIds : BeginCommand(p, d)
    \/ \E m \in Messages : StreamChunk(p, m)

LEMMA ProcessActs ==
    ASSUME Store, Processes, Work, NEW p \in Sessions, ProcessNext(p)
    PROVE  StoreAct(p)
<1> DEFINE cur == procs[p].cur
<1>1. /\ procs[p] \in ProcRows /\ RowFits(procs[p]) /\ Works(procs[p])
      /\ \A d \in DetourIds : detours[d] \in DetourRows /\ Len(detours[d].chunks) =< MaxChunks
  BY DEF Processes, Work, Store, DetourTypes, ChunksBounded
<1>2. CASE UNCHANGED store
  BY <1>2 DEF StoreAct
<1>3. ASSUME NEW t \in TxIds, CloseInterrupted(p, t) PROVE StoreAct(p)
  BY <1>1, <1>3 DEF CloseInterrupted, StoreAct, At, RowFits, HarnessSteps
<1>4. ASSUME NEW t \in TxIds, NEW e \in Payloads, PublishMissing(p, t, e) PROVE StoreAct(p)
  BY <1>4 DEF PublishMissing, StoreAct
<1>5. ASSUME RecoverTermination(p) PROVE StoreAct(p)
  BY <1>1, <1>5 DEF RecoverTermination, StoreAct, At, RowFits
<1>6. ASSUME NEW m \in Messages, RecoverDetour(p, m) PROVE StoreAct(p)
  <2>1. cur \in DetourIds
    BY <1>1, <1>6 DEF RecoverDetour, At, RowFits
  <2>2. Append(procs[p].heard, m) \in Texts(MaxChunks + 1)
    BY <1>1, ResponseIsText DEF ProcRows, RowFits
  <2>3. Interruption(cur) \in StopReasons
    BY DEF Interruption, StopReasons, BrokenStream
  <2>4. CompleteDetour(cur, Append(procs[p].heard, m), "failed", Interruption(cur))
    BY <1>6 DEF RecoverDetour
  <2>5. QED BY <2>1, <2>2, <2>3, <2>4 DEF StoreAct
<1>7. ASSUME NEW t \in TxIds, Enter(p, t) \/ BeginTurn(p, t) PROVE StoreAct(p)
  BY <1>7 DEF Enter, BeginTurn, StoreAct
<1>8. ASSUME NEW c \in Ckpts, EnsureProductHead(p, c) PROVE StoreAct(p)
  BY <1>8 DEF EnsureProductHead, StoreAct
<1>9. ASSUME NEW c \in Ckpts, CommitTurn(p, c) PROVE StoreAct(p)
  <2>1. cur \in TxIds /\ procs[p].harness
    BY <1>1, <1>9 DEF CommitTurn, At, RowFits, HarnessSteps
  <2>2. QED BY <1>9, <2>1 DEF CommitTurn, StoreAct
<1>10. ASSUME FailTurn(p) PROVE StoreAct(p)
  <2>1. cur \in TxIds /\ procs[p].harness
    BY <1>1, <1>10 DEF FailTurn, At, RowFits, HarnessSteps
  <2>2. QED BY <1>10, <2>1 DEF FailTurn, StoreAct
<1>11. ASSUME NEW e \in Payloads, PublishTurn(p, e) PROVE StoreAct(p)
  BY <1>1, <1>11 DEF PublishTurn, At, RowFits, StoreAct
<1>12. ASSUME NEW d \in DetourIds, BeginCommand(p, d) PROVE StoreAct(p)
  BY <1>12, SessionsAssumption DEF BeginCommand, StoreAct
<1>13. ASSUME NEW m \in Messages, StreamChunk(p, m) PROVE StoreAct(p)
  BY <1>1, <1>13 DEF StreamChunk, At, RowFits, StoreAct
<1>14. ASSUME NEW m \in Messages, FinishDetour(p, m) PROVE StoreAct(p)
  <2>1. cur \in DetourIds
    BY <1>1, <1>14 DEF FinishDetour, At, RowFits
  <2>2. Append(detours[cur].chunks, m) \in Texts(MaxChunks + 1)
    BY <1>1, <2>1, ResponseIsText DEF DetourRows
  <2>3. \E e \in {"succeeded", "failed", "not_applicable"},
           s \in {"completed", "cancelled", "not_streaming"} :
           CompleteDetour(cur, Append(detours[cur].chunks, m), e, s)
    BY <1>14 DEF FinishDetour
  <2>4. {"completed", "cancelled", "not_streaming"} \subseteq StopReasons
    BY DEF StopReasons, BrokenStream, FinishedStream
  <2>5. QED BY <2>1, <2>2, <2>3, <2>4 DEF StoreAct
<1>15. ASSUME NEW d \in DetourIds, NEW t \in TxIds, NEW v \in Verdicts, NEW m \in Messages,
              Reconcile(p, d, t, v, m)
       PROVE  StoreAct(p)
  BY <1>15 DEF Reconcile, StoreAct
<1>16. ASSUME Acknowledge(p) PROVE StoreAct(p)
  <2>1. cur \in projected
    BY <1>1, <1>16 DEF Acknowledge, At, Works
  <2>2. QED BY <1>16, <2>1 DEF Acknowledge, StoreAct
<1>17. ASSUME \/ Starts(p) \/ CommandRefused(p) \/ Crash(p)
              \/ OpenRefused(p) \/ Opened(p) \/ FinishReplay(p) \/ ListUndelivered(p)
              \/ FinishRedelivery(p) \/ OfferDependencies(p) \/ EnterRefused(p)
              \/ Announce(p) \/ Project(p)
       PROVE  UNCHANGED store
  BY <1>17 DEF Starts, StartHarness, StartWithoutHarness, CommandRefused, Crash, OpenRefused,
     Opened, FinishReplay, ListUndelivered, FinishRedelivery, OfferDependencies,
     EnterRefused, Announce, Project
<1>18. ASSUME \/ (\E t \in TxIds : ReplayOutcome(p, t))
              \/ (\E d \in DetourIds : RedeliverDetour(p, d))
              \/ (\E m \in Messages : RecoveryRefused(p, m) \/ FinishRefused(p, m))
       PROVE  UNCHANGED store
  BY <1>18 DEF ReplayOutcome, RedeliverDetour, RecoveryRefused, FinishRefused
<1>19. CASE Proceed(p)
  BY <1>2, <1>3, <1>4, <1>5, <1>6, <1>7, <1>8, <1>9, <1>10, <1>11, <1>14, <1>16, <1>17,
     <1>18, <1>19 DEF Proceed
<1>20. QED BY <1>2, <1>7, <1>8, <1>12, <1>13, <1>15, <1>17, <1>19 DEF ProcessNext, Resolves
-----------------------------------------------------------------------------
(* What is settled stays settled, whoever acts; attempts are closed and    *)
(* events become pending only at the hands of the lease holder; and only   *)
(* what was projected becomes delivered.                                   *)
Settles == SettledTurns \subseteq SettledTurns' /\ CompletedDetours \subseteq CompletedDetours'
LeavesTurns == ActiveAttempts \subseteq ActiveAttempts' /\ PendingEvents' \subseteq PendingEvents
Delivers ==
    /\ \A t \in TxIds : outbox'[t].delivered => outbox[t].delivered \/ t \in projected
    /\ \A d \in DetourIds : detours'[d].delivered => detours[d].delivered \/ d \in projected

(* A change of one detour row.                                             *)
LEMMA RowMoves ==
    ASSUME DetourTypes, UNCHANGED <<attempts, outbox>>, NEW d \in DetourIds, NEW row,
           detours' = [detours EXCEPT ![d] = row],
           d \in CompletedDetours => row.status = "completed",
           row.delivered => detours[d].delivered \/ d \in projected
    PROVE  Settles /\ LeavesTurns /\ Delivers
<1>1. \A x \in DetourIds : detours'[x] = IF x = d THEN row ELSE detours[x]
  BY DEF DetourTypes
<1>2. Settles
  BY <1>1 DEF Settles, SettledTurns, CompletedDetours
<1>3. LeavesTurns
  BY DEF LeavesTurns, ActiveAttempts, PendingEvents
<1>4. Delivers
  BY <1>1 DEF Delivers
<1>5. QED BY <1>2, <1>3, <1>4

LEMMA StoreMoves ==
    ASSUME Turns, DetourTypes, DetoursRead, NEW p, StoreAct(p)
    PROVE  Settles /\ Delivers /\ (LeavesTurns \/ procs[p].harness)
<1>1. \A d \in DetourIds : detours[d] \in DetourRows
  BY DEF DetourTypes
<1>2. \A t \in TxIds : outbox[t] \in OutboxRows
  BY DEF Turns, TurnTypes, OutboxRows
<1>3. CASE UNCHANGED store
  BY <1>3 DEF store, Settles, Delivers, LeavesTurns, SettledTurns, CompletedDetours,
     ActiveAttempts, PendingEvents
<1>4. ASSUME NEW t \in TxIds, NEW kind \in Kinds, NEW product, FinishAttempt(t, kind, product)
      PROVE  Settles /\ Delivers
  <2>1. /\ outbox[t].kind = "none" /\ detours' = detours
        /\ \A u \in TxIds \ {t} : outbox'[u] = outbox[u]
    BY <1>4 DEF FinishAttempt, Turns, TurnTypes
  <2>2. ~outbox'[t].delivered
    BY <1>4, FinishWrites DEF Turns, TurnTypes
  <2>3. QED BY <2>1, <2>2 DEF Settles, Delivers, SettledTurns, CompletedDetours
<1>5. ASSUME NEW t \in TxIds, \/ AbortAttempt(t) \/ RequireReconciliation(t)
                              \/ \E c \in Ckpts : CommitAttempt(t, c)
      PROVE  Settles /\ Delivers
  BY <1>4, <1>5 DEF AbortAttempt, RequireReconciliation, CommitAttempt, Kinds
<1>6. ASSUME NEW t \in TxIds, BeginAttempt(t) PROVE Settles /\ Delivers /\ LeavesTurns
  <2>1. UNCHANGED <<outbox, detours>> /\ ActiveAttempts = {}
    BY <1>6 DEF BeginAttempt
  <2>2. QED BY <2>1 DEF Settles, Delivers, LeavesTurns, SettledTurns, CompletedDetours,
        PendingEvents
<1>7. ASSUME NEW c \in Ckpts, BootstrapProductHead(c)
      PROVE  Settles /\ Delivers /\ LeavesTurns
  BY <1>7 DEF BootstrapProductHead, Settles, Delivers, LeavesTurns, SettledTurns,
     CompletedDetours, ActiveAttempts, PendingEvents
<1>8. ASSUME NEW t \in projected \cap TxIds, MarkTerminalDelivered(t)
      PROVE  Settles /\ Delivers /\ LeavesTurns
  <2>1. /\ UNCHANGED <<attempts, detours>>
        /\ \A u \in TxIds : u # t => outbox'[u] = outbox[u]
        /\ outbox'[t].kind = outbox[t].kind /\ outbox'[t].event = outbox[t].event
    BY <1>2, <1>8 DEF MarkTerminalDelivered, Turns, TurnTypes, OutboxRows
  <2>2. Settles /\ LeavesTurns
    BY <2>1 DEF Settles, LeavesTurns, SettledTurns, CompletedDetours, ActiveAttempts,
       PendingEvents
  <2>3. Delivers
    BY <1>8, <2>1 DEF Delivers
  <2>4. QED BY <2>2, <2>3
<1>9. ASSUME NEW t \in TxIds, NEW e \in Payloads, MarkRuntimeEventPublished(t, e)
      PROVE  Settles /\ Delivers /\ LeavesTurns
  <2>1. /\ UNCHANGED <<attempts, detours>>
        /\ \A u \in TxIds : u # t => outbox'[u] = outbox[u]
        /\ outbox'[t].kind = outbox[t].kind /\ outbox'[t].event = "published"
        /\ outbox'[t].delivered = outbox[t].delivered
    BY <1>2, <1>9 DEF MarkRuntimeEventPublished, Turns, TurnTypes, OutboxRows
  <2>2. QED BY <2>1 DEF Settles, LeavesTurns, Delivers, SettledTurns, CompletedDetours,
        ActiveAttempts, PendingEvents
<1>10. ASSUME NEW d \in projected \cap DetourIds, MarkDetourDelivered(d)
       PROVE  Settles /\ LeavesTurns /\ Delivers
  <2> DEFINE row == [detours[d] EXCEPT !.delivered = TRUE]
  <2>1. row.status = detours[d].status /\ detours' = [detours EXCEPT ![d] = row]
        /\ UNCHANGED <<attempts, outbox>>
    BY <1>1, <1>10 DEF MarkDetourDelivered, DetourRows
  <2> HIDE DEF row
  <2>2. QED BY <1>10, <2>1, RowMoves DEF CompletedDetours
<1>11. ASSUME NEW d \in DetourIds, InterruptTermination(d)
       PROVE  Settles /\ LeavesTurns /\ Delivers
  <2> DEFINE row == [detours[d] EXCEPT !.kind = "command", !.interrupted = TRUE]
  <2>1. /\ row.status = detours[d].status /\ row.delivered = detours[d].delivered
        /\ detours' = [detours EXCEPT ![d] = row] /\ UNCHANGED <<attempts, outbox>>
    BY <1>1, <1>11 DEF InterruptTermination, DetourRows
  <2> HIDE DEF row
  <2>2. QED BY <2>1, RowMoves DEF CompletedDetours
<1>12. ASSUME NEW d \in DetourIds, NEW m \in Messages, RecordStreamChunk(d, m)
       PROVE  Settles /\ LeavesTurns /\ Delivers
  <2> DEFINE row == [detours[d] EXCEPT !.chunks = Append(detours[d].chunks, m)]
  <2>1. /\ row.status = detours[d].status /\ row.delivered = detours[d].delivered
        /\ detours' = [detours EXCEPT ![d] = row] /\ UNCHANGED <<attempts, outbox>>
    BY <1>1, <1>12 DEF RecordStreamChunk, DetourRows
  <2> HIDE DEF row
  <2>2. QED BY <2>1, RowMoves DEF CompletedDetours
<1>13. ASSUME NEW d \in DetourIds, NEW k, NEW e, PrepareDetour(d, k, e)
       PROVE  Settles /\ LeavesTurns /\ Delivers
  <2> DEFINE row == [AbsentDetour EXCEPT !.status = "prepared", !.kind = k, !.class = e,
                                         !.before = head, !.fence = PublishedFence]
  <2>1. /\ ~row.delivered /\ d \notin CompletedDetours
        /\ detours' = [detours EXCEPT ![d] = row] /\ UNCHANGED <<attempts, outbox>>
    BY <1>13 DEF PrepareDetour, AbsentDetour, CompletedDetours
  <2> HIDE DEF row
  <2>2. QED BY <2>1, RowMoves
<1>14. ASSUME NEW d \in DetourIds, NEW r, NEW e, NEW s, CompleteDetour(d, r, e, s)
       PROVE  Settles /\ LeavesTurns /\ Delivers
  <2> DEFINE row == [detours[d] EXCEPT !.status = "completed", !.after = head,
                                       !.response = r, !.effect = e, !.stop = s]
  <2>1. /\ row.status = "completed" /\ row.delivered = detours[d].delivered
        /\ detours' = [detours EXCEPT ![d] = row] /\ UNCHANGED <<attempts, outbox>>
    BY <1>1, <1>14 DEF CompleteDetour, DetourRows
  <2> HIDE DEF row
  <2>2. QED BY <2>1, RowMoves
<1>15. ASSUME NEW d \in DetourIds, NEW t, NEW v, NEW m, ResolveTurnWithDetour(d, t, v, <<m>>)
       PROVE  Settles /\ LeavesTurns /\ Delivers
  <2> DEFINE row == AuthorityReply(<<m>>, v)
  <2>1. /\ row.status = "completed" /\ ~row.delivered
        /\ detours' = [detours EXCEPT ![d] = row] /\ UNCHANGED <<attempts, outbox>>
    BY <1>15 DEF ResolveTurnWithDetour, AuthorityReply, AbsentDetour
  <2> HIDE DEF row
  <2>2. QED BY <2>1, RowMoves
<1>16. QED BY <1>3, <1>5, <1>6, <1>7, <1>8, <1>9, <1>10, <1>11, <1>12, <1>13, <1>14, <1>15
       DEF StoreAct

(* The chunk bound and the store's other invariants survive every step.    *)
LEMMA StoreKept ==
    ASSUME Store, NEW p, StoreAct(p)
    PROVE  Store'
<1>1. [Next]_vars
  BY StoreActIsNext
<1>2. Turns' /\ DetourTypes' /\ Authority' /\ OutcomesRead' /\ DetoursRead'
  BY <1>1, TurnsStep, DetourTypesStep, AuthorityStep, OutcomesReadStep, DetoursReadStep
     DEF Store
<1>3. detours \in [DetourIds -> DetourRows]
  BY DEF Store, DetourTypes
<1>4. ASSUME NEW d \in DetourIds, NEW row, detours' = [detours EXCEPT ![d] = row],
             Len(row.chunks) =< MaxChunks
      PROVE  ChunksBounded'
  BY <1>3, <1>4 DEF Store, ChunksBounded
<1>5. Len(<<>>) =< MaxChunks
  BY MaxChunksAssumption
<1>6. ASSUME UNCHANGED detours PROVE ChunksBounded'
  BY <1>6 DEF Store, ChunksBounded
<1>7. ASSUME NEW d \in DetourIds, NEW m \in Messages, RecordStreamChunk(d, m)
      PROVE  ChunksBounded'
  <2> DEFINE row == [detours[d] EXCEPT !.chunks = Append(detours[d].chunks, m)]
  <2>1. /\ row.chunks = Append(detours[d].chunks, m)
        /\ detours' = [detours EXCEPT ![d] = row]
        /\ detours[d].chunks \in Seq(Messages) /\ Len(detours[d].chunks) < MaxChunks
    BY <1>3, <1>7 DEF RecordStreamChunk, DetourRows
  <2> HIDE DEF row
  <2>2. Len(row.chunks) = Len(detours[d].chunks) + 1 /\ Len(detours[d].chunks) \in Nat
    BY <2>1
  <2>3. Len(row.chunks) =< MaxChunks
    BY <2>1, <2>2, MaxChunksAssumption
  <2>4. QED BY <1>4, <2>1, <2>3
<1>8. ASSUME NEW d \in DetourIds,
             \/ InterruptTermination(d) \/ MarkDetourDelivered(d)
             \/ \E r, e, s : CompleteDetour(d, r, e, s)
      PROVE  ChunksBounded'
  <2>1. \A x \in DetourIds : detours'[x].chunks = detours[x].chunks
    <3>1. ASSUME InterruptTermination(d)
          PROVE  \A x \in DetourIds : detours'[x].chunks = detours[x].chunks
      BY <1>3, <3>1 DEF InterruptTermination, DetourRows
    <3>2. ASSUME MarkDetourDelivered(d)
          PROVE  \A x \in DetourIds : detours'[x].chunks = detours[x].chunks
      BY <1>3, <3>2 DEF MarkDetourDelivered, DetourRows
    <3>3. ASSUME NEW r, NEW e, NEW s, CompleteDetour(d, r, e, s)
          PROVE  \A x \in DetourIds : detours'[x].chunks = detours[x].chunks
      BY <1>3, <3>3 DEF CompleteDetour, DetourRows
    <3>4. QED BY <1>8, <3>1, <3>2, <3>3
  <2>2. QED BY <2>1 DEF Store, ChunksBounded
<1>9. ASSUME NEW d \in DetourIds, NEW k, NEW e, PrepareDetour(d, k, e) PROVE ChunksBounded'
  <2> DEFINE row == [AbsentDetour EXCEPT !.status = "prepared", !.kind = k, !.class = e,
                                         !.before = head, !.fence = PublishedFence]
  <2>1. row.chunks = <<>> /\ detours' = [detours EXCEPT ![d] = row]
    BY <1>9 DEF PrepareDetour, AbsentDetour
  <2> HIDE DEF row
  <2>2. QED BY <1>4, <1>5, <2>1
<1>10. ASSUME NEW d \in DetourIds, NEW t, NEW v, NEW m, ResolveTurnWithDetour(d, t, v, <<m>>)
       PROVE  ChunksBounded'
  <2> DEFINE row == AuthorityReply(<<m>>, v)
  <2>1. row.chunks = <<>> /\ detours' = [detours EXCEPT ![d] = row]
    BY <1>10 DEF ResolveTurnWithDetour, AuthorityReply, AbsentDetour
  <2> HIDE DEF row
  <2>2. QED BY <1>4, <1>5, <2>1
<1>11. ASSUME NEW t, \/ AbortAttempt(t) \/ RequireReconciliation(t) \/ BeginAttempt(t)
                     \/ MarkTerminalDelivered(t) \/ (\E c : CommitAttempt(t, c))
                     \/ (\E e : MarkRuntimeEventPublished(t, e))
                     \/ (\E c : BootstrapProductHead(c))
       PROVE  UNCHANGED detours
  BY <1>11 DEF AbortAttempt, RequireReconciliation, BeginAttempt, MarkTerminalDelivered,
     CommitAttempt, FinishAttempt, MarkRuntimeEventPublished, BootstrapProductHead
<1>12. ChunksBounded'
  <2>1. CASE UNCHANGED store
    BY <1>6, <2>1 DEF store
  <2>2. ASSUME NEW d \in DetourIds,
               \/ InterruptTermination(d) \/ MarkDetourDelivered(d)
               \/ \E m \in Messages : RecordStreamChunk(d, m)
               \/ \E k, e : PrepareDetour(d, k, e)
               \/ \E r, e, s : CompleteDetour(d, r, e, s)
               \/ \E t, v, m : ResolveTurnWithDetour(d, t, v, <<m>>)
        PROVE  ChunksBounded'
    <3>1. CASE InterruptTermination(d) \/ MarkDetourDelivered(d)
      BY <1>8, <3>1
    <3>2. CASE \E m \in Messages : RecordStreamChunk(d, m)
      BY <1>7, <3>2
    <3>3. CASE \E k, e : PrepareDetour(d, k, e)
      BY <1>9, <3>3
    <3>4. CASE \E r, e, s : CompleteDetour(d, r, e, s)
      BY <1>8, <3>4
    <3>5. CASE \E t, v, m : ResolveTurnWithDetour(d, t, v, <<m>>)
      BY <1>10, <3>5
    <3>6. QED BY <2>2, <3>1, <3>2, <3>3, <3>4, <3>5
  <2>3. CASE \E t : \/ AbortAttempt(t) \/ RequireReconciliation(t) \/ BeginAttempt(t)
                    \/ MarkTerminalDelivered(t) \/ (\E c : CommitAttempt(t, c))
                    \/ (\E e : MarkRuntimeEventPublished(t, e))
                    \/ (\E c : BootstrapProductHead(c))
    BY <1>6, <1>11, <2>3
  <2>4. QED BY <2>1, <2>2, <2>3 DEF StoreAct
<1>13. QED BY <1>2, <1>12 DEF Store
-----------------------------------------------------------------------------
(* The processes' own rows.                                                *)
LEMMA OffFits ==
    /\ Off \in ProcRows /\ RowFits(Off) /\ ~Off.harness
    /\ Off.step = "off" /\ Off.todo = {} /\ Off.cur = Root
<1>1. <<>> \in Seq(Messages) /\ Len(<<>>) =< MaxChunks
  BY MaxChunksAssumption
<1>2. /\ Off.step = "off" /\ Off.next = "off" /\ Off.cur = Root /\ Off.heard = <<>>
      /\ Off.todo = {} /\ ~Off.harness
  BY DEF Off
<1>3. Off \in ProcRows
  BY <1>1 DEF Off, ProcRows, Steps
<1>4. QED BY <1>1, <1>2, <1>3 DEF RowFits, HarnessSteps, ReturnSteps

(* One process changes its row; nobody gets a second lease.                *)
LEMMA RowBecomes ==
    ASSUME Processes, NEW p \in Sessions, NEW row \in ProcRows, RowFits(row),
           row.harness => procs[p].harness \/ ~Leased, Becomes(p, row)
    PROVE  /\ Processes'
           /\ procs'[p] = row /\ \A q \in Sessions : q # p => procs'[q] = procs[q]
<1>1. \A q \in Sessions : procs'[q] = IF q = p THEN row ELSE procs[q]
  BY DEF Becomes, Processes
<1>2. procs' \in [Sessions -> ProcRows]
  BY DEF Becomes, Processes
<1>3. \A q \in Sessions : RowFits(procs'[q])
  BY <1>1 DEF Processes
<1>4. \A q, r \in Sessions : procs'[q].harness /\ procs'[r].harness => q = r
  BY <1>1 DEF Processes, Leased
<1>5. Processes'
  BY <1>2, <1>3, <1>4 DEF Processes, RowFits
<1>6. QED BY <1>1, <1>5

(* Going on to another step, with or without something else to work on.    *)
LEMMA TakesFits ==
    ASSUME Processes, NEW p \in Sessions, NEW s \in Steps, NEW next \in Steps,
           NEW x \in TxIds \cup DetourIds \cup {Root}, Takes(p, s, x, next),
           s \in {"turn", "publishing"} => x \in TxIds,
           s \in {"detour", "recovering"} => x \in DetourIds,
           s \in {"showing", "acking"} => x # Root,
           s \in HarnessSteps => procs[p].harness,
           s \in ReturnSteps =>
              next \in NextSteps /\ (next \in HarnessSteps => procs[p].harness),
           s \in {"turn", "publishing", "detour"} => next # "replaying"
    PROVE  /\ Processes'
           /\ procs'[p].step = s /\ procs'[p].cur = x /\ procs'[p].next = next
           /\ procs'[p].todo = procs[p].todo
           /\ \A q \in Sessions : q # p => procs'[q] = procs[q]
<1> DEFINE row == [procs[p] EXCEPT !.step = s, !.cur = x, !.next = next]
<1>1. procs[p] \in ProcRows /\ RowFits(procs[p])
  BY DEF Processes
<1>2. /\ row \in ProcRows /\ row.step = s /\ row.cur = x /\ row.next = next
      /\ row.todo = procs[p].todo /\ row.heard = procs[p].heard
      /\ row.harness = procs[p].harness
  BY <1>1 DEF ProcRows
<1>3. Becomes(p, row)
  BY DEF Takes
<1> HIDE DEF row
<1>4. RowFits(row)
  BY <1>1, <1>2 DEF RowFits
<1>5. QED BY <1>2, <1>3, <1>4, RowBecomes

LEMMA ShowingFits ==
    ASSUME Processes, NEW p \in Sessions, NEW next \in NextSteps, next \in Steps,
           next \in HarnessSteps => procs[p].harness,
           NEW x \in TxIds \cup DetourIds, x # Root, Takes(p, "showing", x, next)
    PROVE  /\ Processes'
           /\ procs'[p].step = "showing" /\ procs'[p].cur = x /\ procs'[p].next = next
           /\ procs'[p].todo = procs[p].todo
           /\ \A q \in Sessions : q # p => procs'[q] = procs[q]
<1>1. "showing" \in Steps /\ "showing" \notin HarnessSteps
  BY DEF Steps, HarnessSteps
<1>2. x \in TxIds \cup DetourIds \cup {Root}
  OBVIOUS
<1>3. QED BY <1>1, <1>2, TakesFits

LEMMA GoesFits ==
    ASSUME Processes, NEW p \in Sessions, NEW s \in Steps, Goes(p, s),
           s \in {"turn", "publishing"} => procs[p].cur \in TxIds,
           s \in {"detour", "recovering"} => procs[p].cur \in DetourIds,
           s \in {"showing", "acking"} => procs[p].cur # Root,
           s \in HarnessSteps => procs[p].harness,
           s \in ReturnSteps => /\ procs[p].next \in NextSteps
                                /\ procs[p].next \in HarnessSteps => procs[p].harness,
           s \in {"turn", "publishing", "detour"} => procs[p].next # "replaying"
    PROVE  /\ Processes'
           /\ procs'[p].step = s /\ procs'[p].cur = procs[p].cur
           /\ procs'[p].next = procs[p].next /\ procs'[p].todo = procs[p].todo
           /\ \A q \in Sessions : q # p => procs'[q] = procs[q]
<1> DEFINE row == [procs[p] EXCEPT !.step = s]
<1>1. procs[p] \in ProcRows /\ RowFits(procs[p])
  BY DEF Processes
<1>2. /\ row \in ProcRows /\ row.step = s /\ row.cur = procs[p].cur
      /\ row.next = procs[p].next /\ row.todo = procs[p].todo
      /\ row.heard = procs[p].heard /\ row.harness = procs[p].harness
  BY <1>1 DEF ProcRows
<1>3. Becomes(p, row)
  BY DEF Goes
<1> HIDE DEF row
<1>4. RowFits(row)
  BY <1>1, <1>2 DEF RowFits
<1>5. QED BY <1>2, <1>3, <1>4, RowBecomes

LEMMA BecomesOff ==
    ASSUME Processes, NEW p \in Sessions, Becomes(p, Off)
    PROVE  /\ Processes' /\ procs'[p].step = "off" /\ procs'[p].todo = {}
           /\ \A q \in Sessions : q # p => procs'[q] = procs[q]
BY OffFits, RowBecomes

(* A process at none of the steps that hold something to show, and what    *)
(* the others hold while one of them moves.                                *)
LEMMA IdleWorks ==
    ASSUME NEW p, Works(procs[p]), Settles, procs'[p].todo \subseteq procs[p].todo,
           procs'[p].step \notin {"turn", "showing", "acking", "replaying"}
    PROVE  Works(procs[p])'
BY DEF Works, Replaying, Settles

LEMMA OthersWork ==
    ASSUME Processes, Work, NEW p \in Sessions, Settles, LeavesTurns \/ procs[p].harness,
           projected \subseteq projected',
           \A q \in Sessions : q # p => procs'[q] = procs[q],
           Works(procs[p])'
    PROVE  Work'
<1> SUFFICES ASSUME NEW q \in Sessions, q # p PROVE Works(procs[q])'
  BY DEF Work
<1>1. procs'[q] = procs[q] /\ Works(procs[q]) /\ RowFits(procs[q])
  BY DEF Work, Processes
<1>2. procs[q].harness => LeavesTurns
  BY DEF Processes
<1>3. procs[q].step = "turn" \/ Replaying(procs[q]) => procs[q].harness
  BY <1>1 DEF RowFits, Replaying, HarnessSteps, ReturnSteps
<1>4. QED BY <1>1, <1>2, <1>3 DEF Works, Replaying, Settles, LeavesTurns
-----------------------------------------------------------------------------
(* Every step of a process leaves its own row, and so all of them, fitting *)
(* the store: what it shows is settled, the turn it runs is active.        *)
LEMMA OwnRow ==
    ASSUME Store, Processes, Work, NEW p \in Sessions, ProcessNext(p), Settles
    PROVE  /\ Processes' /\ Works(procs[p])'
           /\ \A q \in Sessions : q # p => procs'[q] = procs[q]
<1> DEFINE cur == procs[p].cur
           Moved == /\ Processes' /\ \A q \in Sessions : q # p => procs'[q] = procs[q]
           Good == /\ Moved /\ Works(procs[p])'
<1>1. /\ procs[p] \in ProcRows /\ RowFits(procs[p]) /\ Works(procs[p])
      /\ procs \in [Sessions -> ProcRows]
  BY DEF Processes, Work
<1>2. cur \in TxIds \cup DetourIds \cup {Root} /\ procs[p].next \in Steps
  BY <1>1 DEF ProcRows
<1>3. NextSteps \subseteq Steps
  BY DEF NextSteps, Steps
<1>4. Root \notin TxIds /\ Root \notin DetourIds
  BY RootAssumption, SessionsAssumption
<1>5. ASSUME Becomes(p, Off) PROVE Good
  BY <1>1, <1>5, BecomesOff, IdleWorks
<1>6. ASSUME UNCHANGED procs, procs[p].step \notin {"turn", "showing", "acking", "replaying"}
      PROVE  Good
  BY <1>1, <1>6, IdleWorks DEF Processes, RowFits
<1>7. ASSUME NEW s \in Steps, Goes(p, s),
             s \notin {"turn", "publishing", "detour", "recovering", "showing", "acking",
                       "replaying"},
             procs[p].harness \/ s \notin HarnessSteps
      PROVE  Good
  <2>1. s \notin ReturnSteps
    BY <1>7 DEF ReturnSteps
  <2>2. /\ Processes' /\ procs'[p].step = s /\ procs'[p].todo = procs[p].todo
        /\ \A q \in Sessions : q # p => procs'[q] = procs[q]
    BY <1>1, <1>7, <2>1, GoesFits
  <2>3. Works(procs[p])'
    BY <1>1, <1>7, <2>2, IdleWorks
  <2>4. QED BY <2>2, <2>3
<1>8. ASSUME Becomes(p, [Off EXCEPT !.step = "prompt"]) PROVE Good
  <2> DEFINE row == [Off EXCEPT !.step = "prompt"]
  <2>1. /\ row \in ProcRows /\ row.step = "prompt" /\ row.todo = {} /\ ~row.harness
        /\ row.heard = Off.heard
    BY OffFits DEF ProcRows, Steps
  <2>2. Becomes(p, row)
    BY <1>8
  <2> HIDE DEF row
  <2>3. RowFits(row)
    BY <2>1, OffFits DEF RowFits, HarnessSteps, ReturnSteps
  <2>4. Processes' /\ procs'[p] = row /\ \A q \in Sessions : q # p => procs'[q] = procs[q]
    BY <2>1, <2>2, <2>3, RowBecomes
  <2>5. QED BY <1>1, <2>1, <2>4, IdleWorks
<1>9. ASSUME StartHarness(p) PROVE Good
  <2> DEFINE row == [Off EXCEPT !.step = "opening", !.harness = TRUE]
  <2>1. /\ row \in ProcRows /\ row.step = "opening" /\ row.todo = {} /\ row.harness
        /\ row.heard = Off.heard
    BY OffFits DEF ProcRows, Steps
  <2>2. Becomes(p, row) /\ ~Leased
    BY <1>9 DEF StartHarness
  <2> HIDE DEF row
  <2>3. RowFits(row)
    BY <2>1, OffFits DEF RowFits, HarnessSteps, ReturnSteps
  <2>4. Processes' /\ procs'[p] = row /\ \A q \in Sessions : q # p => procs'[q] = procs[q]
    BY <2>1, <2>2, <2>3, RowBecomes
  <2>5. QED BY <1>1, <2>1, <2>4, IdleWorks
<1>10. ASSUME \/ StartWithoutHarness(p) \/ OpenRefused(p) \/ EnterRefused(p) \/ Crash(p)
              \/ CommandRefused(p) \/ (\E m \in Messages : RecoveryRefused(p, m))
       PROVE  Good
  BY <1>5, <1>8, <1>10 DEF StartWithoutHarness, OpenRefused, EnterRefused, Crash,
     CommandRefused, RecoveryRefused
<1>11. ASSUME \/ (\E t \in TxIds : \/ CloseInterrupted(p, t)
                                   \/ (\E e \in Payloads : PublishMissing(p, t, e)))
              \/ RecoverTermination(p) \/ (\E c \in Ckpts : EnsureProductHead(p, c))
              \/ (\E m \in Messages : StreamChunk(p, m))
       PROVE  Good
  <2>1. UNCHANGED procs
    BY <1>11 DEF CloseInterrupted, PublishMissing, RecoverTermination, EnsureProductHead,
       StreamChunk
  <2>2. procs[p].step \in {"opening", "recovering", "entering", "prompt", "detour"}
    BY <1>11 DEF CloseInterrupted, PublishMissing, RecoverTermination, EnsureProductHead,
       StreamChunk, At
  <2>3. QED BY <1>6, <2>1, <2>2
<1>12. ASSUME Opened(p) PROVE Good
  <2>1. /\ Goes(p, "replaying") /\ procs[p].harness /\ PendingEvents' = {}
    BY <1>1, <1>12 DEF Opened, At, RowFits, HarnessSteps, store, PendingEvents
  <2>2. /\ Processes' /\ procs'[p].step = "replaying" /\ procs'[p].todo = procs[p].todo
        /\ \A q \in Sessions : q # p => procs'[q] = procs[q]
    BY <1>1, <2>1, GoesFits DEF Steps, HarnessSteps, ReturnSteps
  <2>3. Works(procs[p])'
    BY <1>1, <2>1, <2>2 DEF Works, Replaying, Settles
  <2>4. QED BY <2>2, <2>3
<1>13. ASSUME NEW t \in TxIds, ReplayOutcome(p, t) PROVE Good
  <2>1. /\ Takes(p, "showing", t, "replaying") /\ procs[p].harness
        /\ UNCHANGED store /\ outbox[t].kind # "none" /\ PendingEvents = {}
    BY <1>1, <1>13 DEF ReplayOutcome, At, RowFits, HarnessSteps, Undelivered, Works, Replaying
  <2>2. PendingEvents' = {} /\ t \in SettledTurns'
    BY <2>1 DEF store, PendingEvents, SettledTurns
  <2>3. /\ Processes' /\ procs'[p].step = "showing" /\ procs'[p].todo = procs[p].todo
        /\ procs'[p].cur = t
        /\ \A q \in Sessions : q # p => procs'[q] = procs[q]
    <3>1. t # Root
      BY <1>4
    <3>2. "replaying" \in NextSteps /\ "replaying" \in Steps
      BY DEF NextSteps, Steps
    <3>3. QED BY <2>1, <3>1, <3>2, ShowingFits
  <2>4. Works(procs[p])'
    BY <1>1, <2>2, <2>3 DEF Works, Settles
  <2>5. QED BY <2>3, <2>4
<1>14. ASSUME FinishReplay(p) PROVE Good
  <2>1. procs[p].harness
    BY <1>1, <1>14 DEF FinishReplay, At, RowFits, HarnessSteps
  <2>2. CASE Goes(p, "listing")
    BY <1>7, <2>1, <2>2 DEF Steps
  <2>3. ASSUME NEW d \in PreparedDetours,
               Becomes(p, [procs[p] EXCEPT !.step = "recovering", !.cur = d,
                                           !.heard = detours[d].chunks])
        PROVE  Good
    <3> DEFINE row == [procs[p] EXCEPT !.step = "recovering", !.cur = d,
                                       !.heard = detours[d].chunks]
    <3>1. /\ d \in DetourIds /\ detours[d].chunks \in Seq(Messages)
          /\ Len(detours[d].chunks) =< MaxChunks
      BY DEF PreparedDetours, Store, DetourTypes, DetourRows, ChunksBounded
    <3>2. /\ row.step = "recovering" /\ row.cur = d /\ row.todo = procs[p].todo
          /\ row.harness = procs[p].harness /\ row.heard = detours[d].chunks
          /\ row.next = procs[p].next
      BY <1>1 DEF ProcRows
    <3>3. row \in ProcRows
      BY <1>1, <3>1 DEF ProcRows, Steps
    <3>4. Becomes(p, row)
      BY <2>3
    <3> HIDE DEF row
    <3>5. RowFits(row)
      BY <2>1, <3>1, <3>2 DEF RowFits, HarnessSteps, ReturnSteps
    <3>6. Processes' /\ procs'[p] = row /\ \A q \in Sessions : q # p => procs'[q] = procs[q]
      BY <2>1, <3>3, <3>4, <3>5, RowBecomes
    <3>7. QED BY <1>1, <3>2, <3>6, IdleWorks
  <2>4. QED BY <1>14, <2>2, <2>3 DEF FinishReplay
<1>15. ASSUME NEW m \in Messages, RecoverDetour(p, m) PROVE Good
  <2> DEFINE row == [procs[p] EXCEPT !.step = "listing", !.heard = <<>>]
  <2>1. procs[p].harness /\ Becomes(p, row)
    BY <1>1, <1>15 DEF RecoverDetour, At, RowFits, HarnessSteps
  <2>2. /\ row \in ProcRows /\ row.step = "listing" /\ row.todo = procs[p].todo
        /\ row.harness = procs[p].harness /\ row.heard = <<>>
    <3>1. /\ procs[p] \in ProcRows
          /\ "listing" \in Steps /\ <<>> \in Seq(Messages)
      BY <1>1 DEF Steps
    <3>2. QED BY <3>1 DEF ProcRows
  <2>3. Len(<<>>) =< MaxChunks
    BY MaxChunksAssumption
  <2> HIDE DEF row
  <2>4. RowFits(row)
    BY <2>1, <2>2, <2>3 DEF RowFits, ReturnSteps
  <2>5. Processes' /\ procs'[p] = row /\ \A q \in Sessions : q # p => procs'[q] = procs[q]
    BY <2>1, <2>2, <2>4, RowBecomes
  <2>6. QED BY <1>1, <2>2, <2>5, IdleWorks
<1>16. ASSUME ListUndelivered(p) PROVE Good
  <2> DEFINE row == [procs[p] EXCEPT !.step = "redelivering", !.todo = UndeliveredDetours]
  <2>1. procs[p].harness /\ Becomes(p, row)
    BY <1>1, <1>16 DEF ListUndelivered, At, RowFits, HarnessSteps
  <2>2. UndeliveredDetours \subseteq CompletedDetours /\ UndeliveredDetours \subseteq DetourIds
    BY DEF UndeliveredDetours, CompletedDetours
  <2>3. /\ row \in ProcRows /\ row.step = "redelivering" /\ row.todo = UndeliveredDetours
        /\ row.harness = procs[p].harness /\ row.heard = procs[p].heard
    BY <1>1, <2>2 DEF ProcRows, Steps
  <2> HIDE DEF row
  <2>4. RowFits(row)
    BY <1>1, <2>1, <2>3 DEF RowFits, ReturnSteps
  <2>5. Processes' /\ procs'[p] = row /\ \A q \in Sessions : q # p => procs'[q] = procs[q]
    BY <2>1, <2>3, <2>4, RowBecomes
  <2>6. Works(procs[p])'
    BY <2>2, <2>3, <2>5 DEF Works, Replaying, Settles
  <2>7. QED BY <2>5, <2>6
<1>17. ASSUME NEW d \in DetourIds, RedeliverDetour(p, d) PROVE Good
  <2> DEFINE row == [procs[p] EXCEPT !.step = "showing", !.cur = d,
                       !.next = "redelivering", !.todo = @ \ {d}]
  <2>1. procs[p].harness /\ Becomes(p, row) /\ d \in procs[p].todo
    BY <1>1, <1>17 DEF RedeliverDetour, At, RowFits, HarnessSteps
  <2>2. /\ row \in ProcRows /\ row.step = "showing" /\ row.todo = procs[p].todo \ {d}
        /\ row.cur = d /\ row.next = "redelivering"
        /\ row.harness = procs[p].harness /\ row.heard = procs[p].heard
    BY <1>1 DEF ProcRows, Steps
  <2> HIDE DEF row
  <2>3. RowFits(row)
    BY <1>1, <1>4, <2>1, <2>2 DEF RowFits, NextSteps
  <2>4. Processes' /\ procs'[p] = row /\ \A q \in Sessions : q # p => procs'[q] = procs[q]
    BY <2>1, <2>2, <2>3, RowBecomes
  <2>5. Works(procs[p])'
    BY <1>1, <2>1, <2>2, <2>4 DEF Works, Replaying, Settles
  <2>6. QED BY <2>4, <2>5
<1>18. ASSUME FinishRedelivery(p) PROVE Good
  <2>1. procs[p].harness
    BY <1>1, <1>18 DEF FinishRedelivery, At, RowFits, HarnessSteps
  <2>2. QED BY <1>7, <1>18, <2>1 DEF FinishRedelivery, Steps
<1>19. ASSUME OfferDependencies(p) \/ Announce(p) PROVE Good
  BY <1>5, <1>7, <1>19 DEF OfferDependencies, Announce, Steps, HarnessSteps
<1>20. ASSUME NEW t \in TxIds, Enter(p, t) \/ BeginTurn(p, t) PROVE Good
  <2>1. PICK next \in {"entering", "announcing", "prompt"} : Takes(p, "turn", t, next)
    BY <1>20 DEF Enter, BeginTurn
  <2>2. procs[p].harness
    BY <1>1, <1>20 DEF Enter, BeginTurn, At, RowFits, HarnessSteps
  <2>3. t \in ActiveAttempts'
    BY <1>20 DEF Enter, BeginTurn, BeginAttempt, ActiveAttempts, Store, Turns, TurnTypes
  <2>4. next \in Steps /\ next \in NextSteps /\ next # "replaying" /\ "turn" \in Steps
    BY DEF Steps, NextSteps
  <2>5. /\ Processes' /\ procs'[p].step = "turn" /\ procs'[p].todo = procs[p].todo
        /\ procs'[p].cur = t
        /\ \A q \in Sessions : q # p => procs'[q] = procs[q]
    BY <2>1, <2>2, <2>4, TakesFits
  <2>6. Works(procs[p])'
    BY <1>1, <2>3, <2>5 DEF Works, Replaying, Settles
  <2>7. QED BY <2>5, <2>6
<1>21. ASSUME NEW c \in Ckpts, CommitTurn(p, c) PROVE Good
  <2>1. /\ Goes(p, "publishing") /\ procs[p].harness /\ cur \in TxIds
        /\ procs[p].next \in NextSteps /\ procs[p].next # "replaying"
    BY <1>1, <1>21 DEF CommitTurn, At, RowFits, HarnessSteps, ReturnSteps
  <2>2. /\ Processes' /\ procs'[p].step = "publishing" /\ procs'[p].todo = procs[p].todo
        /\ \A q \in Sessions : q # p => procs'[q] = procs[q]
    BY <2>1, GoesFits DEF Steps
  <2>3. QED BY <1>1, <2>2, IdleWorks
<1>22. ASSUME Goes(p, "showing"), cur # Root, procs[p].next \in NextSteps,
              procs[p].next # "replaying",
              procs[p].next \in HarnessSteps => procs[p].harness,
              cur \in SettledTurns' \cup CompletedDetours'
       PROVE  Good
  <2>1. /\ Processes' /\ procs'[p].step = "showing" /\ procs'[p].todo = procs[p].todo
        /\ procs'[p].cur = cur /\ procs'[p].next = procs[p].next
        /\ \A q \in Sessions : q # p => procs'[q] = procs[q]
    BY <1>22, GoesFits DEF Steps, HarnessSteps
  <2>2. Works(procs[p])'
    BY <1>1, <1>22, <2>1 DEF Works, Replaying, Settles
  <2>3. QED BY <2>1, <2>2
<1>23. ASSUME NEW e \in Payloads, PublishTurn(p, e) PROVE Good
  <2>1. /\ Goes(p, "showing") /\ procs[p].harness /\ cur \in TxIds
        /\ procs[p].next \in NextSteps /\ procs[p].next # "replaying"
        /\ MarkRuntimeEventPublished(cur, e)
    BY <1>1, <1>23 DEF PublishTurn, At, RowFits, HarnessSteps, ReturnSteps
  <2>2. outbox \in [TxIds -> OutboxRows]
    BY DEF Store, Turns, TurnTypes, OutboxRows
  <2>3. outbox'[cur].kind = "committed" /\ outbox'[cur].event = "published"
    BY <2>1, <2>2 DEF MarkRuntimeEventPublished, Committed, OutboxRows
  <2>4. cur \in SettledTurns'
    BY <2>1, <2>3 DEF SettledTurns
  <2>5. QED BY <1>4, <1>22, <2>1, <2>4
<1>24. ASSUME FailTurn(p) PROVE Good
  <2>1. /\ procs[p].harness /\ cur \in TxIds
        /\ procs[p].next \in NextSteps /\ procs[p].next # "replaying"
        /\ AbortAttempt(cur) \/ RequireReconciliation(cur)
    BY <1>1, <1>24 DEF FailTurn, At, RowFits, HarnessSteps, ReturnSteps
  <2>2. outbox'[cur].kind # "none" /\ outbox'[cur].event # "pending"
    <3>1. PICK kind \in {"aborted", "reconciliation_required"} :
             FinishAttempt(cur, kind, head)
      BY <2>1 DEF AbortAttempt, RequireReconciliation
    <3>2. outbox' = [outbox EXCEPT ![cur] =
             [kind |-> kind, product |-> head,
              event |-> IF kind = "committed" THEN "pending" ELSE "not_applicable",
              payload |-> NoPayload, delivered |-> FALSE]]
      BY <3>1 DEF FinishAttempt
    <3>3. QED BY <2>1, <3>2 DEF Store, Turns, TurnTypes
  <2>3. cur \in SettledTurns'
    BY <2>1, <2>2 DEF SettledTurns
  <2>4. QED BY <1>4, <1>5, <1>22, <1>24, <2>1, <2>3 DEF FailTurn
<1>25. ASSUME NEW d \in DetourIds, NEW next \in {"prompt", "off"}, Takes(p, "detour", d, next)
       PROVE  Good
  <2>1. next \in Steps /\ next \in NextSteps /\ next \notin HarnessSteps
        /\ next # "replaying" /\ "detour" \in Steps
    BY DEF Steps, NextSteps, HarnessSteps
  <2>2. /\ Processes' /\ procs'[p].step = "detour" /\ procs'[p].todo = procs[p].todo
        /\ \A q \in Sessions : q # p => procs'[q] = procs[q]
    BY <1>25, <2>1, TakesFits DEF HarnessSteps
  <2>3. QED BY <1>1, <2>2, IdleWorks
<1>26. ASSUME NEW d \in DetourIds, BeginCommand(p, d) PROVE Good
  BY <1>25, <1>26 DEF BeginCommand
<1>27. ASSUME NEW d \in DetourIds, NEW next \in {"prompt", "off"}, Takes(p, "showing", d, next),
              d \in CompletedDetours'
       PROVE  Good
  <2>1. next \in Steps /\ next \in NextSteps /\ next \notin HarnessSteps
        /\ next # "replaying" /\ "showing" \in Steps
    BY DEF Steps, NextSteps, HarnessSteps
  <2>2. /\ Processes' /\ procs'[p].step = "showing" /\ procs'[p].todo = procs[p].todo
        /\ procs'[p].cur = d /\ procs'[p].next = next
        /\ \A q \in Sessions : q # p => procs'[q] = procs[q]
    <3>1. d # Root
      BY <1>4
    <3>2. QED BY <1>27, <2>1, <3>1, ShowingFits
  <2>3. Works(procs[p])'
    BY <1>1, <1>27, <2>1, <2>2 DEF Works, Replaying, Settles
  <2>4. QED BY <2>2, <2>3
<1>28. ASSUME NEW m \in Messages, FinishDetour(p, m) PROVE Good
  <2>1. /\ cur \in DetourIds /\ procs[p].next \in NextSteps
        /\ procs[p].next \in HarnessSteps => procs[p].harness
        /\ procs[p].next # "replaying"
    BY <1>1, <1>28 DEF FinishDetour, At, RowFits, ReturnSteps
  <2>2. \E r, e, s : CompleteDetour(cur, r, e, s)
    BY <1>28 DEF FinishDetour
  <2>3. detours'[cur].status = "completed"
    <3>1. detours \in [DetourIds -> DetourRows]
      BY DEF Store, DetourTypes
    <3>2. PICK response, effect, stop : CompleteDetour(cur, response, effect, stop)
      BY <2>2
    <3>3. detours' = [detours EXCEPT ![cur].status = "completed", ![cur].after = head,
                         ![cur].response = response, ![cur].effect = effect,
                         ![cur].stop = stop]
      BY <3>2 DEF CompleteDetour
    <3>4. cur \in DetourIds
      BY <2>1
    <3>5. detours[cur] \in DetourRows
      BY <3>1, <3>4
    <3>6. detours'[cur] = [detours[cur] EXCEPT !.status = "completed", !.after = head,
                              !.response = response, !.effect = effect, !.stop = stop]
      BY <3>1, <3>3, <3>4
    <3>7. QED BY <3>5, <3>6 DEF DetourRows
  <2>4. cur \in CompletedDetours'
    BY <2>1, <2>3 DEF CompletedDetours
  <2>5. Goes(p, "showing") \/ \E next \in {"prompt", "off"} : Takes(p, "showing", cur, next)
    BY <1>28 DEF FinishDetour
  <2>6. QED BY <1>4, <1>22, <1>27, <2>1, <2>4, <2>5
<1>29. ASSUME NEW m \in Messages, FinishRefused(p, m) PROVE Good
  BY <1>5, <1>7, <1>29 DEF FinishRefused, Steps, HarnessSteps
<1>30. ASSUME NEW d \in DetourIds, NEW t \in TxIds, NEW v \in Verdicts, NEW m \in Messages,
              Reconcile(p, d, t, v, m)
       PROVE  Good
  <2>1. /\ Takes(p, "showing", d, "prompt")
        /\ detours' = [detours EXCEPT ![d] = AuthorityReply(<<m>>, v)]
    BY <1>30 DEF Reconcile, ResolveTurnWithDetour
  <2>2. AuthorityReply(<<m>>, v).status = "completed"
    BY DEF AuthorityReply, AbsentDetour
  <2>3. d \in CompletedDetours'
    BY <2>1, <2>2 DEF CompletedDetours, Store, DetourTypes
  <2>4. QED BY <1>27, <2>1, <2>3
<1>31. ASSUME Project(p) PROVE Good
  <2>1. /\ Goes(p, "acking") /\ cur # Root /\ procs[p].next \in NextSteps
        /\ procs[p].next \in HarnessSteps => procs[p].harness
        /\ procs[p].step = "showing" /\ cur \in projected' /\ UNCHANGED store
    BY <1>1, <1>31 DEF Project, At, RowFits, ReturnSteps
  <2>2. /\ Processes' /\ procs'[p].step = "acking" /\ procs'[p].todo = procs[p].todo
        /\ procs'[p].cur = cur /\ procs'[p].next = procs[p].next
        /\ \A q \in Sessions : q # p => procs'[q] = procs[q]
    BY <2>1, GoesFits DEF Steps, HarnessSteps
  <2>3. PendingEvents' = PendingEvents
    BY <2>1 DEF store, PendingEvents
  <2>4. Works(procs[p])'
    BY <1>1, <2>1, <2>2, <2>3 DEF Works, Replaying, Settles
  <2>5. QED BY <2>2, <2>4
<1>32. ASSUME Acknowledge(p) PROVE Good
  <2>1. /\ procs[p].step = "acking" /\ procs[p].next \in NextSteps
        /\ procs[p].next \in HarnessSteps => procs[p].harness
    BY <1>1, <1>32 DEF Acknowledge, At, RowFits, ReturnSteps
  <2>2. PendingEvents' = PendingEvents
    <3>1. outbox \in [TxIds -> OutboxRows]
      BY DEF Store, Turns, TurnTypes, OutboxRows
    <3>2. CASE cur \in TxIds /\ MarkTerminalDelivered(cur)
      <4>1. \A u \in TxIds : outbox'[u].event = outbox[u].event
        BY <3>1, <3>2 DEF MarkTerminalDelivered, OutboxRows
      <4>2. QED BY <4>1 DEF PendingEvents
    <3>3. CASE MarkDetourDelivered(cur)
      BY <3>3 DEF MarkDetourDelivered, PendingEvents
    <3>4. QED BY <1>32, <3>2, <3>3 DEF Acknowledge
  <2>3. CASE Takes(p, procs[p].next, Root, "off")
    <3>1. /\ "off" \in Steps
          /\ procs[p].next \notin {"turn", "publishing", "detour", "recovering", "showing",
                                   "acking"}
          /\ procs[p].next \notin ReturnSteps
      BY <2>1 DEF NextSteps, ReturnSteps, Steps
    <3>2. /\ Processes' /\ procs'[p].step = procs[p].next /\ procs'[p].todo = procs[p].todo
          /\ \A q \in Sessions : q # p => procs'[q] = procs[q]
      BY <1>2, <2>1, <2>3, <3>1, TakesFits
    <3>3. Works(procs[p])'
      BY <1>1, <2>1, <2>2, <3>1, <3>2 DEF Works, Replaying, Settles
    <3>4. QED BY <3>2, <3>3
  <2>4. QED BY <1>5, <1>32, <2>3 DEF Acknowledge
<1>33. CASE Proceed(p)
  BY <1>10, <1>11, <1>12, <1>13, <1>14, <1>15, <1>16, <1>17, <1>18, <1>19, <1>20, <1>21,
     <1>23, <1>24, <1>28, <1>29, <1>31, <1>32, <1>33 DEF Proceed
<1>34. QED BY <1>9, <1>10, <1>11, <1>20, <1>26, <1>30, <1>33 DEF ProcessNext, Starts, Resolves

-----------------------------------------------------------------------------
(* The inductive invariant: the store's own, the shape of the processes'   *)
(* rows, what the rows claim of the store, and what the file holds.        *)
SessionsInv == Store /\ Processes /\ Work /\ Shown

LEMMA SessionsInvInit == SessionsInit => SessionsInv
<1> SUFFICES ASSUME SessionsInit PROVE SessionsInv
  OBVIOUS
<1>1. Init /\ procs = [p \in Sessions |-> Off] /\ projected = {} /\ crashes = 0
  BY DEF SessionsInit
<1>2. ChunksBounded
  <2>1. Len(<<>>) =< MaxChunks
    BY MaxChunksAssumption
  <2>2. QED BY <1>1, <2>1 DEF Init, ChunksBounded, AbsentDetour
<1>3. OutcomesRead /\ DetoursRead
  BY <1>1 DEF Init, OutcomesRead, DetoursRead, AbsentOutcome, AbsentDetour
<1>4. Store
  BY <1>1, <1>2, <1>3, TurnsInit, DetourTypesInit, AuthorityInit DEF Store
<1>5. Processes
  BY <1>1, OffFits DEF Processes
<1>6. Work
  BY <1>1, OffFits DEF Work, Works, Replaying
<1>7. Shown
  BY <1>1, SessionsAssumption DEF Shown, DeliveredWasProjected, Init, AbsentOutcome, AbsentDetour
<1>8. QED BY <1>4, <1>5, <1>6, <1>7 DEF SessionsInv

(* Only Project adds to the protocol file, and only what is settled.       *)
LEMMA ProjectedGrows ==
    ASSUME SessionsInv, NEW p \in Sessions, ProcessNext(p)
    PROVE  /\ projected \subseteq projected'
           /\ projected' \subseteq projected \cup SettledTurns \cup CompletedDetours
           /\ crashes' \in 0..MaxCrashes
<1> DEFINE Grows == /\ projected \subseteq projected'
                    /\ projected' \subseteq projected \cup SettledTurns \cup CompletedDetours
                    /\ crashes' \in 0..MaxCrashes
<1>1. crashes \in 0..MaxCrashes /\ Works(procs[p])
  BY DEF SessionsInv, Shown, Work
<1>2. ASSUME Beside PROVE Grows
  BY <1>1, <1>2 DEF Beside
<1>3. ASSUME Project(p) PROVE Grows
  BY <1>1, <1>3 DEF Project, At, Works
<1>4. ASSUME Crash(p) PROVE Grows
  BY <1>1, <1>4, SessionsAssumption DEF Crash
<1>5. CASE Proceed(p)
  <2>1. ASSUME \/ OpenRefused(p) \/ Opened(p) \/ FinishReplay(p) \/ RecoverTermination(p)
               \/ ListUndelivered(p) \/ FinishRedelivery(p) \/ OfferDependencies(p)
               \/ EnterRefused(p) \/ Announce(p) \/ FailTurn(p) \/ Acknowledge(p)
        PROVE  Beside
    BY <2>1 DEF OpenRefused, Opened, FinishReplay, RecoverTermination, ListUndelivered,
       FinishRedelivery, OfferDependencies, EnterRefused, Announce, FailTurn, Acknowledge
  <2>2. ASSUME NEW t, \/ CloseInterrupted(p, t) \/ ReplayOutcome(p, t) \/ Enter(p, t)
                      \/ (\E e : PublishMissing(p, t, e)) \/ RedeliverDetour(p, t)
                      \/ CommitTurn(p, t) \/ EnsureProductHead(p, t) \/ PublishTurn(p, t)
        PROVE  Beside
    BY <2>2 DEF CloseInterrupted, ReplayOutcome, Enter, PublishMissing, RedeliverDetour,
       CommitTurn, EnsureProductHead, PublishTurn
  <2>3. ASSUME NEW m, \/ RecoverDetour(p, m) \/ RecoveryRefused(p, m)
                      \/ FinishDetour(p, m) \/ FinishRefused(p, m)
        PROVE  Beside
    BY <2>3 DEF RecoverDetour, RecoveryRefused, FinishDetour, FinishRefused
  <2>4. QED BY <1>2, <1>3, <1>5, <2>1, <2>2, <2>3 DEF Proceed
<1>6. ASSUME \/ Starts(p) \/ CommandRefused(p) \/ (\E c : EnsureProductHead(p, c))
             \/ (\E t : BeginTurn(p, t)) \/ (\E d : BeginCommand(p, d))
             \/ (\E m : StreamChunk(p, m)) \/ (\E d, t, v, m : Reconcile(p, d, t, v, m))
      PROVE  Beside
  BY <1>6 DEF Starts, StartHarness, StartWithoutHarness, CommandRefused, EnsureProductHead,
     BeginTurn, BeginCommand, StreamChunk, Reconcile
<1>7. QED BY <1>2, <1>4, <1>5, <1>6 DEF ProcessNext, Resolves

LEMMA SessionsInvStep ==
    SessionsInv /\ [SessionsNext]_allvars => SessionsInv' /\ [Next]_vars
<1> SUFFICES ASSUME SessionsInv, [SessionsNext]_allvars PROVE SessionsInv' /\ [Next]_vars
  OBVIOUS
<1>1. CASE UNCHANGED allvars
  <2>1. UNCHANGED <<head, attempts, outbox, resolutions, detours, procs, projected, crashes>>
    BY <1>1 DEF allvars, store
  <2>2. StoreAct(CHOOSE p : TRUE)
    BY <2>1 DEF StoreAct, store
  <2>3. Store' /\ [Next]_vars
    BY <2>2, StoreKept, StoreActIsNext DEF SessionsInv
  <2>4. Processes' /\ Work' /\ Shown'
    BY <2>1 DEF SessionsInv, Processes, RowFits, Work, Works, Replaying, Shown, SettledTurns,
       CompletedDetours, ActiveAttempts, PendingEvents, DeliveredWasProjected
  <2>5. QED BY <2>3, <2>4 DEF SessionsInv
<1>2. ASSUME NEW p \in Sessions, ProcessNext(p) PROVE SessionsInv' /\ [Next]_vars
  <2>1. Store /\ Processes /\ Work /\ Shown
    BY DEF SessionsInv
  <2>2. StoreAct(p)
    BY <1>2, <2>1, ProcessActs
  <2>3. Store' /\ [Next]_vars
    BY <2>1, <2>2, StoreKept, StoreActIsNext
  <2>4. Settles /\ Delivers /\ (LeavesTurns \/ procs[p].harness)
    BY <2>1, <2>2, StoreMoves DEF Store
  <2>5. /\ Processes' /\ Works(procs[p])'
        /\ \A q \in Sessions : q # p => procs'[q] = procs[q]
    BY <1>2, <2>1, <2>4, OwnRow
  <2>6. /\ projected \subseteq projected'
        /\ projected' \subseteq projected \cup SettledTurns \cup CompletedDetours
        /\ crashes' \in 0..MaxCrashes
    BY <1>2, ProjectedGrows
  <2>7. Work'
    BY <2>1, <2>4, <2>5, <2>6, OthersWork
  <2>8. DeliveredWasProjected'
    BY <2>1, <2>4, <2>6 DEF Shown, DeliveredWasProjected, Delivers
  <2>9. Shown'
    BY <2>1, <2>4, <2>6, <2>8 DEF Shown, Settles
  <2>10. QED BY <2>3, <2>5, <2>7, <2>9 DEF SessionsInv
<1>3. QED BY <1>1, <1>2 DEF SessionsNext, ProcessNext

(* What several processes do together is what the store allows one caller  *)
(* to do, so that every theorem about the store holds of them.             *)
THEOREM SessionsUseStore == SessionsSpec => Spec
<1>1. SessionsInit => Init
  BY DEF SessionsInit
<1>2. QED BY <1>1, SessionsInvInit, SessionsInvStep, PTL DEF SessionsSpec, Spec

(* Processes keep to their rows: a turn, an opening, a replay and their    *)
(* displays happen only in the process that holds the lease                *)
(* (ProductAuthorityLease).                                                *)
THEOREM SessionsTypeTheorem == SessionsSpec => []SessionsTypeOK
<1>1. SessionsInv => SessionsTypeOK
  <2> SUFFICES ASSUME SessionsInv PROVE SessionsTypeOK
    OBVIOUS
  <2>1. procs \in [Sessions -> ProcRows] /\ \A p \in Sessions : RowFits(procs[p])
    BY DEF SessionsInv, Processes
  <2>2. projected \subseteq TxIds \cup DetourIds /\ crashes \in 0..MaxCrashes
    BY DEF SessionsInv, Shown, SettledTurns, CompletedDetours
  <2>3. QED BY <2>1, <2>2 DEF SessionsTypeOK, ProcRows, RowFits, HarnessSteps
<1>2. QED BY <1>1, SessionsInvInit, SessionsInvStep, PTL DEF SessionsSpec

(* No process's recovery closes the turn another one is running, and the   *)
(* turn a process runs is based on the current head                        *)
(* (_recover_interrupted_attempts runs under the lease).                   *)
THEOREM LiveTurnTheorem == SessionsSpec => []LiveTurnIsActive
<1>1. SessionsInv => LiveTurnIsActive
  BY DEF SessionsInv, Work, Works, Store, Authority, ActiveAttemptCanClose, ActiveAttempts,
     LiveTurnIsActive, At
<1>2. QED BY <1>1, SessionsInvInit, SessionsInvStep, PTL DEF SessionsSpec

(* Nothing is acknowledged that is not in the terminal protocol file, by   *)
(* this process or by a dead one (_deliver_terminal_outcome and            *)
(* _deliver_terminal_detour append before they mark).                      *)
THEOREM DeliveredTheorem == SessionsSpec => []DeliveredWasProjected
<1>1. SessionsInv => DeliveredWasProjected
  BY DEF SessionsInv, Shown
<1>2. QED BY <1>1, SessionsInvInit, SessionsInvStep, PTL DEF SessionsSpec

(* Only closed and published turns, and detours completed at the head they *)
(* observed, get into the terminal protocol file, and they stay that way   *)
(* (ensure_runtime_observation before a projection).                       *)
THEOREM ProjectionsTheorem == SessionsSpec => []ProjectionsAreSettled
<1>1. SessionsInv => ProjectionsAreSettled
  <2> SUFFICES ASSUME SessionsInv PROVE ProjectionsAreSettled
    OBVIOUS
  <2>1. projected \subseteq SettledTurns \cup CompletedDetours /\ DetoursRead
    BY DEF SessionsInv, Shown, Store
  <2>2. \A t \in projected \cap TxIds : t \in SettledTurns
    BY <2>1, SessionsAssumption DEF CompletedDetours
  <2>3. \A d \in projected \cap DetourIds : d \in CompletedDetours
    BY <2>1, SessionsAssumption DEF SettledTurns
  <2>4. \A d \in CompletedDetours :
           detours[d].status = "completed" /\ detours[d].before = detours[d].after
    BY <2>1 DEF CompletedDetours, DetoursRead, DetourReads, StatusReads
  <2>5. QED BY <2>2, <2>3, <2>4 DEF ProjectionsAreSettled, SettledTurns
<1>2. QED BY <1>1, SessionsInvInit, SessionsInvStep, PTL DEF SessionsSpec
=============================================================================
