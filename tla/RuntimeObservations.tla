------------------------ MODULE RuntimeObservations ------------------------
(***************************************************************************)
(* AnyChainGraphRuntime of agent/harness/graph.py beside the store: the    *)
(* process that holds the authority lease, the repository it runs from,    *)
(* and the append-only JSONL log every committed turn must appear in       *)
(* before it is shown.  A crash can fall between any two steps; a start    *)
(* closes what was left active and rebuilds what the log lacks.            *)
(*                                                                         *)
(* A repository revision stands for (commit, worktree hash); a payload for *)
(* what distinguishes two payloads of one event, the revision stamped in   *)
(* it and its observation label.  Only the lease holder writes the log.    *)
(***************************************************************************)
EXTENDS TurnTransactions

CONSTANTS Revs,        \* repository revisions
          CanUpgrade,  \* whether a newer program may find an older checkpoint
          CanTear,     \* whether an append may fail half-way (disk full)
          MaxCrashes,  \* bound: crashes of the runtime
          NoRev

Observations == {"turn_committed", "turn_recovered"}

ASSUME PayloadsAssumption ==
    Payloads = [rev : Revs, observation : Observations]
ASSUME NoRevAssumption == NoRev \notin Revs
ASSUME RuntimeBoundsAssumption ==
    CanUpgrade \in BOOLEAN /\ CanTear \in BOOLEAN /\ MaxCrashes \in Nat

VARIABLES runtime,  \* the process: what it does and for which turn
          log,      \* the records of the runtime-event file
          repo,     \* the revision the repository is at
          origin,   \* origin_revision of each attempt
          stage,    \* how far each attempt's own checkpoints have come
          stale,    \* whether loading the head's checkpoint rewrites it
          crashes

store == <<head, attempts, outbox, resolutions, detours>>
allvars == <<store, runtime, log, repo, origin, stage, stale, crashes>>

Steps == {"down", "closing", "scanning", "quarantining", "rebuilding",
          "marking", "presenting", "idle", "seeding", "running", "observing"}
(* at is the next revision a rebuild looks at (0 outside one); goal is the *)
(* turn a scan is to present, Root for the scan of a start.                *)
Down == [step |-> "down", cur |-> Root, at |-> 0, goal |-> Root]
Idle == [Down EXCEPT !.step = "idle"]

Torn == [schema |-> "torn", seq |-> 0, tx |-> Root, payload |-> NoPayload]
Record(schema, t, p) ==
    [schema |-> schema, seq |-> outbox[t].product.rev, tx |-> t, payload |-> p]

Readable == \A i \in DOMAIN log : log[i].schema # "torn"
HasOlderRecords == \E i \in DOMAIN log : log[i].schema = "older"
InOrder == \A i, j \in DOMAIN log : i < j => log[i].seq =< log[j].seq
Logged(t) == \E i \in DOMAIN log : log[i].schema = "v6" /\ log[i].tx = t
RecordOf(t) ==
    log[CHOOSE i \in DOMAIN log : log[i].schema = "v6" /\ log[i].tx = t]

-----------------------------------------------------------------------------
NewRuntime == /\ runtime = Down
              /\ repo \in Revs
              /\ stale = FALSE
              /\ crashes = 0

FreshInit == /\ Init /\ NewRuntime
             /\ log = <<>>
             /\ origin = [t \in TxIds |-> NoRev]
             /\ stage = [t \in TxIds |-> "absent"]

(* One turn committed and published by a program that wrote older records: *)
(* the state tests/test_agent_turn_lifecycle.py:3284 starts from.          *)
OlderLogInit ==
    /\ NewRuntime
    /\ \E t \in TxIds, c \in Ckpts, p \in Payloads :
         LET base == [rev |-> 0, thread |-> Root, ckpt |-> c]
             product == [rev |-> 1, thread |-> t, ckpt |-> c]
         IN /\ head = product
            /\ attempts = [u \in TxIds |->
                 IF u = t THEN [status |-> "committed", base |-> base]
                 ELSE AbsentAttempt]
            /\ outbox = [u \in TxIds |->
                 IF u = t THEN [kind |-> "committed", product |-> product,
                                event |-> "published", payload |-> p,
                                delivered |-> FALSE]
                 ELSE AbsentOutcome]
            /\ log = <<[schema |-> "older", seq |-> 1, tx |-> t, payload |-> p]>>
            /\ origin = [u \in TxIds |-> IF u = t THEN p.rev ELSE NoRev]
            /\ stage = [u \in TxIds |-> IF u = t THEN "clean" ELSE "absent"]
    /\ resolutions = [t \in TxIds |-> NoVerdict]
    /\ detours = [d \in DetourIds |-> AbsentDetour]

RuntimeInit == FreshInit \/ OlderLogInit

-----------------------------------------------------------------------------
(* Starting: acquire the lease, close what is active, read the log.        *)

Goes(step) == runtime' = [runtime EXCEPT !.step = step]
Beside == UNCHANGED <<repo, origin, stage, stale, crashes>>

Start == /\ runtime.step = "down"
         /\ Goes("closing")
         /\ Beside /\ UNCHANGED <<store, log>>

(* _attempt_effect_evidence: an attempt without checkpoint, or with one    *)
(* that says invoking, needs an operator; so does one whose evidence       *)
(* cannot be read, whatever it is.                                         *)
CloseByTime(t) ==         \* variant: evidence is not consulted
    \/ RequireReconciliation(t)
    \/ AbortAttempt(t)

CloseByEvidence(t) ==
    \/ RequireReconciliation(t)
    \/ stage[t] = "clean" /\ AbortAttempt(t)

CloseInterrupted(t) ==
    /\ runtime.step = "closing"
    /\ CloseByEvidence(t)
    /\ Beside /\ UNCHANGED <<runtime, log>>

SkipClosing ==            \* variant: no look at the active attempts
    /\ runtime.step = "closing"
    /\ Goes("scanning")
    /\ Beside /\ UNCHANGED <<store, log>>

SkipScan ==               \* variant: served before the log is looked at
    /\ runtime.step = "closing"
    /\ ActiveAttempts = {}
    /\ Goes("idle")
    /\ Beside /\ UNCHANGED <<store, log>>

FinishClosing ==
    /\ runtime.step = "closing"
    /\ ActiveAttempts = {}
    /\ Goes("scanning")
    /\ Beside /\ UNCHANGED <<store, log>>

(* Every check of a scan raises when it fails: a start is left without a    *)
(* runtime (and the lease), a presentation ends the terminal's main loop.   *)
RefuseLog ==
    /\ runtime.step = "scanning"
    /\ Readable => ~HasOlderRecords /\ ~InOrder
    /\ runtime' = Down
    /\ Beside /\ UNCHANGED <<store, log>>

QuarantineOnly ==         \* variant: receipts are not put back
    /\ runtime.step = "scanning"
    /\ Readable /\ HasOlderRecords
    /\ Goes("quarantining")
    /\ Beside /\ UNCHANGED <<store, log>>

RequeueOlder ==
    /\ runtime.step = "scanning"
    /\ Readable /\ HasOlderRecords
    /\ RequeueRuntimeEvents
    /\ Goes("quarantining")
    /\ Beside /\ UNCHANGED log

QuarantineLog ==
    /\ runtime.step = "quarantining"
    /\ log' = <<>>
    /\ runtime' = [runtime EXCEPT !.step = "rebuilding", !.at = 1]
    /\ Beside /\ UNCHANGED store

AcceptExisting ==         \* variant: a log without records is refused
    /\ runtime.step = "scanning"
    /\ Readable /\ ~HasOlderRecords /\ InOrder /\ log # <<>>
    /\ runtime' = [runtime EXCEPT !.step = "rebuilding", !.at = 1]
    /\ Beside /\ UNCHANGED <<store, log>>

AcceptLog ==
    /\ runtime.step = "scanning"
    /\ Readable /\ ~HasOlderRecords /\ InOrder
    /\ runtime' = [runtime EXCEPT !.step = "rebuilding", !.at = 1]
    /\ Beside /\ UNCHANGED <<store, log>>

(* The rebuild takes the committed outcomes in revision order.             *)
Due(t) == /\ runtime.step = "rebuilding"
          /\ t \in Committed
          /\ outbox[t].product.rev = runtime.at

Validates(t, p) == /\ p.rev = origin[t]
                   /\ outbox[t].event = "published" => outbox[t].payload = p

ConfirmLogged(t) ==
    /\ Due(t) /\ Logged(t)
    /\ Validates(t, RecordOf(t).payload)
    /\ MarkRuntimeEventPublished(t, RecordOf(t).payload)
    /\ runtime' = [runtime EXCEPT !.at = @ + 1]
    /\ Beside /\ UNCHANGED log

RefuseRecord(t) ==
    /\ Due(t) /\ Logged(t)
    /\ ~Validates(t, RecordOf(t).payload)
    /\ runtime' = Down
    /\ Beside /\ UNCHANGED <<store, log>>

AppendRecord(t, o) ==
    log' = Append(log, Record("v6", t, [rev |-> repo, observation |-> o]))

AppendAlways(t) ==        \* variant: no look at what the log holds
    /\ Due(t)
    /\ AppendRecord(t, "turn_recovered")
    /\ runtime' = [runtime EXCEPT !.step = "marking", !.cur = t]
    /\ Beside /\ UNCHANGED store

AppendMissing(t) ==
    /\ Due(t) /\ ~Logged(t)
    /\ AppendRecord(t, "turn_recovered")
    /\ runtime' = [runtime EXCEPT !.step = "marking", !.cur = t]
    /\ Beside /\ UNCHANGED store

(* ensure_runtime_observation ends a scan by finding and validating the    *)
(* record of the turn it is to present; a start ends without a look.       *)
Rebuilt == /\ runtime.step = "rebuilding"
           /\ \A t \in Committed : outbox[t].product.rev < runtime.at
Presentable(t) == Logged(t) /\ Validates(t, RecordOf(t).payload)

FinishUnvalidated ==      \* variant: the record is only looked for
    /\ Rebuilt
    /\ runtime.goal # Root => Logged(runtime.goal)
    /\ runtime' = [runtime EXCEPT !.step = IF runtime.goal = Root THEN "idle"
                                           ELSE "presenting", !.at = 0]
    /\ Beside /\ UNCHANGED <<store, log>>

FinishRebuild ==
    /\ Rebuilt
    /\ runtime.goal # Root => Presentable(runtime.goal)
    /\ runtime' = [runtime EXCEPT !.step = IF runtime.goal = Root THEN "idle"
                                           ELSE "presenting", !.at = 0]
    /\ Beside /\ UNCHANGED <<store, log>>

RefuseGoal ==
    /\ Rebuilt
    /\ runtime.goal # Root /\ ~Presentable(runtime.goal)
    /\ runtime' = Down
    /\ Beside /\ UNCHANGED <<store, log>>

MarkNothing ==            \* variant: the receipt is left to a later scan
    /\ runtime.step = "marking"
    /\ runtime' = [runtime EXCEPT
                     !.step = IF runtime.at = 0 THEN "idle" ELSE "rebuilding",
                     !.at = IF runtime.at = 0 THEN 0 ELSE runtime.at + 1]
    /\ Beside /\ UNCHANGED <<store, log>>

(* The second half of _write_turn_observation: the receipt.                *)
MarkAppended ==
    /\ runtime.step = "marking"
    /\ MarkRuntimeEventPublished(runtime.cur, log[Len(log)].payload)
    /\ runtime' = [runtime EXCEPT
                     !.step = IF runtime.at = 0 THEN "idle" ELSE "rebuilding",
                     !.at = IF runtime.at = 0 THEN 0 ELSE runtime.at + 1]
    /\ Beside /\ UNCHANGED log

(* An append that ends half-way (no space left): the record is cut and the *)
(* exception ends the process at its next look at the log.                 *)
TearAppend ==
    /\ CanTear
    /\ \/ runtime.step = "observing"
       \/ \E t \in TxIds : Due(t) /\ ~Logged(t)
    /\ log' = Append(log, Torn)
    /\ runtime' = Down
    /\ Beside /\ UNCHANGED store

-----------------------------------------------------------------------------
(* Serving: turns, and the commits _persist_state makes on its own.        *)

EnsureProductHead(c) ==
    /\ runtime.step = "idle"
    /\ BootstrapProductHead(c)
    /\ Beside /\ UNCHANGED <<runtime, log>>

(* Every turn loads the head first; a checkpoint an older program wrote is *)
(* migrated by an attempt of its own (stale), which runs no graph.         *)
BeginTurnAttempt(t) ==
    /\ runtime.step = "idle"
    /\ BeginAttempt(t)
    /\ origin' = [origin EXCEPT ![t] = repo]
    /\ runtime' = [Idle EXCEPT !.step = "seeding", !.cur = t]
    /\ UNCHANGED <<log, repo, stage, stale, crashes>>

SeedAttempt ==
    /\ runtime.step = "seeding"
    /\ stage' = [stage EXCEPT ![runtime.cur] = "clean"]
    /\ Goes("running")
    /\ UNCHANGED <<store, log, repo, origin, stale, crashes>>

(* The graph checkpoints "invoking" before it calls the service.           *)
MarkInvoking ==
    /\ runtime.step = "running" /\ ~stale
    /\ stage[runtime.cur] = "clean"
    /\ stage' = [stage EXCEPT ![runtime.cur] = "invoking"]
    /\ UNCHANGED <<store, runtime, log, repo, origin, stale, crashes>>

InvokeEffect ==
    /\ runtime.step = "running"
    /\ stage[runtime.cur] = "invoking"
    /\ stage' = [stage EXCEPT ![runtime.cur] = "invoked"]
    /\ UNCHANGED <<store, runtime, log, repo, origin, stale, crashes>>

CommitTurnAttempt(c) ==
    /\ runtime.step = "running"
    /\ stage[runtime.cur] \in {"clean", "invoked"}
    /\ CommitAttempt(runtime.cur, c)
    /\ Goes(IF stale THEN "idle" ELSE "observing")
    /\ stale' = FALSE
    /\ UNCHANGED <<log, repo, origin, stage, crashes>>

FailTurnAttempt ==
    /\ runtime.step \in {"seeding", "running"}
    /\ CloseByEvidence(runtime.cur)
    /\ runtime' = Idle
    /\ Beside /\ UNCHANGED log

(* turn_committed stands for every label but turn_recovered, the one an    *)
(* invariant recovery shares with a rebuild.                               *)
WriteTurnObservation(o) ==
    /\ runtime.step = "observing"
    /\ AppendRecord(runtime.cur, o)
    /\ Goes("marking")
    /\ Beside /\ UNCHANGED store

-----------------------------------------------------------------------------
(* Presenting a turn: live after it, or replayed by a later start.         *)

Present(t) ==
    /\ runtime.step = "idle"
    /\ outbox[t].kind # "none" /\ ~outbox[t].delivered
    /\ runtime' = [Idle EXCEPT !.goal = t,
                     !.step = IF t \in Committed THEN "scanning" ELSE "presenting"]
    /\ Beside /\ UNCHANGED <<store, log>>

FinishPresenting ==
    /\ runtime.step = "presenting"
    /\ MarkTerminalDelivered(runtime.goal)
    /\ runtime' = Idle
    /\ Beside /\ UNCHANGED log

OperatorResolves(t, v) ==
    /\ runtime.step = "idle"
    /\ ResolveReconciliation(t, v)
    /\ Beside /\ UNCHANGED <<runtime, log>>

-----------------------------------------------------------------------------
(* The surroundings.                                                       *)

Crash == /\ runtime.step # "down" /\ crashes < MaxCrashes
         /\ runtime' = Down /\ crashes' = crashes + 1
         /\ UNCHANGED <<store, log, repo, origin, stage, stale>>

ChangeRepository(r) ==
    /\ repo # r /\ repo' = r
    /\ UNCHANGED <<store, runtime, log, origin, stage, stale, crashes>>

Upgrade == /\ CanUpgrade /\ runtime.step = "down" /\ head # NoHead
           /\ stale' = TRUE
           /\ UNCHANGED <<store, runtime, log, repo, origin, stage, crashes>>

(* What the process does by itself once it runs.                           *)
Proceed ==
    \/ FinishClosing \/ RefuseLog \/ RequeueOlder \/ QuarantineLog
    \/ AcceptLog \/ FinishRebuild \/ RefuseGoal \/ MarkAppended
    \/ SeedAttempt \/ InvokeEffect \/ FailTurnAttempt \/ FinishPresenting
    \/ \E t \in TxIds : \/ CloseInterrupted(t) \/ ConfirmLogged(t)
                        \/ RefuseRecord(t) \/ AppendMissing(t)
    \/ \E c \in Ckpts : CommitTurnAttempt(c)
    \/ \E o \in Observations : WriteTurnObservation(o)

RuntimeNext ==
    \/ Proceed \/ Start \/ MarkInvoking \/ TearAppend \/ Crash \/ Upgrade
    \/ \E c \in Ckpts : EnsureProductHead(c)
    \/ \E r \in Revs : ChangeRepository(r)
    \/ \E t \in TxIds : \/ BeginTurnAttempt(t) \/ Present(t)
                        \/ \E v \in Verdicts : OperatorResolves(t, v)

RuntimeSpec == RuntimeInit /\ [][RuntimeNext]_allvars

(* The process is one thread of straight-line code and a turn has an       *)
(* absolute deadline; an operator starts the program again.                *)
FairRuntimeSpec == /\ RuntimeSpec
                   /\ WF_allvars(Proceed)
                   /\ WF_allvars(Start)

-----------------------------------------------------------------------------
(* Properties.                                                             *)

(* What the runtime holds has the shape its fields declare, and every      *)
(* attempt that began, no other, is stamped with a revision.               *)
RuntimeTypeOK ==
    /\ runtime \in [step : Steps, cur : TxIds \cup {Root}, at : Nat,
                    goal : TxIds \cup {Root}]
    /\ \A i \in DOMAIN log :
          log[i] \in [schema : {"v6", "older", "torn"}, seq : Nat,
                     tx : TxIds \cup {Root}, payload : Payloads \cup {NoPayload}]
    /\ repo \in Revs
    /\ origin \in [TxIds -> Revs \cup {NoRev}]
    /\ \A t \in TxIds : origin[t] = NoRev <=> attempts[t].status = "absent"
    /\ stage \in [TxIds -> {"absent", "clean", "invoking", "invoked"}]
    /\ stale \in BOOLEAN /\ crashes \in 0..MaxCrashes

(* The log holds only what was committed, once: every current record is    *)
(* of a committed turn, at its revision, and no turn has two.              *)
LogHoldsCommitsOnce ==
    /\ \A i \in DOMAIN log : log[i].schema = "v6" =>
          log[i].tx \in Committed /\ log[i].seq = outbox[log[i].tx].product.rev
    /\ \A i, j \in DOMAIN log :
          log[i].schema = "v6" /\ log[j].schema = "v6" /\ log[i].tx = log[j].tx
            => i = j

(* A publication receipt is never ahead of the log: an event the store     *)
(* calls published is in the file with the payload of its receipt, even    *)
(* between requeueing the receipts and moving an older file away.          *)
PublishedIsLogged ==
    \A t \in PublishedEvents :
        \E i \in DOMAIN log : log[i].tx = t /\ log[i].payload = outbox[t].payload

(* A turn whose effect was invoked is never closed as if nothing had       *)
(* happened: it committed, or an operator has to look at it.               *)
InvokedIsNeverAborted ==
    \A t \in TxIds : stage[t] = "invoked" => outbox[t].kind # "aborted"

(* A committed turn is acknowledged as shown only when the log holds its   *)
(* record, the receipt matches it, and it names the revision it began at.  *)
PresentationFollowsEvidence ==
    [][\A t \in Committed :
         outbox'[t].delivered /\ ~outbox[t].delivered =>
            /\ Logged(t) /\ outbox[t].event = "published"
            /\ outbox[t].payload = RecordOf(t).payload
            /\ RecordOf(t).payload.rev = origin[t]]_allvars

(* The log is ordered by Product Head revision, as every later scan of it  *)
(* demands (graph.py:1356).                                                *)
LogInRevisionOrder == ~HasOlderRecords => InOrder

(* Whatever a crash leaves behind, a start ends in a runtime that serves.  *)
RestartServes == runtime.step = "down" ~> runtime.step = "idle"

(* Every committed turn is published in the end, across crashes and the    *)
(* quarantine of an older log.                                             *)
ObservationsCatchUp ==
    \A t \in TxIds : outbox[t].kind = "committed" ~>
        outbox[t].event = "published" /\ Logged(t)

(* Every attempt is closed in the end, by its own turn or a later start.   *)
InterruptedTurnsClose ==
    \A t \in TxIds : attempts[t].status = "active" ~>
        attempts[t].status # "active"
=============================================================================
