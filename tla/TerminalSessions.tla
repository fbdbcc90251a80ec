-------------------------- MODULE TerminalSessions --------------------------
(***************************************************************************)
(* AnyChainTerminal of agent/terminal/repl.py: several CLI processes over  *)
(* one store.  One of them can hold the authority lease and run turns (its *)
(* harness); a process whose provider is not ready, or that finds the      *)
(* lease taken, serves commands without one.  A command is a terminal      *)
(* detour: prepare, work, complete, show.                                  *)
(*                                                                         *)
(* The runtime's recovery is here only as far as the terminal sees it:     *)
(* active attempts are closed one way or the other and pending events are  *)
(* published (RuntimeObservations has the evidence and the log).           *)
(***************************************************************************)
EXTENDS TurnTransactions

CONSTANTS Sessions,      \* CLI processes (process_instance_id)
          MayBeBlocked,  \* whether a start may find no ready provider
          MayOffer,      \* whether a start may find dependencies missing
          MaxCrashes     \* bound: crashes

(* Every terminal prepares read-only work: its exit is (repl.py:736).      *)
ASSUME SessionsAssumption ==
    /\ MayBeBlocked \in BOOLEAN /\ MayOffer \in BOOLEAN /\ MaxCrashes \in Nat
    /\ Root \notin DetourIds /\ TxIds \cap DetourIds = {}
    /\ "read_only" \in Effects

VARIABLES procs,      \* each process: where it is in repl.py
          projected,  \* transactions and detours in the terminal protocol file
          crashes

store == <<head, attempts, outbox, resolutions, detours>>
allvars == <<store, procs, projected, crashes>>

Steps == {"off", "opening", "replaying", "recovering", "listing",
          "redelivering", "entering", "turn", "publishing", "detour",
          "showing", "acking", "announcing", "prompt"}
(* cur is what the process works on, next where it goes once that is shown, *)
(* heard the chunks a recovery read, todo the detours a start still shows.  *)
Off == [step |-> "off", harness |-> FALSE, next |-> "off", cur |-> Root,
        heard |-> <<>>, todo |-> {}]

SessionsInit == /\ Init
                /\ procs = [p \in Sessions |-> Off]
                /\ projected = {}
                /\ crashes = 0

At(p, step) == procs[p].step = step
Becomes(p, row) == procs' = [procs EXCEPT ![p] = row]
Goes(p, step) == Becomes(p, [procs[p] EXCEPT !.step = step])
Takes(p, step, x, next) ==
    Becomes(p, [procs[p] EXCEPT !.step = step, !.cur = x, !.next = next])
Beside == UNCHANGED <<projected, crashes>>

-----------------------------------------------------------------------------
(* Starting: _ensure_harness, then what startup does before the prompt.    *)

Leased == \E p \in Sessions : procs[p].harness

StartWithoutHarness(p) ==
    /\ At(p, "off")
    /\ MayBeBlocked \/ Leased
    /\ Becomes(p, [Off EXCEPT !.step = "prompt"])
    /\ Beside /\ UNCHANGED store

StartUnleased(p) ==        \* variant: the lease is not looked at
    /\ At(p, "off")
    /\ Becomes(p, [Off EXCEPT !.step = "opening", !.harness = TRUE])
    /\ Beside /\ UNCHANGED store

StartHarness(p) ==
    /\ At(p, "off") /\ ~Leased
    /\ Becomes(p, [Off EXCEPT !.step = "opening", !.harness = TRUE])
    /\ Beside /\ UNCHANGED store

CloseInterrupted(p, t) ==
    /\ At(p, "opening")
    /\ AbortAttempt(t) \/ RequireReconciliation(t)
    /\ Beside /\ UNCHANGED procs

PublishMissing(p, t, e) ==
    /\ At(p, "opening") /\ ActiveAttempts = {}
    /\ t \in PendingEvents
    /\ MarkRuntimeEventPublished(t, e)
    /\ Beside /\ UNCHANGED procs

(* Building the harness raises: the lease is free again, the terminal goes  *)
(* on without turns.                                                        *)
OpenRefused(p) ==
    /\ At(p, "opening") /\ MayBeBlocked
    /\ Becomes(p, [Off EXCEPT !.step = "prompt"])
    /\ Beside /\ UNCHANGED store

Opened(p) ==
    /\ At(p, "opening") /\ ActiveAttempts = {} /\ PendingEvents = {}
    /\ Goes(p, "replaying")
    /\ Beside /\ UNCHANGED store

Undelivered == {t \in TxIds : outbox[t].kind # "none" /\ ~outbox[t].delivered}
UndeliveredDetours ==
    {d \in DetourIds : detours[d].status = "completed" /\ ~detours[d].delivered}

ReplayOutcome(p, t) ==
    /\ At(p, "replaying")
    /\ t \in Undelivered
    /\ Takes(p, "showing", t, "replaying")
    /\ Beside /\ UNCHANGED store

SkipReplay(p) ==           \* variant: only the detours are replayed
    /\ At(p, "replaying")
    /\ \/ /\ PreparedDetours = {}
          /\ Goes(p, "listing")
       \/ \E d \in PreparedDetours :
             Becomes(p, [procs[p] EXCEPT !.step = "recovering", !.cur = d,
                                         !.heard = detours[d].chunks])
    /\ Beside /\ UNCHANGED store

(* recover_prepared_terminal_detours reads the open detour first.          *)
FinishReplay(p) ==
    /\ At(p, "replaying")
    /\ Undelivered = {}
    /\ \/ /\ PreparedDetours = {}
          /\ Goes(p, "listing")
       \/ \E d \in PreparedDetours :
             Becomes(p, [procs[p] EXCEPT !.step = "recovering", !.cur = d,
                                         !.heard = detours[d].chunks])
    /\ Beside /\ UNCHANGED store

RecoverTermination(p) ==
    /\ At(p, "recovering")
    /\ InterruptTermination(procs[p].cur)
    /\ Beside /\ UNCHANGED procs

Streaming(d) == detours[d].class = "streaming_observation"
Interruption(d) == IF Streaming(d) THEN "interrupted" ELSE "not_streaming"

(* What complete_terminal_detour refuses to do with this response.         *)
Refused(d, response) ==
    \/ detours[d].status # "prepared"
    \/ head # detours[d].before \/ PendingEvents # {}
    \/ PublishedFence # detours[d].fence
    \/ Len(response) < Len(detours[d].chunks)
    \/ SubSeq(response, 1, Len(detours[d].chunks)) # detours[d].chunks

AbandonDetour(p, m) ==     \* variant: the intent is left for a later start
    /\ At(p, "recovering")
    /\ Becomes(p, [procs[p] EXCEPT !.step = "listing", !.heard = <<>>])
    /\ Beside /\ UNCHANGED store

RecoverDetour(p, m) ==
    /\ At(p, "recovering")
    /\ detours[procs[p].cur].kind = "command"
    /\ CompleteDetour(procs[p].cur, Append(procs[p].heard, m), "failed",
                      Interruption(procs[p].cur))
    /\ Becomes(p, [procs[p] EXCEPT !.step = "listing", !.heard = <<>>])
    /\ Beside

RecoveryRefused(p, m) ==
    /\ At(p, "recovering")
    /\ procs[p].cur \in PreparedDetours => detours[procs[p].cur].kind = "command"
    /\ Refused(procs[p].cur, Append(procs[p].heard, m))
    /\ Becomes(p, Off)
    /\ Beside /\ UNCHANGED store

ListUndelivered(p) ==
    /\ At(p, "listing")
    /\ Becomes(p, [procs[p] EXCEPT !.step = "redelivering",
                                   !.todo = UndeliveredDetours])
    /\ Beside /\ UNCHANGED store

RedeliverDetour(p, d) ==
    /\ At(p, "redelivering")
    /\ d \in procs[p].todo
    /\ Becomes(p, [procs[p] EXCEPT !.step = "showing", !.cur = d,
                      !.next = "redelivering", !.todo = @ \ {d}])
    /\ Beside /\ UNCHANGED store

FinishRedelivery(p) ==
    /\ At(p, "redelivering") /\ procs[p].todo = {}
    /\ Goes(p, IF UnresolvedReconciliations = {} THEN "entering"
               ELSE "announcing")
    /\ Beside /\ UNCHANGED store

(* A pending dependency offer takes the place of the first turn, and a     *)
(* session that waits for consent is announced as blocked.                 *)
OfferDependencies(p) ==
    /\ MayOffer /\ procs[p].step \in {"entering", "announcing"}
    /\ Goes(p, "prompt")
    /\ Beside /\ UNCHANGED store

(* The first turn of a session (cancelling evidence collection, resuming   *)
(* or resetting); begin_attempt raises beside an open detour.              *)
EnterRefused(p) ==
    /\ At(p, "entering") /\ OpenDetours # {}
    /\ Becomes(p, Off)
    /\ Beside /\ UNCHANGED store

Enter(p, t) ==
    /\ At(p, "entering")
    /\ BeginAttempt(t)
    /\ \E next \in {"entering", "announcing"} : Takes(p, "turn", t, next)
    /\ Beside

(* _publish_startup_event: a ready session names a head of revision 1 or   *)
(* more and the fence of that revision, or building the event raises.      *)
Announceable == /\ head # NoHead /\ head.rev >= 1
                /\ PublishedFence.seq = head.rev

Announce(p) ==
    /\ At(p, "announcing")
    /\ IF Announceable THEN Goes(p, "prompt") ELSE Becomes(p, Off)
    /\ Beside /\ UNCHANGED store

-----------------------------------------------------------------------------
(* Turns.                                                                  *)

EnsureProductHead(p, c) ==
    /\ procs[p].harness /\ procs[p].step \in {"entering", "prompt"}
    /\ BootstrapProductHead(c)
    /\ Beside /\ UNCHANGED procs

BeginTurn(p, t) ==
    /\ At(p, "prompt") /\ procs[p].harness
    /\ BeginAttempt(t)
    /\ Takes(p, "turn", t, "prompt")
    /\ Beside

CommitUnpublished(p, c) == \* variant: shown before its event is published
    /\ At(p, "turn")
    /\ CommitAttempt(procs[p].cur, c)
    /\ Goes(p, "showing")
    /\ Beside

CommitTurn(p, c) ==
    /\ At(p, "turn")
    /\ CommitAttempt(procs[p].cur, c)
    /\ Goes(p, "publishing")
    /\ Beside

PublishTurn(p, e) ==
    /\ At(p, "publishing")
    /\ MarkRuntimeEventPublished(procs[p].cur, e)
    /\ Goes(p, "showing")
    /\ Beside

(* A failed turn is shown at the prompt; during a start it ends the process. *)
FailTurn(p) ==
    /\ At(p, "turn")
    /\ AbortAttempt(procs[p].cur) \/ RequireReconciliation(procs[p].cur)
    /\ IF procs[p].next = "prompt" THEN Goes(p, "showing") ELSE Becomes(p, Off)
    /\ Beside

-----------------------------------------------------------------------------
(* Commands.                                                               *)

BeginCommand(p, d) ==
    /\ At(p, "prompt")
    /\ \/ /\ \E class \in Effects : PrepareDetour(d, "command", class)
          /\ Takes(p, "detour", d, "prompt")
       \/ /\ PrepareDetour(d, "session_termination", "read_only")
          /\ Takes(p, "detour", d, "off")
    /\ Beside

(* prepare_terminal_detour raises and nothing on the way to main catches it *)
(* (an exit that cannot be recorded is not made, which changes nothing).    *)
CommandRefused(p) ==
    /\ At(p, "prompt")
    /\ PendingEvents # {} \/ PreparedDetours # {} \/ ActiveAttempts # {}
    /\ Becomes(p, Off)
    /\ Beside /\ UNCHANGED store

StreamChunk(p, m) ==
    /\ At(p, "detour")
    /\ RecordStreamChunk(procs[p].cur, m)
    /\ Beside /\ UNCHANGED procs

FinishDetour(p, m) ==
    LET d == procs[p].cur
        response == Append(detours[d].chunks, m) IN
    /\ At(p, "detour")
    /\ \/ /\ Streaming(d)
          /\ \/ CompleteDetour(d, response, "succeeded", "completed")
             \/ CompleteDetour(d, response, "failed", "cancelled")
          /\ Goes(p, "showing")
       \/ /\ ~Streaming(d)
          /\ CompleteDetour(d, response, "not_applicable", "not_streaming")
          /\ Goes(p, "showing")
       \/ /\ ~Streaming(d) /\ procs[p].next = "prompt"
          /\ CompleteDetour(d, response, "failed", "not_streaming")
          /\ \E next \in {"prompt", "off"} : Takes(p, "showing", d, next)
    /\ Beside

(* Another process completed it, or the head moved: the exception ends the *)
(* process, except on exit, which is then not made.                        *)
FinishRefused(p, m) ==
    LET d == procs[p].cur IN
    /\ At(p, "detour")
    /\ Refused(d, Append(detours[d].chunks, m))
    /\ \/ Becomes(p, Off)
       \/ procs[p].next = "off" /\ Goes(p, "prompt")
    /\ Beside /\ UNCHANGED store

Reconcile(p, d, t, v, m) ==
    /\ At(p, "prompt")
    /\ ResolveTurnWithDetour(d, t, v, <<m>>)
    /\ Takes(p, "showing", d, "prompt")
    /\ Beside

-----------------------------------------------------------------------------
(* Showing: render, append the projection, acknowledge.                    *)

ProjectNothing(p) ==       \* variant: acknowledged without a projection
    /\ At(p, "showing")
    /\ Goes(p, "acking")
    /\ UNCHANGED <<store, projected, crashes>>

Project(p) ==
    /\ At(p, "showing")
    /\ projected' = projected \cup {procs[p].cur}
    /\ Goes(p, "acking")
    /\ UNCHANGED <<store, crashes>>

Acknowledge(p) ==
    /\ At(p, "acking")
    /\ \/ procs[p].cur \in TxIds /\ MarkTerminalDelivered(procs[p].cur)
       \/ procs[p].cur \in DetourIds /\ MarkDetourDelivered(procs[p].cur)
    /\ IF procs[p].next = "off" THEN Becomes(p, Off)
       ELSE Takes(p, procs[p].next, Root, "off")
    /\ Beside

Crash(p) == /\ ~At(p, "off") /\ crashes < MaxCrashes
            /\ Becomes(p, Off) /\ crashes' = crashes + 1
            /\ UNCHANGED <<store, projected>>

-----------------------------------------------------------------------------
(* What a process does by itself, and what its operator does.              *)
Proceed(p) ==
    \/ OpenRefused(p) \/ Opened(p) \/ FinishReplay(p) \/ RecoverTermination(p)
    \/ ListUndelivered(p) \/ FinishRedelivery(p) \/ OfferDependencies(p)
    \/ EnterRefused(p) \/ Announce(p) \/ FailTurn(p) \/ Project(p)
    \/ Acknowledge(p)
    \/ \E t \in TxIds :
          \/ CloseInterrupted(p, t) \/ ReplayOutcome(p, t) \/ Enter(p, t)
          \/ \E e \in Payloads : PublishMissing(p, t, e)
    \/ \E d \in DetourIds : RedeliverDetour(p, d)
    \/ \E c \in Ckpts : \/ CommitTurn(p, c)
                        \/ At(p, "entering") /\ EnsureProductHead(p, c)
    \/ \E e \in Payloads : PublishTurn(p, e)
    \/ \E m \in Messages : \/ RecoverDetour(p, m) \/ RecoveryRefused(p, m)
                           \/ FinishDetour(p, m) \/ FinishRefused(p, m)

Starts(p) == StartHarness(p) \/ StartWithoutHarness(p)

Resolves(p) ==
    \E d \in DetourIds, t \in TxIds, v \in Verdicts, m \in Messages :
        Reconcile(p, d, t, v, m)

SessionsNext ==
    \E p \in Sessions :
        \/ Proceed(p) \/ Starts(p) \/ Resolves(p) \/ CommandRefused(p) \/ Crash(p)
        \/ \E c \in Ckpts : EnsureProductHead(p, c)
        \/ \E t \in TxIds : BeginTurn(p, t)
        \/ \E d \in DetourIds : BeginCommand(p, d)
        \/ \E m \in Messages : StreamChunk(p, m)

SessionsSpec == SessionsInit /\ [][SessionsNext]_allvars

(* A process runs on by itself (turns, commands and streams have           *)
(* deadlines), and its operator starts it again and answers a barrier.     *)
FairSessionsSpec ==
    /\ SessionsSpec
    /\ \A p \in Sessions : /\ WF_allvars(Proceed(p))
                           /\ WF_allvars(Starts(p))
                           /\ WF_allvars(Resolves(p))

-----------------------------------------------------------------------------
(* Properties.                                                             *)

(* A process's fields have their types, it works on a transaction or a     *)
(* detour exactly in the steps that need one, and only harnesses run turns. *)
SessionsTypeOK ==
    /\ procs \in [Sessions ->
          [step : Steps, harness : BOOLEAN, next : Steps,
           cur : TxIds \cup DetourIds \cup {Root},
           heard : Seq(Messages), todo : SUBSET DetourIds]]
    /\ \A p \in Sessions :
          /\ procs[p].step \in {"turn", "publishing"} =>
                procs[p].cur \in TxIds /\ procs[p].harness
          /\ procs[p].step \in {"detour", "recovering"} =>
                procs[p].cur \in DetourIds
          /\ procs[p].step \in {"showing", "acking"} => procs[p].cur # Root
    /\ projected \subseteq TxIds \cup DetourIds
    /\ crashes \in 0..MaxCrashes

(* Nobody closes a turn under the process that runs it: the lease keeps    *)
(* every other process's recovery away from a live attempt.                *)
LiveTurnIsActive ==
    \A p \in Sessions :
        At(p, "turn") => /\ attempts[procs[p].cur].status = "active"
                         /\ head = attempts[procs[p].cur].base

(* What is acknowledged was projected, by this process or a dead one.      *)
DeliveredWasProjected ==
    /\ \A t \in TxIds : outbox[t].delivered => t \in projected
    /\ \A d \in DetourIds : detours[d].delivered => d \in projected

(* The order of delivery: a committed turn is in the protocol file only    *)
(* after its runtime event was published, and a detour only when it is     *)
(* completed at the head, and under the fence, it was prepared with.       *)
ProjectionsAreSettled ==
    /\ \A t \in projected \cap TxIds :
          outbox[t].kind # "none" /\ outbox[t].event # "pending"
    /\ \A d \in projected \cap DetourIds :
          /\ detours[d].status = "completed"
          /\ detours[d].before = detours[d].after

(* Every outcome is shown in the end, whichever step a crash hits.         *)
OutcomesShown ==
    \A t \in TxIds : outbox[t].kind # "none" ~>
        t \in projected /\ outbox[t].delivered

(* Every command ends in a reply that is shown, whichever step a crash     *)
(* hits: an intent is never left open.                                     *)
CommandsAnswered ==
    \A d \in DetourIds : detours[d].status # "absent" ~>
        d \in projected /\ detours[d].delivered
=============================================================================
