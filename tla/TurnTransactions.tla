-------------------------- MODULE TurnTransactions --------------------------
(***************************************************************************)
(* The SQLite authority of agent/harness/turn_transactions.py, for one     *)
(* logical thread (every row carries its logical_thread_id and every query *)
(* filters on it).  Each operation of TurnTransactionStore that writes is  *)
(* one BEGIN IMMEDIATE transaction and so one action here, whichever       *)
(* process calls it; an operation that raises rolls back, and a repeated   *)
(* call that finds its own earlier result returns it: neither is a step.   *)
(*                                                                         *)
(* Data abstraction.  A checkpoint stands for (checkpoint_id,              *)
(* state_fingerprint).  physical_thread_id is "attempt:<transaction_id>",  *)
(* so a transaction names its thread; event_id and runtime_event_id are    *)
(* fresh per outcome, so a transaction names them too, and the outbox copy *)
(* of base_* is attempts[t].base.  Hashes of renders, diagnostics, shell   *)
(* state and inputs, timestamps and revision stamps are left out.          *)
(***************************************************************************)
EXTENDS Integers, FiniteSets, Sequences

CONSTANTS TxIds,      \* transaction_id values
          DetourIds,  \* detour_id values
          Ckpts,      \* checkpoints
          Payloads,   \* hashes of runtime-event payloads
          Messages,   \* terminal messages
          Effects,    \* effect classes callers prepare detours with
          MaxChunks,  \* bound: stream chunks recorded per detour
          Root, NoHead, NoPayload, NoVerdict

Heads == [rev : Nat, thread : TxIds \cup {Root}, ckpt : Ckpts]
PlainEffects == {"read_only", "observation_refresh", "shell_state_mutation"}
PreparableEffects ==
    PlainEffects \cup {"local_external_effect", "streaming_observation"}
Verdicts == {"effect_confirmed", "effect_not_observed"}
FinishedStream == {"completed", "deadline", "limit_reached"}
BrokenStream == {"cancelled", "not_found", "interrupted", "error"}
StopReasons == FinishedStream \cup BrokenStream \cup {"not_streaming"}

ASSUME RootAssumption == Root \notin TxIds
ASSUME NoHeadAssumption == NoHead \notin Heads
ASSUME NoPayloadAssumption == NoPayload \notin Payloads
ASSUME NoVerdictAssumption == NoVerdict \notin Verdicts
ASSUME EffectsAssumption == Effects \subseteq PreparableEffects
ASSUME MaxChunksAssumption == MaxChunks \in Nat

VARIABLES head,         \* anychain_product_heads, or NoHead
          attempts,     \* anychain_turn_attempts
          outbox,       \* anychain_terminal_outbox
          resolutions,  \* anychain_reconciliation_resolutions
          detours       \* anychain_terminal_detours

vars == <<head, attempts, outbox, resolutions, detours>>

MaybeHead == Heads \cup {NoHead}
Kinds == {"committed", "aborted", "reconciliation_required"}
Fences == [seq : Nat, tx : TxIds \cup {Root}, payload : Payloads \cup {NoPayload}]
NoFence == [seq |-> 0, tx |-> Root, payload |-> NoPayload]
Texts(n) == UNION {[1..k -> Messages] : k \in 0..n}

AbsentAttempt == [status |-> "absent", base |-> NoHead]
AbsentOutcome == [kind |-> "none", product |-> NoHead, event |-> "not_applicable",
                  payload |-> NoPayload, delivered |-> FALSE]
AbsentDetour ==
    [status |-> "absent", kind |-> "command", interrupted |-> FALSE,
     class |-> "read_only", before |-> NoHead, after |-> NoHead,
     fence |-> NoFence, chunks |-> <<>>, response |-> <<>>,
     effect |-> "not_applicable", stop |-> "not_streaming",
     verdict |-> NoVerdict, delivered |-> FALSE]

-----------------------------------------------------------------------------
(* The queries the operations are guarded by.                              *)

ActiveAttempts == {t \in TxIds : attempts[t].status = "active"}
Committed == {t \in TxIds : outbox[t].kind = "committed"}
UnresolvedReconciliations ==
    {t \in TxIds : /\ outbox[t].kind = "reconciliation_required"
                   /\ resolutions[t] = NoVerdict}
PreparedDetours == {d \in DetourIds : detours[d].status = "prepared"}
UnresolvedDetours ==
    {d \in DetourIds : detours[d].status = "reconciliation_required"}
OpenDetours == PreparedDetours \cup UnresolvedDetours
PendingEvents == {t \in TxIds : outbox[t].event = "pending"}
PublishedEvents == {t \in TxIds : outbox[t].event = "published"}

PublishedFence ==
    IF PublishedEvents = {} THEN NoFence
    ELSE LET last == CHOOSE t \in PublishedEvents :
                       \A u \in PublishedEvents :
                           outbox[u].product.rev =< outbox[t].product.rev
         IN [seq |-> outbox[last].product.rev, tx |-> last,
             payload |-> outbox[last].payload]

-----------------------------------------------------------------------------
(* The checks every read of a stored row makes; a row that fails one       *)
(* raises TurnTransactionSchemaError in each operation that selects it.    *)

OutcomeReads(t) ==
    LET row == outbox[t] base == attempts[t].base IN
    IF row.kind = "committed"
    THEN /\ row.product.rev = base.rev + 1
         /\ row.product.thread = t
         /\ row.event \in {"pending", "published"}
         /\ row.event = "pending" <=> row.payload = NoPayload
    ELSE /\ row.product = base
         /\ row.event = "not_applicable"
         /\ row.payload = NoPayload

StreamReads(row) ==
    IF row.class # "streaming_observation"
    THEN row.chunks = <<>> /\ row.stop = "not_streaming"
    ELSE row.status = "completed" =>
           /\ row.effect = "succeeded" => row.stop \in FinishedStream
           /\ row.effect = "failed" => row.stop \in BrokenStream
           /\ Len(row.chunks) =< Len(row.response)
           /\ SubSeq(row.response, 1, Len(row.chunks)) = row.chunks

ResolutionReads(row) ==
    /\ row.class = "authority_resolution" => row.verdict # NoVerdict
    /\ row.verdict # NoVerdict =>
          /\ row.status = "completed"
          /\ row.class \in {"local_external_effect", "authority_resolution"}
          /\ row.class = "authority_resolution" =>
                row.effect = "not_applicable" /\ row.response # <<>>
          /\ row.class = "local_external_effect" =>
                /\ row.response = <<>>
                /\ row.effect = IF row.verdict = "effect_confirmed"
                                THEN "succeeded" ELSE "failed"

(* An unfinished row carries no evidence of an end, a finished one does.   *)
StatusReads(row) ==
    IF row.status = "completed"
    THEN /\ row.after = row.before
         /\ row.effect # "uncertain"
         /\ row.response # <<>> \/ row.verdict # NoVerdict
    ELSE /\ row.after = NoHead /\ row.response = <<>>
         /\ row.verdict = NoVerdict /\ ~row.delivered
         /\ row.stop = "not_streaming"
         /\ IF row.status = "prepared" THEN row.effect = "not_applicable"
            ELSE row.effect = "uncertain" /\ row.class = "local_external_effect"

FenceReads(row) ==
    IF row.fence.seq = 0 THEN row.fence = NoFence
    ELSE row.fence.tx \in TxIds /\ row.fence.payload \in Payloads

DetourReads(row) ==
    /\ row.kind = "session_termination" => ~row.interrupted
    /\ StreamReads(row) /\ ResolutionReads(row)
    /\ StatusReads(row) /\ FenceReads(row)

-----------------------------------------------------------------------------
Init == /\ head = NoHead
        /\ attempts = [t \in TxIds |-> AbsentAttempt]
        /\ outbox = [t \in TxIds |-> AbsentOutcome]
        /\ resolutions = [t \in TxIds |-> NoVerdict]
        /\ detours = [d \in DetourIds |-> AbsentDetour]

BootstrapProductHead(c) ==
    /\ head = NoHead
    /\ head' = [rev |-> 0, thread |-> Root, ckpt |-> c]
    /\ UNCHANGED <<attempts, outbox, resolutions, detours>>

(* Variants with one guard lost, for the checks that the properties below  *)
(* notice it; none is part of Next.                                        *)
BeginBesideAttempt(t) ==      \* no look at the active attempts
    /\ head # NoHead
    /\ attempts[t].status = "absent"
    /\ UnresolvedReconciliations = {} /\ OpenDetours = {}
    /\ attempts' = [attempts EXCEPT ![t] = [status |-> "active", base |-> head]]
    /\ UNCHANGED <<head, outbox, resolutions, detours>>

BeginBesideDetour(t) ==       \* no look at the open detours
    /\ head # NoHead
    /\ attempts[t].status = "absent"
    /\ UnresolvedReconciliations = {} /\ ActiveAttempts = {}
    /\ attempts' = [attempts EXCEPT ![t] = [status |-> "active", base |-> head]]
    /\ UNCHANGED <<head, outbox, resolutions, detours>>

BeginPastBarrier(t) ==        \* no look at the reconciliations
    /\ head # NoHead
    /\ attempts[t].status = "absent"
    /\ OpenDetours = {} /\ ActiveAttempts = {}
    /\ attempts' = [attempts EXCEPT ![t] = [status |-> "active", base |-> head]]
    /\ UNCHANGED <<head, outbox, resolutions, detours>>

BeginAttempt(t) ==
    /\ head # NoHead
    /\ attempts[t].status = "absent"
    /\ UnresolvedReconciliations = {}
    /\ OpenDetours = {}
    /\ ActiveAttempts = {}
    /\ attempts' = [attempts EXCEPT ![t] = [status |-> "active", base |-> head]]
    /\ UNCHANGED <<head, outbox, resolutions, detours>>

(* _finish_attempt: close the attempt and write its only outbox row.       *)
FinishAttempt(t, kind, product) ==
    /\ attempts[t].status = "active"
    /\ outbox[t].kind = "none"
    /\ head = attempts[t].base
    /\ attempts' = [attempts EXCEPT ![t].status = kind]
    /\ outbox' = [outbox EXCEPT ![t] =
                    [kind |-> kind, product |-> product,
                     event |-> IF kind = "committed" THEN "pending"
                               ELSE "not_applicable",
                     payload |-> NoPayload, delivered |-> FALSE]]
    /\ head' = product
    /\ UNCHANGED <<resolutions, detours>>

CommitInPlace(t, c) ==             \* variant: the revision is not advanced
    FinishAttempt(t, "committed",
                  [rev |-> head.rev, thread |-> t, ckpt |-> c])

CommitAttempt(t, c) ==
    FinishAttempt(t, "committed",
                  [rev |-> head.rev + 1, thread |-> t, ckpt |-> c])

AbortAttempt(t) == FinishAttempt(t, "aborted", head)

RequireReconciliation(t) == FinishAttempt(t, "reconciliation_required", head)

ResolveAnyOutcome(t, v) ==         \* variant: no look at the outcome's kind
    /\ outbox[t].kind # "none"
    /\ resolutions[t] = NoVerdict
    /\ resolutions' = [resolutions EXCEPT ![t] = v]
    /\ UNCHANGED <<head, attempts, outbox, detours>>

ResolveReconciliation(t, v) ==
    /\ t \in UnresolvedReconciliations
    /\ resolutions' = [resolutions EXCEPT ![t] = v]
    /\ UNCHANGED <<head, attempts, outbox, detours>>

MarkTerminalDelivered(t) ==
    /\ outbox[t].kind # "none"
    /\ outbox' = [outbox EXCEPT ![t].delivered = TRUE]
    /\ UNCHANGED <<head, attempts, resolutions, detours>>

MarkRuntimeEventPublished(t, p) ==
    /\ t \in Committed
    /\ outbox[t].event = "published" => outbox[t].payload = p
    /\ outbox' = [outbox EXCEPT ![t].event = "published", ![t].payload = p]
    /\ UNCHANGED <<head, attempts, resolutions, detours>>

RequeueKeepingHash ==              \* variant: the published hash is kept
    /\ outbox' = [t \in TxIds |->
                    IF t \in Committed
                    THEN [outbox[t] EXCEPT !.event = "pending"]
                    ELSE outbox[t]]
    /\ UNCHANGED <<head, attempts, resolutions, detours>>

(* requeue_runtime_events_after_legacy_log_quarantine.                     *)
RequeueRuntimeEvents ==
    /\ outbox' = [t \in TxIds |->
                    IF t \in Committed
                    THEN [outbox[t] EXCEPT !.event = "pending",
                                           !.payload = NoPayload]
                    ELSE outbox[t]]
    /\ UNCHANGED <<head, attempts, resolutions, detours>>
-----------------------------------------------------------------------------
(* Terminal detours: work the terminal does beside the workflow.           *)

PrepareBesideAttempt(d, kind, class) ==   \* variant: no look at attempts
    /\ detours[d].status = "absent"
    /\ PendingEvents = {} /\ PreparedDetours = {}
    /\ detours' = [detours EXCEPT ![d] =
                     [AbsentDetour EXCEPT !.status = "prepared", !.kind = kind,
                                          !.class = class, !.before = head,
                                          !.fence = PublishedFence]]
    /\ UNCHANGED <<head, attempts, outbox, resolutions>>

PrepareUnpublished(d, kind, class) ==     \* variant: pending events ignored
    /\ detours[d].status = "absent"
    /\ PreparedDetours = {} /\ ActiveAttempts = {}
    /\ detours' = [detours EXCEPT ![d] =
                     [AbsentDetour EXCEPT !.status = "prepared", !.kind = kind,
                                          !.class = class, !.before = head,
                                          !.fence = PublishedFence]]
    /\ UNCHANGED <<head, attempts, outbox, resolutions>>

PrepareDetour(d, kind, class) ==
    /\ detours[d].status = "absent"
    /\ PendingEvents = {}
    /\ PreparedDetours = {}
    /\ ActiveAttempts = {}
    /\ detours' = [detours EXCEPT ![d] =
                     [AbsentDetour EXCEPT !.status = "prepared", !.kind = kind,
                                          !.class = class, !.before = head,
                                          !.fence = PublishedFence]]
    /\ UNCHANGED <<head, attempts, outbox, resolutions>>

RecordStreamChunk(d, m) ==
    /\ detours[d].status = "prepared"
    /\ detours[d].class = "streaming_observation"
    /\ Len(detours[d].chunks) < MaxChunks
    /\ detours' = [detours EXCEPT ![d].chunks = Append(@, m)]
    /\ UNCHANGED <<head, attempts, outbox, resolutions>>

CompletionFitsByCount(row, response, effect, stop) ==   \* variant: no hash check
    IF row.class = "streaming_observation"
    THEN /\ stop # "not_streaming"
         /\ Len(response) >= Len(row.chunks)
         /\ effect = "succeeded" => stop \in FinishedStream
         /\ effect = "failed" => stop \in BrokenStream
    ELSE stop = "not_streaming"

(* The stream rules of complete_terminal_detour and, on the row it reads   *)
(* back before committing, of _validate_detour_semantics.                  *)
CompletionFits(row, response, effect, stop) ==
    IF row.class = "streaming_observation"
    THEN /\ stop # "not_streaming"
         /\ Len(response) >= Len(row.chunks)
         /\ SubSeq(response, 1, Len(row.chunks)) = row.chunks
         /\ effect = "succeeded" => stop \in FinishedStream
         /\ effect = "failed" => stop \in BrokenStream
    ELSE stop = "not_streaming"

CompleteDetour(d, response, effect, stop) ==
    /\ detours[d].status = "prepared"
    /\ response # <<>>
    /\ CompletionFits(detours[d], response, effect, stop)
    /\ head = detours[d].before
    /\ PendingEvents = {}
    /\ PublishedFence = detours[d].fence
    /\ detours' = [detours EXCEPT ![d].status = "completed", ![d].after = head,
                                  ![d].response = response,
                                  ![d].effect = effect, ![d].stop = stop]
    /\ UNCHANGED <<head, attempts, outbox, resolutions>>

RequireDetourReconciliation(d) ==
    /\ detours[d].status = "prepared"
    /\ detours[d].class = "local_external_effect"
    /\ detours' = [detours EXCEPT ![d].status = "reconciliation_required",
                                  ![d].effect = "uncertain"]
    /\ UNCHANGED <<head, attempts, outbox, resolutions>>

(* The first transaction recover_prepared_terminal_detours spends on an    *)
(* interrupted termination; its second is CompleteDetour (or               *)
(* RequireDetourReconciliation) with a snapshot's chunks as the response.  *)
InterruptTermination(d) ==
    /\ detours[d].status = "prepared"
    /\ detours[d].kind = "session_termination"
    /\ detours[d].class # "local_external_effect"
    /\ detours' = [detours EXCEPT ![d].kind = "command",
                                  ![d].interrupted = TRUE]
    /\ UNCHANGED <<head, attempts, outbox, resolutions>>

(* The operator's reply: a completed detour of its own, with no fence.     *)
AuthorityReply(response, v) ==
    [AbsentDetour EXCEPT !.status = "completed", !.class = "authority_resolution",
                         !.before = head, !.after = head,
                         !.response = response, !.verdict = v]

ResolveTurnAgain(d, t, v, response) ==   \* variant: no look at a resolution
    /\ detours[d].status = "absent"
    /\ response # <<>>
    /\ outbox[t].kind = "reconciliation_required"
    /\ resolutions' = [resolutions EXCEPT ![t] = v]
    /\ detours' = [detours EXCEPT ![d] = AuthorityReply(response, v)]
    /\ UNCHANGED <<head, attempts, outbox>>

ResolveTurnWithDetour(d, t, v, response) ==
    /\ detours[d].status = "absent"
    /\ response # <<>>
    /\ t \in UnresolvedReconciliations
    /\ resolutions' = [resolutions EXCEPT ![t] = v]
    /\ detours' = [detours EXCEPT ![d] = AuthorityReply(response, v)]
    /\ UNCHANGED <<head, attempts, outbox>>

ResolveDetourSwapped(d, target, v, response) ==   \* variant: columns swapped
    /\ detours[d].status = "absent"
    /\ response # <<>>
    /\ target \in UnresolvedDetours
    /\ detours' = [detours EXCEPT
          ![target] = [@ EXCEPT !.status = "completed",
                         !.after = detours[target].before,
                         !.response = <<>>, !.delivered = TRUE,
                         !.effect = v,
                         !.verdict = IF v = "effect_confirmed" THEN "succeeded"
                                     ELSE "failed"],
          ![d] = AuthorityReply(response, v)]
    /\ UNCHANGED <<head, attempts, outbox, resolutions>>

ResolveDetourWithDetour(d, target, v, response) ==
    /\ detours[d].status = "absent"
    /\ response # <<>>
    /\ target \in UnresolvedDetours
    /\ detours' = [detours EXCEPT
          ![target] = [@ EXCEPT !.status = "completed",
                         !.after = detours[target].before,
                         !.response = <<>>, !.delivered = TRUE, !.verdict = v,
                         !.effect = IF v = "effect_confirmed" THEN "succeeded"
                                    ELSE "failed"],
          ![d] = AuthorityReply(response, v)]
    /\ UNCHANGED <<head, attempts, outbox, resolutions>>

MarkDetourDelivered(d) ==
    /\ detours[d].status = "completed"
    /\ detours' = [detours EXCEPT ![d].delivered = TRUE]
    /\ UNCHANGED <<head, attempts, outbox, resolutions>>

-----------------------------------------------------------------------------
TurnNext ==
    \/ \E c \in Ckpts : BootstrapProductHead(c)
    \/ RequeueRuntimeEvents
    \/ \E t \in TxIds :
        \/ BeginAttempt(t) \/ AbortAttempt(t) \/ RequireReconciliation(t)
        \/ MarkTerminalDelivered(t)
        \/ \E c \in Ckpts : CommitAttempt(t, c)
        \/ \E v \in Verdicts : ResolveReconciliation(t, v)
        \/ \E p \in Payloads : MarkRuntimeEventPublished(t, p)

DetourNext ==
    \E d \in DetourIds :
        \/ RequireDetourReconciliation(d) \/ InterruptTermination(d)
        \/ MarkDetourDelivered(d)
        \/ \E k \in {"command", "session_termination"}, e \in Effects :
               PrepareDetour(d, k, e)
        \/ \E m \in Messages : RecordStreamChunk(d, m)
        \/ \E r \in Texts(MaxChunks + 1), s \in StopReasons,
              e \in {"not_applicable", "succeeded", "failed"} :
               CompleteDetour(d, r, e, s)
        \/ \E m \in Messages, v \in Verdicts :
               \/ \E t \in TxIds : ResolveTurnWithDetour(d, t, v, <<m>>)
               \/ \E g \in DetourIds : ResolveDetourWithDetour(d, g, v, <<m>>)

Next == TurnNext \/ DetourNext

Spec == Init /\ [][Next]_vars

-----------------------------------------------------------------------------
(* Properties.                                                             *)

DetourRows ==
    [status : {"absent", "prepared", "completed", "reconciliation_required"},
     kind : {"command", "session_termination"}, interrupted : BOOLEAN,
     class : PreparableEffects \cup {"authority_resolution"},
     before : MaybeHead, after : MaybeHead, fence : Fences,
     chunks : Seq(Messages), response : Seq(Messages),
     effect : {"not_applicable", "succeeded", "failed", "uncertain"},
     stop : StopReasons, verdict : Verdicts \cup {NoVerdict},
     delivered : BOOLEAN]

TurnTypes ==
    /\ head \in MaybeHead
    /\ attempts \in [TxIds -> [status : Kinds \cup {"absent", "active"},
                               base : MaybeHead]]
    /\ outbox \in [TxIds -> [kind : Kinds \cup {"none"}, product : MaybeHead,
                             event : {"not_applicable", "pending", "published"},
                             payload : Payloads \cup {NoPayload},
                             delivered : BOOLEAN]]
    /\ resolutions \in [TxIds -> Verdicts \cup {NoVerdict}]

(* Every table holds rows of the shape its CREATE TABLE declares.          *)
TypeOK == TurnTypes /\ detours \in [DetourIds -> DetourRows]

(* The tables agree with each other, although no foreign key says so: an   *)
(* attempt is closed exactly when it has an outcome, of the same kind, only *)
(* commits have runtime events, and only uncertain outcomes resolutions.   *)
TablesAgree ==
    \A t \in TxIds :
        LET attempt == attempts[t] row == outbox[t] IN
        /\ row.kind = "none" <=> attempt.status \in {"absent", "active"}
        /\ row.kind # "none" => attempt.status = row.kind
        /\ attempt.status # "absent" => head # NoHead /\ attempt.base # NoHead
        /\ row.kind # "none" => row.product # NoHead
        /\ row.kind = "committed" <=> row.event \in {"pending", "published"}
        /\ resolutions[t] # NoVerdict => row.kind = "reconciliation_required"

(* The committed outcomes are one chain from the bootstrap head to the     *)
(* current head, one outcome per revision, each based on the product of    *)
(* the revision before: the contiguity graph.py relies on when it rebuilds *)
(* the runtime log, although no query ever looks at two outcomes.          *)
CommitsFormOneChain ==
    /\ \A t \in Committed :
          /\ attempts[t].base # NoHead /\ head # NoHead
          /\ outbox[t].product.thread = t
          /\ outbox[t].product.rev = attempts[t].base.rev + 1
          /\ outbox[t].product.rev =< head.rev
          /\ outbox[t].product.rev = head.rev => outbox[t].product = head
    /\ \A t, u \in Committed :
          /\ outbox[t].product.rev = outbox[u].product.rev => t = u
          /\ outbox[u].product.rev = attempts[t].base.rev =>
                 outbox[u].product = attempts[t].base
    /\ head # NoHead => \A k \in 1..head.rev :
          \E t \in Committed : outbox[t].product.rev = k

(* An active attempt always starts from the current head, so it can always *)
(* be closed: a head moved under it would leave _validate_base_head        *)
(* refusing commit, abort and reconciliation alike, for ever.              *)
ActiveAttemptCanClose ==
    \A t \in ActiveAttempts :
        head # NoHead /\ attempts[t].base = head /\ outbox[t].kind = "none"

(* One actor at a time: an active attempt excludes any other attempt, any  *)
(* open detour and any unresolved reconciliation, and there is never more  *)
(* than one reconciliation for get_unresolved_reconciliation to report.    *)
OneOpenAuthority ==
    /\ \A t, u \in ActiveAttempts : t = u
    /\ \A t, u \in UnresolvedReconciliations : t = u
    /\ \A d, e \in PreparedDetours : d = e
    /\ ActiveAttempts # {} => /\ OpenDetours = {}
                             /\ UnresolvedReconciliations = {}

FenceFits(row) ==
    row.status # "absent" /\ row.class # "authority_resolution" =>
      /\ row.before = NoHead => row.fence = NoFence
      /\ row.before # NoHead => /\ row.fence.seq = row.before.rev
                                /\ row.fence.seq > 0 => row.fence.tx = row.before.thread

(* A detour's fence is the runtime event of the head it observed: every    *)
(* committed event was published when it was prepared, so the highest      *)
(* published sequence is the head's revision.  No code compares the two;   *)
(* live runners join detours with runtime events by it.                    *)
FenceCoversHead == \A d \in DetourIds : FenceFits(detours[d])

(* Every row can be read back, whatever was done to it since it was        *)
(* written: a row that failed the checks of _outcome_from_row or           *)
(* _validate_detour_semantics would make every later turn, detour and      *)
(* recovery of the thread raise, with no operation that repairs it.        *)
RowsStayReadable ==
    /\ \A t \in TxIds : outbox[t].kind # "none" => OutcomeReads(t)
    /\ \A d \in DetourIds :
          detours[d].status # "absent" => DetourReads(detours[d])

(* Each authority reply answers a resolution of its own, with the same     *)
(* verdict: resolve_with_terminal_detour records both or neither.          *)
RepliesAnswerResolutions ==
    \A v \in Verdicts :
        Cardinality({d \in DetourIds : /\ detours[d].class = "authority_resolution"
                                       /\ detours[d].verdict = v})
        =< Cardinality({t \in TxIds : resolutions[t] = v})
           + Cardinality({d \in DetourIds :
                            /\ detours[d].class = "local_external_effect"
                            /\ detours[d].verdict = v})

(* What a stream showed is in what it is remembered to have said: a        *)
(* completed stream's response starts with every chunk recorded while it   *)
(* ran, whichever process completes it.                                    *)
StreamsAreReplayable ==
    \A d \in DetourIds :
        detours[d].status = "completed" =>
            /\ Len(detours[d].chunks) =< Len(detours[d].response)
            /\ SubSeq(detours[d].response, 1, Len(detours[d].chunks))
                  = detours[d].chunks

(* While an open detour or an unresolved reconciliation stands, the head   *)
(* does not move; it moves only by one revision, and only when the active  *)
(* attempt commits.                                                        *)
HeadMovesOnlyByCommit ==
    [][head # NoHead /\ head' # head =>
         /\ OpenDetours = {} /\ UnresolvedReconciliations = {}
         /\ PendingEvents' = PendingEvents \cup {head'.thread}
         /\ head'.rev = head.rev + 1
         /\ ActiveAttempts = {head'.thread}]_vars

-----------------------------------------------------------------------------
(* The tables implement ProductHead: the attempts table is its open turn,  *)
(* the unresolved rows of the outbox its uncertain one, the committed rows *)
(* its lineage.                                                            *)
PH == INSTANCE ProductHead WITH
        tip <- head,
        lineage <- {outbox[t].product : t \in Committed},
        open <- ActiveAttempts,
        uncertain <- UnresolvedReconciliations,
        spent <- {t \in TxIds : attempts[t].status # "absent"}

(* Whatever callers interleave, the accepted turns are one line of         *)
(* revisions, worked on one at a time and stopped by an uncertain effect.  *)
ImplementsProductHead == PH!Spec
=============================================================================
