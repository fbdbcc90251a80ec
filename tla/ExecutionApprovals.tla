------------------------- MODULE ExecutionApprovals ------------------------
(***************************************************************************)
(* The approval of preflight, smoke and final benchmark in a conversation: *)
(* agent/harness/domains/execution.py and execution_runtime.py, and the    *)
(* side-effect steps of coordinator.py.  The state between turns is the    *)
(* product head.  A turn without an external effect is one step: committed *)
(* or, if it fails, as if it had never been.  A turn that approves a run   *)
(* works on a draft, submits a job between two checkpoints, and may be     *)
(* killed anywhere.  The jobs are those of JobLedger.tla.                  *)
(***************************************************************************)
EXTENDS Naturals, FiniteSets

CONSTANTS Wordings,    \* what a user may type for "yes"
          MaxTurns,    \* bound: committed turns
          MaxEdits,    \* bound: changes of the configuration
          MaxPlans,    \* bound: prepared plans
          MaxCrashes,  \* bound: killed turns
          NoRequest, NoPlan, NoJob, NoAttempt

Targets == {"real-node", "fake-node"}
RequestIds == [turn : 1..MaxTurns, wording : Wordings]    \* action ids
Plans == [config : 0..MaxEdits, serial : 1..MaxPlans]

(* Execution keys; a job is named by its key.                              *)
SmokeKey(r) == <<r, "real-node-smoke">>
PlainKey(r) == <<r>>
SmokeKeys == {SmokeKey(r) : r \in RequestIds}
PlainKeys == {PlainKey(r) : r \in RequestIds}
Keys == SmokeKeys \cup PlainKeys

Operations == {"preflight", "final"}
Groups == {"preflight_smoke_execution", "job_monitoring"}

VARIABLES head,      \* what the product head says of the execution
          attempt,   \* the turn that is approving a run
          barrier,   \* a turn awaits reconciliation
          ledger,    \* the jobs
          prepared,  \* number of plans prepared so far
          crashes,   \* number of turns killed
          approvals  \* execution_approval receipts of committed turns

vars == <<head, attempt, barrier, ledger, prepared, crashes, approvals>>

Jobs == INSTANCE JobLedger

Statuses == Jobs!Statuses
Broken == {"failed", "partial"}
NoRun == [job |-> NoJob, status |-> "none"]
NoRecovery == [status |-> "none", job |-> NoJob, cause |-> "none"]

Heads == [target : Targets, config : 0..MaxEdits, turn : 0..MaxTurns,
          question : {"none", "preflight", "final", "recovery"},
          request : RequestIds \cup {NoRequest},   \* execution_request_id
          plan : Plans \cup {NoPlan},
          preflight : {"unset", "declined", "passed", "blocked"},
          smoke : [job : Keys \cup {NoJob},
                   status : Statuses \cup {"none", "blocked"}],
          final : [job : Keys \cup {NoJob},
                   status : Statuses \cup {"none", "declined", "blocked"}],
          job : Keys \cup {NoJob},
          recovery : [status : {"none", "pending", "correcting", "resolved",
                                "cancelled"},
                      job : Keys \cup {NoJob},
                      cause : {"none", "preflight"} \cup Broken],
          invalidated : SUBSET Groups]
Attempts == [step : {"prepared", "invoking", "submitted", "observed"},
             operation : Operations, draft : Heads,
             disposition : {"none", "created", "reused"},
             outcome : {"none", "succeeded", "blocked"}]
Receipts == [operation : Operations, request : RequestIds, plan : Plans, job : Keys]

(* What stands for nothing is nothing else.                                *)
ASSUME ApprovalsAssumption ==
    /\ MaxTurns \in Nat /\ MaxEdits \in Nat /\ MaxPlans \in Nat /\ MaxCrashes \in Nat
    /\ NoRequest \notin RequestIds /\ NoPlan \notin Plans
    /\ NoJob \notin Keys \cup Jobs!Entries
    /\ NoAttempt \notin Attempts

(* Every group before the execution is configured; each of its answers     *)
(* declared the execution invalid.                                         *)
Init == /\ \E target \in Targets :
              head = [target |-> target, config |-> 0, turn |-> 0,
                      question |-> "preflight", request |-> NoRequest,
                      plan |-> NoPlan, preflight |-> "unset", smoke |-> NoRun,
                      final |-> NoRun, job |-> NoJob, recovery |-> NoRecovery,
                      invalidated |-> Groups]
        /\ attempt = NoAttempt
        /\ barrier = FALSE
        /\ Jobs!Init
        /\ prepared = 0 /\ crashes = 0 /\ approvals = {}
-----------------------------------------------------------------------------
ReadyOnceSubmitted(h) ==      \* defect: a submitted smoke counts as a passed one
    /\ h.target = "real-node"
    /\ h.smoke.job # NoJob
    /\ h.final.job = NoJob /\ h.final.status # "declined"

ReadyForFinal(h) == /\ h.target = "real-node"
                    /\ h.smoke.job # NoJob /\ h.smoke.status = "completed"
                    /\ h.final.job = NoJob /\ h.final.status # "declined"

Unresolved(h) == h.recovery.status = "pending"

Ask(h, question) == [h EXCEPT !.question = question]
Revalidated(h, group) == [h EXCEPT !.invalidated = @ \ {group}]

(* The first blocking question, if none is pending.                        *)
Fallback(h) ==
    IF h.question # "none" THEN h
    ELSE CASE Unresolved(h) -> Ask(h, "recovery")
           [] ~Unresolved(h) /\ h.preflight = "unset" -> Ask(h, "preflight")
           [] ~Unresolved(h) /\ h.preflight # "unset" /\ ReadyForFinal(h) ->
                Ask(h, "final")
           [] OTHER -> h

(* A question that is replaced leaves its group; job_monitoring is always  *)
(* ready and so no longer counts as invalidated.                           *)
Replace(h, question) ==
    IF h.question = "final" THEN Revalidated(Ask(h, question), "job_monitoring")
                            ELSE Ask(h, question)

Failure(job, cause) == [status |-> "pending", job |-> job, cause |-> cause]

(* A failure of a job asks for recovery, once.                             *)
Activate(h, job, cause) ==
    IF /\ h.recovery.job = job /\ h.recovery.cause = cause
       /\ h.recovery.status # "none" THEN h
    ELSE Replace([h EXCEPT !.recovery = Failure(job, cause)], "recovery")

Refresh(run, h) == IF run.job = h.job THEN [run EXCEPT !.status = ledger[h.job].status]
                                      ELSE run

(* The conversation's job is read when a turn begins.                      *)
Reconciled(h) ==
    IF h.job = NoJob THEN h
    ELSE LET status == ledger[h.job].status
             seen == [h EXCEPT !.smoke = Refresh(@, h), !.final = Refresh(@, h)] IN
         IF status \in Broken THEN Activate(seen, h.job, status)
         ELSE IF /\ h.smoke.job = h.job /\ status = "completed"
                 /\ h.question = "none"
           THEN IF ReadyForFinal(seen) THEN Ask(seen, "final")
                                       ELSE Revalidated(seen, "job_monitoring")
           ELSE seen

(* prepare_turn_step.                                                      *)
Begun == [Reconciled(head) EXCEPT !.turn = @ + 1]

TurnBegins == /\ attempt = NoAttempt /\ ~barrier
              /\ head.turn < MaxTurns

Commits(h) == /\ head' = h
              /\ UNCHANGED <<attempt, barrier, ledger, prepared, crashes, approvals>>

GroupOf(question) == IF question = "final" THEN "job_monitoring"
                                           ELSE "preflight_smoke_execution"

AnsweredOnly(h) == Ask(h, "none")    \* defect: the answered group stays invalidated

(* An answer empties the question and its group is no longer invalidated.  *)
Answered(h) == Revalidated(Ask(h, "none"), GroupOf(h.question))
-----------------------------------------------------------------------------
(* Turns that commit in one step.                                          *)

(* Anything that is about something else.                                  *)
Talk == /\ TurnBegins
        /\ Commits(Fallback(Begun))

Decline == /\ TurnBegins
           /\ Begun.question \in Operations
           /\ Commits(IF Begun.question = "final"
                        THEN [Answered(Begun) EXCEPT !.final.status = "declined"]
                        ELSE [Answered(Begun) EXCEPT !.preflight = "declined"])

(* _apply_group_invalidation_state                                         *)
Invalidate(h, groups) ==
    LET reset == IF "preflight_smoke_execution" \notin groups THEN h
                 ELSE [h EXCEPT !.plan = NoPlan, !.request = NoRequest,
                                !.smoke = NoRun, !.final = NoRun,
                                !.preflight = IF @ = "declined" THEN @ ELSE "unset"]
    IN IF "job_monitoring" \in groups THEN [reset EXCEPT !.job = NoJob] ELSE reset

(* A change of the configuration invalidates its dependents; what was      *)
(* already invalidated is not reset again.                                 *)
Edited(h) ==
    LET changed == Invalidate([h EXCEPT !.config = @ + 1], Groups \ h.invalidated)
    IN Fallback(Replace([changed EXCEPT !.invalidated = Groups], "none"))

Edit == /\ TurnBegins
        /\ head.config < MaxEdits
        /\ Commits(Edited(Begun))

CancelRecovery == /\ TurnBegins
                  /\ Begun.question = "recovery"
                  /\ Commits([Ask(Begun, "none") EXCEPT !.recovery.status = "cancelled"])

(* correct_failure; incomplete artifacts cannot be corrected.              *)
CorrectFailure ==
    /\ TurnBegins
    /\ Begun.question = "recovery"
    /\ Begun.recovery.cause # "partial"
    /\ LET corrected == Invalidate(Begun, Groups) IN
       Commits(Fallback([Ask(corrected, "none") EXCEPT
                           !.recovery.status = "correcting",
                           !.invalidated = {"job_monitoring"}]))
-----------------------------------------------------------------------------
(* An approval: the answer, the intent, its execution, the receipt.        *)
Unchanged == UNCHANGED <<head, barrier, ledger, prepared, crashes, approvals>>
Steps(step) == attempt' = [attempt EXCEPT !.step = step]

ApproveAnew(w) ==             \* defect: a final benchmark is a request of its own
    /\ TurnBegins
    /\ Begun.question \in Operations
    /\ LET draft == Answered(Begun) IN
       attempt' = [step |-> "prepared", operation |-> Begun.question,
                   draft |-> [draft EXCEPT
                                !.request = [turn |-> draft.turn, wording |-> w]],
                   disposition |-> "none", outcome |-> "none"]
    /\ Unchanged

(* prepare_execution_intent_step: the request is named by the action,      *)
(* unless the preflight has named one.                                     *)
Approve(w) ==
    /\ TurnBegins
    /\ Begun.question \in Operations
    /\ LET draft == Answered(Begun) IN
       attempt' = [step |-> "prepared", operation |-> Begun.question,
                   draft |-> [draft EXCEPT
                                !.request = IF @ = NoRequest
                                              THEN [turn |-> draft.turn, wording |-> w]
                                              ELSE @],
                   disposition |-> "none", outcome |-> "none"]
    /\ Unchanged

Invoke == /\ attempt # NoAttempt /\ attempt.step = "prepared"
          /\ Steps("invoking")
          /\ Unchanged

Draft == attempt.draft
Key == IF attempt.operation = "preflight" /\ Draft.target = "real-node"
         THEN SmokeKey(Draft.request) ELSE PlainKey(Draft.request)

Prepare(plan) == /\ prepared < MaxPlans
                 /\ prepared' = prepared + 1
                 /\ plan = [config |-> Draft.config, serial |-> prepared + 1]

(* The preflight blocks: nothing is submitted.                             *)
PreflightBlocks(plan) ==
    /\ attempt # NoAttempt
    /\ attempt.step = "invoking" /\ attempt.operation = "preflight"
    /\ Prepare(plan)
    /\ attempt' = [attempt EXCEPT
                     !.step = "observed", !.outcome = "blocked",
                     !.draft = Replace([Draft EXCEPT !.plan = plan,
                                          !.preflight = "blocked",
                                          !.recovery = Failure(NoJob, "preflight")],
                                       "recovery")]
    /\ UNCHANGED <<head, barrier, ledger, crashes, approvals>>

(* Submitting a plan opens the job of its key, or finds it.                *)
Submit(draft) ==
    /\ attempt' = [attempt EXCEPT
                     !.step = "submitted", !.draft = draft,
                     !.disposition = IF ledger[Key] = NoJob THEN "created" ELSE "reused"]
    /\ IF ledger[Key] = NoJob THEN Jobs!Open(Key, draft.plan, FALSE)
                              ELSE UNCHANGED ledger
    /\ UNCHANGED <<head, barrier, crashes, approvals>>

Validated(h) == IF h.recovery.status = "correcting"
                  THEN [h EXCEPT !.recovery.status = "resolved"] ELSE h

PreflightPasses(plan) ==
    /\ attempt # NoAttempt
    /\ attempt.step = "invoking" /\ attempt.operation = "preflight"
    /\ Draft.smoke = NoRun
    /\ Prepare(plan)
    /\ Submit([Draft EXCEPT !.plan = plan, !.preflight = "passed"])

SubmitFinal ==
    /\ attempt # NoAttempt
    /\ attempt.step = "invoking" /\ attempt.operation = "final"
    /\ ReadyForFinal(Draft)
    /\ Submit(Draft)
    /\ UNCHANGED prepared

(* A submission that fails opens no job: there is no plan file, the plan   *)
(* has changed under it, or the service has an error.                      *)
PreflightUnsubmitted(plan) ==
    /\ attempt # NoAttempt
    /\ attempt.step = "invoking" /\ attempt.operation = "preflight"
    /\ Draft.smoke = NoRun
    /\ Prepare(plan)
    /\ attempt' = [attempt EXCEPT
                     !.step = "observed", !.outcome = "blocked",
                     !.draft = Replace([Draft EXCEPT !.plan = plan,
                                          !.preflight = "passed", !.job = NoJob,
                                          !.smoke.status = "blocked",
                                          !.recovery = Failure(NoJob, "failed")],
                                       "recovery")]
    /\ UNCHANGED <<head, barrier, ledger, crashes, approvals>>

FinalUnsubmitted ==
    /\ attempt # NoAttempt
    /\ attempt.step = "invoking" /\ attempt.operation = "final"
    /\ ReadyForFinal(Draft)
    /\ attempt' = [attempt EXCEPT !.step = "observed", !.outcome = "blocked",
                                  !.draft.final.status = "blocked"]
    /\ Unchanged

(* A job that was found may still be pending: its smoke counts as failed,  *)
(* its final benchmark does not.                                           *)
Succeeded == {"running", "completed"}
                \cup (IF attempt.operation = "final" THEN {"pending"} ELSE {})

(* A job just created is started before the submission returns; one that   *)
(* was found may be in any state.                                          *)
Observe ==
    /\ attempt # NoAttempt /\ attempt.step = "submitted"
    /\ attempt.disposition = "created" => ledger[Key].status # "pending"
    /\ LET status == ledger[Key].status
           run == [job |-> Key, status |-> status]
           known == [Draft EXCEPT !.job = Key,
                       !.smoke = IF Key \in SmokeKeys THEN run ELSE @,
                       !.final = IF attempt.operation = "final" THEN run ELSE @] IN
       attempt' = IF status \in Succeeded
         THEN [attempt EXCEPT !.step = "observed", !.outcome = "succeeded",
                 !.draft = IF attempt.operation = "final" THEN known
                                                          ELSE Validated(known)]
         ELSE [attempt EXCEPT !.step = "observed", !.outcome = "blocked",
                 !.draft = Replace([known EXCEPT !.recovery = Failure(Key,
                               IF status = "partial" THEN status ELSE "failed")],
                             "recovery")]
    /\ Unchanged

Receipt == [operation |-> attempt.operation, request |-> Draft.request,
            plan |-> Draft.plan, job |-> Draft.job]

(* _record_execution_approval: the receipt and the submission must agree.  *)
Supported == /\ attempt.outcome = "succeeded"
             /\ Draft.job # NoJob
             /\ ledger[Draft.job].plan = Draft.plan

CommitApproval == /\ attempt # NoAttempt /\ attempt.step = "observed"
                  /\ Supported
                  /\ head' = Draft
                  /\ approvals' = approvals \cup {Receipt}
                  /\ attempt' = NoAttempt
                  /\ UNCHANGED <<barrier, ledger, prepared, crashes>>

(* An approval that is not supported raises; its receipt is evidence of an *)
(* effect, so that the turn awaits reconciliation and the head stays.      *)
RaiseUnsupported == /\ attempt # NoAttempt /\ attempt.step = "observed"
                    /\ ~Supported
                    /\ barrier' = TRUE
                    /\ attempt' = NoAttempt
                    /\ UNCHANGED <<head, ledger, prepared, crashes, approvals>>

(* A killed turn is aborted before the intent was invoked and awaits       *)
(* reconciliation after.                                                   *)
Crash == /\ attempt # NoAttempt
         /\ crashes < MaxCrashes
         /\ crashes' = crashes + 1
         /\ barrier' = (attempt.step # "prepared")
         /\ attempt' = NoAttempt
         /\ UNCHANGED <<head, ledger, prepared, approvals>>

(* The operator resolves the turn; the head stays where it was.            *)
Resolve == /\ barrier
           /\ barrier' = FALSE
           /\ UNCHANGED <<head, attempt, ledger, prepared, crashes, approvals>>

(* A recorded result stays (ResultsStay of BenchmarkJobs.tla).             *)
JobProgresses(k) == /\ ledger[k] # NoJob
                    /\ ledger[k].status \in {"pending", "running"}
                    /\ Jobs!Progress(k)
                    /\ UNCHANGED <<head, attempt, barrier, prepared, crashes,
                                   approvals>>

Next == \/ Talk \/ Decline \/ Edit \/ CancelRecovery \/ CorrectFailure
        \/ (\E w \in Wordings : Approve(w)) \/ Invoke
        \/ (\E plan \in Plans : \/ PreflightBlocks(plan) \/ PreflightPasses(plan)
                               \/ PreflightUnsubmitted(plan))
        \/ SubmitFinal \/ FinalUnsubmitted \/ Observe \/ CommitApproval \/ RaiseUnsupported
        \/ Crash \/ Resolve \/ (\E k \in Keys : JobProgresses(k))

Spec == Init /\ [][Next]_vars
-----------------------------------------------------------------------------
(* The rows have their types, and a turn in progress and a barrier exclude *)
(* each other.                                                             *)
TypeOK == /\ head \in Heads
          /\ attempt \in Attempts \cup {NoAttempt}
          /\ barrier \in BOOLEAN
          /\ ledger \in [Keys -> Jobs!Entries \cup {NoJob}]
          /\ prepared \in 0..MaxPlans
          /\ crashes \in 0..MaxCrashes
          /\ approvals \subseteq Receipts
          /\ attempt # NoAttempt => ~barrier

(* What the head keeps of an execution belongs to the configuration the    *)
(* user confirmed last: its plan was prepared from it, its smoke and its   *)
(* final benchmark ran that plan (_apply_group_invalidation_state).        *)
EvidenceFitsConfig ==
    /\ head.plan # NoPlan => head.plan.config = head.config
    /\ \A run \in {head.smoke, head.final} :
          run.job # NoJob => ledger[run.job].plan = head.plan

(* A final benchmark on a real node exists only if the smoke of the same   *)
(* request ran the same plan to complete results, approved by itself       *)
(* (_ready_for_final_benchmark, execution_request_id).                     *)
FinalNeedsSmoke ==
    head.target = "real-node" =>
        \A r \in RequestIds :
           ledger[PlainKey(r)] # NoJob =>
              LET smoke == ledger[SmokeKey(r)] IN
              /\ smoke # NoJob
              /\ smoke.good /\ smoke.plan = ledger[PlainKey(r)].plan
              /\ \E a \in approvals : a.job = SmokeKey(r)

(* However an approval of the final benchmark is repeated, reworded or     *)
(* interrupted, a plan is benchmarked once (execution_request_id outlives  *)
(* the turn that named it).                                                *)
OneFinalPerPlan ==
    head.target = "real-node" =>
        \A r, q \in {id \in RequestIds : ledger[PlainKey(id)] # NoJob} :
           ledger[PlainKey(r)].plan = ledger[PlainKey(q)].plan => r = q

(* An approval returns a result or a concrete blocker to the user: only a  *)
(* killed turn awaits reconciliation (the verification guide's promise).   *)
ApprovalsReturn == barrier => crashes > 0
=============================================================================
