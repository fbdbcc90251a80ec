---------------------- MODULE ExecutionApprovalsProofs ----------------------
(***************************************************************************)
(* What holds of the approvals of a run for any number of turns, edits,    *)
(* plans, killed turns and wordings of "yes".                              *)
(*                                                                         *)
(* ApprovalsInv carries every result.  What the head says of a job that it *)
(* names is true of that job (HeadHolds), and a head without an answered   *)
(* preflight says nothing (Bare): otherwise an edit, which resets nothing  *)
(* that is invalidated already, could leave the evidence of another        *)
(* configuration behind.  A turn that approves a run works on a draft of   *)
(* the head, so that HeadHolds of the draft is kept at every step of it    *)
(* until its job is observed, and once its approval is supported holds     *)
(* again, with the receipt it is about to commit (TurnKnows).  A plan is   *)
(* smoked once because every preflight prepares a plan of its own          *)
(* (LedgerHolds).                                                          *)
(***************************************************************************)
EXTENDS ExecutionApprovals, TLAPS

(* Nothing was prepared, smoked or benchmarked.                            *)
Bare(h) == h.plan = NoPlan /\ h.smoke = NoRun /\ h.final.job = NoJob

(* What a head says of its jobs, given the receipts so far.                *)
HeadHolds(h, receipts) ==
    /\ h.plan # NoPlan => h.plan.config = h.config
    /\ h.job # NoJob => ledger[h.job] # NoJob
    /\ \A run \in {h.smoke, h.final} : run.job # NoJob =>
          ledger[run.job] # NoJob /\ ledger[run.job].plan = h.plan
    /\ "preflight_smoke_execution" \in h.invalidated => Bare(h)
    /\ h.preflight \in {"unset", "declined"} => Bare(h)
    /\ h.question = "preflight" => h.preflight = "unset"
    /\ h.smoke.job # NoJob =>
          /\ h.request # NoRequest /\ h.smoke.job = SmokeKey(h.request)
          /\ \E a \in receipts : a.job = h.smoke.job
          /\ h.smoke.status = "completed" => ledger[h.smoke.job].status = "completed"

(* What the turn a that approves a run knows at each of its steps.         *)
KeyOf(a) == IF a.operation = "preflight" /\ a.draft.target = "real-node"
              THEN SmokeKey(a.draft.request) ELSE PlainKey(a.draft.request)
SupportedBy(a) == /\ a.outcome = "succeeded"
                  /\ a.draft.job # NoJob
                  /\ ledger[a.draft.job].plan = a.draft.plan
ReceiptOf(a) == [operation |-> a.operation, request |-> a.draft.request,
                 plan |-> a.draft.plan, job |-> a.draft.job]

TurnKnows(a, receipts) ==
    /\ a.draft.target = head.target /\ a.draft.request # NoRequest
    /\ a.step \in {"prepared", "invoking"} =>
          /\ HeadHolds(a.draft, receipts)
          /\ a.draft.question = "none"
          /\ a.operation = "preflight" =>
                /\ Bare(a.draft)
                /\ "preflight_smoke_execution" \notin a.draft.invalidated
    /\ a.step = "submitted" =>
          /\ ledger[KeyOf(a)] # NoJob
          /\ a.draft.question = "none"
          /\ "preflight_smoke_execution" \notin a.draft.invalidated
          /\ a.draft.plan # NoPlan /\ a.draft.plan.config = a.draft.config
          /\ a.draft.preflight \notin {"unset", "declined"}
          /\ a.draft.final.job = NoJob
          /\ a.operation = "preflight" => a.draft.smoke = NoRun
          /\ a.operation = "final" => HeadHolds(a.draft, receipts)
    /\ a.step = "observed" /\ SupportedBy(a) =>
          a.draft.job = KeyOf(a) /\ HeadHolds(a.draft, receipts \cup {ReceiptOf(a)})

AttemptHolds == attempt # NoAttempt => TurnKnows(attempt, approvals)

(* The jobs: nothing is simulated, results are good, plans were prepared,  *)
(* and a plan is smoked once.                                              *)
LedgerHolds ==
    /\ \A k \in Keys : ledger[k] # NoJob =>
          /\ ~ledger[k].simulated
          /\ ledger[k].status = "completed" => ledger[k].good
          /\ ledger[k].plan.serial =< prepared
    /\ \A r, q \in {id \in RequestIds : ledger[SmokeKey(id)] # NoJob} :
          ledger[SmokeKey(r)].plan = ledger[SmokeKey(q)].plan => r = q

ApprovalsInv == /\ TypeOK /\ LedgerHolds /\ FinalNeedsSmoke
                /\ HeadHolds(head, approvals) /\ AttemptHolds
-----------------------------------------------------------------------------
(* Types.                                                                  *)

LEMMA KeyFacts ==
    \A r, q \in RequestIds :
       /\ SmokeKey(r) \in Keys /\ PlainKey(r) \in Keys /\ SmokeKey(r) \in SmokeKeys
       /\ PlainKey(r) \notin SmokeKeys
       /\ SmokeKey(r) # PlainKey(q)
       /\ SmokeKey(r) = SmokeKey(q) => r = q
       /\ PlainKey(r) = PlainKey(q) => r = q
<1>1. \A r, q : SmokeKey(r) # PlainKey(q)
  <2> SUFFICES ASSUME NEW r, NEW q, SmokeKey(r) = PlainKey(q) PROVE FALSE
    OBVIOUS
  <2>1. DOMAIN SmokeKey(r) = 1..2 /\ DOMAIN PlainKey(q) = 1..1
    BY DEF SmokeKey, PlainKey
  <2>2. 2 \in 1..2 /\ 2 \notin 1..1
    OBVIOUS
  <2>3. QED BY <2>1, <2>2
<1>2. \A r, q : /\ SmokeKey(r) = SmokeKey(q) => r = q
                /\ PlainKey(r) = PlainKey(q) => r = q
  BY DEF SmokeKey, PlainKey
<1>3. QED BY <1>1, <1>2 DEF Keys, SmokeKeys, PlainKeys

(* What a head says of its two runs; expanded in every proof.              *)
SmokeRuns == [job : Keys \cup {NoJob}, status : Statuses \cup {"none", "blocked"}]
FinalRuns == [job : Keys \cup {NoJob},
              status : Statuses \cup {"none", "declined", "blocked"}]
USE DEF SmokeRuns, FinalRuns

LEMMA HeadFields ==
    ASSUME NEW h \in Heads
    PROVE  /\ h.target \in Targets /\ h.config \in 0..MaxEdits /\ h.turn \in 0..MaxTurns
           /\ h.question \in {"none", "preflight", "final", "recovery"}
           /\ h.request \in RequestIds \cup {NoRequest}
           /\ h.plan \in Plans \cup {NoPlan}
           /\ h.preflight \in {"unset", "declined", "passed", "blocked"}
           /\ h.smoke \in SmokeRuns
           /\ h.final \in FinalRuns
           /\ h.job \in Keys \cup {NoJob}
           /\ h.recovery \in [status : {"none", "pending", "correcting", "resolved", "cancelled"},
                              job : Keys \cup {NoJob},
                              cause : {"none", "preflight"} \cup Broken]
           /\ h.invalidated \in SUBSET Groups
BY DEF Heads

LEMMA NoRunFacts == NoRun.job = NoJob /\ NoRun.status = "none" /\ NoJob \notin Keys
BY ApprovalsAssumption DEF NoRun

LEMMA EntryFields ==
    ASSUME NEW e \in Jobs!Entries
    PROVE  /\ e # NoJob /\ e.plan \in Plans /\ e.status \in Statuses
           /\ e.simulated \in BOOLEAN /\ e.good \in BOOLEAN /\ e.ran \in BOOLEAN
BY ApprovalsAssumption DEF Jobs!Entries, Statuses

(* Two heads that say the same of their jobs.                              *)
SameEvidence(g, h) ==
    /\ g.plan = h.plan /\ g.config = h.config /\ g.job = h.job /\ g.request = h.request
    /\ g.smoke = h.smoke /\ g.final = h.final /\ g.preflight = h.preflight
    /\ g.target = h.target /\ g.turn = h.turn
    /\ g.invalidated \subseteq h.invalidated

LEMMA SameHolds ==
    ASSUME NEW g, NEW h, NEW R, SameEvidence(g, h), HeadHolds(h, R),
           g.question = "preflight" => g.preflight = "unset"
    PROVE  HeadHolds(g, R)
BY DEF SameEvidence, HeadHolds, Bare

LEMMA AskFacts ==
    ASSUME NEW h \in Heads, NEW q \in {"none", "preflight", "final", "recovery"}
    PROVE  /\ Ask(h, q) \in Heads /\ Ask(h, q).question = q /\ SameEvidence(Ask(h, q), h)
           /\ Ask(h, q).recovery = h.recovery /\ Ask(h, q).invalidated = h.invalidated
BY DEF Ask, Heads, SameEvidence

LEMMA RevalidatedFacts ==
    ASSUME NEW h \in Heads, NEW g \in Groups
    PROVE  /\ Revalidated(h, g) \in Heads /\ SameEvidence(Revalidated(h, g), h)
           /\ Revalidated(h, g).question = h.question
           /\ Revalidated(h, g).recovery = h.recovery
           /\ Revalidated(h, g).invalidated = h.invalidated \ {g}
<1>1. Revalidated(h, g).invalidated = h.invalidated \ {g}
  BY DEF Revalidated, Heads
<1>2. h.invalidated \ {g} \in SUBSET Groups
  BY HeadFields
<1>3. QED BY <1>1, <1>2 DEF Revalidated, Heads, SameEvidence

LEMMA SameTwice ==
    ASSUME NEW f, NEW g, NEW h, SameEvidence(f, g), SameEvidence(g, h)
    PROVE  SameEvidence(f, h)
BY DEF SameEvidence

LEMMA ReplaceFacts ==
    ASSUME NEW h \in Heads, NEW q \in {"none", "preflight", "final", "recovery"}
    PROVE  /\ Replace(h, q) \in Heads /\ SameEvidence(Replace(h, q), h)
           /\ Replace(h, q).question = q
           /\ Replace(h, q).recovery = h.recovery
<1>1. "job_monitoring" \in Groups
  BY DEF Groups
<1>2. QED BY <1>1, AskFacts, RevalidatedFacts, SameTwice DEF Replace

LEMMA FallbackFacts ==
    ASSUME NEW h \in Heads, NEW R, HeadHolds(h, R)
    PROVE  /\ Fallback(h) \in Heads /\ HeadHolds(Fallback(h), R)
           /\ Fallback(h).target = h.target /\ Fallback(h).turn = h.turn
           /\ Fallback(h).config = h.config
<1>1. \/ Fallback(h) = h
      \/ Fallback(h) = Ask(h, "recovery") \/ Fallback(h) = Ask(h, "final")
      \/ Fallback(h) = Ask(h, "preflight") /\ h.preflight = "unset"
  BY DEF Fallback
<1>2. CASE Fallback(h) = h
  BY <1>2
<1>3. ASSUME NEW q \in {"none", "preflight", "final", "recovery"}, Fallback(h) = Ask(h, q),
             q = "preflight" => h.preflight = "unset"
      PROVE  /\ Fallback(h) \in Heads /\ HeadHolds(Fallback(h), R)
             /\ SameEvidence(Fallback(h), h)
  <2>1. /\ Ask(h, q) \in Heads /\ Ask(h, q).question = q /\ SameEvidence(Ask(h, q), h)
    BY AskFacts
  <2>2. Ask(h, q).preflight = h.preflight
    BY <2>1 DEF SameEvidence
  <2>3. HeadHolds(Ask(h, q), R)
    BY <1>3, <2>1, <2>2, SameHolds
  <2>4. QED BY <1>3, <2>1, <2>3
<1>4. CASE Fallback(h) = Ask(h, "recovery") \/ Fallback(h) = Ask(h, "final")
  BY <1>3, <1>4 DEF SameEvidence
<1>5. CASE Fallback(h) = Ask(h, "preflight") /\ h.preflight = "unset"
  BY <1>3, <1>5 DEF SameEvidence
<1>6. QED BY <1>1, <1>2, <1>4, <1>5
-----------------------------------------------------------------------------
(* What a turn reads when it begins.                                       *)

SeenBy(h) == [h EXCEPT !.smoke = Refresh(@, h), !.final = Refresh(@, h)]

LEMMA RefreshFacts ==
    ASSUME TypeOK, NEW h \in Heads, h.job # NoJob, ledger[h.job] # NoJob,
           NEW S, Statuses \subseteq S, NEW run \in [job : Keys \cup {NoJob}, status : S]
    PROVE  /\ Refresh(run, h) \in [job : Keys \cup {NoJob}, status : S]
           /\ Refresh(run, h).job = run.job
           /\ run.job # h.job => Refresh(run, h) = run
           /\ run.job = h.job => Refresh(run, h).status = ledger[h.job].status
<1>1. ledger[h.job].status \in Statuses
  BY HeadFields, EntryFields DEF TypeOK
<1>2. QED BY <1>1 DEF Refresh

LEMMA SeenFacts ==
    ASSUME TypeOK, NEW h \in Heads, NEW R, HeadHolds(h, R), h.job # NoJob
    PROVE  /\ SeenBy(h) \in Heads /\ HeadHolds(SeenBy(h), R)
           /\ SeenBy(h).target = h.target /\ SeenBy(h).turn = h.turn
           /\ SeenBy(h).config = h.config /\ SeenBy(h).preflight = h.preflight
           /\ SeenBy(h).question = h.question
<1>1. /\ ledger[h.job] # NoJob /\ h.job \in Keys
  BY HeadFields DEF HeadHolds
<1> DEFINE smoke == Refresh(h.smoke, h)
           final == Refresh(h.final, h)
<1>2. /\ smoke \in SmokeRuns
      /\ smoke.job = h.smoke.job
      /\ h.smoke.job # h.job => smoke = h.smoke
      /\ h.smoke.job = h.job => smoke.status = ledger[h.job].status
  <2> DEFINE S == Statuses \cup {"none", "blocked"}
  <2>1. Statuses \subseteq S /\ h.smoke \in [job : Keys \cup {NoJob}, status : S]
    BY HeadFields
  <2> HIDE DEF S
  <2>2. /\ smoke \in [job : Keys \cup {NoJob}, status : S]
        /\ smoke.job = h.smoke.job
        /\ h.smoke.job # h.job => smoke = h.smoke
        /\ h.smoke.job = h.job => smoke.status = ledger[h.job].status
    BY <1>1, <2>1, RefreshFacts
  <2>3. QED BY <2>2 DEF S
<1>3. /\ final \in FinalRuns
      /\ final.job = h.final.job
  <2> DEFINE S == Statuses \cup {"none", "declined", "blocked"}
  <2>1. Statuses \subseteq S /\ h.final \in [job : Keys \cup {NoJob}, status : S]
    BY HeadFields
  <2> HIDE DEF S
  <2>2. /\ final \in [job : Keys \cup {NoJob}, status : S]
        /\ final.job = h.final.job
    BY <1>1, <2>1, RefreshFacts
  <2>3. QED BY <2>2 DEF S
<1>4. SeenBy(h) = [h EXCEPT !.smoke = smoke, !.final = final]
  BY DEF SeenBy
<1> HIDE DEF smoke, final
<1> DEFINE g == SeenBy(h)
<1>5. /\ g \in Heads /\ g.smoke = smoke /\ g.final = final
      /\ g.plan = h.plan /\ g.config = h.config /\ g.job = h.job /\ g.request = h.request
      /\ g.preflight = h.preflight /\ g.target = h.target /\ g.turn = h.turn
      /\ g.invalidated = h.invalidated /\ g.question = h.question
  BY <1>2, <1>3, <1>4 DEF Heads
<1> HIDE DEF g
<1>6. Bare(h) => Bare(g)
  BY <1>1, <1>2, <1>3, <1>5, NoRunFacts DEF Bare
<1>7. \A run \in {smoke, final} : run.job # NoJob =>
          ledger[run.job] # NoJob /\ ledger[run.job].plan = h.plan
  BY <1>2, <1>3 DEF HeadHolds
<1>8. smoke.job # NoJob =>
          /\ h.request # NoRequest /\ smoke.job = SmokeKey(h.request)
          /\ \E a \in R : a.job = smoke.job
          /\ smoke.status = "completed" => ledger[smoke.job].status = "completed"
  BY <1>2 DEF HeadHolds
<1>9. /\ h.plan # NoPlan => h.plan.config = h.config
      /\ h.job # NoJob => ledger[h.job] # NoJob
      /\ "preflight_smoke_execution" \in h.invalidated => Bare(h)
      /\ h.preflight \in {"unset", "declined"} => Bare(h)
      /\ h.question = "preflight" => h.preflight = "unset"
  BY DEF HeadHolds
<1>10. HeadHolds(g, R)
  BY <1>5, <1>6, <1>7, <1>8, <1>9 DEF HeadHolds
<1>11. QED BY <1>5, <1>10 DEF g

LEMMA ActivateFacts ==
    ASSUME NEW h \in Heads, NEW R, HeadHolds(h, R), NEW job \in Keys, NEW cause \in Broken
    PROVE  LET g == Activate(h, job, cause)
           IN  /\ g \in Heads /\ HeadHolds(g, R)
               /\ SameEvidence(g, h)
<1> DEFINE r == [h EXCEPT !.recovery = Failure(job, cause)]
<1>1. Failure(job, cause) \in [status : {"none", "pending", "correcting", "resolved", "cancelled"},
                               job : Keys \cup {NoJob},
                               cause : {"none", "preflight"} \cup Broken]
  BY DEF Failure
<1>2. r \in Heads /\ SameEvidence(r, h)
  BY <1>1 DEF Heads, SameEvidence
<1>3. Activate(h, job, cause) \in {h, Replace(r, "recovery")}
  BY DEF Activate
<1> HIDE DEF r
<1>4. /\ Replace(r, "recovery") \in Heads /\ SameEvidence(Replace(r, "recovery"), r)
      /\ Replace(r, "recovery").question = "recovery"
  BY <1>2, ReplaceFacts
<1>5. SameEvidence(Replace(r, "recovery"), h)
  BY <1>2, <1>4, SameTwice
<1>6. HeadHolds(Replace(r, "recovery"), R)
  BY <1>4, <1>5, SameHolds
<1>7. SameEvidence(h, h)
  BY DEF SameEvidence
<1>8. QED BY <1>3, <1>4, <1>5, <1>6, <1>7

LEMMA ReconciledFacts ==
    ASSUME TypeOK, NEW h \in Heads, NEW R, HeadHolds(h, R)
    PROVE  /\ Reconciled(h) \in Heads /\ HeadHolds(Reconciled(h), R)
           /\ Reconciled(h).target = h.target /\ Reconciled(h).turn = h.turn
           /\ Reconciled(h).config = h.config
<1>1. CASE h.job = NoJob
  BY <1>1 DEF Reconciled
<1>2. CASE h.job # NoJob
  <2> DEFINE seen == SeenBy(h)
             status == ledger[h.job].status
  <2>1. /\ seen \in Heads /\ HeadHolds(seen, R)
        /\ seen.target = h.target /\ seen.turn = h.turn /\ seen.config = h.config
    BY <1>2, SeenFacts
  <2>2. h.job \in Keys
    BY <1>2, HeadFields
  <2>3. \/ status \in Broken /\ Reconciled(h) = Activate(seen, h.job, status)
        \/ Reconciled(h) = Ask(seen, "final")
        \/ Reconciled(h) = Revalidated(seen, "job_monitoring")
        \/ Reconciled(h) = seen
    BY <1>2 DEF Reconciled, SeenBy
  <2> HIDE DEF seen, status
  <2>4. CASE status \in Broken /\ Reconciled(h) = Activate(seen, h.job, status)
    BY <2>1, <2>2, <2>4, ActivateFacts DEF SameEvidence
  <2>5. CASE Reconciled(h) = Ask(seen, "final")
    <3>1. /\ Ask(seen, "final") \in Heads /\ SameEvidence(Ask(seen, "final"), seen)
          /\ Ask(seen, "final").question = "final"
      BY <2>1, AskFacts
    <3>2. HeadHolds(Ask(seen, "final"), R)
      BY <2>1, <3>1, SameHolds
    <3>3. QED BY <2>1, <2>5, <3>1, <3>2 DEF SameEvidence
  <2>6. CASE Reconciled(h) = Revalidated(seen, "job_monitoring")
    <3> DEFINE g == Revalidated(seen, "job_monitoring")
    <3>1. "job_monitoring" \in Groups
      BY DEF Groups
    <3>2. g \in Heads /\ SameEvidence(g, seen) /\ g.question = seen.question
      BY <2>1, <3>1, RevalidatedFacts
    <3> HIDE DEF g
    <3>3. seen.question = "preflight" => seen.preflight = "unset"
      BY <2>1 DEF HeadHolds
    <3>4. g.question = "preflight" => g.preflight = "unset"
      BY <3>2, <3>3 DEF SameEvidence
    <3>5. HeadHolds(g, R)
      BY <2>1, <3>2, <3>4, SameHolds
    <3>6. QED BY <2>1, <2>6, <3>2, <3>5 DEF SameEvidence, g
  <2>7. CASE Reconciled(h) = seen
    BY <2>1, <2>7
  <2>8. QED BY <2>3, <2>4, <2>5, <2>6, <2>7
<1>3. QED BY <1>1, <1>2

LEMMA BegunFacts ==
    ASSUME TypeOK, NEW R, HeadHolds(head, R), head.turn < MaxTurns
    PROVE  /\ Begun \in Heads /\ HeadHolds(Begun, R)
           /\ Begun.target = head.target /\ Begun.config = head.config
           /\ Begun.turn = head.turn + 1
<1> DEFINE h == Reconciled(head)
<1>1. /\ h \in Heads /\ HeadHolds(h, R) /\ h.target = head.target /\ h.turn = head.turn
      /\ h.config = head.config
  BY ReconciledFacts DEF TypeOK
<1>2. Begun = [h EXCEPT !.turn = @ + 1]
  BY DEF Begun
<1> HIDE DEF h
<1>3. h.turn + 1 \in 0..MaxTurns /\ head \in Heads
  BY <1>1, HeadFields, ApprovalsAssumption DEF TypeOK
<1>4. /\ Begun \in Heads /\ Begun.turn = h.turn + 1
  BY <1>1, <1>2, <1>3 DEF Heads
<1>5. /\ Begun.plan = h.plan /\ Begun.config = h.config /\ Begun.job = h.job
      /\ Begun.request = h.request
      /\ Begun.smoke = h.smoke /\ Begun.final = h.final /\ Begun.preflight = h.preflight
      /\ Begun.target = h.target /\ Begun.invalidated = h.invalidated
      /\ Begun.question = h.question
  BY <1>1, <1>2 DEF Heads
<1>6. HeadHolds(Begun, R)
  BY <1>1, <1>5 DEF HeadHolds, Bare
<1>7. QED BY <1>1, <1>4, <1>5, <1>6
-----------------------------------------------------------------------------
(* Turns that commit in one step.                                          *)

(* A job stays, with its plan, its results and a recorded success.         *)
LedgerGrows ==
    \A k \in Keys : ledger[k] # NoJob =>
       /\ ledger'[k] # NoJob /\ ledger'[k].plan = ledger[k].plan
       /\ ledger[k].good => ledger'[k].good
       /\ ledger[k].status = "completed" => ledger'[k].status = "completed"

LEMMA HeadStays ==
    ASSUME NEW h \in Heads, NEW R, NEW S, R \subseteq S, HeadHolds(h, R), LedgerGrows
    PROVE  HeadHolds(h, S)'
<1>1. /\ h.smoke.job \in Keys \cup {NoJob} /\ h.final.job \in Keys \cup {NoJob}
      /\ h.job \in Keys \cup {NoJob}
  BY HeadFields
<1>2. \A run \in {h.smoke, h.final} : run.job # NoJob =>
          ledger'[run.job] # NoJob /\ ledger'[run.job].plan = h.plan
  BY <1>1 DEF HeadHolds, LedgerGrows
<1>3. h.job # NoJob => ledger'[h.job] # NoJob
  BY <1>1 DEF HeadHolds, LedgerGrows
<1>4. h.smoke.job # NoJob =>
          /\ h.request # NoRequest /\ h.smoke.job = SmokeKey(h.request)
          /\ \E a \in S : a.job = h.smoke.job
          /\ h.smoke.status = "completed" => ledger'[h.smoke.job].status = "completed"
  BY <1>1 DEF HeadHolds, LedgerGrows
<1>5. /\ h.plan # NoPlan => h.plan.config = h.config
      /\ "preflight_smoke_execution" \in h.invalidated => Bare(h)
      /\ h.preflight \in {"unset", "declined"} => Bare(h)
      /\ h.question = "preflight" => h.preflight = "unset"
  BY DEF HeadHolds
<1>6. QED BY <1>2, <1>3, <1>4, <1>5 DEF HeadHolds, Bare

LEMMA SameLedger == ledger' = ledger => LedgerGrows
BY DEF LedgerGrows

LEMMA CommitStep ==
    ASSUME ApprovalsInv, TurnBegins, NEW g \in Heads, HeadHolds(g, approvals),
           g.target = head.target, Commits(g)
    PROVE  ApprovalsInv'
<1>1. /\ head' = g /\ attempt' = NoAttempt /\ barrier' = barrier /\ ledger' = ledger
      /\ prepared' = prepared /\ crashes' = crashes /\ approvals' = approvals
  BY DEF TurnBegins, Commits
<1>2. TypeOK'
  BY <1>1 DEF ApprovalsInv, TypeOK
<1>3. LedgerHolds' /\ FinalNeedsSmoke'
  BY <1>1 DEF ApprovalsInv, LedgerHolds, FinalNeedsSmoke
<1>4. HeadHolds(head, approvals)'
  <2>1. PICK R : R = approvals
    OBVIOUS
  <2>2. HeadHolds(g, R)'
    BY <1>1, <2>1, HeadStays, SameLedger
  <2>3. QED BY <1>1, <2>1, <2>2
<1>5. AttemptHolds'
  BY <1>1 DEF AttemptHolds
<1>6. QED BY <1>2, <1>3, <1>4, <1>5 DEF ApprovalsInv

LEMMA BeginFacts ==
    ASSUME ApprovalsInv, TurnBegins
    PROVE  /\ Begun \in Heads /\ HeadHolds(Begun, approvals)
           /\ Begun.target = head.target /\ Begun.config = head.config
           /\ Begun.turn = head.turn + 1
BY BegunFacts DEF ApprovalsInv, TurnBegins

LEMMA TalkStep == ASSUME ApprovalsInv, Talk PROVE ApprovalsInv'
<1>1. PICK b : b = Begun
  OBVIOUS
<1>2. TurnBegins /\ b \in Heads /\ HeadHolds(b, approvals) /\ b.target = head.target
  BY <1>1, BeginFacts DEF Talk
<1>3. PICK g : g = Fallback(b)
  OBVIOUS
<1>4. g \in Heads /\ HeadHolds(g, approvals) /\ g.target = head.target
  BY <1>2, <1>3, FallbackFacts
<1>5. Commits(g)
  BY <1>1, <1>3 DEF Talk
<1>6. QED BY <1>2, <1>4, <1>5, CommitStep

(* An answer to the question of the execution.                             *)
LEMMA AnsweredFacts ==
    ASSUME NEW h \in Heads, NEW R, HeadHolds(h, R)
    PROVE  /\ Answered(h) \in Heads /\ HeadHolds(Answered(h), R)
           /\ Answered(h).question = "none" /\ SameEvidence(Answered(h), h)
           /\ h.question = "preflight" =>
                 /\ Bare(Answered(h))
                 /\ "preflight_smoke_execution" \notin Answered(h).invalidated
<1> DEFINE a == Ask(h, "none")
           g == Revalidated(a, GroupOf(h.question))
<1>1. GroupOf(h.question) \in Groups
  BY DEF GroupOf, Groups
<1>2. /\ a \in Heads /\ a.question = "none" /\ SameEvidence(a, h)
  BY AskFacts
<1> HIDE DEF a
<1>3. /\ g \in Heads /\ g.question = "none" /\ SameEvidence(g, a)
      /\ g.invalidated = a.invalidated \ {GroupOf(h.question)}
  BY <1>1, <1>2, RevalidatedFacts
<1> HIDE DEF g
<1>4. SameEvidence(g, h)
  BY <1>2, <1>3, SameTwice
<1>5. HeadHolds(g, R)
  BY <1>3, <1>4, SameHolds
<1>6. h.question = "preflight" =>
          Bare(g) /\ "preflight_smoke_execution" \notin g.invalidated
  BY <1>3, <1>4 DEF HeadHolds, Bare, SameEvidence, GroupOf
<1>7. Answered(h) = g
  BY DEF Answered, g, a
<1>8. QED BY <1>3, <1>4, <1>5, <1>6, <1>7

LEMMA DeclineStep == ASSUME ApprovalsInv, Decline PROVE ApprovalsInv'
<1>1. PICK b : b = Begun
  OBVIOUS
<1>2. TurnBegins /\ b \in Heads /\ HeadHolds(b, approvals) /\ b.target = head.target
  BY <1>1, BeginFacts DEF Decline
<1>3. PICK h : h = Answered(b)
  OBVIOUS
<1>4. /\ h \in Heads /\ HeadHolds(h, approvals) /\ h.question = "none"
      /\ h.target = head.target
      /\ b.question = "preflight" => Bare(h)
  BY <1>2, <1>3, AnsweredFacts DEF SameEvidence
<1>5. CASE b.question = "final"
  <2> DEFINE g == [h EXCEPT !.final.status = "declined"]
  <2>1. Commits(g)
    BY <1>1, <1>3, <1>5 DEF Decline
  <2>2. h.final \in FinalRuns
    BY <1>4, HeadFields
  <2>3. g.final = [h.final EXCEPT !.status = "declined"]
    BY <1>4 DEF Heads
  <2>4. /\ g.final \in FinalRuns
        /\ g.final.job = h.final.job
    BY <2>2, <2>3
  <2>5. /\ g.plan = h.plan /\ g.config = h.config /\ g.job = h.job /\ g.request = h.request
        /\ g.smoke = h.smoke /\ g.preflight = h.preflight /\ g.question = h.question
        /\ g.target = h.target /\ g.invalidated = h.invalidated
    BY <1>4 DEF Heads
  <2>6. g \in Heads
    BY <1>4, <2>4 DEF Heads
  <2> HIDE DEF g
  <2>7. HeadHolds(g, approvals)
    BY <1>4, <2>4, <2>5 DEF HeadHolds, Bare
  <2>8. QED BY <1>2, <1>4, <2>1, <2>5, <2>6, <2>7, CommitStep
<1>6. CASE b.question = "preflight"
  <2> DEFINE g == [h EXCEPT !.preflight = "declined"]
  <2>1. Commits(g)
    BY <1>1, <1>3, <1>6 DEF Decline
  <2>2. /\ g.plan = h.plan /\ g.config = h.config /\ g.job = h.job /\ g.request = h.request
        /\ g.smoke = h.smoke /\ g.final = h.final /\ g.question = h.question
        /\ g.target = h.target /\ g.invalidated = h.invalidated
        /\ g \in Heads
    BY <1>4 DEF Heads
  <2> HIDE DEF g
  <2>3. Bare(g) /\ g.question # "preflight"
    BY <1>4, <1>6, <2>2 DEF Bare
  <2>4. HeadHolds(g, approvals)
    BY <1>4, <2>2, <2>3 DEF HeadHolds
  <2>5. QED BY <1>2, <1>4, <2>1, <2>2, <2>4, CommitStep
<1>7. QED BY <1>1, <1>5, <1>6 DEF Decline, Operations

LEMMA CancelStep == ASSUME ApprovalsInv, CancelRecovery PROVE ApprovalsInv'
<1>1. PICK b : b = Begun
  OBVIOUS
<1>2. TurnBegins /\ b \in Heads /\ HeadHolds(b, approvals) /\ b.target = head.target
  BY <1>1, BeginFacts DEF CancelRecovery
<1>3. PICK h : h = Ask(b, "none")
  OBVIOUS
<1>4. h \in Heads /\ h.question = "none" /\ SameEvidence(h, b)
  BY <1>2, <1>3, AskFacts
<1> DEFINE g == [h EXCEPT !.recovery.status = "cancelled"]
<1>5. Commits(g)
  BY <1>1, <1>3 DEF CancelRecovery
<1>6. h.recovery \in [status : {"none", "pending", "correcting", "resolved", "cancelled"},
                      job : Keys \cup {NoJob}, cause : {"none", "preflight"} \cup Broken]
  BY <1>4, HeadFields
<1>7. g.recovery = [h.recovery EXCEPT !.status = "cancelled"]
  BY <1>4 DEF Heads
<1>8. g.recovery \in [status : {"none", "pending", "correcting", "resolved", "cancelled"},
                      job : Keys \cup {NoJob}, cause : {"none", "preflight"} \cup Broken]
  BY <1>6, <1>7
<1>9. g \in Heads /\ g.question = h.question /\ SameEvidence(g, h)
  BY <1>4, <1>8 DEF Heads, SameEvidence
<1> HIDE DEF g
<1>10. SameEvidence(g, b)
  BY <1>4, <1>9, SameTwice
<1>11. HeadHolds(g, approvals)
  BY <1>2, <1>4, <1>9, <1>10, SameHolds
<1>12. g.target = head.target
  BY <1>2, <1>10 DEF SameEvidence
<1>13. QED BY <1>2, <1>5, <1>9, <1>11, <1>12, CommitStep
-----------------------------------------------------------------------------
(* A change of the configuration, and a correction.                        *)

LEMMA InvalidateFacts ==
    ASSUME NEW h \in Heads, NEW groups \in SUBSET Groups
    PROVE  LET g == Invalidate(h, groups)
           IN  /\ g \in Heads
               /\ g.target = h.target /\ g.turn = h.turn /\ g.config = h.config
               /\ g.question = h.question /\ g.recovery = h.recovery
               /\ g.invalidated = h.invalidated
               /\ g.job \in {h.job, NoJob}
               /\ "preflight_smoke_execution" \in groups =>
                     Bare(g) /\ g.preflight = IF h.preflight = "declined" THEN "declined"
                                                                          ELSE "unset"
               /\ "preflight_smoke_execution" \notin groups =>
                     /\ g.plan = h.plan /\ g.smoke = h.smoke /\ g.final = h.final
                     /\ g.preflight = h.preflight /\ g.request = h.request
<1> DEFINE r == IF "preflight_smoke_execution" \notin groups THEN h
                ELSE [h EXCEPT !.plan = NoPlan, !.request = NoRequest,
                               !.smoke = NoRun, !.final = NoRun,
                               !.preflight = IF @ = "declined" THEN @ ELSE "unset"]
           g == IF "job_monitoring" \in groups THEN [r EXCEPT !.job = NoJob] ELSE r
<1>1. Invalidate(h, groups) = g
  BY DEF Invalidate
<1>2. /\ r \in Heads /\ r.target = h.target /\ r.turn = h.turn /\ r.config = h.config
      /\ r.question = h.question /\ r.recovery = h.recovery
      /\ r.invalidated = h.invalidated /\ r.job = h.job
      /\ "preflight_smoke_execution" \in groups =>
            /\ r.plan = NoPlan /\ r.smoke = NoRun /\ r.final = NoRun
            /\ r.preflight = IF h.preflight = "declined" THEN "declined" ELSE "unset"
      /\ "preflight_smoke_execution" \notin groups => r = h
  <2>1. CASE "preflight_smoke_execution" \notin groups
    BY <2>1
  <2>2. CASE "preflight_smoke_execution" \in groups
    <3> DEFINE kept == IF h.preflight = "declined" THEN "declined" ELSE "unset"
    <3>1. r = [h EXCEPT !.plan = NoPlan, !.request = NoRequest,
                        !.smoke = NoRun, !.final = NoRun, !.preflight = kept]
      BY <2>2 DEF Heads
    <3>2. /\ kept \in {"unset", "declined", "passed", "blocked"}
          /\ NoRun \in SmokeRuns
          /\ NoRun \in FinalRuns
      BY DEF NoRun
    <3> HIDE DEF r, kept
    <3>3. /\ r \in Heads /\ r.target = h.target /\ r.turn = h.turn /\ r.config = h.config
          /\ r.question = h.question /\ r.recovery = h.recovery
          /\ r.invalidated = h.invalidated /\ r.job = h.job
          /\ r.plan = NoPlan /\ r.smoke = NoRun /\ r.final = NoRun /\ r.preflight = kept
      BY <3>1, <3>2 DEF Heads
    <3>4. QED BY <2>2, <3>3 DEF kept
  <2>3. QED BY <2>1, <2>2
<1> HIDE DEF r
<1>3. /\ g \in Heads /\ g.target = r.target /\ g.turn = r.turn /\ g.config = r.config
      /\ g.question = r.question /\ g.recovery = r.recovery
      /\ g.invalidated = r.invalidated /\ g.job \in {r.job, NoJob}
      /\ g.plan = r.plan /\ g.smoke = r.smoke /\ g.final = r.final
      /\ g.preflight = r.preflight /\ g.request = r.request
  BY <1>2 DEF Heads
<1> HIDE DEF g
<1>4. QED BY <1>1, <1>2, <1>3, NoRunFacts DEF Bare

(* A head with nothing left of its execution.                              *)
LEMMA BareHolds ==
    ASSUME NEW h, NEW R, Bare(h), h.job # NoJob => ledger[h.job] # NoJob,
           h.question = "preflight" => h.preflight = "unset"
    PROVE  HeadHolds(h, R)
BY NoRunFacts DEF HeadHolds, Bare

LEMMA EditStep == ASSUME ApprovalsInv, Edit PROVE ApprovalsInv'
<1>1. PICK b : b = Begun
  OBVIOUS
<1>2. /\ TurnBegins /\ b \in Heads /\ HeadHolds(b, approvals) /\ b.target = head.target
      /\ b.config = head.config /\ head.config < MaxEdits /\ Commits(Edited(b))
  BY <1>1, BeginFacts DEF Edit
<1> DEFINE moved == [b EXCEPT !.config = @ + 1]
           changed == Invalidate(moved, Groups \ b.invalidated)
           all == [changed EXCEPT !.invalidated = Groups]
<1>3. b.config + 1 \in 0..MaxEdits
  BY <1>2, HeadFields, ApprovalsAssumption
<1>4. /\ moved \in Heads /\ moved.target = b.target /\ moved.job = b.job
      /\ moved.plan = b.plan /\ moved.smoke = b.smoke /\ moved.final = b.final
      /\ moved.preflight = b.preflight /\ moved.question = b.question
  BY <1>2, <1>3 DEF Heads
<1> HIDE DEF moved
<1>5. /\ changed \in Heads /\ changed.target = b.target /\ changed.job \in {b.job, NoJob}
      /\ changed.question = b.question
      /\ "preflight_smoke_execution" \notin b.invalidated => Bare(changed)
      /\ "preflight_smoke_execution" \in b.invalidated =>
            changed.plan = b.plan /\ changed.smoke = b.smoke /\ changed.final = b.final
  BY <1>4, InvalidateFacts DEF Groups
<1> HIDE DEF changed
<1>6. Bare(changed)
  BY <1>2, <1>5 DEF HeadHolds, Bare
<1>7. /\ all \in Heads /\ Bare(all) /\ all.target = b.target /\ all.job \in {b.job, NoJob}
  BY <1>5, <1>6 DEF Heads, Bare
<1>8. Edited(b) = Fallback(Replace(all, "none"))
  BY DEF Edited, all, changed, moved
<1> HIDE DEF all
<1>9. PICK p : p = Replace(all, "none")
  OBVIOUS
<1>10. p \in Heads /\ SameEvidence(p, all) /\ p.question = "none"
  BY <1>7, <1>9, ReplaceFacts
<1>11. Bare(p) /\ p.target = head.target /\ (p.job # NoJob => ledger[p.job] # NoJob)
  BY <1>2, <1>7, <1>10 DEF SameEvidence, Bare, HeadHolds
<1>12. HeadHolds(p, approvals)
  BY <1>10, <1>11, BareHolds
<1>13. PICK g : g = Fallback(p)
  OBVIOUS
<1>14. g \in Heads /\ HeadHolds(g, approvals) /\ g.target = head.target
  BY <1>10, <1>11, <1>12, <1>13, FallbackFacts
<1>15. Commits(g)
  BY <1>2, <1>8, <1>9, <1>13
<1>16. QED BY <1>2, <1>14, <1>15, CommitStep

LEMMA CorrectStep == ASSUME ApprovalsInv, CorrectFailure PROVE ApprovalsInv'
<1>1. PICK b : b = Begun
  OBVIOUS
<1>2. /\ TurnBegins /\ b \in Heads /\ HeadHolds(b, approvals) /\ b.target = head.target
  BY <1>1, BeginFacts DEF CorrectFailure
<1> DEFINE corrected == Invalidate(b, Groups)
           asked == Ask(corrected, "none")
           p == [asked EXCEPT !.recovery.status = "correcting",
                              !.invalidated = {"job_monitoring"}]
<1>3. /\ corrected \in Heads /\ corrected.target = b.target /\ corrected.job \in {b.job, NoJob}
      /\ Bare(corrected)
  BY <1>2, InvalidateFacts DEF Groups
<1>4. Commits(Fallback(p))
  BY <1>1 DEF CorrectFailure
<1> HIDE DEF corrected
<1>5. /\ asked \in Heads /\ asked.question = "none" /\ SameEvidence(asked, corrected)
  BY <1>3, AskFacts
<1> HIDE DEF asked
<1>6. asked.recovery \in [status : {"none", "pending", "correcting", "resolved", "cancelled"},
                          job : Keys \cup {NoJob}, cause : {"none", "preflight"} \cup Broken]
  BY <1>5, HeadFields
<1>7. [asked.recovery EXCEPT !.status = "correcting"]
         \in [status : {"none", "pending", "correcting", "resolved", "cancelled"},
              job : Keys \cup {NoJob}, cause : {"none", "preflight"} \cup Broken]
  BY <1>6
<1>8. {"job_monitoring"} \in SUBSET Groups
  BY DEF Groups
<1>9. /\ p \in Heads /\ p.question = asked.question /\ p.plan = asked.plan
      /\ p.smoke = asked.smoke /\ p.final = asked.final /\ p.job = asked.job
      /\ p.target = asked.target
  BY <1>5, <1>7, <1>8 DEF Heads
<1>10. PICK q : q = p
  OBVIOUS
<1> HIDE DEF p
<1>11. /\ q \in Heads /\ Bare(q) /\ q.question = "none" /\ q.target = head.target
       /\ (q.job # NoJob => ledger[q.job] # NoJob)
  BY <1>2, <1>3, <1>5, <1>9, <1>10 DEF SameEvidence, Bare, HeadHolds
<1>12. HeadHolds(q, approvals)
  BY <1>11, BareHolds
<1>13. PICK g : g = Fallback(q)
  OBVIOUS
<1>14. g \in Heads /\ HeadHolds(g, approvals) /\ g.target = head.target
  BY <1>11, <1>12, <1>13, FallbackFacts
<1>15. Commits(g)
  BY <1>4, <1>10, <1>13
<1>16. QED BY <1>2, <1>14, <1>15, CommitStep
-----------------------------------------------------------------------------
(* The steps of a turn that approves a run.                                *)

LEMMA AttemptFields ==
    ASSUME NEW a \in Attempts
    PROVE  /\ a # NoAttempt
           /\ a.step \in {"prepared", "invoking", "submitted", "observed"}
           /\ a.operation \in Operations /\ a.draft \in Heads
           /\ a.disposition \in {"none", "created", "reused"}
           /\ a.outcome \in {"none", "succeeded", "blocked"}
BY ApprovalsAssumption DEF Attempts

(* The turn in progress.                                                   *)
LEMMA TurnFacts ==
    ASSUME ApprovalsInv, attempt # NoAttempt
    PROVE  /\ attempt \in Attempts /\ Draft = attempt.draft /\ Draft \in Heads
           /\ TurnKnows(attempt, approvals)
           /\ Draft.request \in RequestIds
           /\ Key = KeyOf(attempt) /\ Key \in Keys
           /\ Supported <=> SupportedBy(attempt)
           /\ Receipt = ReceiptOf(attempt) /\ ~barrier
<1>1. attempt \in Attempts /\ TurnKnows(attempt, approvals) /\ ~barrier
  BY DEF ApprovalsInv, TypeOK, AttemptHolds
<1>2. attempt.draft \in Heads
  BY <1>1, AttemptFields
<1>3. attempt.draft.request \in RequestIds
  BY <1>1, <1>2, HeadFields DEF TurnKnows
<1>4. QED
  BY <1>1, <1>2, <1>3, KeyFacts
     DEF Draft, Key, KeyOf, Supported, SupportedBy, Receipt, ReceiptOf

(* A step of that turn which may open a job.                               *)
LEMMA TurnStep ==
    ASSUME ApprovalsInv, NEW a \in Attempts, attempt' = a, ~barrier,
           UNCHANGED <<head, barrier, approvals, crashes>>,
           prepared' \in 0..MaxPlans, ledger' \in [Keys -> Jobs!Entries \cup {NoJob}],
           LedgerGrows, LedgerHolds', FinalNeedsSmoke',
           \A R : R = approvals => TurnKnows(a, R)'
    PROVE  ApprovalsInv'
<1>1. TypeOK'
  BY DEF ApprovalsInv, TypeOK
<1>2. HeadHolds(head, approvals)'
  <2>1. PICK h, R : h = head /\ R = approvals
    OBVIOUS
  <2>2. h \in Heads /\ HeadHolds(h, R)
    BY <2>1 DEF ApprovalsInv, TypeOK
  <2>3. HeadHolds(h, R)'
    BY <2>2, HeadStays
  <2>4. QED BY <2>1, <2>3
<1>3. AttemptHolds'
  <2>1. PICK R : R = approvals
    OBVIOUS
  <2>2. TurnKnows(a, R)'
    BY <2>1
  <2>3. QED BY <2>1, <2>2 DEF AttemptHolds
<1>4. QED BY <1>1, <1>2, <1>3 DEF ApprovalsInv

(* ... and one that opens none.                                            *)
LEMMA QuietTurnStep ==
    ASSUME ApprovalsInv, NEW a \in Attempts, attempt' = a, ~barrier,
           UNCHANGED <<head, barrier, approvals, crashes, ledger>>,
           prepared' \in 0..MaxPlans, prepared' >= prepared,
           \A R : R = approvals => TurnKnows(a, R)'
    PROVE  ApprovalsInv'
<1>1. /\ LedgerGrows /\ ledger' \in [Keys -> Jobs!Entries \cup {NoJob}] /\ prepared \in 0..MaxPlans
      /\ \A k \in Keys : ledger[k] # NoJob => ledger[k].plan \in Plans
  BY SameLedger, EntryFields DEF ApprovalsInv, TypeOK
<1>2. LedgerHolds'
  <2>1. \A k \in Keys : ledger[k] # NoJob => ledger[k].plan.serial =< prepared'
    <3>1. \A k \in Keys : ledger[k] # NoJob =>
             ledger[k].plan.serial \in Nat /\ ledger[k].plan.serial =< prepared
      BY <1>1, ApprovalsAssumption DEF ApprovalsInv, LedgerHolds, Plans
    <3>2. QED BY <1>1, <3>1, ApprovalsAssumption
  <2>2. QED BY <2>1 DEF ApprovalsInv, LedgerHolds
<1>3. FinalNeedsSmoke'
  BY DEF ApprovalsInv, FinalNeedsSmoke
<1>4. QED BY <1>1, <1>2, <1>3, TurnStep

LEMMA ApproveStep == ASSUME ApprovalsInv, NEW w \in Wordings, Approve(w) PROVE ApprovalsInv'
<1>1. PICK b : b = Begun
  OBVIOUS
<1>2. /\ TurnBegins /\ b \in Heads /\ HeadHolds(b, approvals) /\ b.target = head.target
      /\ b.turn = head.turn + 1 /\ b.question \in Operations
  BY <1>1, BeginFacts DEF Approve
<1>3. PICK d : d = Answered(b)
  OBVIOUS
<1>4. /\ d \in Heads /\ HeadHolds(d, approvals) /\ d.question = "none"
      /\ d.target = head.target /\ d.turn = head.turn + 1
      /\ b.question = "preflight" =>
            Bare(d) /\ "preflight_smoke_execution" \notin d.invalidated
  BY <1>2, <1>3, AnsweredFacts DEF SameEvidence
<1> DEFINE r == IF d.request = NoRequest THEN [turn |-> d.turn, wording |-> w] ELSE d.request
           g == [d EXCEPT !.request = r]
           a == [step |-> "prepared", operation |-> b.question, draft |-> g,
                 disposition |-> "none", outcome |-> "none"]
<1>5. attempt' = a /\ Unchanged
  <2>1. [d EXCEPT !.request = IF @ = NoRequest THEN [turn |-> d.turn, wording |-> w] ELSE @] = g
    BY <1>4 DEF Heads
  <2>2. QED BY <1>1, <1>3, <2>1 DEF Approve
<1>6. r \in RequestIds
  <2>1. head.turn \in 0..MaxTurns /\ head.turn < MaxTurns
    BY <1>2, HeadFields DEF ApprovalsInv, TypeOK, TurnBegins
  <2>2. d.turn \in 1..MaxTurns
    BY <1>4, <2>1, ApprovalsAssumption
  <2>3. d.request \in RequestIds \cup {NoRequest}
    BY <1>4, HeadFields
  <2>4. QED BY <2>2, <2>3 DEF RequestIds
<1>7. d.request # NoRequest => r = d.request
  OBVIOUS
<1> HIDE DEF r
<1>8. /\ g \in Heads /\ g.request = r
      /\ g.plan = d.plan /\ g.config = d.config /\ g.job = d.job
      /\ g.smoke = d.smoke /\ g.final = d.final /\ g.preflight = d.preflight
      /\ g.target = d.target /\ g.invalidated = d.invalidated /\ g.question = d.question
  BY <1>4, <1>6 DEF Heads
<1> HIDE DEF g
<1>9. HeadHolds(g, approvals)
  BY <1>4, <1>7, <1>8 DEF HeadHolds, Bare
<1>10. /\ a \in Attempts /\ a.draft = g /\ a.step = "prepared" /\ a.operation = b.question
  BY <1>2, <1>8 DEF Attempts
<1> HIDE DEF a
<1>11. ASSUME NEW R, R = approvals PROVE TurnKnows(a, R)'
  <2>1. HeadHolds(g, R)'
    BY <1>5, <1>8, <1>9, <1>11, HeadStays, SameLedger DEF Unchanged
  <2>2. g.request # NoRequest /\ g.target = head'.target
    BY <1>4, <1>5, <1>6, <1>8, ApprovalsAssumption DEF Unchanged
  <2>3. b.question = "preflight" =>
           Bare(g) /\ "preflight_smoke_execution" \notin g.invalidated
    BY <1>4, <1>8 DEF Bare
  <2>4. QED BY <1>4, <1>8, <1>10, <2>1, <2>2, <2>3 DEF TurnKnows, Bare
<1>12. /\ ~barrier /\ UNCHANGED <<head, barrier, approvals, crashes, ledger>>
       /\ prepared' \in 0..MaxPlans /\ prepared' >= prepared
  BY <1>2, <1>5, ApprovalsAssumption DEF TurnBegins, Unchanged, ApprovalsInv, TypeOK
<1>13. QED BY <1>5, <1>10, <1>11, <1>12, QuietTurnStep

LEMMA InvokeStep == ASSUME ApprovalsInv, Invoke PROVE ApprovalsInv'
<1>1. /\ attempt # NoAttempt /\ attempt.step = "prepared" /\ Unchanged
  BY DEF Invoke
<1>2. PICK c : c = attempt
  OBVIOUS
<1>3. /\ c \in Attempts /\ TurnKnows(c, approvals) /\ c.draft \in Heads
      /\ c.step = "prepared" /\ ~barrier
  BY <1>1, <1>2, TurnFacts
<1> DEFINE a == [c EXCEPT !.step = "invoking"]
<1>4. attempt' = a
  BY <1>2 DEF Invoke, Steps
<1>5. /\ a \in Attempts /\ a.step = "invoking" /\ a.draft = c.draft
      /\ a.operation = c.operation
  BY <1>3 DEF Attempts
<1> HIDE DEF a
<1>6. ASSUME NEW R, R = approvals PROVE TurnKnows(a, R)'
  <2>1. HeadHolds(c.draft, R)
    BY <1>3, <1>6 DEF TurnKnows
  <2>2. HeadHolds(c.draft, R)'
    BY <1>1, <1>3, <2>1, HeadStays, SameLedger DEF Unchanged
  <2>3. QED BY <1>1, <1>3, <1>5, <2>2 DEF TurnKnows, Unchanged, Bare
<1>7. /\ UNCHANGED <<head, barrier, approvals, crashes, ledger>>
      /\ prepared' \in 0..MaxPlans /\ prepared' >= prepared
  BY <1>1, ApprovalsAssumption DEF Unchanged, ApprovalsInv, TypeOK
<1>8. QED BY <1>3, <1>4, <1>5, <1>6, <1>7, QuietTurnStep

LEMMA BlockStep ==
    ASSUME ApprovalsInv, NEW plan \in Plans, PreflightBlocks(plan) PROVE ApprovalsInv'
<1>1. PICK c, d : c = attempt /\ d = c.draft
  OBVIOUS
<1>2. /\ c \in Attempts /\ TurnKnows(c, approvals) /\ d \in Heads /\ ~barrier /\ Draft = d
  BY <1>1, TurnFacts DEF PreflightBlocks
<1> DEFINE failure == Failure(NoJob, "preflight")
           x == [d EXCEPT !.plan = plan, !.preflight = "blocked", !.recovery = failure]
           g == Replace(x, "recovery")
           a == [c EXCEPT !.step = "observed", !.outcome = "blocked", !.draft = g]
<1>3. attempt' = a
  BY <1>1, <1>2 DEF PreflightBlocks
<1>4. failure \in [status : {"none", "pending", "correcting", "resolved", "cancelled"},
                   job : Keys \cup {NoJob}, cause : {"none", "preflight"} \cup Broken]
  BY DEF Failure
<1> HIDE DEF failure
<1>5. x \in Heads /\ x.target = d.target /\ x.request = d.request
  <2>1. d \in Heads /\ plan \in Plans \cup {NoPlan}
    BY <1>2
  <2>2. QED BY <1>4, <2>1 DEF Heads
<1> HIDE DEF x
<1>6. g \in Heads /\ SameEvidence(g, x)
  BY <1>5, ReplaceFacts
<1> HIDE DEF g
<1>7. g.target = d.target /\ g.request = d.request
  BY <1>5, <1>6 DEF SameEvidence
<1>8. /\ a \in Attempts /\ a.step = "observed" /\ a.outcome = "blocked" /\ a.draft = g
  BY <1>2, <1>6 DEF Attempts
<1> HIDE DEF a
<1>9. ASSUME NEW R, R = approvals PROVE TurnKnows(a, R)'
  BY <1>1, <1>2, <1>7, <1>8 DEF TurnKnows, SupportedBy, PreflightBlocks
<1>10. /\ UNCHANGED <<head, barrier, approvals, crashes, ledger>>
       /\ prepared' = prepared + 1 /\ prepared < MaxPlans
  BY DEF PreflightBlocks, Prepare
<1>11. prepared' \in 0..MaxPlans /\ prepared' >= prepared
  BY <1>10, ApprovalsAssumption DEF ApprovalsInv, TypeOK
<1>12. QED BY <1>2, <1>3, <1>8, <1>9, <1>10, <1>11, QuietTurnStep

LEMMA UnsubmittedStep ==
    ASSUME ApprovalsInv, NEW plan \in Plans, PreflightUnsubmitted(plan) PROVE ApprovalsInv'
<1>1. PICK c, d : c = attempt /\ d = c.draft
  OBVIOUS
<1>2. /\ c \in Attempts /\ TurnKnows(c, approvals) /\ d \in Heads /\ ~barrier /\ Draft = d
  BY <1>1, TurnFacts DEF PreflightUnsubmitted
<1> DEFINE failure == Failure(NoJob, "failed")
           smoke == [d.smoke EXCEPT !.status = "blocked"]
           x == [d EXCEPT !.plan = plan, !.preflight = "passed", !.job = NoJob,
                          !.smoke = smoke, !.recovery = failure]
           g == Replace(x, "recovery")
           a == [c EXCEPT !.step = "observed", !.outcome = "blocked", !.draft = g]
<1>3. attempt' = a
  <2>1. [d EXCEPT !.plan = plan, !.preflight = "passed", !.job = NoJob,
                  !.smoke.status = "blocked", !.recovery = failure] = x
    BY <1>2 DEF Heads
  <2> HIDE DEF x
  <2>2. QED BY <1>1, <1>2, <2>1 DEF PreflightUnsubmitted
<1>4. failure \in [status : {"none", "pending", "correcting", "resolved", "cancelled"},
                   job : Keys \cup {NoJob}, cause : {"none", "preflight"} \cup Broken]
  BY DEF Failure, Broken
<1> HIDE DEF failure
<1>5. smoke \in SmokeRuns
  BY <1>2, HeadFields
<1> HIDE DEF smoke
<1>6. x \in Heads /\ x.target = d.target /\ x.request = d.request
  <2>1. d \in Heads /\ plan \in Plans \cup {NoPlan} /\ NoJob \in Keys \cup {NoJob}
    BY <1>2
  <2>2. PICK y : y = [d EXCEPT !.plan = plan, !.preflight = "passed", !.job = NoJob]
    OBVIOUS
  <2>3. y \in Heads /\ y.target = d.target /\ y.request = d.request
    BY <2>1, <2>2 DEF Heads
  <2>4. x = [y EXCEPT !.smoke = smoke, !.recovery = failure]
    BY <2>1, <2>2 DEF Heads
  <2> HIDE DEF x
  <2>5. QED BY <1>4, <1>5, <2>3, <2>4 DEF Heads
<1> HIDE DEF x
<1>7. g \in Heads /\ SameEvidence(g, x)
  BY <1>6, ReplaceFacts
<1> HIDE DEF g
<1>8. g.target = d.target /\ g.request = d.request
  BY <1>6, <1>7 DEF SameEvidence
<1>9. /\ a \in Attempts /\ a.step = "observed" /\ a.outcome = "blocked" /\ a.draft = g
  BY <1>2, <1>7 DEF Attempts
<1> HIDE DEF a
<1>10. ASSUME NEW R, R = approvals PROVE TurnKnows(a, R)'
  BY <1>1, <1>2, <1>8, <1>9 DEF TurnKnows, SupportedBy, PreflightUnsubmitted
<1>11. /\ UNCHANGED <<head, barrier, approvals, crashes, ledger>>
       /\ prepared' = prepared + 1 /\ prepared < MaxPlans
  BY DEF PreflightUnsubmitted, Prepare
<1>12. prepared' \in 0..MaxPlans /\ prepared' >= prepared
  BY <1>11, ApprovalsAssumption DEF ApprovalsInv, TypeOK
<1>13. QED BY <1>2, <1>3, <1>9, <1>10, <1>11, <1>12, QuietTurnStep

LEMMA FinalUnsubmittedStep == ASSUME ApprovalsInv, FinalUnsubmitted PROVE ApprovalsInv'
<1>1. PICK c, d : c = attempt /\ d = c.draft
  OBVIOUS
<1>2. /\ c \in Attempts /\ TurnKnows(c, approvals) /\ d \in Heads /\ ~barrier /\ Unchanged
  BY <1>1, TurnFacts DEF FinalUnsubmitted
<1> DEFINE final == [d.final EXCEPT !.status = "blocked"]
           g == [d EXCEPT !.final = final]
           a == [c EXCEPT !.step = "observed", !.outcome = "blocked", !.draft = g]
<1>3. attempt' = a
  <2>1. attempt' = [c EXCEPT !.step = "observed", !.outcome = "blocked",
                             !.draft.final.status = "blocked"]
    BY <1>1 DEF FinalUnsubmitted
  <2>2. QED BY <1>1, <1>2, <2>1 DEF Attempts, Heads
<1>4. final \in FinalRuns
  BY <1>2, HeadFields
<1> HIDE DEF final
<1>5. g \in Heads /\ g.target = d.target /\ g.request = d.request
  BY <1>2, <1>4 DEF Heads
<1> HIDE DEF g
<1>6. /\ a \in Attempts /\ a.step = "observed" /\ a.outcome = "blocked" /\ a.draft = g
  BY <1>2, <1>5 DEF Attempts
<1> HIDE DEF a
<1>7. ASSUME NEW R, R = approvals PROVE TurnKnows(a, R)'
  BY <1>1, <1>2, <1>5, <1>6 DEF TurnKnows, SupportedBy, Unchanged
<1>8. /\ UNCHANGED <<head, barrier, approvals, crashes, ledger>>
      /\ prepared' \in 0..MaxPlans /\ prepared' >= prepared
  BY <1>2, ApprovalsAssumption DEF Unchanged, ApprovalsInv, TypeOK
<1>9. QED BY <1>2, <1>3, <1>6, <1>7, <1>8, QuietTurnStep

(* What a submission does.                                                 *)
LEMMA SubmitFacts ==
    ASSUME ApprovalsInv, attempt # NoAttempt, NEW d \in Heads, d.plan \in Plans, Submit(d)
    PROVE  /\ attempt' \in Attempts /\ attempt'.step = "submitted" /\ attempt'.draft = d
           /\ attempt'.operation = attempt.operation
           /\ UNCHANGED <<head, barrier, crashes, approvals>>
           /\ ledger' \in [Keys -> Jobs!Entries \cup {NoJob}] /\ LedgerGrows
           /\ ledger'[Key] # NoJob
           /\ \A k \in Keys : k # Key => ledger'[k] = ledger[k]
           /\ ledger[Key] # NoJob => ledger' = ledger
           /\ ledger[Key] = NoJob =>
                 /\ ledger'[Key].plan = d.plan /\ ledger'[Key].status = "pending"
                 /\ ~ledger'[Key].simulated
<1>1. PICK c : c = attempt
  OBVIOUS
<1>2. c \in Attempts /\ Key \in Keys
  BY <1>1, TurnFacts
<1> DEFINE disposition == IF ledger[Key] = NoJob THEN "created" ELSE "reused"
           a == [c EXCEPT !.step = "submitted", !.draft = d, !.disposition = disposition]
<1>3. attempt' = a
  BY <1>1 DEF Submit
<1>4. disposition \in {"none", "created", "reused"}
  OBVIOUS
<1> HIDE DEF disposition
<1>5. a \in Attempts /\ a.step = "submitted" /\ a.draft = d /\ a.operation = c.operation
  BY <1>2, <1>4 DEF Attempts
<1> HIDE DEF a
<1>6. ledger \in [Keys -> Jobs!Entries \cup {NoJob}]
  BY DEF ApprovalsInv, TypeOK
<1>7. CASE ledger[Key] # NoJob
  <2>1. ledger' = ledger
    BY <1>7 DEF Submit
  <2>2. QED BY <1>1, <1>3, <1>5, <1>6, <1>7, <2>1, SameLedger DEF Submit
<1>8. CASE ledger[Key] = NoJob
  <2> DEFINE e == Jobs!NewEntry(d.plan, FALSE)
  <2>1. /\ e \in Jobs!Entries /\ e.plan = d.plan /\ e.status = "pending" /\ ~e.simulated
    BY DEF Jobs!NewEntry, Jobs!Entries, Jobs!Statuses
  <2>2. ledger' = [ledger EXCEPT ![Key] = e]
    BY <1>8 DEF Submit, Jobs!Open, Jobs!Becomes
  <2> HIDE DEF e
  <2>3. e # NoJob
    BY <2>1, EntryFields
  <2>4. PICK k : k = Key
    OBVIOUS
  <2>5. /\ ledger' \in [Keys -> Jobs!Entries \cup {NoJob}]
        /\ ledger'[k] = e /\ \A j \in Keys : j # k => ledger'[j] = ledger[j]
    BY <1>2, <1>6, <2>1, <2>2, <2>4
  <2>6. LedgerGrows
    BY <1>8, <2>4, <2>5 DEF LedgerGrows
  <2>7. QED BY <1>1, <1>3, <1>5, <1>8, <2>1, <2>3, <2>4, <2>5, <2>6 DEF Submit
<1>9. QED BY <1>7, <1>8

(* A smoke that exists still stands for its final benchmark.               *)
LEMMA SmokeStays ==
    ASSUME ApprovalsInv, LedgerGrows, head'.target = head.target, approvals \subseteq approvals',
           NEW r \in RequestIds, head.target = "real-node", ledger[PlainKey(r)] # NoJob,
           ledger'[PlainKey(r)].plan = ledger[PlainKey(r)].plan
    PROVE  /\ ledger'[SmokeKey(r)] # NoJob
           /\ ledger'[SmokeKey(r)].good
           /\ ledger'[SmokeKey(r)].plan = ledger'[PlainKey(r)].plan
           /\ \E a \in approvals' : a.job = SmokeKey(r)
<1>1. /\ ledger[SmokeKey(r)] # NoJob /\ ledger[SmokeKey(r)].good
      /\ ledger[SmokeKey(r)].plan = ledger[PlainKey(r)].plan
      /\ \E a \in approvals : a.job = SmokeKey(r)
  BY DEF ApprovalsInv, FinalNeedsSmoke
<1>2. SmokeKey(r) \in Keys
  BY KeyFacts
<1>3. QED BY <1>1, <1>2 DEF LedgerGrows

LEMMA SerialFacts ==
    ASSUME ApprovalsInv
    PROVE  /\ prepared \in Nat
           /\ \A k \in Keys : ledger[k] # NoJob =>
                 ledger[k].plan \in Plans /\ ledger[k].plan.serial \in Nat
                 /\ ledger[k].plan.serial =< prepared
<1>1. \A k \in Keys : ledger[k] # NoJob => ledger[k].plan \in Plans
  BY EntryFields DEF ApprovalsInv, TypeOK
<1>2. QED BY <1>1, ApprovalsAssumption DEF ApprovalsInv, TypeOK, LedgerHolds, Plans

LEMMA PassStep ==
    ASSUME ApprovalsInv, NEW plan \in Plans, PreflightPasses(plan) PROVE ApprovalsInv'
<1>1. PICK c, d : c = attempt /\ d = c.draft
  OBVIOUS
<1>2. /\ c # NoAttempt /\ c.step = "invoking" /\ c.operation = "preflight"
      /\ prepared < MaxPlans /\ prepared' = prepared + 1
      /\ plan.config = d.config /\ plan.serial = prepared + 1
  BY <1>1 DEF PreflightPasses, Prepare, Draft
<1>3. /\ c \in Attempts /\ TurnKnows(c, approvals) /\ d \in Heads /\ ~barrier /\ Draft = d
      /\ d.request \in RequestIds /\ Key = KeyOf(c) /\ Key \in Keys
  BY <1>1, <1>2, TurnFacts
<1>4. /\ d.target = head.target /\ d.request # NoRequest /\ Bare(d) /\ d.question = "none"
      /\ "preflight_smoke_execution" \notin d.invalidated
  BY <1>1, <1>2, <1>3 DEF TurnKnows
<1> DEFINE g == [d EXCEPT !.plan = plan, !.preflight = "passed"]
<1>5. Submit(g)
  BY <1>3 DEF PreflightPasses
<1>6. /\ g \in Heads /\ g.plan = plan /\ g.preflight = "passed" /\ g.config = d.config
      /\ g.target = d.target /\ g.request = d.request /\ g.question = d.question
      /\ g.smoke = d.smoke /\ g.final = d.final /\ g.invalidated = d.invalidated
  <2>1. d \in Heads /\ plan \in Plans \cup {NoPlan}
    BY <1>3
  <2>2. QED BY <2>1 DEF Heads
<1> HIDE DEF g
<1>7. PICK k : k = Key
  OBVIOUS
<1>8. /\ attempt' \in Attempts /\ attempt'.step = "submitted" /\ attempt'.draft = g
      /\ attempt'.operation = c.operation
      /\ UNCHANGED <<head, barrier, crashes, approvals>>
      /\ ledger' \in [Keys -> Jobs!Entries \cup {NoJob}] /\ LedgerGrows
      /\ ledger'[k] # NoJob
      /\ \A j \in Keys : j # k => ledger'[j] = ledger[j]
      /\ ledger[k] # NoJob => ledger' = ledger
      /\ ledger[k] = NoJob => /\ ledger'[k].plan = plan /\ ledger'[k].status = "pending"
                              /\ ~ledger'[k].simulated
  BY <1>1, <1>2, <1>5, <1>6, <1>7, SubmitFacts
<1>9. LedgerHolds'
  <2>1. ASSUME NEW j \in Keys, ledger'[j] # NoJob
        PROVE  /\ ~ledger'[j].simulated
               /\ ledger'[j].status = "completed" => ledger'[j].good
               /\ ledger'[j].plan.serial =< prepared'
    <3>1. CASE ledger'[j] = ledger[j]
      <4>1. /\ ~ledger[j].simulated /\ (ledger[j].status = "completed" => ledger[j].good)
        BY <2>1, <3>1 DEF ApprovalsInv, LedgerHolds
      <4>2. ledger[j].plan.serial =< prepared'
        BY <1>2, <2>1, <3>1, SerialFacts
      <4>3. QED BY <3>1, <4>1, <4>2
    <3>2. CASE ledger'[j] # ledger[j]
      BY <1>2, <1>8, <3>2, SerialFacts
    <3>3. QED BY <3>1, <3>2
  <2>2. ASSUME NEW r \in RequestIds, NEW q \in RequestIds,
               ledger'[SmokeKey(r)] # NoJob, ledger'[SmokeKey(q)] # NoJob,
               ledger'[SmokeKey(r)].plan = ledger'[SmokeKey(q)].plan
        PROVE  r = q
    <3>1. /\ SmokeKey(r) \in Keys /\ SmokeKey(q) \in Keys
          /\ (SmokeKey(r) = SmokeKey(q) => r = q)
      BY KeyFacts
    <3>2. CASE ledger[k] # NoJob \/ (SmokeKey(r) # k /\ SmokeKey(q) # k)
      BY <1>8, <2>2, <3>1, <3>2 DEF ApprovalsInv, LedgerHolds
    <3>3. CASE SmokeKey(r) = k /\ SmokeKey(q) = k
      BY <3>1, <3>3
    <3>4. ASSUME NEW i \in Keys, ledger[k] = NoJob, i # k, ledger'[i] # NoJob
          PROVE  ledger'[i].plan # ledger'[k].plan
      <4>1. ledger'[i].plan.serial \in Nat /\ ledger'[i].plan.serial =< prepared
        BY <1>8, <3>4, SerialFacts
      <4>2. ledger'[k].plan.serial = prepared + 1 /\ prepared \in Nat
        BY <1>2, <1>8, <3>4, SerialFacts
      <4>3. QED BY <4>1, <4>2
    <3>5. QED BY <2>2, <3>1, <3>2, <3>3, <3>4
  <2>3. QED BY <2>1, <2>2 DEF LedgerHolds
<1>10. FinalNeedsSmoke'
  <2> SUFFICES ASSUME head'.target = "real-node", NEW r \in RequestIds,
                      ledger'[PlainKey(r)] # NoJob
               PROVE  /\ ledger'[SmokeKey(r)] # NoJob
                      /\ ledger'[SmokeKey(r)].good
                      /\ ledger'[SmokeKey(r)].plan = ledger'[PlainKey(r)].plan
                      /\ \E a \in approvals' : a.job = SmokeKey(r)
    BY DEF FinalNeedsSmoke
  <2>1. head.target = "real-node" /\ d.target = "real-node"
    BY <1>4, <1>8
  <2>2. k = SmokeKey(d.request)
    BY <1>1, <1>2, <1>3, <1>7, <2>1 DEF KeyOf
  <2>3. PlainKey(r) # k /\ PlainKey(r) \in Keys
    BY <1>3, <2>2, KeyFacts
  <2>4. ledger'[PlainKey(r)] = ledger[PlainKey(r)]
    BY <1>8, <2>3
  <2>5. QED BY <1>8, <2>1, <2>4, SmokeStays
<1>11. ASSUME NEW a, a = attempt', NEW R, R = approvals PROVE TurnKnows(a, R)'
  <2>1. KeyOf(a) = k
    BY <1>1, <1>2, <1>3, <1>6, <1>7, <1>8, <1>11 DEF KeyOf
  <2>2. /\ g.plan # NoPlan /\ g.plan.config = g.config /\ g.preflight \notin {"unset", "declined"}
        /\ g.final.job = NoJob /\ g.smoke = NoRun /\ g.question = "none"
        /\ "preflight_smoke_execution" \notin g.invalidated
        /\ g.target = head'.target /\ g.request # NoRequest
    BY <1>2, <1>4, <1>6, <1>8, ApprovalsAssumption DEF Bare
  <2>3. /\ a.step = "submitted" /\ a.draft = g /\ a.operation = "preflight"
        /\ ledger'[k] # NoJob
    BY <1>2, <1>8, <1>11
  <2> HIDE DEF g
  <2>4. QED BY <2>1, <2>2, <2>3 DEF TurnKnows
<1>12. prepared' \in 0..MaxPlans
  BY <1>2, ApprovalsAssumption DEF ApprovalsInv, TypeOK
<1>13. PICK a : a = attempt'
  OBVIOUS
<1>14. QED BY <1>3, <1>8, <1>9, <1>10, <1>11, <1>12, <1>13, TurnStep

LEMMA FinalStep == ASSUME ApprovalsInv, SubmitFinal PROVE ApprovalsInv'
<1>1. PICK c, d : c = attempt /\ d = c.draft
  OBVIOUS
<1>2. /\ c # NoAttempt /\ c.step = "invoking" /\ c.operation = "final" /\ prepared' = prepared
  BY <1>1 DEF SubmitFinal
<1>3. /\ c \in Attempts /\ TurnKnows(c, approvals) /\ d \in Heads /\ ~barrier /\ Draft = d
      /\ d.request \in RequestIds /\ Key = KeyOf(c) /\ Key \in Keys
  BY <1>1, <1>2, TurnFacts
<1>4. /\ d.target = head.target /\ d.request # NoRequest /\ d.question = "none"
      /\ HeadHolds(d, approvals)
  BY <1>1, <1>2, <1>3 DEF TurnKnows
<1>5. /\ ReadyForFinal(d) /\ Submit(d)
  BY <1>3 DEF SubmitFinal
<1>6. PICK k, s : k = Key /\ s = SmokeKey(d.request)
  OBVIOUS
<1>7. k = PlainKey(d.request) /\ s \in Keys /\ k # s
  BY <1>1, <1>2, <1>3, <1>6, KeyFacts DEF KeyOf
<1>8. /\ d.target = "real-node" /\ d.smoke.job # NoJob /\ d.final.job = NoJob
      /\ d.smoke.job = s /\ ledger[s] # NoJob /\ ledger[s].plan = d.plan
      /\ ledger[s].status = "completed" /\ ~Bare(d)
      /\ \E a \in approvals : a.job = s
  BY <1>4, <1>5, <1>6, NoRunFacts DEF ReadyForFinal, HeadHolds, Bare
<1>9. ledger[s].good /\ d.plan \in Plans
  BY <1>7, <1>8, SerialFacts DEF ApprovalsInv, LedgerHolds
<1>10. /\ attempt' \in Attempts /\ attempt'.step = "submitted" /\ attempt'.draft = d
       /\ attempt'.operation = c.operation
       /\ UNCHANGED <<head, barrier, crashes, approvals>>
       /\ ledger' \in [Keys -> Jobs!Entries \cup {NoJob}] /\ LedgerGrows
       /\ ledger'[k] # NoJob
       /\ \A j \in Keys : j # k => ledger'[j] = ledger[j]
       /\ ledger[k] # NoJob => ledger' = ledger
       /\ ledger[k] = NoJob => /\ ledger'[k].plan = d.plan /\ ledger'[k].status = "pending"
                               /\ ~ledger'[k].simulated
  BY <1>1, <1>2, <1>3, <1>5, <1>6, <1>9, SubmitFacts
<1>11. LedgerHolds'
  <2>1. ASSUME NEW j \in Keys, ledger'[j] # NoJob
        PROVE  /\ ~ledger'[j].simulated
               /\ ledger'[j].status = "completed" => ledger'[j].good
               /\ ledger'[j].plan.serial =< prepared'
    <3>1. CASE ledger'[j] = ledger[j]
      BY <1>2, <2>1, <3>1 DEF ApprovalsInv, LedgerHolds
    <3>2. CASE ledger'[j] # ledger[j]
      BY <1>2, <1>7, <1>8, <1>10, <3>2 DEF ApprovalsInv, LedgerHolds
    <3>3. QED BY <3>1, <3>2
  <2>2. \A r \in RequestIds : ledger'[SmokeKey(r)] = ledger[SmokeKey(r)]
    BY <1>3, <1>7, <1>10, KeyFacts
  <2>3. QED BY <2>1, <2>2 DEF ApprovalsInv, LedgerHolds
<1>12. FinalNeedsSmoke'
  <2> SUFFICES ASSUME NEW r \in RequestIds, ledger'[PlainKey(r)] # NoJob
               PROVE  /\ ledger'[SmokeKey(r)] # NoJob
                      /\ ledger'[SmokeKey(r)].good
                      /\ ledger'[SmokeKey(r)].plan = ledger'[PlainKey(r)].plan
                      /\ \E a \in approvals' : a.job = SmokeKey(r)
    BY DEF FinalNeedsSmoke
  <2>1. PlainKey(r) \in Keys /\ (PlainKey(r) = k => r = d.request)
    BY <1>3, <1>7, KeyFacts
  <2>2. CASE ledger'[PlainKey(r)] = ledger[PlainKey(r)]
    BY <1>4, <1>8, <1>10, <2>2, SmokeStays
  <2>3. CASE ledger'[PlainKey(r)] # ledger[PlainKey(r)]
    <3>1. r = d.request /\ ledger[k] = NoJob /\ PlainKey(r) = k /\ SmokeKey(r) = s
      BY <1>6, <1>10, <2>1, <2>3
    <3>2. ledger'[s] = ledger[s]
      BY <1>7, <1>10
    <3>3. QED BY <1>8, <1>9, <1>10, <3>1, <3>2
  <2>4. QED BY <2>2, <2>3
<1>13. ASSUME NEW a, a = attempt', NEW R, R = approvals PROVE TurnKnows(a, R)'
  <2>1. KeyOf(a) = k
    BY <1>1, <1>2, <1>3, <1>6, <1>10, <1>13 DEF KeyOf
  <2>2. HeadHolds(d, R)'
    BY <1>3, <1>4, <1>10, <1>13, HeadStays
  <2>3. /\ d.plan # NoPlan /\ d.plan.config = d.config /\ d.preflight \notin {"unset", "declined"}
        /\ "preflight_smoke_execution" \notin d.invalidated
        /\ d.target = head'.target
    BY <1>4, <1>8, <1>9, <1>10, ApprovalsAssumption DEF HeadHolds
  <2>4. /\ a.step = "submitted" /\ a.draft = d /\ a.operation = "final" /\ ledger'[k] # NoJob
    BY <1>2, <1>10, <1>13
  <2>5. QED BY <1>4, <1>8, <2>1, <2>2, <2>3, <2>4 DEF TurnKnows
<1>14. prepared' \in 0..MaxPlans
  BY <1>2 DEF ApprovalsInv, TypeOK
<1>15. PICK a : a = attempt'
  OBVIOUS
<1>16. QED BY <1>3, <1>10, <1>11, <1>12, <1>13, <1>14, <1>15, TurnStep

LEMMA ObserveStep == ASSUME ApprovalsInv, Observe PROVE ApprovalsInv'
<1>1. PICK c, d, k : c = attempt /\ d = c.draft /\ k = Key
  OBVIOUS
<1>2. c # NoAttempt /\ c.step = "submitted" /\ Unchanged
  BY <1>1 DEF Observe
<1>3. /\ c \in Attempts /\ TurnKnows(c, approvals) /\ d \in Heads /\ ~barrier /\ Draft = d
      /\ d.request \in RequestIds /\ k = KeyOf(c) /\ k \in Keys
  BY <1>1, <1>2, TurnFacts
<1>4. /\ d.target = head.target /\ d.request # NoRequest /\ ledger[k] # NoJob
      /\ d.question = "none"
      /\ "preflight_smoke_execution" \notin d.invalidated
      /\ d.plan # NoPlan /\ d.plan.config = d.config
      /\ d.preflight \notin {"unset", "declined"} /\ d.final.job = NoJob
      /\ c.operation = "preflight" => d.smoke = NoRun
      /\ c.operation = "final" => HeadHolds(d, approvals)
  BY <1>1, <1>2, <1>3 DEF TurnKnows
<1> DEFINE status == ledger[k].status
           run == [job |-> k, status |-> status]
           smoke == IF k \in SmokeKeys THEN run ELSE d.smoke
           final == IF c.operation = "final" THEN run ELSE d.final
           known == [d EXCEPT !.job = k, !.smoke = smoke, !.final = final]
           failure == Failure(k, IF status = "partial" THEN status ELSE "failed")
           failed == [known EXCEPT !.recovery = failure]
           good == [c EXCEPT !.step = "observed", !.outcome = "succeeded",
                             !.draft = IF c.operation = "final" THEN known
                                                                ELSE Validated(known)]
           bad == [c EXCEPT !.step = "observed", !.outcome = "blocked",
                            !.draft = Replace(failed, "recovery")]
<1>5. attempt' = IF status \in Succeeded THEN good ELSE bad
  <2>1. [d EXCEPT !.job = k, !.smoke = IF k \in SmokeKeys THEN run ELSE @,
                  !.final = IF c.operation = "final" THEN run ELSE @] = known
    BY <1>3 DEF Heads
  <2>2. QED BY <1>1, <1>3, <2>1 DEF Observe
<1>6. status \in Statuses
  BY <1>3, <1>4, EntryFields DEF ApprovalsInv, TypeOK
<1>7. /\ smoke \in SmokeRuns
      /\ final \in FinalRuns
  BY <1>3, <1>6, HeadFields
<1>8. /\ smoke.job # NoJob =>
            \/ k \in SmokeKeys /\ smoke = run
            \/ c.operation = "final" /\ smoke = d.smoke
      /\ final.job # NoJob => c.operation = "final" /\ final = run
  <2>1. c.operation \in {"preflight", "final"}
    BY <1>3, AttemptFields DEF Operations
  <2>2. QED BY <1>4, <2>1, NoRunFacts
<1> HIDE DEF smoke, final
<1>9. /\ known \in Heads /\ known.job = k /\ known.smoke = smoke /\ known.final = final
      /\ known.plan = d.plan /\ known.config = d.config /\ known.request = d.request
      /\ known.target = d.target /\ known.invalidated = d.invalidated
      /\ known.question = d.question /\ known.preflight = d.preflight
      /\ known.turn = d.turn
  <2>1. d \in Heads /\ k \in Keys \cup {NoJob}
    BY <1>3
  <2>2. /\ known.job = k /\ known.smoke = smoke /\ known.final = final
        /\ known.plan = d.plan /\ known.config = d.config /\ known.request = d.request
        /\ known.target = d.target /\ known.invalidated = d.invalidated
        /\ known.question = d.question /\ known.preflight = d.preflight
        /\ known.turn = d.turn
    BY <2>1 DEF Heads
  <2>3. known \in Heads
    BY <1>7, <2>1 DEF Heads
  <2>4. QED BY <2>2, <2>3
<1> HIDE DEF known
<1>10. ASSUME status \in Succeeded PROVE ApprovalsInv'
  <2>0. PICK g : g = IF c.operation = "final" THEN known ELSE Validated(known)
    OBVIOUS
  <2>1. /\ g \in Heads /\ SameEvidence(g, known) /\ g.question = known.question
    <3>1. known.recovery
             \in [status : {"none", "pending", "correcting", "resolved", "cancelled"},
                  job : Keys \cup {NoJob}, cause : {"none", "preflight"} \cup Broken]
      BY <1>9, HeadFields
    <3> DEFINE resolved == [known.recovery EXCEPT !.status = "resolved"]
    <3>2. resolved \in [status : {"none", "pending", "correcting", "resolved", "cancelled"},
                        job : Keys \cup {NoJob}, cause : {"none", "preflight"} \cup Broken]
      BY <3>1
    <3>3. g = known \/ g = [known EXCEPT !.recovery = resolved]
      BY <1>9, <2>0 DEF Validated, Heads
    <3> HIDE DEF resolved
    <3>4. CASE g = known
      BY <1>9, <3>4 DEF SameEvidence
    <3>5. CASE g = [known EXCEPT !.recovery = resolved]
      BY <1>9, <3>2, <3>5 DEF Heads, SameEvidence
    <3>6. QED BY <3>3, <3>4, <3>5
  <2>2. /\ g.job = k /\ g.smoke = smoke /\ g.final = final /\ g.plan = d.plan
        /\ g.config = d.config /\ g.request = d.request /\ g.target = d.target
        /\ g.question = "none" /\ "preflight_smoke_execution" \notin g.invalidated
        /\ g.preflight \notin {"unset", "declined"}
    BY <1>4, <1>9, <2>1 DEF SameEvidence
  <2>3. PICK a : a = attempt'
    OBVIOUS
  <2>4. /\ a \in Attempts /\ a.step = "observed" /\ a.draft = g
        /\ a.operation = c.operation
    <3>1. a = [c EXCEPT !.step = "observed", !.outcome = "succeeded", !.draft = g]
      BY <1>5, <1>10, <2>0, <2>3
    <3>2. QED BY <1>3, <2>1, <3>1 DEF Attempts
  <2>5. KeyOf(a) = k
    BY <1>1, <1>3, <2>2, <2>4 DEF KeyOf
  <2>6. ASSUME NEW R, R = approvals, ledger[k].plan = d.plan
        PROVE  HeadHolds(g, R \cup {ReceiptOf(a)})
    <3>1. (ReceiptOf(a)).job = k
      BY <2>2, <2>4 DEF ReceiptOf
    <3>2. \A r \in {smoke, final} : r.job # NoJob =>
             ledger[r.job] # NoJob /\ ledger[r.job].plan = d.plan
      <4>1. ASSUME smoke.job # NoJob
            PROVE  ledger[smoke.job] # NoJob /\ ledger[smoke.job].plan = d.plan
        <5>1. CASE k \in SmokeKeys /\ smoke = run
          BY <1>4, <2>6, <5>1
        <5>2. CASE c.operation = "final" /\ smoke = d.smoke
          BY <1>4, <4>1, <5>2 DEF HeadHolds
        <5>3. QED BY <1>8, <4>1, <5>1, <5>2
      <4>2. ASSUME final.job # NoJob
            PROVE  ledger[final.job] # NoJob /\ ledger[final.job].plan = d.plan
        BY <1>4, <1>8, <2>6, <4>2
      <4>3. QED BY <4>1, <4>2
    <3>3. ASSUME smoke.job # NoJob
          PROVE  /\ smoke.job = SmokeKey(d.request)
                 /\ \E e \in R \cup {ReceiptOf(a)} : e.job = smoke.job
                 /\ smoke.status = "completed" => ledger[smoke.job].status = "completed"
      <4>1. CASE k \in SmokeKeys /\ smoke = run
        <5>1. k = SmokeKey(d.request)
          BY <1>1, <1>3, <4>1, KeyFacts DEF KeyOf
        <5>2. QED BY <3>1, <4>1, <5>1
      <4>2. CASE c.operation = "final" /\ smoke = d.smoke
        BY <1>4, <2>6, <3>3, <4>2 DEF HeadHolds
      <4>3. QED BY <1>8, <3>3, <4>1, <4>2
    <3>4. QED BY <1>4, <2>2, <3>2, <3>3 DEF HeadHolds, Bare
  <2>7. ASSUME NEW R, R = approvals PROVE TurnKnows(a, R)'
    <3>1. SupportedBy(a)' => ledger[k].plan = d.plan
      BY <1>2, <2>2, <2>4 DEF SupportedBy, Unchanged
    <3>2. PICK S : S = R \cup {ReceiptOf(a)}
      OBVIOUS
    <3>3. SupportedBy(a)' => HeadHolds(g, S)'
      <4>1. SupportedBy(a)' => HeadHolds(g, S)
        BY <2>6, <2>7, <3>1, <3>2
      <4>2. LedgerGrows /\ S \subseteq S
        BY <1>2, SameLedger DEF Unchanged
      <4>3. QED BY <2>1, <4>1, <4>2, HeadStays
    <3>4. g.target = head'.target /\ g.request # NoRequest
      BY <1>2, <1>4, <2>2 DEF Unchanged
    <3>5. SupportedBy(a)' => a.draft.job = KeyOf(a) /\ HeadHolds(a.draft, S)'
      BY <2>2, <2>4, <2>5, <3>3
    <3>6. QED BY <2>2, <2>4, <3>2, <3>4, <3>5 DEF TurnKnows
  <2>8. /\ UNCHANGED <<head, barrier, approvals, crashes, ledger>>
        /\ prepared' \in 0..MaxPlans /\ prepared' >= prepared
    BY <1>2, ApprovalsAssumption DEF Unchanged, ApprovalsInv, TypeOK
  <2>9. QED BY <1>3, <2>3, <2>4, <2>7, <2>8, QuietTurnStep
<1>11. ASSUME status \notin Succeeded PROVE ApprovalsInv'
  <2> DEFINE g == Replace(failed, "recovery")
  <2>1. failure \in [status : {"none", "pending", "correcting", "resolved", "cancelled"},
                     job : Keys \cup {NoJob}, cause : {"none", "preflight"} \cup Broken]
    BY <1>3 DEF Failure, Broken
  <2> HIDE DEF failure
  <2>2. failed \in Heads /\ failed.target = d.target /\ failed.request = d.request
    BY <1>9, <2>1 DEF Heads
  <2> HIDE DEF failed
  <2>3. g \in Heads /\ SameEvidence(g, failed)
    BY <2>2, ReplaceFacts
  <2>4. g.target = head.target /\ g.request # NoRequest
    BY <1>4, <2>2, <2>3 DEF SameEvidence
  <2> HIDE DEF g
  <2>5. PICK a : a = attempt'
    OBVIOUS
  <2>6. /\ a \in Attempts /\ a.step = "observed" /\ a.draft = g /\ a.outcome = "blocked"
    <3>1. a = [c EXCEPT !.step = "observed", !.outcome = "blocked", !.draft = g]
      BY <1>5, <1>11, <2>5 DEF g
    <3>2. QED BY <1>3, <2>3, <3>1 DEF Attempts
  <2>7. ASSUME NEW R, R = approvals PROVE TurnKnows(a, R)'
    BY <1>2, <2>4, <2>6 DEF TurnKnows, SupportedBy, Unchanged
  <2>8. /\ UNCHANGED <<head, barrier, approvals, crashes, ledger>>
        /\ prepared' \in 0..MaxPlans /\ prepared' >= prepared
    BY <1>2, ApprovalsAssumption DEF Unchanged, ApprovalsInv, TypeOK
  <2>9. QED BY <1>3, <2>5, <2>6, <2>7, <2>8, QuietTurnStep
<1>12. QED BY <1>10, <1>11

(* The turn commits what it approved.                                      *)
LEMMA CommitApprovalStep == ASSUME ApprovalsInv, CommitApproval PROVE ApprovalsInv'
<1>1. PICK c, d, e : c = attempt /\ d = c.draft /\ e = Receipt
  OBVIOUS
<1>2. /\ c # NoAttempt /\ c.step = "observed" /\ attempt' = NoAttempt
      /\ head' = d /\ approvals' = approvals \cup {e}
      /\ UNCHANGED <<barrier, ledger, prepared, crashes>>
  BY <1>1 DEF CommitApproval, Draft
<1>3. /\ c \in Attempts /\ TurnKnows(c, approvals) /\ d \in Heads /\ ~barrier
      /\ d.request \in RequestIds /\ SupportedBy(c) /\ e = ReceiptOf(c)
  BY <1>1, <1>2, TurnFacts DEF CommitApproval
<1>4. /\ d.target = head.target /\ HeadHolds(d, approvals \cup {e})
  BY <1>1, <1>2, <1>3 DEF TurnKnows
<1>5. e \in Receipts
  <2>1. d.job # NoJob /\ d.job \in Keys /\ ledger[d.job].plan = d.plan
    BY <1>1, <1>3, HeadFields DEF SupportedBy
  <2>2. d.plan \in Plans
    BY <1>4, <2>1, SerialFacts DEF HeadHolds
  <2>3. QED BY <1>1, <1>3, <2>1, <2>2, AttemptFields DEF ReceiptOf, Receipts
<1>6. TypeOK'
  BY <1>2, <1>3, <1>5 DEF ApprovalsInv, TypeOK
<1>7. LedgerHolds'
  BY <1>2 DEF ApprovalsInv, LedgerHolds
<1>8. FinalNeedsSmoke'
  BY <1>2, <1>4 DEF ApprovalsInv, FinalNeedsSmoke
<1>9. HeadHolds(head, approvals)'
  <2>1. PICK R : R = approvals \cup {e}
    OBVIOUS
  <2>2. HeadHolds(d, R)'
    BY <1>2, <1>3, <1>4, <2>1, HeadStays, SameLedger
  <2>3. QED BY <1>2, <2>1, <2>2
<1>10. QED BY <1>2, <1>6, <1>7, <1>8, <1>9 DEF ApprovalsInv, AttemptHolds

(* A turn that ends without a commit, and its resolution.                  *)
LEMMA DroppedStep ==
    ASSUME ApprovalsInv, attempt' = NoAttempt, barrier' \in BOOLEAN,
           crashes' \in 0..MaxCrashes, UNCHANGED <<head, ledger, prepared, approvals>>
    PROVE  ApprovalsInv'
<1>1. TypeOK' /\ LedgerHolds' /\ FinalNeedsSmoke' /\ AttemptHolds'
  BY DEF ApprovalsInv, TypeOK, LedgerHolds, FinalNeedsSmoke, AttemptHolds
<1>2. PICK h, R : h = head /\ R = approvals
  OBVIOUS
<1>3. HeadHolds(h, R)'
  BY <1>2, HeadStays, SameLedger DEF ApprovalsInv, TypeOK
<1>4. QED BY <1>1, <1>2, <1>3 DEF ApprovalsInv

LEMMA RaiseStep == ASSUME ApprovalsInv, RaiseUnsupported PROVE ApprovalsInv'
<1>1. crashes' \in 0..MaxCrashes
  BY DEF ApprovalsInv, TypeOK, RaiseUnsupported
<1>2. QED BY <1>1, DroppedStep DEF RaiseUnsupported

LEMMA CrashStep == ASSUME ApprovalsInv, Crash PROVE ApprovalsInv'
<1>1. crashes' \in 0..MaxCrashes
  BY ApprovalsAssumption DEF ApprovalsInv, TypeOK, Crash
<1>2. QED BY <1>1, DroppedStep DEF Crash

LEMMA ResolveStep == ASSUME ApprovalsInv, Resolve PROVE ApprovalsInv'
<1>1. attempt' = NoAttempt
  BY DEF ApprovalsInv, TypeOK, Resolve
<1>2. crashes' \in 0..MaxCrashes
  BY DEF ApprovalsInv, TypeOK, Resolve
<1>3. QED BY <1>1, <1>2, DroppedStep DEF Resolve

(* A job goes on.                                                          *)
LEMMA ProgressFacts ==
    ASSUME TypeOK, NEW k \in Keys, ledger[k] # NoJob, Jobs!Progress(k),
           ledger[k].status \in {"pending", "running"}
    PROVE  \E e \in Jobs!Entries :
              /\ ledger' = [ledger EXCEPT ![k] = e]
              /\ e.plan = ledger[k].plan /\ e.simulated = ledger[k].simulated
              /\ ledger[k].good => e.good
              /\ e.status = "completed" => e.good \/ e.simulated
<1>1. PICK f : f = ledger[k]
  OBVIOUS
<1>2. f \in Jobs!Entries /\ f.status # "completed"
  BY <1>1 DEF TypeOK
<1>3. ASSUME Jobs!Run(k)
      PROVE  /\ [f EXCEPT !.ran = TRUE] \in Jobs!Entries
             /\ ledger' = [ledger EXCEPT ![k] = [f EXCEPT !.ran = TRUE]]
  BY <1>1, <1>2, <1>3 DEF Jobs!Run, Jobs!Becomes, Jobs!Entries
<1>4. ASSUME Jobs!Succeed(k)
      PROVE  /\ [f EXCEPT !.good = TRUE] \in Jobs!Entries
             /\ ledger' = [ledger EXCEPT ![k] = [f EXCEPT !.good = TRUE]]
  BY <1>1, <1>2, <1>4 DEF Jobs!Succeed, Jobs!Becomes, Jobs!Entries
<1>5. ASSUME NEW status \in Jobs!Statuses, Jobs!Show(k, status)
      PROVE  /\ [f EXCEPT !.status = status] \in Jobs!Entries
             /\ ledger' = [ledger EXCEPT ![k] = [f EXCEPT !.status = status]]
             /\ status = "completed" => f.good \/ f.simulated
  BY <1>1, <1>2, <1>5 DEF Jobs!Show, Jobs!Becomes, Jobs!Entries
<1>6. CASE Jobs!Run(k)
  <2>1. PICK e : e = [f EXCEPT !.ran = TRUE]
    OBVIOUS
  <2>2. e.plan = f.plan /\ e.simulated = f.simulated /\ e.good = f.good /\ e.status = f.status
    BY <1>2, <2>1 DEF Jobs!Entries
  <2>3. QED BY <1>1, <1>2, <1>3, <1>6, <2>1, <2>2
<1>7. CASE Jobs!Succeed(k)
  <2>1. PICK e : e = [f EXCEPT !.good = TRUE]
    OBVIOUS
  <2>2. e.plan = f.plan /\ e.simulated = f.simulated /\ e.good
    BY <1>2, <2>1 DEF Jobs!Entries
  <2>3. QED BY <1>1, <1>4, <1>7, <2>1, <2>2
<1>8. ASSUME NEW status \in Jobs!Statuses, Jobs!Show(k, status)
      PROVE  \E e \in Jobs!Entries :
                /\ ledger' = [ledger EXCEPT ![k] = e]
                /\ e.plan = f.plan /\ e.simulated = f.simulated
                /\ f.good => e.good
                /\ e.status = "completed" => e.good \/ e.simulated
  <2>1. PICK e : e = [f EXCEPT !.status = status]
    OBVIOUS
  <2>2. /\ e.plan = f.plan /\ e.simulated = f.simulated /\ e.good = f.good
        /\ e.status = status
    BY <1>2, <2>1 DEF Jobs!Entries
  <2>3. QED BY <1>5, <1>8, <2>1, <2>2
<1>9. QED BY <1>1, <1>6, <1>7, <1>8 DEF Jobs!Progress

LEMMA ProgressStep ==
    ASSUME ApprovalsInv, NEW k \in Keys, JobProgresses(k) PROVE ApprovalsInv'
<1>1. /\ ledger[k] # NoJob /\ ledger[k].status \in {"pending", "running"}
      /\ UNCHANGED <<head, attempt, barrier, prepared, crashes, approvals>>
  BY DEF JobProgresses
<1>2. PICK e \in Jobs!Entries :
         /\ ledger' = [ledger EXCEPT ![k] = e]
         /\ e.plan = ledger[k].plan /\ e.simulated = ledger[k].simulated
         /\ ledger[k].good => e.good
         /\ e.status = "completed" => e.good \/ e.simulated
  BY <1>1, ProgressFacts DEF JobProgresses, ApprovalsInv
<1>3. e # NoJob
  BY EntryFields
<1>4. /\ ledger' \in [Keys -> Jobs!Entries \cup {NoJob}]
      /\ ledger'[k] = e
      /\ \A j \in Keys : j # k => ledger'[j] = ledger[j]
  BY <1>2 DEF ApprovalsInv, TypeOK
<1>5. LedgerGrows
  BY <1>1, <1>2, <1>3, <1>4 DEF LedgerGrows
<1>6. \A j \in Keys : /\ ledger'[j] = NoJob <=> ledger[j] = NoJob
                      /\ ledger'[j].plan = ledger[j].plan
  BY <1>1, <1>2, <1>3, <1>4
<1>7. TypeOK'
  BY <1>1, <1>4 DEF ApprovalsInv, TypeOK
<1>8. LedgerHolds'
  <2>1. ASSUME NEW j \in Keys, ledger'[j] # NoJob
        PROVE  /\ ~ledger'[j].simulated
               /\ ledger'[j].status = "completed" => ledger'[j].good
               /\ ledger'[j].plan.serial =< prepared'
    <3>1. CASE j # k
      BY <1>1, <1>4, <2>1, <3>1 DEF ApprovalsInv, LedgerHolds
    <3>2. CASE j = k
      BY <1>1, <1>2, <1>4, <3>2 DEF ApprovalsInv, LedgerHolds
    <3>3. QED BY <3>1, <3>2
  <2>2. \A r \in RequestIds : /\ ledger'[SmokeKey(r)] = NoJob <=> ledger[SmokeKey(r)] = NoJob
                              /\ ledger'[SmokeKey(r)].plan = ledger[SmokeKey(r)].plan
    BY <1>6, KeyFacts
  <2>3. QED BY <2>1, <2>2 DEF ApprovalsInv, LedgerHolds
<1>9. FinalNeedsSmoke'
  <2> SUFFICES ASSUME head'.target = "real-node", NEW r \in RequestIds,
                      ledger'[PlainKey(r)] # NoJob
               PROVE  /\ ledger'[SmokeKey(r)] # NoJob
                      /\ ledger'[SmokeKey(r)].good
                      /\ ledger'[SmokeKey(r)].plan = ledger'[PlainKey(r)].plan
                      /\ \E a \in approvals' : a.job = SmokeKey(r)
    BY DEF FinalNeedsSmoke
  <2>1. ledger[PlainKey(r)] # NoJob /\ ledger'[PlainKey(r)].plan = ledger[PlainKey(r)].plan
    BY <1>6, KeyFacts
  <2>2. QED BY <1>1, <1>5, <2>1, SmokeStays
<1>10. PICK h, R, c : h = head /\ R = approvals /\ c = attempt
  OBVIOUS
<1>11. HeadHolds(h, R)'
  BY <1>5, <1>10, HeadStays DEF ApprovalsInv, TypeOK
<1>12. ASSUME c # NoAttempt PROVE TurnKnows(c, R)'
  <2>1. /\ c \in Attempts /\ TurnKnows(c, R) /\ c.draft \in Heads /\ KeyOf(c) \in Keys
    BY <1>10, <1>12, TurnFacts
  <2>2. HeadHolds(c.draft, R) => HeadHolds(c.draft, R)'
    BY <1>5, <2>1, HeadStays
  <2>3. SupportedBy(c)' => SupportedBy(c)
    BY <1>6, <2>1, HeadFields DEF SupportedBy
  <2>4. PICK S : S = R \cup {ReceiptOf(c)}
    OBVIOUS
  <2>5. HeadHolds(c.draft, S) => HeadHolds(c.draft, S)'
    BY <1>5, <2>1, HeadStays
  <2>6. ledger[KeyOf(c)] # NoJob => ledger'[KeyOf(c)] # NoJob
    BY <1>6, <2>1
  <2>7. QED BY <1>1, <2>1, <2>2, <2>3, <2>4, <2>5, <2>6 DEF TurnKnows
<1>13. HeadHolds(head, approvals)' /\ AttemptHolds'
  BY <1>1, <1>10, <1>11, <1>12 DEF AttemptHolds
<1>14. QED BY <1>7, <1>8, <1>9, <1>13 DEF ApprovalsInv
-----------------------------------------------------------------------------
(* The invariant.                                                          *)

LEMMA InitStep == Init => ApprovalsInv
<1> SUFFICES ASSUME Init PROVE ApprovalsInv
  OBVIOUS
<1>1. PICK target \in Targets :
         head = [target |-> target, config |-> 0, turn |-> 0,
                 question |-> "preflight", request |-> NoRequest,
                 plan |-> NoPlan, preflight |-> "unset", smoke |-> NoRun,
                 final |-> NoRun, job |-> NoJob, recovery |-> NoRecovery,
                 invalidated |-> Groups]
  BY DEF Init
<1>2. /\ NoRun \in SmokeRuns
      /\ NoRun \in FinalRuns
      /\ NoRecovery \in [status : {"none", "pending", "correcting", "resolved", "cancelled"},
                         job : Keys \cup {NoJob}, cause : {"none", "preflight"} \cup Broken]
      /\ 0 \in 0..MaxEdits /\ 0 \in 0..MaxTurns /\ 0 \in 0..MaxPlans /\ 0 \in 0..MaxCrashes
  BY ApprovalsAssumption DEF NoRun, NoRecovery
<1>3. /\ head \in Heads /\ Bare(head) /\ head.job = NoJob /\ head.preflight = "unset"
  BY <1>1, <1>2, NoRunFacts DEF Heads, Bare
<1>4. \A k \in Keys : ledger[k] = NoJob
  BY DEF Init, Jobs!Init
<1>5. HeadHolds(head, approvals)
  BY <1>3, BareHolds
<1>6. TypeOK
  BY <1>2, <1>3 DEF TypeOK, Init, Jobs!Init
<1>7. LedgerHolds /\ FinalNeedsSmoke /\ AttemptHolds
  BY <1>4, KeyFacts DEF LedgerHolds, FinalNeedsSmoke, AttemptHolds, Init
<1>8. QED BY <1>5, <1>6, <1>7 DEF ApprovalsInv

LEMMA NextStep == ApprovalsInv /\ [Next]_vars => ApprovalsInv'
<1> SUFFICES ASSUME ApprovalsInv, [Next]_vars PROVE ApprovalsInv'
  OBVIOUS
<1>1. ASSUME NEW w \in Wordings, Approve(w) PROVE ApprovalsInv'
  BY <1>1, ApproveStep
<1>2. ASSUME NEW plan \in Plans,
             PreflightBlocks(plan) \/ PreflightPasses(plan) \/ PreflightUnsubmitted(plan)
      PROVE  ApprovalsInv'
  BY <1>2, BlockStep, PassStep, UnsubmittedStep
<1>3. ASSUME NEW k \in Keys, JobProgresses(k) PROVE ApprovalsInv'
  BY <1>3, ProgressStep
<1>4. CASE UNCHANGED vars
  <2>1. /\ head' = head /\ attempt' = attempt /\ barrier' = barrier /\ ledger' = ledger
        /\ prepared' = prepared /\ crashes' = crashes /\ approvals' = approvals
    BY <1>4 DEF vars
  <2>2. TypeOK' /\ LedgerHolds' /\ FinalNeedsSmoke'
    BY <2>1 DEF ApprovalsInv, TypeOK, LedgerHolds, FinalNeedsSmoke
  <2>3. HeadHolds(head, approvals)'
    BY <2>1 DEF ApprovalsInv, HeadHolds, Bare
  <2>4. AttemptHolds'
    BY <2>1 DEF ApprovalsInv, AttemptHolds, TurnKnows, HeadHolds, Bare, SupportedBy, KeyOf,
                ReceiptOf
  <2>5. QED BY <2>2, <2>3, <2>4 DEF ApprovalsInv
<1>5. QED
  BY <1>1, <1>2, <1>3, <1>4, TalkStep, DeclineStep, EditStep, CancelStep, CorrectStep,
     InvokeStep, FinalStep, FinalUnsubmittedStep, ObserveStep, CommitApprovalStep, RaiseStep,
     CrashStep, ResolveStep
     DEF Next

(* The inductive invariant: what a head says of its jobs is true of them,  *)
(* and so is what the turn that approves one knows.                        *)
THEOREM ApprovalsInvariant == Spec => []ApprovalsInv
BY InitStep, NextStep, PTL DEF Spec
-----------------------------------------------------------------------------
(* The rows have their types, and a turn in progress and a barrier exclude *)
(* each other (coordinator.py's side-effect steps).                        *)
THEOREM ApprovalsTypeTheorem == Spec => []TypeOK
<1>1. ApprovalsInv => TypeOK
  BY DEF ApprovalsInv
<1>2. QED BY <1>1, ApprovalsInvariant, PTL

(* What the head keeps of an execution belongs to the configuration the    *)
(* user confirmed last: an edit drops the plan, the smoke and the final    *)
(* benchmark that were made for another (_apply_group_invalidation_state). *)
THEOREM EvidenceTheorem == Spec => []EvidenceFitsConfig
<1>1. ApprovalsInv => EvidenceFitsConfig
  BY DEF ApprovalsInv, HeadHolds, EvidenceFitsConfig
<1>2. QED BY <1>1, ApprovalsInvariant, PTL

(* However approvals are repeated, interrupted or answered late, a final   *)
(* benchmark on a real node has an approved smoke of the same request, of  *)
(* the same plan, with complete results (_ready_for_final_benchmark).      *)
THEOREM SmokeTheorem == Spec => []FinalNeedsSmoke
<1>1. ApprovalsInv => FinalNeedsSmoke
  BY DEF ApprovalsInv
<1>2. QED BY <1>1, ApprovalsInvariant, PTL

(* ... and no plan is benchmarked under two requests: a plan is smoked     *)
(* once, and the final benchmark runs under the request of its smoke       *)
(* (execution_request_id outlives the turn that named it).                 *)
THEOREM OneFinalTheorem == Spec => []OneFinalPerPlan
<1>1. ApprovalsInv => OneFinalPerPlan
  <2> SUFFICES ASSUME ApprovalsInv, head.target = "real-node",
                      NEW r \in RequestIds, NEW q \in RequestIds,
                      ledger[PlainKey(r)] # NoJob, ledger[PlainKey(q)] # NoJob,
                      ledger[PlainKey(r)].plan = ledger[PlainKey(q)].plan
               PROVE  r = q
    BY DEF OneFinalPerPlan
  <2>1. /\ ledger[SmokeKey(r)] # NoJob /\ ledger[SmokeKey(q)] # NoJob
        /\ ledger[SmokeKey(r)].plan = ledger[SmokeKey(q)].plan
    BY DEF ApprovalsInv, FinalNeedsSmoke
  <2>2. QED BY <2>1 DEF ApprovalsInv, LedgerHolds
<1>2. QED BY <1>1, ApprovalsInvariant, PTL

(* The approvals use the jobs only as JobLedger.tla allows, so that what   *)
(* BenchmarkJobs.tla is shown to implement is all they rely on.            *)
THEOREM ApprovalsUseLedger == Spec => Jobs!Spec
<1>1. Init => Jobs!Init
  BY DEF Init
<1>2. ApprovalsInv /\ [Next]_vars => [Jobs!Next]_ledger
  <2> SUFFICES ASSUME ApprovalsInv, [Next]_vars, ledger' # ledger PROVE Jobs!Next
    OBVIOUS
  <2>1. ASSUME NEW d, d.plan \in Plans, attempt # NoAttempt, Submit(d) PROVE Jobs!Next
    <3>1. Key \in Keys
      BY <2>1, TurnFacts
    <3>2. Jobs!Open(Key, d.plan, FALSE)
      BY <2>1 DEF Submit
    <3>3. QED BY <2>1, <3>1, <3>2 DEF Jobs!Next
  <2>2. ASSUME NEW plan \in Plans, PreflightPasses(plan) PROVE Jobs!Next
    <3>1. attempt # NoAttempt /\ Draft \in Heads
      BY <2>2, TurnFacts DEF PreflightPasses
    <3>2. PICK d : d = [Draft EXCEPT !.plan = plan, !.preflight = "passed"]
      OBVIOUS
    <3>3. d.plan \in Plans
      BY <3>1, <3>2 DEF Heads
    <3>4. Submit(d)
      BY <2>2, <3>2 DEF PreflightPasses
    <3>5. QED BY <2>1, <3>1, <3>3, <3>4
  <2>3. ASSUME SubmitFinal PROVE Jobs!Next
    <3>1. /\ attempt # NoAttempt /\ Draft \in Heads /\ attempt.step = "invoking"
          /\ attempt.operation = "final"
      BY <2>3, TurnFacts DEF SubmitFinal
    <3>2. HeadHolds(Draft, approvals) /\ ReadyForFinal(Draft)
      BY <2>3, <3>1, TurnFacts DEF SubmitFinal, TurnKnows
    <3>3. /\ ledger[Draft.smoke.job] # NoJob /\ ledger[Draft.smoke.job].plan = Draft.plan
          /\ Draft.smoke.job \in Keys
      BY <3>1, <3>2, HeadFields DEF HeadHolds, ReadyForFinal
    <3>4. Draft.plan \in Plans
      BY <3>3, SerialFacts
    <3>5. QED BY <2>1, <2>3, <3>1, <3>4 DEF SubmitFinal
  <2>4. ASSUME NEW k \in Keys, JobProgresses(k) PROVE Jobs!Next
    BY <2>4 DEF JobProgresses, Jobs!Next
  <2>5. CASE \/ Talk \/ Decline \/ Edit \/ CancelRecovery \/ CorrectFailure
             \/ (\E w \in Wordings : Approve(w)) \/ Invoke
             \/ (\E plan \in Plans : PreflightBlocks(plan) \/ PreflightUnsubmitted(plan))
             \/ FinalUnsubmitted \/ Observe \/ CommitApproval \/ RaiseUnsupported
             \/ Crash \/ Resolve \/ UNCHANGED vars
    BY <2>5 DEF Talk, Decline, Edit, CancelRecovery, CorrectFailure, Approve, Invoke, Commits,
                PreflightBlocks, PreflightUnsubmitted, FinalUnsubmitted, Observe,
                CommitApproval, RaiseUnsupported, Crash, Resolve, Unchanged, vars
  <2>6. QED BY <2>2, <2>3, <2>4, <2>5 DEF Next
<1>3. QED BY <1>1, <1>2, ApprovalsInvariant, PTL DEF Spec, Jobs!Spec
=============================================================================
