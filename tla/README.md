# Verification of AnyChainBenchmarkAgent

TLA+ models of the parts of this repository whose correctness is an order of
steps: the SQLite authority that decides which turn of a conversation is
accepted, the runtime that recovers and logs it, the terminal that shows it, the
registry of its secrets, the approvals that start a benchmark, the jobs that run
it, and the ladder of loads the benchmark itself climbs. The models are checked
with TLC on small instances; every safety invariant and action property that holds, and
the three refinements, are proved with TLAPS for every instance, while liveness is left to
TLC. Three runs show where the code does not do what it says.

Paths below are relative to the repository root; `TT` is
`agent/harness/turn_transactions.py`.

## 1. The system

The program is an agent that plans and runs blockchain-node benchmarks from a
conversation, plus the shell framework that executes them. Its parts:

| part | where | state it keeps | operations | what is hard |
|---|---|---|---|---|
| turn-transaction store | `TT` | tables heads, attempts, outbox, resolutions, detours (SQLite) | bootstrap, begin/commit/abort/require reconciliation, resolve, mark delivered/published, requeue, prepare/chunk/complete/recover detour, resolve with detour | several processes, crashes between any two transactions, retried calls, barriers that block turns |
| graph runtime | `agent/harness/graph.py` | authority lease (flock), LangGraph checkpoints, runtime-event log (JSONL) | start (recover attempts, quarantine and rebuild the log), run a turn, migrate a checkpoint, ensure an observation | crash between commit, append and receipt; evidence of external effects; order of the log |
| side-effect steps | `agent/harness/coordinator.py` | intent and receipt inside a checkpoint | prepare, mark invoking, invoke, commit receipt | a crash around an external call |
| execution approvals | `agent/harness/domains/execution.py`, `execution_runtime.py`, `recovery.py` | question, request id, plan, smoke, final benchmark, recovery inside a checkpoint | ask, approve, decline, edit, correct, observe, record the receipt | a long conversation over jobs that end as they like; approvals repeated after a crash |
| terminal CLI | `agent/terminal/repl.py` | shell state, terminal protocol file | start-up replay, turns, commands, streams, exit, reconcile, delivery | several CLI processes, one lease; render, project, acknowledge across crashes |
| terminal protocol | `agent/harness/terminal_protocol.py` | append-only files under a file lock | append, claim, quarantine, validate | partial appends, replays |
| secret registry | `agent/harness/secret_refs.py` | values, scopes, versions, reservations (memory) | stage, prepare, publish, finalize, rollback, reconcile | a two-phase overlay around a commit whose outcome may be unknown |
| benchmark jobs | `agent/runners/job_manager.py`, `job_worker.py` | one `job.json` per job | submit, work, classify, read, migrate | two writers of one file, duplicate submissions |
| QPS ramp | `core/master_qps_executor.sh`, `monitoring/bottleneck_detector.sh` | counters, status files | a ladder of loads, judgement per round | consecutive counters, stale flags |
| monitoring | `monitoring/*.sh` | flag and event files | sample, start/end event | concurrent writers, flags that outlive their cause |
| action queue | `agent/harness/queue.py` | none (pure) | order one batch of actions | cycles, stability |
| planning and admission | `agent/harness/hierarchical_planner.py`, `semantic_*.py` | none across turns | text to typed actions | data, not order |
| domains, questions, contracts | `agent/harness/domains/`, `state.py`, ... | the checkpoint | apply one action | data, not order |
| providers, pipeline, proxy, analysis, charts, adapters, deployment | `agent/llm`, `agent/runners`, `tools`, `analysis`, `visualization`, `config`, `deploy` | none of their own, or a mutex-guarded sink | network clients, one-shot assembly, pure functions | - |

How they interact: the terminal asks the runtime for a turn; the runtime begins
an attempt in the store, lets the graph work on a private checkpoint thread,
and commits the attempt, which advances the *Product Head* and writes one outbox
row in the same transaction. It then appends the runtime event to the log and
records the receipt in the store. The terminal renders the outcome, appends a
projection to the protocol file, and acknowledges the outbox row. A shell
command does not go through the runtime at all: it is a *detour*, a row of the
store prepared before and completed after the work, allowed only while no turn
is open, and itself blocking every turn. Every process that starts with the
lease first closes what its predecessor left open.

A turn that writes a secret publishes it in the registry just before its head
commits and takes it back if the commit does not become durable. A turn in which
the user approves a run checkpoints an intent, submits a job to the jobs directory
under an execution key derived from the request, and records an approval receipt
with its commit; the job runs in a detached worker (or in the submitter) and is read
again by later turns. The job's command is the shell framework: it raises the load
step by step and asks the bottleneck detector after each step, while monitors of
the machine and of the node's block height write the files both read.

What makes each modelled part correct:

* store: one line of revisions without gap or fork; one open piece of work; an
  outcome is final; a detour's evidence is final and belongs to the head it saw;
* runtime: the log holds every commit exactly once, in order, and a receipt is
  never ahead of it; a start always serves; an invoked effect is never
  reported as not having happened;
* terminal: nothing is acknowledged unshown, nothing shown unsettled; the
  process that runs a turn keeps it; every outcome and every command is shown
  in the end;
* secrets: what a turn read is what the durable heads say until its own head is
  durable; secrets change at one instant, or not at all;
* jobs: one job and one run per execution key; "completed" only on the job's own
  complete results; a recorded result stays;
* approvals: a final benchmark follows a completed smoke of the same plan, happens
  once, and an approval names the plan that runs;
* ladder: it stops for pressure only on confirmed rounds, never for a resource alone on
  a healthy node; the reported maximum met the thresholds (it need not: section 6).

## 2. The modules

```
ProductHead            abstract: tip, lineage, open, uncertain turn
     ^  refinement (INSTANCE ... WITH, property ImplementsProductHead)
TurnTransactions       the store, one action per write transaction
     ^ EXTENDS                    ^ EXTENDS                ^ EXTENDS
RuntimeObservations    TerminalSessions       TurnTransactionsProofs
graph.py + log         repl.py, N processes   theorems
     ^ EXTENDS                    ^ EXTENDS                | EXTENDed by both
RuntimeObservationsProofs  TerminalSessionsProofs  <-------+
theorems               theorems

AtomicSecrets          abstract: secrets change at the commit
     ^  refinement (ImplementsAtomicSecrets)
SecretRegistry         secret_refs.py around the commit of graph.py
     ^ EXTENDS
SecretRegistryProofs   theorems

JobLedger              abstract: one job, one run per execution key
     ^  refinement (ImplementsJobLedger)      ^ INSTANCE
BenchmarkJobs          job_manager.py, worker  ExecutionApprovals   conversation
     ^ EXTENDS                                ^ EXTENDS
BenchmarkJobsProofs    theorems        ExecutionApprovalsProofs  theorems

QpsRamp                executor, detector, block-height monitor, framework
     ^ EXTENDS
QpsRampProofs          theorems
```

MC modules (`MCTurnTransactions`, ...) instantiate each for TLC.

**ProductHead** says what the store promises and nothing about how: turns are
opened one at a time on the tip, accepted (the tip advances by one), dropped, or
suspected, and a suspected turn stops the line until it is settled.

**TurnTransactions** has a variable per table. Every method of
`TurnTransactionStore` that writes runs in one `BEGIN IMMEDIATE` transaction and
is one action, whichever process calls it: `BootstrapProductHead`,
`BeginAttempt`, `CommitAttempt` / `AbortAttempt` / `RequireReconciliation` (all
through `FinishAttempt`, as in the code), `ResolveReconciliation`,
`MarkTerminalDelivered`, `MarkRuntimeEventPublished`, `RequeueRuntimeEvents`,
`PrepareDetour`, `RecordStreamChunk`, `CompleteDetour`,
`RequireDetourReconciliation`, `InterruptTermination` (the first of the two
transactions recovery spends on an exit), `ResolveTurnWithDetour`,
`ResolveDetourWithDetour`, `MarkDetourDelivered`. A method that raises rolls back and
a repeated call that meets its own earlier result returns it; neither is a
step. A checkpoint stands for its id and fingerprint; hashes of renders,
diagnostics and shell state, and timestamps are left out. The callers of an
effect class are the constant `Effects`: `local_external_effect` is supported by
the store although no terminal command passes it today.

**RuntimeObservations** adds the process that holds the lease: `runtime.step`
follows `AnyChainGraphRuntime.__init__` (closing, scanning, quarantining,
rebuilding, marking) and a turn (seeding, running, observing, marking), and
presentation runs the same scan again, as `ensure_runtime_observation` does.
`stage` is how far an attempt's checkpoints have come (the coordinator
checkpoints "invoking" before it calls, so a checkpoint may lag the effect by
one step, never lead it). `stale` is a checkpoint an older program wrote, which
the next load rewrites in an attempt of its own that commits without an
observation (`_load_state`, `_persist_state`). `Crash` may fall between any two
steps, `TearAppend` leaves half a record, `ChangeRepository` edits the working
tree.

**TerminalSessions** has several CLI processes. `procs[p].step` follows
`startup()` and the main loop of `repl.py`: open the harness, replay outcomes,
recover and replay detours, the session's first turns, announce, prompt, turn,
detour, show, acknowledge. A process whose provider is not ready, or that finds
the lease taken, has no harness and only runs commands. How the runtime decides
about an interrupted attempt is nondeterministic here (RuntimeObservations has
the evidence), and the log is reduced to the receipt. A session's start may run
one or two turns (resume, cancel, or reset), the code choosing by its arguments:
both are allowed.

**SecretRegistry** takes every critical section of `_LOCK` as one action:
`Enter`, `ReconcileUncertain`, `Entered`, the reads and writes of a transaction
(`Read`, `StoreSecret`, `AuthorizeSecret`, `DiscardSecret`, `Clear`), `Prepare`,
`PublishPrepared`, `MarkProductHeadCommitted`, `Finalize`, and the rollbacks. `decided`
is the attempt's outcome in the store, which the probe asks and may fail to learn.
Callers outside a transaction (`StoreDirect`, ...) act between any two of them. An
exception before publication and its rollback are one step, since no other thread
can tell; one after publication leaves room for others between the exception, the
attempt's end and the rollback.

**AtomicSecrets** is what that protocol is for: a turn reads, plans, and at one instant
commits all of its writes if every secret it read is still the same, or drops them.

**BenchmarkJobs** has the calls of `submit_job` (`sub`), the records (`file`, each write
replacing the whole file, as `_write_json` does), the process that runs a job (`work`,
with the copy it will write), and its command, which is a process of its own and
outlives both. A job's results are the latest run's in its data directory, judged by
`Verdict`. A plan is submitted by one route only, a conversation or a command line
(`RequestsAssumption`): both use the same jobs directory, and the keys of the two
are drawn from different sources. A worker reads `job.json` once, when it is started.

**JobLedger** is what the rest of the program may rely on; **ExecutionApprovals**
instantiates it instead of the jobs in detail. Its state between turns is the part of
the Product Head that concerns execution. A turn without an external effect is one
step; a turn that approves goes through `Approve` (the intent), `Invoke`,
`PreflightBlocks`, `PreflightPasses` or `SubmitFinal`, `Observe`, and `CommitApproval` or
`RaiseUnsupported`, and may be killed between any two. `PreflightUnsubmitted` and
`FinalUnsubmitted` are submissions that fail without opening a job (no plan file, a changed
plan, an error of the service). A job that is found, not created, may still be pending:
`_execution_result_failed` takes a pending smoke for a failed one, while a pending final
benchmark is committed as it is (`Succeeded`). `Reconciled`
is `reconcile_execution_state`, run first in every turn. Simplified: the groups before
the execution are configured; an execution declined stays declined, through edits too
(`_apply_group_invalidation_state` keeps the decision); a request named by a turn and a wording stands for the action id, which the code derives
from both; the sync-observe workflow is left out.

**QpsRamp** reduces a measurement to what the thresholds tell apart and a sample of
the machine to the resources above their limits (cpu, memory and network, which are
treated alike, are "cpu"). The executor's own sample (`Look`) and the detector's
(`Detect`) are independent, since each takes the last line of a growing CSV. The
detector's counters and status file survive from round to round, and the block-height
monitor runs beside everything.

In each module, operators marked "variant" or "defect" are mutated forms of the action that
follows them (a lost guard, a missing write); they are not part of `Next` and
exist to show that a property notices the mistake.

## 3. The runs

| run | instance | what it shows |
|---|---|---|
| `store` | 2 transactions, 2 detours, every effect class, 2 payloads, 2 messages, 1 chunk, under `SmallStore` | `TypeOK`, `OneOpenAuthority`, `FenceCoversHead`, `RowsStayReadable`, `RepliesAnswerResolutions`, `StreamsAreReplayable`, `TablesAgree`, `CommitsFormOneChain`, `ActiveAttemptCanClose`, `HeadMovesOnlyByCommit`, and the refinement `ImplementsProductHead` |
| `faults` | 2 turns, 2 crashes, 2 revisions, migrations, torn appends, an older log | `LogHoldsCommitsOnce`, `PublishedIsLogged`, `InvokedIsNeverAborted`, `PresentationFollowsEvidence` hold although starts may be refused |
| `steady` | 2 turns, 2 crashes, one revision, no migration, no torn append | `LogInRevisionOrder`, and under fairness `RestartServes`, `ObservationsCatchUp`, `InterruptedTurnsClose` |
| `pair` | 2 processes, 2 turns, 2 commands, 1 crash | `LiveTurnIsActive`, `DeliveredWasProjected`, `ProjectionsAreSettled` |
| `alone` | 1 process, 2 turns, 2 commands or streams, 2 crashes | under fairness `OutcomesShown`, `CommandsAnswered` |
| `secrets` | 2 transactions, 2 references, 1 value, 1 scope | `ReservationsAreHeld`, `ReadsAreSettled`, and the refinement `ImplementsAtomicSecrets` |
| `jobs` | 2 submitters, 2 jobs, 3 requests of 2 callers | `TypeOK`, `OneRunPerKey`, `AnsweredInKind`, `ResultsStay`, `SubmissionsReturn` (under fairness), and the refinement `ImplementsJobLedger` |
| `approvals` | 4 turns, 2 wordings, 1 edit, 2 plans, 1 crash, both targets | `EvidenceFitsConfig`, `FinalNeedsSmoke`, `OneFinalPerPlan` |
| `ramp` | 4 loads, 2 consecutive rounds, 3 outcomes and a failed attack, 2 samples | `StopsAreEarned`, `HealthyStopsAreDegraded`, `VerdictIsLastRuling` |
| `blocked` | no crash | `ApprovalsReturn` is violated (section 6) |
| `latency` | 5 loads of good or slow rounds | `SustainedLatencyStops` is violated (section 6) |
| `success` | 5 loads of good or mostly failed rounds | `ReportedLoadWasReached` is violated (section 6) |

Bounds. Identities are never reused, so `TxIds` and `DetourIds` bound how many
turns and commands a behaviour has: two turns let one follow the other's commit, abort
or barrier (longer chains are covered by the theorems of section 4, which hold for any
number of turns), and two commands let one be resolved by, or
meet, another. `MaxChunks` bounds a stream (one recorded chunk and one more
message are enough to tell a prefix from a count), `MaxCrashes` the crashes (two: one
in a turn and one in the recovery from it). `Texts(MaxChunks + 1)` are the replies
a caller may complete a detour with; an external caller of `CompleteDetour` is not
restricted to the terminal's own. `SmallStore`, the constraint of `store`, keeps beside the
turns either one stream, or two commands that share a payload and one reply of at most one
message: a state outside is still checked but not continued, which is sound for the run's
properties, all of them safety. Symmetry is used only in runs without liveness
properties, over transactions, detours, payloads, messages and processes, none of which any
definition orders or names. Every run stops where its identities are used up, so deadlock is
not checked.

In SecretRegistry, `MaxRevision` bounds the registry revisions at which a caller outside
a turn still writes (an authorization one later, so that it can follow a store); two
transactions let one clear, overwrite, wait for or reconcile the other. In
ExecutionApprovals, `MaxTurns`, `MaxEdits`, `MaxPlans` and `MaxCrashes` bound a
conversation: four turns are a smoke, its observation, a final benchmark and one repetition or
edit between them; two plans distinguish a repeated preparation; one crash makes an
approval repeat. In QpsRamp, `Levels` is the ladder and `Consecutive` the number of rounds
(3 in the code): four loads with 2 let a count be started, forgiven and started again. The
outcomes of `ramp` are a good round, one of low success, and one without any good answer;
rounds of high success that are only slow are those of `latency`.

Fairness. `FairRuntimeSpec` assumes the runtime, one thread of straight-line code
whose turns have an absolute deadline, keeps going, and that an operator starts the
program again after it ended. `FairSessionsSpec` assumes the same of a CLI
process, and that its operator answers a reconciliation barrier. It does not assume
that a crash stops happening (crashes are bounded), that a user types anything else, or that a
stream ends other than by its deadline. `BenchmarkJobs!Spec` assumes that a submission which
is not killed goes on (it never waits for anything but the lock), nothing of workers or
commands. The liveness runs have a ready provider
(`MayBeBlocked = FALSE`): without one, the replay of outcomes never starts.

## 4. What is proved

`TurnTransactionsProofs.tla`, for all values of the constants that satisfy the named
assumptions of TurnTransactions (distinguished values lie outside the sets they mark;
callers pass known effect classes; `MaxChunks` is a number):

* `ChainTheorem`: `[](CommitsFormOneChain /\ TablesAgree)`. Their conjunction with the
  types of the turn tables, `Turns`, is inductive. `TablesAgree` alone lets a commit
  start from an unknown base; `CommitsFormOneChain` needs both to know that the head a
  commit is based on is the product of the highest committed revision. Detour actions
  leave these tables alone except one, which adds a resolution.
* `TypeTheorem`: `[]TypeOK`. The fence a detour is given is typed from the chain
  (`QuietFence`: with no pending event the highest published event is the head's).
* `AuthorityTheorem`: `[](OneOpenAuthority /\ ActiveAttemptCanClose)`. The inductive
  invariant `Authority` adds that detours and attempts exclude each other *with the
  head fixed*, so that what is open always rests on the current head.
* `HeadMoveTheorem`: `HeadMovesOnlyByCommit`, step by step from the same invariant.
* `FenceTheorem`: `[]FenceCoversHead`, from the chain and `QuietFence`.
* `ReadableTheorem`: `[]RowsStayReadable`, split into the outcomes, which detours never
  touch, and the detours, whose fence must name a published outcome (`FenceIsPublished`).
  `OutcomeReads` and `DetourReads` are the checks `_outcome_from_row` and
  `_validate_detour_semantics` make on every read.
* `StreamsTheorem`: `[]StreamsAreReplayable`, from `ReadableTheorem` and the types.
* `RepliesTheorem`: `[]RepliesAnswerResolutions`. The invariant says, per verdict, that the
  replies are as many as the turns and commands they answer (`Matched`), and that a command
  not there yet answers nothing.
* `RefinementTheorem`: `Spec => ImplementsProductHead`. Initial states map to initial
  states, each closing of an attempt maps to Accept, Drop or Suspect (`FinishMaps`), a
  resolution to Settle, and everything the terminal does to a stutter.

`BenchmarkJobsProofs.tla`, for any sets of submitters, jobs and requests that satisfy
`RequestsAssumption` (a plan is submitted by one route, and a fake-node smoke has a base of
its own), `MarksAssumption` and `EntriesAssumption` (the marks for "none" lie outside the
sets they mark). The inductive invariant is `IInv == TypeOK /\ Calls /\ Owners /\ Runs /\
Evidence`: what a call of `submit_job` knows of the job it holds, under the lock or after
it; nobody but the call that created a job has a hand in it before it runs; a key has one
job, started at most once, and a process that has not begun still finds the record as
"running"; and a record says of its command and results only what is so (`Truthful`).

* `TypeTheorem`, `OneRunTheorem`, `KindTheorem`: `TypeOK`, `OneRunPerKey` and
  `AnsweredInKind` follow from it at once. `OneRunPerKey` alone is not inductive: it says
  nothing of a call that has looked, found no job and not yet written one, which `Calls`
  can only promise because the lock is held over both.
* `ResultsStayTheorem`: `ResultsStay`, action by action: only a record still "pending" or
  "running" is written again, since a process with something left to record finds it
  "running" (`Runs`) and a submitter that refuses or simulates finds it "pending" (`Owners`).
* `LedgerTheorem`: `Spec => ImplementsJobLedger`. The entry of a key is the entry of its one
  job (`EntryFacts`), so a step changes one entry at most (`EntryChanges`): creating a job
  opens it, the command's end settles it, and every rewriting of the record either shows
  what is already so or leaves the entry alone.

`QpsRampProofs.tla`, for ladders of any length, any measurements and samples, under
`RampAssumption`. The inductive invariant `IInv` says that the loads above the current one
are untouched (`Ahead`), that the best load is the highest one the executor accepted
(`BestAccepted`), that
the status file repeats the executor (`StatusTold`), that the detector's status is its last
judgement (`Ruling`), and that the executor's count is at most the number of confirmed rounds
since the last false positive (`CountIsEarned`); the last has a part for every phase, since
the executor counts its own look before the detector has spoken.

* `EarnedTheorem`, `VerdictTheorem`: `StopsAreEarned`, `VerdictIsLastRuling`.
* `ReportTheorem`: `ReportedLoadWasReached`, on the hypothesis that no outcome has a success
  rate between 1 % and the threshold. Without it the run `success` refutes the property; with
  it, nothing else keeps the status file from naming the highest load that met the thresholds.
* `HealthyTheorem`: `HealthyStopsAreDegraded`, if `Consecutive >= 2` (the code has 3).
  `RateIsCounted` adds that the detector's count of bad rates is about the latest measured
  rounds. With 1 the property is false: a single slow round reaches the latency counter. The
  property counts low success rates only. That slow rounds of high success never stop the
  ladder is due to the defect of the run `latency`: were it mended, both the property and the
  theorem would have to count them too.

* `RampTypeTheorem`: `[]TypeOK`. Its bounds need `CountsFit` and `Told`: no counter, and no
  counter a report repeats, exceeds the number of loads offered so far.

`TerminalSessionsProofs.tla`, for any number of processes, turns, detours and crashes, under
the store's assumptions and one more: `"read_only"` is among the effect classes, because every
command of the terminal is prepared with it (`terminal/repl.py:736`).

* `SessionsUseStore`: `SessionsSpec => Spec`. Every step of a process is one of the store's
  (`StoreAct`), so each theorem about the store holds of processes side by side. The step
  that has to be argued is a recovery, which rebuilds a result from the chunks: they must not
  be more than the store takes (`ChunksBounded`).
* `SessionsInv == Store /\ Processes /\ Work /\ Shown` is inductive. `Processes`: one process
  has the harness, and each row fits its step. `Work`: whoever runs a turn has the active
  attempt, and whatever is being displayed is closed and published, or completed. `Shown`: so
  is whatever was ever projected.
* `SessionsTypeTheorem`, `LiveTurnTheorem`, `DeliveredTheorem`, `ProjectionsTheorem`:
  `SessionsTypeOK`, `LiveTurnIsActive`, `DeliveredWasProjected`, `ProjectionsAreSettled`.
  `LiveTurnIsActive` is not inductive by itself: it needs the lease (`Processes`) for the turn
  nobody else can close, and the store's `Authority` for the attempt no command can replace.

`RuntimeObservationsProofs.tla`, for any transactions, repository revisions and crashes,
both initial states and every choice of the two faults, under the store's assumptions.

* `RuntimeUsesStore`: every step of the runtime is the store's `[Next]_vars`, and the store's
  chain and authority hold of it. `RuntimeSpec` does not imply the store's `Spec`: a
  run may start from a committed revision, which the store's `Init` excludes, so the store's
  inductive invariants are carried into this one (`Stored`) and proved again from here.
* `RuntimeInv` adds what the runtime's position says of store and log (`Phases`): an observer
  has a committed turn that is not logged, a marker has one whose record is the last whole
  one, a rebuild has published every revision before its own, a quarantine begins only when
  nothing is called published, and a presentation has read its evidence.
* `RuntimeTypeTheorem`, `LogTheorem`, `ReceiptTheorem`, `InvokedTheorem`: `RuntimeTypeOK`,
  `LogHoldsCommitsOnce`, `PublishedIsLogged`, `InvokedIsNeverAborted`.
* `PresentationTheorem`: `PresentationFollowsEvidence`, an action property: no step but a
  presentation acknowledges a committed turn (`OnlyPresentationDelivers`), and `Presenting`
  holds the evidence.
* `OrderTheorem`: `[]LogInRevisionOrder`, if `~CanUpgrade` and `~CanTear`: the setting of the
  run `steady`. With a migration the property is false (section 6), which is why these are
  hypotheses and not a weaker property. `Steady` adds that the log is behind the store by
  the turn being closed, at most (`CaughtUp`).

`SecretRegistryProofs.tla`, for any transactions and any finite set of references (a registry
is a dictionary of the references some turn named).

* `RegistryInvariant`: `RegistryInv`. `ReservationsAreHeld` says who holds what; to keep it,
  one must know that a version stands for one content (`VersionsFit`), that what was
  prepared is still in the registry (`PreparedHolds`) and that what was published is there
  until it is decided (`PublishedHolds`). The undo of a clear takes a reference back without
  counting its version up; `PublishedHolds` therefore also says that nobody else has read it.
* `SecretTypeTheorem`, `ReservationsTheorem`, `ReadsTheorem`: `TypeOK`, `ReservationsAreHeld`,
  `ReadsAreSettled`.
* `SecretsTheorem`: `Spec => ImplementsAtomicSecrets`, under the mapping of `Settled` and of
  one status per transaction. What a turn reads or plans to write maps to Work, its decision
  to Commit or Drop, a call from outside to Direct or DirectWipe; publication, undoing and
  finalization change what is in the registry and map to stutters.

`ExecutionApprovalsProofs.tla`, for any turns, edits, plans and wordings, under
`ApprovalsAssumption` (the bounds are numbers; the marks for "none" lie outside what they mark).

* `ApprovalsInvariant`: `ApprovalsInv`. What a head says of the jobs it names is true of them
  (`HeadHolds`), and a head without an answered preflight says nothing (`Bare`): without that,
  an edit, which resets only groups that are not invalidated yet, could leave the evidence of
  another configuration. A turn works on a draft of the head, so `HeadHolds` of the draft is
  followed through the four steps of an approval (`TurnKnows`).
* `ApprovalsTypeTheorem`, `EvidenceTheorem`, `SmokeTheorem`, `OneFinalTheorem`: `TypeOK`,
  `EvidenceFitsConfig`, `FinalNeedsSmoke`, `OneFinalPerPlan`. The last rests on `LedgerHolds`:
  each preflight prepares a plan of its own, so no two requests have smoked one plan.
* `ApprovalsUseLedger`: `Spec => Jobs!Spec`. The ledger the approvals see changes as `JobLedger`
  allows, and `LedgerTheorem` says the same of the ledger the job manager keeps: the two are
  specified against one abstraction, in place of a composition of both.

Left to TLC is what a proof of an invariant or of a step does not reach: liveness under
fairness (`RestartServes`, `ObservationsCatchUp`, `InterruptedTurnsClose`, `OutcomesShown`,
`CommandsAnswered`), `SubmissionsReturn` of the jobs, and the three runs that show a violation.
The type invariants of RuntimeObservations, TerminalSessions, SecretRegistry,
ExecutionApprovals and QpsRamp are proved whether or not a run lists them; the fit of each
state to the code is a matter of reading, and not of either tool.

## 5. Hazards

PROJECT.json lists what in this code is hard to test, each at its line, with the
properties that would notice. Those without a property are reached by a model
whose documents do not say what should happen (a command completed by another
process's recovery, a flag that outlives its cause), or are described in section 6.

## 6. Disagreements between the code and what it says

* `blocked` (`agent/harness/coordinator.py:4028`): a preflight that blocks, a submission that
  fails, or a job that fails at once comes back to the commit step as `completion="blocked"` with a recovery command and
  no `blocker`. The step therefore does not count as rejected, `_record_execution_approval`
  finds no successful submission and raises, and the evidence that an effect was invoked turns
  the attempt into a reconciliation barrier. The recovery question, which would name the
  concrete blocker the verification guide promises, is never committed.
* `latency` (`monitoring/bottleneck_detector.sh:715`): `check_qps_bottleneck` looks for
  `qps_*_report.txt`, which nothing writes, and resets the latency counter it shares
  with `check_rpc_performance_bottleneck` on every run: latency alone never reaches the
  consecutive count, however slow the node.

* `success` (`core/master_qps_executor.sh:828`): the success rate, already in per cent (819), is
  multiplied by 100 again before it is compared with `SUCCESS_RATE_THRESHOLD` (95 %,
  `config/internal_config.sh:54`; the message of line 836 says `required>95%`). One good answer in
  a hundred passes: a load that mostly failed is recorded as the last successful one, reported
  as the maximum, and does not end a bounded ladder.

Also seen, without a run of their own:

* a checkpoint migration (`graph.py:1352`) commits a revision without an observation; the next
  turn logs revision n+1, the following scan appends n behind it, and every scan after that
  refuses the log (`LogInRevisionOrder` is therefore checked without migrations, in `steady`);
* a record is stamped with the repository's revision at the time of writing (`graph.py:1610`),
  its validator compares it with the one the attempt began at: an edit of the working tree
  during a turn leaves a record that is refused for ever;
* a partial append (`terminal_protocol.py:1404`) is not undone, and every later reader raises;
* a command prepared without the lease before the first head exists (`TT:1225`) can never
  be completed once another process bootstraps it, and blocks every turn;
* a barrier at revision 0 (`terminal_protocol.py:1031`) cannot be answered: a ready start must
  announce a revision of at least 1 before it reaches the prompt;
* the operator's `reconcile` reply is a detour row without the publication fence
  `docs/en/adk-agent-architecture.md:323-327` gives to every detour (`TT:1583`;
  `FenceCoversHead` excludes these rows);
* `prepare_turn_step` (`coordinator.py:1456`) installs the question for the final benchmark
  when the smoke has completed, and the same turn's text is then matched with it (1624-1629):
  a user may answer a question that was not shown yet;
* an edit drops a running job from the conversation (`coordinator.py:5227`), while
  `performance.py:496` keeps one whose group was already invalidated;
* the worker's result may be overwritten by the submitter's write of `worker_pid`
  (`job_manager.py:205`); `ResultsStay` exempts that write. A submitter or worker killed after
  "running" is written (`job_manager.py:187`) leaves a job that stays running and is reused by
  every later submission of its key;
* the count of bottlenecks (`master_qps_executor.sh:408`) survives rounds in which neither program
  saw one, although `config/internal_config.sh:37-38` says "consecutive" (`StopsAreEarned`
  allows it); the node's flag (`block_height_monitor.sh:240`) survives the
  node's recovery; a disk at its limit is named after counters that are never raised, so a disk-only
  bottleneck has no type and is reported as `Node_Unhealthy`.

## 7. Not modelled, and why

Planning, semantic admission, and the domains other than execution (about 50 000 lines) run inside one
turn, in one thread, and end in one checkpoint: the models take any checkpoint. Their
correctness is about texts and contracts and their data is out of TLC's reach. Record
hashing and field validators are tables of checks without an order. Schema
migrations v1 to v15 rewrite one version's rows into the next. Providers,
pipeline assembly, the attribution proxy, analysis, charts, adapters and deployment keep
no state of their own, or only a counter behind a mutex. Of the secret registry, the bindings a
checkpoint keeps of its references are left out (a re-entered secret is a `StoreSecret`); of the approvals, the sync-observe workflow; of the
monitors, the list of events and the start and stop of processes; of the detector, which CSV column
a value comes from, and a detector that ends with an error (the executor reads it as "no bottleneck").

## 8. Plan

Done: store, abstract head, runtime and log, terminal sessions, secrets, jobs, approvals, the
ladder, and for each of them the proofs of section 4.

1. `ActionQueue` (`agent/harness/queue.py`): the order of one batch as a function, against a
   reference (every order respects the dependencies; ties keep the semantic order).
2. The composition of SecretRegistry's `decided` with the attempts of TurnTransactions (a turn
   finalizes its secrets exactly if its attempt commits), and the theorem that `decided`
   there is an abstraction of the store's verdicts.
3. The event list of `unified_event_manager.sh`.
