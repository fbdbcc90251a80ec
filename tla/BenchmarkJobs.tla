---------------------------- MODULE BenchmarkJobs ---------------------------
(***************************************************************************)
(* agent/runners/job_manager.py, job_worker.py and result_status.py: the   *)
(* jobs of one jobs directory.  Submitters (terminals, command lines) look *)
(* for a job with the execution key of their plan under a file lock and    *)
(* create one if there is none; the command then runs in a detached worker *)
(* or in the submitter.  job.json is the only state shared: every writer   *)
(* replaces the whole file.  Any process may be killed between two steps.  *)
(***************************************************************************)
EXTENDS Naturals, FiniteSets

CONSTANTS Submitters,   \* calls of submit_job
          Jobs,         \* job ids
          Requests,     \* what may be submitted: Requests \subseteq RequestType
          Bases, Plans, \* idempotency keys of callers; approved plan files
          NoRequest, NoJob, NoRecord, NoOutput, NoSubmitter

Kinds == {"fake_node_smoke", "real_node_smoke", "final_benchmark"}
Modes == {"mock", "detached", "foreground"}
RequestType == [base : Bases, plan : Plans, kind : Kinds, mode : Modes]

KeyWithoutKind(r) == <<r.base>>      \* defect: smoke and benchmark share the key

(* The key a plan is submitted under: a smoke on the real node keeps its   *)
(* own, a smoke on the fake node and the final benchmark keep the caller's. *)
Key(r) == IF r.kind = "real_node_smoke" THEN <<r.base, "real-node-smoke">>
                                        ELSE <<r.base>>
Keys == {Key(r) : r \in Requests}

(* BLOCKCHAIN_BENCHMARK_DATA_DIR of the derived plan.                      *)
DataDir(r) == <<r.kind, r.plan>>
Dirs == {DataDir(r) : r \in Requests}

(* A plan is approved in a conversation or submitted from the command line, *)
(* not both: each has a base of its own.  A conversation that smokes on the *)
(* fake node has no final benchmark.                                       *)
ASSUME RequestsAssumption ==
    /\ Requests \subseteq RequestType
    /\ \A r, q \in Requests : r.plan = q.plan => r.base = q.base
    /\ \A r, q \in Requests :
          r.base = q.base /\ r.kind = "fake_node_smoke" => q.kind = r.kind

VARIABLES lock,    \* who holds .submission.lock
          sub,     \* the calls of submit_job
          file,    \* job.json of every job
          work,    \* who runs a job: its detached worker or its submitter
          cmd,     \* the benchmark command of a job, a process of its own
          starts,  \* how often a job's command was started
          output   \* what a data directory holds: the latest run's results

vars == <<lock, sub, file, work, cmd, starts, output>>

Qualities == {"complete", "incomplete", "unsuccessful", "malformed"}
Outputs == [by : Jobs, quality : Qualities] \cup {NoOutput}
Exits == {"zero", "nonzero"}
Records == [request : Requests,
            status : {"pending", "running", "failed", "partial", "completed"},
            exit : Exits \cup {"unset"},
            evidence : Outputs,          \* artifacts
            validated : BOOLEAN]         \* result_validation is present
SubRows == [at : {"idle", "waiting", "looking", "creating", "created",
                  "launching", "naming", "attending", "returned", "crashed"},
            request : Requests \cup {NoRequest},
            job : Jobs \cup {NoJob}]
WorkRows == [at : {"none", "launched", "waiting", "settled", "done", "dead"},
             copy : Records \cup {NoRecord}]

ASSUME MarksAssumption == /\ NoRecord \notin Records /\ NoJob \notin Jobs
                          /\ NoOutput \notin [by : Jobs, quality : Qualities]
                          /\ NoSubmitter \notin Submitters

NewRecord(r, status) == [request |-> r, status |-> status, exit |-> "unset",
                         evidence |-> NoOutput, validated |-> FALSE]
Stored == {j \in Jobs : file[j] # NoRecord}
JobsByKey(k) == {j \in Stored : Key(file[j].request) = k}
Request(j) == file[j].request
Settled(record) == record # NoRecord /\ record.status \notin {"pending", "running"}

Init == /\ lock = NoSubmitter
        /\ sub = [s \in Submitters |->
                     [at |-> "idle", request |-> NoRequest, job |-> NoJob]]
        /\ file = [j \in Jobs |-> NoRecord]
        /\ work = [j \in Jobs |-> [at |-> "none", copy |-> NoRecord]]
        /\ cmd = [j \in Jobs |-> "none"]
        /\ starts = [j \in Jobs |-> 0]
        /\ output = [d \in Dirs |-> NoOutput]
-----------------------------------------------------------------------------
Goes(s, at) == sub' = [sub EXCEPT ![s].at = at]
Write(j, record) == file' = [file EXCEPT ![j] = record]
WorkGoes(j, at) == work' = [work EXCEPT ![j].at = at]
Settles(j, record) == work' = [work EXCEPT ![j] = [at |-> "settled", copy |-> record]]

Submit(s, r) == /\ sub[s].at = "idle"
                /\ sub' = [sub EXCEPT ![s].at = "waiting", ![s].request = r]
                /\ UNCHANGED <<lock, file, work, cmd, starts, output>>

LockUnshared(s) == /\ sub[s].at = "waiting"      \* defect: a lock of each process
                   /\ Goes(s, "looking")
                   /\ UNCHANGED <<lock, file, work, cmd, starts, output>>

Lock(s) == /\ sub[s].at = "waiting"
           /\ lock = NoSubmitter
           /\ lock' = s
           /\ Goes(s, "looking")
           /\ UNCHANGED <<file, work, cmd, starts, output>>

RestartFailed(s) == /\ sub[s].at = "looking"      \* defect: a failed job runs again
                    /\ \E j \in JobsByKey(Key(sub[s].request)) :
                          /\ sub' = [sub EXCEPT ![s].at = "returned", ![s].job = j]
                          /\ IF file[j].status = "failed"
                               THEN /\ Write(j, NewRecord(sub[s].request, "running"))
                                    /\ WorkGoes(j, "launched")
                               ELSE UNCHANGED <<file, work>>
                    /\ lock' = NoSubmitter
                    /\ UNCHANGED <<cmd, starts, output>>

(* A job with this key answers the call, whatever became of it.            *)
Reuse(s) == /\ sub[s].at = "looking"
            /\ \E j \in JobsByKey(Key(sub[s].request)) :
                  sub' = [sub EXCEPT ![s].at = "returned", ![s].job = j]
            /\ lock' = NoSubmitter
            /\ UNCHANGED <<file, work, cmd, starts, output>>

FindNone(s) == /\ sub[s].at = "looking"
               /\ JobsByKey(Key(sub[s].request)) = {}
               /\ Goes(s, "creating")
               /\ UNCHANGED <<lock, file, work, cmd, starts, output>>

Create(s, j) == /\ sub[s].at = "creating"
                /\ j \notin Stored
                /\ Write(j, NewRecord(sub[s].request, "pending"))
                /\ sub' = [sub EXCEPT ![s].at = "created", ![s].job = j]
                /\ lock' = NoSubmitter
                /\ UNCHANGED <<work, cmd, starts, output>>

(* The guardrails reject the plan: the job fails without having run.       *)
Refuse(s) == /\ sub[s].at = "created"
             /\ sub[s].request.mode # "mock"
             /\ Write(sub[s].job, NewRecord(sub[s].request, "failed"))
             /\ Goes(s, "returned")
             /\ UNCHANGED <<lock, work, cmd, starts, output>>

Simulate(s) == /\ sub[s].at = "created"
               /\ sub[s].request.mode = "mock"
               /\ Write(sub[s].job, NewRecord(sub[s].request, "completed"))
               /\ Goes(s, "returned")
               /\ UNCHANGED <<lock, work, cmd, starts, output>>

StartRunning(s) == /\ sub[s].at = "created"
                   /\ sub[s].request.mode # "mock"
                   /\ Write(sub[s].job, NewRecord(sub[s].request, "running"))
                   /\ IF sub[s].request.mode = "detached"
                        THEN Goes(s, "launching") /\ UNCHANGED work
                        ELSE Goes(s, "attending") /\ WorkGoes(sub[s].job, "launched")
                   /\ UNCHANGED <<lock, cmd, starts, output>>

Launch(s) == /\ sub[s].at = "launching"
             /\ WorkGoes(sub[s].job, "launched")
             /\ Goes(s, "naming")
             /\ UNCHANGED <<lock, file, cmd, starts, output>>

(* The submitter adds worker_pid to its own copy and writes that: a worker *)
(* that has already recorded its result loses it.                          *)
WritePid(s) == /\ sub[s].at = "naming"
               /\ Write(sub[s].job, NewRecord(sub[s].request, "running"))
               /\ Goes(s, "returned")
               /\ UNCHANGED <<lock, work, cmd, starts, output>>
-----------------------------------------------------------------------------
RunCommand(j) == /\ work[j].at = "launched"
                 /\ cmd' = [cmd EXCEPT ![j] = "running"]
                 /\ starts' = [starts EXCEPT ![j] = @ + 1]
                 /\ WorkGoes(j, "waiting")
                 /\ UNCHANGED <<lock, sub, file, output>>

(* The command ends, with or without results in its data directory; it is  *)
(* a process of its own and outlives whoever started it.                   *)
CommandEnds(j) == /\ cmd[j] = "running"
                  /\ \E exit \in Exits : cmd' = [cmd EXCEPT ![j] = exit]
                  /\ \/ UNCHANGED output
                     \/ \E q \in Qualities :
                           output' = [output EXCEPT ![DataDir(Request(j))] =
                                         [by |-> j, quality |-> q]]
                  /\ UNCHANGED <<lock, sub, file, work, starts>>

QualityOf(evidence) == IF evidence = NoOutput THEN "absent" ELSE evidence.quality
Readable(evidence) == QualityOf(evidence) # "malformed"

VerdictByExit(exit, evidence) ==     \* defect: the exit code alone is believed
    IF exit = "zero" THEN "completed" ELSE "failed"

Verdict(exit, evidence) ==
    CASE exit # "zero" \/ QualityOf(evidence) = "unsuccessful" -> "failed"
      [] exit = "zero" /\ QualityOf(evidence) \in {"absent", "incomplete"} -> "partial"
      [] exit = "zero" /\ QualityOf(evidence) = "complete" -> "completed"

Classified(record, exit) ==
    [record EXCEPT !.status = Verdict(exit, record.evidence), !.exit = exit,
                   !.validated = TRUE]

Ended(j) == work[j].at = "waiting" /\ cmd[j] \in Exits
Running(j) == NewRecord(Request(j), "running")

(* The artifacts of the data directory's latest run are found and judged.  *)
Settle(j) == LET found == output[DataDir(Request(j))] IN
             /\ Ended(j)
             /\ Readable(found)
             /\ Settles(j, Classified([Running(j) EXCEPT !.evidence = found], cmd[j]))
             /\ UNCHANGED <<lock, sub, file, cmd, starts, output>>

(* An exception on the way; only a detached worker has set exit_code.      *)
Trip(j) == LET found == output[DataDir(Request(j))]
               exit == IF Ended(j) /\ Request(j).mode = "detached" THEN cmd[j]
                                                                   ELSE "unset" IN
           /\ work[j].at = "launched" \/ Ended(j)
           /\ \E evidence \in {NoOutput} \cup
                  (IF Ended(j) /\ ~Readable(found) THEN {found} ELSE {}) :
                 Settles(j, [Running(j) EXCEPT !.status = "failed", !.exit = exit,
                                               !.evidence = evidence])
           /\ UNCHANGED <<lock, sub, file, cmd, starts, output>>

Record(j) == /\ work[j].at = "settled"
             /\ Write(j, work[j].copy)
             /\ work' = [work EXCEPT ![j] = [at |-> "done", copy |-> NoRecord]]
             /\ sub' = [s \in Submitters |->
                           IF sub[s].at = "attending" /\ sub[s].job = j
                             THEN [sub[s] EXCEPT !.at = "returned"] ELSE sub[s]]
             /\ UNCHANGED <<lock, cmd, starts, output>>
-----------------------------------------------------------------------------
(* get_job: a result recorded without validation is judged when it is read. *)
View(record) ==
    IF \/ record.validated \/ record.request.mode = "mock"
       \/ record.status \notin {"completed", "failed"}
       \/ ~Readable(record.evidence) THEN record
    ELSE [Classified(record, IF record.exit = "unset" THEN "nonzero" ELSE record.exit)
            EXCEPT !.exit = record.exit]

Migrate(j) == /\ j \in Stored
              /\ View(file[j]) # file[j]
              /\ Write(j, View(file[j]))
              /\ UNCHANGED <<lock, sub, work, cmd, starts, output>>

KeepLock(s) == /\ sub[s].at \notin {"idle", "returned", "crashed"}
               /\ Goes(s, "crashed")      \* defect: the lock is a file left behind
               /\ IF sub[s].at = "attending" THEN WorkGoes(sub[s].job, "dead")
                                             ELSE UNCHANGED work
               /\ UNCHANGED <<lock, file, cmd, starts, output>>

(* A killed submitter loses the lock and a command it attends goes on.     *)
CrashSubmitter(s) == /\ sub[s].at \notin {"idle", "returned", "crashed"}
                     /\ Goes(s, "crashed")
                     /\ lock' = IF lock = s THEN NoSubmitter ELSE lock
                     /\ IF sub[s].at = "attending" THEN WorkGoes(sub[s].job, "dead")
                                                   ELSE UNCHANGED work
                     /\ UNCHANGED <<file, cmd, starts, output>>

CrashWorker(j) == /\ work[j].at \in {"launched", "waiting", "settled"}
                  /\ Request(j).mode = "detached"
                  /\ WorkGoes(j, "dead")
                  /\ UNCHANGED <<lock, sub, file, cmd, starts, output>>

Call(s) == \/ Lock(s) \/ Reuse(s) \/ FindNone(s) \/ (\E j \in Jobs : Create(s, j))
           \/ Refuse(s) \/ Simulate(s) \/ StartRunning(s) \/ Launch(s) \/ WritePid(s)

Next == \/ \E s \in Submitters : \/ \E r \in Requests : Submit(s, r)
                                 \/ Call(s) \/ CrashSubmitter(s)
        \/ \E j \in Jobs : \/ RunCommand(j) \/ CommandEnds(j) \/ Settle(j)
                           \/ Trip(j) \/ Record(j) \/ Migrate(j) \/ CrashWorker(j)

(* A process that is not killed goes on; a command may run for ever.       *)
Spec == Init /\ [][Next]_vars /\ \A s \in Submitters : WF_vars(Call(s))
-----------------------------------------------------------------------------
(* The rows have their types, the lock is held by the submitter that looks *)
(* for a job, and no process works for a job that has no record.           *)
TypeOK == /\ lock \in Submitters \cup {NoSubmitter}
          /\ sub \in [Submitters -> SubRows]
          /\ file \in [Jobs -> Records \cup {NoRecord}]
          /\ work \in [Jobs -> WorkRows]
          /\ cmd \in [Jobs -> {"none", "running"} \cup Exits]
          /\ starts \in [Jobs -> Nat]
          /\ output \in [Dirs -> Outputs]
          /\ \A s \in Submitters : sub[s].at \in {"looking", "creating"} <=> lock = s
          /\ \A j \in Jobs \ Stored : work[j].at = "none" /\ cmd[j] = "none"

(* However submissions race, retry and die, an execution key has one job   *)
(* and a retry never runs a benchmark a second time (submit_job's lookup   *)
(* and creation under .submission.lock).                                   *)
OneRunPerKey == \A i, j \in Stored :
                   /\ starts[j] <= 1
                   /\ Key(Request(i)) = Key(Request(j)) => i = j

(* The job a submission is answered with runs what was submitted: the smoke *)
(* of a plan never stands for its final benchmark (_real_node_smoke_plan). *)
AnsweredInKind == \A s \in Submitters :
                     sub[s].job # NoJob => Request(sub[s].job).kind = sub[s].request.kind

(* A recorded result changes only by the explicit migration or by the write *)
(* of worker_pid: no retry, late worker or other submitter takes it back.  *)
BeingNamed(j) == \E s \in Submitters : sub[s].at = "naming" /\ sub[s].job = j
ResultsStay == [][\A j \in Jobs : Settled(file[j]) /\ ~BeingNamed(j)
                                    => file'[j] \in {file[j], View(file[j])}]_vars

(* Every submission is answered or has become the command it attends: a    *)
(* killed submitter does not keep the lock.                                *)
SubmissionsReturn ==
    \A s \in Submitters : sub[s].at = "waiting" ~>
                             sub[s].at \in {"returned", "attending", "crashed"}

(* The records are the ledger of JobLedger.                                *)
EntryOf(j) ==
    [plan |-> Request(j).plan, simulated |-> Request(j).mode = "mock",
     ran |-> starts[j] > 0,
     good |-> /\ cmd[j] = "zero"
              /\ output[DataDir(Request(j))] = [by |-> j, quality |-> "complete"],
     status |-> file[j].status]
Ledger == INSTANCE JobLedger WITH ledger <-
              [k \in Keys |-> IF JobsByKey(k) = {} THEN NoJob
                              ELSE EntryOf(CHOOSE j \in JobsByKey(k) : TRUE)]
ASSUME EntriesAssumption == NoJob \notin Ledger!Entries

(* The jobs directory keeps the promises of JobLedger.tla to the other     *)
(* components: one job, one run for every key, "completed" only on its own *)
(* complete results.                                                       *)
ImplementsJobLedger == Ledger!Spec
=============================================================================
