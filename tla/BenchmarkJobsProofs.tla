------------------------- MODULE BenchmarkJobsProofs ------------------------
(***************************************************************************)
(* Proofs about BenchmarkJobs.tla, for any number of submitters, jobs and  *)
(* requests.                                                               *)
(***************************************************************************)
EXTENDS BenchmarkJobs, TLAPS

Owning(s) == sub[s].at \in {"created", "launching", "naming", "attending"}
At(s, at) == sub[s].at = at
JobOf(s) == sub[s].job

(* What a call of submit_job knows and holds.                              *)
Calls ==
    \A s \in Submitters :
       /\ sub[s].at # "idle" => sub[s].request \in Requests
       /\ sub[s].at \in {"idle", "waiting", "looking", "creating"} => JobOf(s) = NoJob
       /\ At(s, "creating") =>
             \A j \in Stored : Key(Request(j)) # Key(sub[s].request)
       /\ JobOf(s) # NoJob => /\ JobOf(s) \in Stored
                              /\ Key(Request(JobOf(s))) = Key(sub[s].request)
       /\ Owning(s) => JobOf(s) # NoJob /\ Request(JobOf(s)) = sub[s].request

(* Nobody but the call that created a job has a hand in it before it runs. *)
Owners ==
    /\ \A s, q \in Submitters :
          Owning(s) /\ Owning(q) /\ JobOf(s) = JobOf(q) => s = q
    /\ \A s \in Submitters :
          /\ sub[s].at \in {"created", "launching"} => work[JobOf(s)].at = "none"
          /\ At(s, "created") => file[JobOf(s)].status = "pending"
          /\ At(s, "launching") => file[JobOf(s)] = Running(JobOf(s))
          /\ sub[s].at \in {"launching", "naming"} => sub[s].request.mode = "detached"
          /\ At(s, "attending") => sub[s].request.mode = "foreground"

(* One job for a key, started at most once.                                *)
Runs ==
    /\ \A i, j \in Stored : Key(Request(i)) = Key(Request(j)) => i = j
    /\ \A j \in Jobs :
          /\ starts[j] \in {0, 1}
          /\ starts[j] = 0 <=> cmd[j] = "none"
          /\ j \notin Stored => work[j].at = "none"
          /\ work[j].at \in {"none", "launched"} => starts[j] = 0
          /\ work[j].at \in {"launched", "waiting", "settled"} =>
                /\ Request(j).mode # "mock"
                /\ file[j] = Running(j)

(* A record says of its job's command and results only what is so.         *)
Truthful(record, j) ==
    /\ record.request = Request(j)
    /\ record.exit # "unset" => record.exit = cmd[j]
    /\ record.evidence # NoOutput =>
          /\ cmd[j] \in Exits
          /\ record.evidence = output[DataDir(Request(j))]
          /\ record.evidence.by = j
    /\ record.status = "completed" =>
          \/ record.request.mode = "mock"
          \/ record.exit = "zero" /\ QualityOf(record.evidence) = "complete"

Evidence ==
    /\ \A d \in Dirs :
          output[d] # NoOutput => /\ output[d].by \in Stored
                                  /\ DataDir(Request(output[d].by)) = d
                                  /\ cmd[output[d].by] \in Exits
    /\ \A j \in Stored : Truthful(file[j], j)
    /\ \A j \in Jobs : work[j].at = "settled" =>
          Truthful(work[j].copy, j) /\ Settled(work[j].copy)

IInv == TypeOK /\ Calls /\ Owners /\ Runs /\ Evidence

LEMMA KeyKinds == \A r, q \in Requests : Key(r) = Key(q) => r.kind = q.kind
  BY RequestsAssumption DEF Key, RequestType, Kinds
LEMMA SameDir == \A r, q \in Requests : DataDir(r) = DataDir(q) => Key(r) = Key(q)
  BY RequestsAssumption DEF Key, DataDir, RequestType, Kinds

Ats == {"idle", "waiting", "looking", "creating", "created", "launching",
        "naming", "attending", "returned", "crashed"}

LEMMA GoesFacts ==
  ASSUME TypeOK, NEW s \in Submitters, NEW at \in Ats, Goes(s, at)
  PROVE /\ sub' \in [Submitters -> SubRows]
        /\ sub'[s].at = at
        /\ \A q \in Submitters : /\ sub'[q].request = sub[q].request
                                 /\ sub'[q].job = sub[q].job
                                 /\ q # s => sub'[q] = sub[q]
  BY DEF TypeOK, Goes, SubRows, Ats

LEMMA NewRecordType ==
  ASSUME NEW r \in Requests,
         NEW status \in {"pending", "running", "failed", "completed"}
  PROVE  /\ NewRecord(r, status) \in Records
         /\ NewRecord(r, status).request = r
         /\ NewRecord(r, status).status = status
         /\ NewRecord(r, status).exit = "unset"
         /\ NewRecord(r, status).evidence = NoOutput
  BY DEF NewRecord, Records, Outputs

LEMMA WriteFacts ==
  ASSUME TypeOK, NEW j \in Jobs, NEW record \in Records, Write(j, record)
  PROVE /\ file' \in [Jobs -> Records \cup {NoRecord}]
        /\ file'[j] = record /\ file'[j] # NoRecord
        /\ \A i \in Jobs : i # j => file'[i] = file[i]
  BY MarksAssumption DEF TypeOK, Write

LEMMA WorkGoesFacts ==
  ASSUME TypeOK, NEW j \in Jobs, NEW at \in {"launched", "waiting", "dead"},
         WorkGoes(j, at)
  PROVE /\ work' \in [Jobs -> WorkRows]
        /\ work'[j].at = at
        /\ \A i \in Jobs : i # j => work'[i] = work[i]
  BY DEF TypeOK, WorkGoes, WorkRows

LEMMA OwnerFacts ==
  ASSUME IInv, NEW s \in Submitters, Owning(s)
  PROVE /\ sub[s].job \in Jobs /\ file[sub[s].job] \in Records
        /\ file[sub[s].job].request = sub[s].request
        /\ sub[s].request \in Requests
  BY MarksAssumption DEF IInv, TypeOK, Calls, Owning, JobOf, Stored, Request, SubRows
LEMMA SubmitKeeps ==
  ASSUME IInv, NEW s \in Submitters, NEW r \in Requests, Submit(s, r)
  PROVE  IInv'
  <1>1. /\ sub' \in [Submitters -> SubRows]
        /\ sub[s].at = "idle" /\ sub'[s].at = "waiting"
        /\ sub'[s].request = r /\ sub'[s].job = sub[s].job
        /\ \A q \in Submitters : q # s => sub'[q] = sub[q]
    BY DEF Submit, IInv, TypeOK, SubRows
  <1>2. UNCHANGED <<lock, file, work, cmd, starts, output>>
    BY DEF Submit
  <1>3. TypeOK'
    BY <1>1, <1>2 DEF IInv, TypeOK, Stored
  <1>4. Calls'
    BY <1>1, <1>2 DEF IInv, Calls, Owning, At, JobOf, Stored, Request
  <1>5. Owners'
    BY <1>1, <1>2 DEF IInv, Owners, Owning, At, JobOf, Running, Request
  <1>6. Runs' /\ Evidence'
    BY <1>2 DEF IInv, Runs, Evidence, Truthful, Stored, Request, Running
  <1> QED  BY <1>3, <1>4, <1>5, <1>6 DEF IInv

(* The steps that only look for a job: no record, worker or run changes.   *)
LEMMA LookingKeeps ==
  ASSUME IInv, NEW s \in Submitters, Lock(s) \/ Reuse(s) \/ FindNone(s)
  PROVE  IInv'
  <1>1. /\ sub' \in [Submitters -> SubRows]
        /\ sub'[s].request = sub[s].request
        /\ sub[s].at \in {"waiting", "looking"}
        /\ \A q \in Submitters : q # s => sub'[q] = sub[q]
    BY DEF Lock, Reuse, FindNone, Goes, IInv, TypeOK, SubRows, JobsByKey, Stored
  <1>2. UNCHANGED <<file, work, cmd, starts, output>>
    BY DEF Lock, Reuse, FindNone
  <1>3. \/ Lock(s) /\ sub'[s].at = "looking" /\ sub'[s].job = sub[s].job
        \/ /\ Reuse(s) /\ sub'[s].at = "returned" /\ lock' = NoSubmitter
           /\ sub'[s].job \in Stored /\ sub'[s].job # NoJob
           /\ Key(Request(sub'[s].job)) = Key(sub[s].request)
        \/ FindNone(s) /\ sub'[s].at = "creating" /\ sub'[s].job = sub[s].job
    BY MarksAssumption
       DEF Lock, Reuse, FindNone, Goes, IInv, TypeOK, SubRows, JobsByKey, Stored, Request
  <1>4. TypeOK'
    BY <1>1, <1>2, <1>3, MarksAssumption
       DEF Lock, Reuse, FindNone, IInv, TypeOK, Stored
  <1>5. Calls'
    BY <1>1, <1>2, <1>3
       DEF FindNone, IInv, Calls, Owning, At, JobOf, Stored, Request, JobsByKey
  <1>6. Owners'
    BY <1>1, <1>2, <1>3 DEF IInv, Owners, Owning, At, JobOf, Running, Request
  <1>7. Runs' /\ Evidence'
    BY <1>2 DEF IInv, Runs, Evidence, Truthful, Stored, Request, Running
  <1> QED  BY <1>4, <1>5, <1>6, <1>7 DEF IInv

LEMMA CreateKeeps ==
  ASSUME IInv, NEW s \in Submitters, NEW j \in Jobs, Create(s, j)
  PROVE  IInv'
  <1> DEFINE r == sub[s].request
             record == NewRecord(r, "pending")
  <1>1. /\ sub' \in [Submitters -> SubRows]
        /\ sub[s].at = "creating" /\ sub'[s].at = "created"
        /\ sub'[s].request = r /\ sub'[s].job = j
        /\ \A q \in Submitters : q # s => sub'[q] = sub[q]
    BY DEF Create, IInv, TypeOK, SubRows
  <1>2. r \in Requests /\ j # NoJob /\ file[j] = NoRecord
    BY <1>1, MarksAssumption DEF Create, IInv, Calls, Stored
  <1>3. /\ record \in Records /\ record.request = r /\ record.status = "pending"
        /\ record.exit = "unset" /\ record.evidence = NoOutput
    BY <1>2, NewRecordType
  <1>4. /\ file' \in [Jobs -> Records \cup {NoRecord}]
        /\ file'[j] = record /\ file'[j] # NoRecord
        /\ \A i \in Jobs : i # j => file'[i] = file[i]
    BY <1>3, WriteFacts DEF Create, IInv
  <1>5. /\ lock' = NoSubmitter /\ lock = s
        /\ UNCHANGED <<work, cmd, starts, output>>
        /\ work[j].at = "none" /\ cmd[j] = "none"
        /\ \A i \in Stored : Key(Request(i)) # Key(r)
        /\ \A q \in Submitters : q # s => sub[q].at # "creating"
    BY <1>1, <1>2 DEF Create, IInv, TypeOK, Calls, At, Stored
  <1> HIDE DEF r, record
  <1>6. TypeOK'
    BY <1>1, <1>4, <1>5, MarksAssumption DEF IInv, TypeOK, Stored
  <1>7. Calls'
    BY <1>1, <1>2, <1>3, <1>4, <1>5
       DEF r, IInv, Calls, Owning, At, JobOf, Stored, Request
  <1>8. Owners'
    <2>1. \A q \in Submitters : q # s /\ Owning(q) => sub[q].job # j
      BY <1>2, OwnerFacts, MarksAssumption
    <2> QED
      BY <1>1, <1>3, <1>4, <1>5, <2>1
         DEF IInv, Owners, Calls, Owning, At, JobOf, Stored, Running, Request, NewRecord
  <1>9. Runs'
    BY <1>2, <1>3, <1>4, <1>5 DEF IInv, Runs, Stored, Request, Running
  <1>10. Evidence'
    BY <1>2, <1>3, <1>4, <1>5 DEF IInv, Evidence, Truthful, Stored, Request, Settled
  <1> QED  BY <1>6, <1>7, <1>8, <1>9, <1>10 DEF IInv

(* Refuse, Simulate and WritePid: the submitter writes the record of its   *)
(* job and returns.                                                        *)
LEMMA AnswerKeeps ==
  ASSUME IInv, NEW s \in Submitters, Owning(s),
         NEW status \in {"running", "failed", "completed"},
         status = "running" => sub[s].at = "naming",
         sub[s].at = "naming" => status = "running",
         sub[s].at \in {"created", "naming"},
         status = "completed" => sub[s].request.mode = "mock",
         Write(sub[s].job, NewRecord(sub[s].request, status)),
         Goes(s, "returned"),
         UNCHANGED <<lock, work, cmd, starts, output>>
  PROVE  IInv'
  <1> DEFINE j == sub[s].job
             r == sub[s].request
             record == NewRecord(r, status)
  <1>1. j \in Jobs /\ file[j] \in Records /\ file[j].request = r /\ r \in Requests
    BY OwnerFacts
  <1>2. /\ record \in Records /\ record.request = r /\ record.status = status
        /\ record.exit = "unset" /\ record.evidence = NoOutput
    BY <1>1, NewRecordType
  <1>3. /\ file' \in [Jobs -> Records \cup {NoRecord}]
        /\ file'[j] = record /\ file'[j] # NoRecord
        /\ \A i \in Jobs : i # j => file'[i] = file[i]
    BY <1>1, <1>2, WriteFacts DEF IInv
  <1>4. /\ sub' \in [Submitters -> SubRows]
        /\ sub'[s].at = "returned"
        /\ \A q \in Submitters : /\ sub'[q].request = sub[q].request
                                 /\ sub'[q].job = sub[q].job
                                 /\ q # s => sub'[q] = sub[q]
    BY GoesFacts DEF Ats, IInv
  <1>5. \A i \in Jobs : /\ file'[i] = NoRecord <=> file[i] = NoRecord
                        /\ file[i] # NoRecord => file'[i].request = file[i].request
    BY <1>1, <1>2, <1>3, MarksAssumption
  <1>6. \A q \in Submitters : q # s /\ Owning(q) => sub[q].job \in Jobs /\ sub[q].job # j
    BY OwnerFacts DEF IInv, Owners, JobOf
  <1>7. work[j].at \in {"launched", "waiting", "settled"} => record = NewRecord(r, "running")
    BY DEF IInv, Owners, JobOf
  <1> HIDE DEF j, r, record
  <1>8. TypeOK'
    BY <1>3, <1>4, <1>5 DEF Owning, IInv, TypeOK, Stored
  <1>9. Calls'
    BY <1>3, <1>4, <1>5 DEF IInv, Calls, Owning, At, JobOf, Stored, Request
  <1>10. Owners'
    BY <1>3, <1>4, <1>6 DEF IInv, Owners, Owning, At, JobOf, Running, Request
  <1>11. Runs'
    BY <1>1, <1>2, <1>3, <1>5, <1>7 DEF IInv, Runs, Stored, Request, Running
  <1>12. Evidence'
    BY <1>1, <1>2, <1>3, <1>5 DEF j, r, IInv, Evidence, Truthful, Stored, Request
  <1> QED  BY <1>8, <1>9, <1>10, <1>11, <1>12 DEF IInv

LEMMA StartRunningKeeps ==
  ASSUME IInv, NEW s \in Submitters, StartRunning(s)
  PROVE  IInv'
  <1> DEFINE j == sub[s].job
             r == sub[s].request
             record == NewRecord(r, "running")
  <1>1. /\ sub[s].at = "created" /\ Owning(s)
        /\ j \in Jobs /\ file[j] \in Records /\ file[j].request = r /\ r \in Requests
    BY OwnerFacts DEF StartRunning, Owning
  <1>2. /\ record \in Records /\ record.request = r /\ record.status = "running"
        /\ record.exit = "unset" /\ record.evidence = NoOutput
    BY <1>1, NewRecordType
  <1>3. /\ file' \in [Jobs -> Records \cup {NoRecord}]
        /\ file'[j] = record /\ file'[j] # NoRecord
        /\ \A i \in Jobs : i # j => file'[i] = file[i]
    BY <1>1, <1>2, WriteFacts DEF IInv, StartRunning
  <1>4. /\ sub' \in [Submitters -> SubRows]
        /\ sub'[s].at = IF r.mode = "detached" THEN "launching" ELSE "attending"
        /\ \A q \in Submitters : /\ sub'[q].request = sub[q].request
                                 /\ sub'[q].job = sub[q].job
                                 /\ q # s => sub'[q] = sub[q]
    BY GoesFacts DEF StartRunning, Ats, IInv
  <1>5. /\ work' \in [Jobs -> WorkRows]
        /\ r.mode = "detached" => work' = work
        /\ r.mode # "detached" => work'[j].at = "launched"
        /\ \A i \in Jobs : i # j => work'[i] = work[i]
    BY <1>1, WorkGoesFacts DEF StartRunning, IInv, TypeOK
  <1>6. \A i \in Jobs : /\ file'[i] = NoRecord <=> file[i] = NoRecord
                        /\ file[i] # NoRecord => file'[i].request = file[i].request
    BY <1>1, <1>2, <1>3, MarksAssumption
  <1>7. \A q \in Submitters : q # s /\ Owning(q) => sub[q].job \in Jobs /\ sub[q].job # j
    BY <1>1, OwnerFacts DEF IInv, Owners, JobOf
  <1>8. work[j].at = "none" /\ starts[j] = 0 /\ cmd[j] = "none"
    BY <1>1 DEF IInv, Owners, Runs, JobOf
  <1>9. r.mode \in {"detached", "foreground"}
    BY <1>1, RequestsAssumption DEF StartRunning, RequestType, Modes
  <1>10. UNCHANGED <<lock, cmd, starts, output>>
    BY DEF StartRunning
  <1> HIDE DEF j, r, record
  <1>11. TypeOK'
    BY <1>1, <1>3, <1>4, <1>5, <1>6, <1>10 DEF IInv, TypeOK, Stored
  <1>12. Calls'
    BY <1>1, <1>3, <1>4, <1>6, <1>10
       DEF IInv, Calls, Owning, At, JobOf, Stored, Request
  <1>13. Owners'
    <2>1. \A q, p \in Submitters :
             Owning(q)' /\ Owning(p)' /\ JobOf(q)' = JobOf(p)' => q = p
      BY <1>1, <1>4 DEF IInv, Owners, Owning, JobOf
    <2>2. ASSUME NEW q \in Submitters, q # s
          PROVE  /\ sub'[q].at \in {"created", "launching"} => work'[sub'[q].job].at = "none"
                 /\ sub'[q].at = "created" => file'[sub'[q].job].status = "pending"
                 /\ sub'[q].at = "launching" =>
                      file'[sub'[q].job] = NewRecord(file'[sub'[q].job].request, "running")
                 /\ sub'[q].at \in {"launching", "naming"} => sub'[q].request.mode = "detached"
                 /\ sub'[q].at = "attending" => sub'[q].request.mode = "foreground"
      BY <2>2, <1>3, <1>4, <1>5, <1>7
         DEF IInv, Owners, Owning, At, JobOf, Running, Request
    <2>3. /\ sub'[s].at \in {"launching", "attending"} /\ sub'[s].job = j
          /\ sub'[s].at = "launching" => sub'[s].request.mode = "detached" /\ work'[j].at = "none"
          /\ sub'[s].at = "attending" => sub'[s].request.mode = "foreground"
          /\ file'[j] = NewRecord(file'[j].request, "running")
      BY <1>2, <1>3, <1>4, <1>5, <1>8, <1>9 DEF j, r, record
    <2> QED  BY <2>1, <2>2, <2>3 DEF Owners, At, JobOf, Running, Request
  <1>14. Runs'
    BY <1>1, <1>2, <1>3, <1>5, <1>6, <1>8, <1>9, <1>10
       DEF record, IInv, Runs, Stored, Request, Running
  <1>15. Evidence'
    BY <1>1, <1>2, <1>3, <1>5, <1>6, <1>9, <1>10
       DEF IInv, Evidence, Truthful, Stored, Request
  <1> QED  BY <1>11, <1>12, <1>13, <1>14, <1>15 DEF IInv

LEMMA LaunchKeeps ==
  ASSUME IInv, NEW s \in Submitters, Launch(s)
  PROVE  IInv'
  <1> DEFINE j == sub[s].job
  <1>1. /\ sub[s].at = "launching" /\ Owning(s)
        /\ j \in Jobs /\ file[j] \in Records /\ file[j].request = sub[s].request
        /\ UNCHANGED <<lock, file, cmd, starts, output>>
    BY OwnerFacts DEF Launch, Owning
  <1>2. /\ sub' \in [Submitters -> SubRows]
        /\ sub'[s].at = "naming"
        /\ \A q \in Submitters : /\ sub'[q].request = sub[q].request
                                 /\ sub'[q].job = sub[q].job
                                 /\ q # s => sub'[q] = sub[q]
    BY GoesFacts DEF Launch, Ats, IInv
  <1>3. /\ work' \in [Jobs -> WorkRows]
        /\ work'[j].at = "launched"
        /\ \A i \in Jobs : i # j => work'[i] = work[i]
    BY <1>1, WorkGoesFacts DEF Launch, IInv
  <1>4. \A q \in Submitters : q # s /\ Owning(q) => sub[q].job \in Jobs /\ sub[q].job # j
    BY <1>1, OwnerFacts DEF IInv, Owners, JobOf
  <1>5. /\ work[j].at = "none" /\ starts[j] = 0 /\ cmd[j] = "none"
        /\ file[j] # NoRecord /\ file[j] = Running(j) /\ Request(j).mode = "detached"
    BY <1>1, MarksAssumption DEF IInv, Owners, Runs, At, JobOf, Request
  <1> HIDE DEF j
  <1>6. TypeOK'
    BY <1>1, <1>2, <1>3, <1>5 DEF IInv, TypeOK, Stored
  <1>7. Calls'
    BY <1>1, <1>2 DEF IInv, Calls, Owning, At, JobOf, Stored, Request
  <1>8. Owners'
    BY <1>1, <1>2, <1>3, <1>4 DEF IInv, Owners, Owning, At, JobOf, Running, Request
  <1>9. Runs'
    BY <1>1, <1>3, <1>5 DEF IInv, Runs, Stored, Request, Running
  <1>10. Evidence'
    BY <1>1, <1>3 DEF IInv, Evidence, Truthful, Stored, Request, Settled
  <1> QED  BY <1>6, <1>7, <1>8, <1>9, <1>10 DEF IInv

(* A step of the process that runs a job which only moves it: the job has  *)
(* no owner that has not run it yet.                                       *)
LEMMA OwnersKept ==
  ASSUME IInv, NEW j \in Jobs, work[j].at # "none",
         \A i \in Jobs : i # j => work'[i] = work[i],
         UNCHANGED <<sub, file>>
  PROVE  Owners'
  <1>1. \A q \in Submitters : sub[q].at \in {"created", "launching"} =>
                                 sub[q].job \in Jobs /\ sub[q].job # j
    BY OwnerFacts DEF IInv, Owners, Owning, JobOf
  <1> QED  BY <1>1 DEF IInv, Owners, Owning, At, JobOf, Running, Request

LEMMA RecordFacts ==
  ASSUME IInv
  PROVE  /\ \A i \in Stored : file[i] \in Records /\ Truthful(file[i], i)
         /\ \A i \in Jobs : work[i].at = "settled" =>
               /\ i \in Stored /\ work[i].copy \in Records
               /\ Truthful(work[i].copy, i) /\ Settled(work[i].copy)
  BY DEF IInv, TypeOK, Evidence, Runs, Stored, Settled, WorkRows

LEMMA RunCommandKeeps ==
  ASSUME IInv, NEW j \in Jobs, RunCommand(j)
  PROVE  IInv'
  <1>1. /\ work[j].at = "launched"
        /\ work' \in [Jobs -> WorkRows] /\ work'[j].at = "waiting"
        /\ \A i \in Jobs : i # j => work'[i] = work[i]
    BY WorkGoesFacts DEF RunCommand, IInv
  <1>2. /\ UNCHANGED <<lock, sub, file, output>>
        /\ cmd[j] = "none" /\ starts[j] = 0 /\ cmd'[j] = "running" /\ starts'[j] = 1
        /\ cmd' \in [Jobs -> {"none", "running"} \cup Exits]
        /\ starts' \in [Jobs -> Nat]
        /\ \A i \in Jobs : i # j => cmd'[i] = cmd[i] /\ starts'[i] = starts[i]
    BY <1>1 DEF RunCommand, IInv, TypeOK, Runs
  <1>3. TypeOK'
    BY <1>1, <1>2 DEF IInv, TypeOK, Stored
  <1>4. Calls'
    BY <1>2 DEF IInv, Calls, Owning, At, JobOf, Stored, Request
  <1>5. Owners'
    BY <1>1, <1>2, OwnersKept
  <1>6. Runs'
    BY <1>1, <1>2 DEF IInv, Runs, Stored, Request, Running
  <1>7. Evidence'
    <2>1. \A record \in Records : Truthful(record, j) => record.exit = "unset"
      BY <1>2 DEF Truthful, Records, Exits
    <2>2. \A d \in Dirs : output[d] # NoOutput => output[d].by \in Jobs \ {j}
      BY <1>2 DEF IInv, Evidence, Stored, Exits
    <2>3. ASSUME NEW i \in Stored, NEW record \in Records, Truthful(record, i)
          PROVE  Truthful(record, i)'
      BY <1>2, <2>1, <2>3 DEF Truthful, Request, Exits, Stored
    <2>4. \A i \in Stored : Truthful(file[i], i)'
      BY <2>3, <1>2, RecordFacts
    <2>5. \A i \in Jobs : work'[i].at = "settled" =>
                             Truthful(work[i].copy, i)' /\ Settled(work[i].copy)'
      BY <2>3, <1>1, RecordFacts DEF Settled
    <2>6. \A d \in Dirs : output[d] # NoOutput =>
             /\ output[d].by \in Stored /\ DataDir(Request(output[d].by)) = d
             /\ cmd'[output[d].by] \in Exits
      BY <1>2, <2>2 DEF IInv, Evidence
    <2> QED
      BY <1>2, <2>4, <2>5, <2>6 DEF Evidence, Stored, Request
  <1> QED  BY <1>3, <1>4, <1>5, <1>6, <1>7 DEF IInv

LEMMA CommandEndsKeeps ==
  ASSUME IInv, NEW j \in Jobs, CommandEnds(j)
  PROVE  IInv'
  <1> DEFINE d == DataDir(Request(j))
  <1>1. j \in Stored /\ Request(j) \in Requests /\ d \in Dirs /\ cmd[j] = "running"
    BY DEF IInv, TypeOK, CommandEnds, Stored, Request, Records, Dirs
  <1>2. /\ cmd' \in [Jobs -> {"none", "running"} \cup Exits]
        /\ cmd'[j] \in Exits
        /\ \A i \in Jobs : i # j => cmd'[i] = cmd[i]
    BY DEF IInv, TypeOK, CommandEnds, Exits
  <1>3. /\ output' \in [Dirs -> Outputs]
        /\ \A e \in Dirs : e # d => output'[e] = output[e]
        /\ output'[d] = output[d] \/ output'[d].by = j
    BY <1>1 DEF IInv, TypeOK, CommandEnds, Outputs
  <1>4. UNCHANGED <<lock, sub, file, work, starts>>
    BY DEF CommandEnds
  <1>5. \A i \in Stored : i # j => /\ Request(i) \in Requests
                                   /\ DataDir(Request(i)) \in Dirs \ {d}
    BY <1>1, SameDir DEF IInv, Runs, TypeOK, Stored, Request, Records, Dirs
  <1>6. \A record \in Records : Truthful(record, j) =>
           /\ record.exit = "unset" /\ record.evidence = NoOutput
           /\ record.status # "completed" \/ record.request.mode = "mock"
    BY <1>1 DEF Truthful, Records, Exits
  <1> HIDE DEF d
  <1>7. TypeOK'
    <2>1. /\ lock' \in Submitters \cup {NoSubmitter} /\ sub' \in [Submitters -> SubRows]
          /\ file' \in [Jobs -> Records \cup {NoRecord}] /\ work' \in [Jobs -> WorkRows]
          /\ starts' \in [Jobs -> Nat]
          /\ \A s \in Submitters : sub'[s].at \in {"looking", "creating"} <=> lock' = s
      BY <1>4 DEF IInv, TypeOK
    <2>2. \A i \in Jobs : file'[i] = NoRecord => work'[i].at = "none" /\ cmd'[i] = "none"
      BY <1>1, <1>2, <1>4 DEF IInv, TypeOK, Stored
    <2> QED  BY <2>1, <2>2, <1>2, <1>3 DEF TypeOK, Stored
  <1>8. Calls' /\ Owners'
    BY <1>4 DEF IInv, Calls, Owners, Owning, At, JobOf, Stored, Request, Running
  <1>9. Runs'
    BY <1>1, <1>2, <1>4 DEF IInv, Runs, Stored, Request, Running, Exits
  <1>10. Evidence'
    <2>1. \A e \in Dirs : output'[e] # NoOutput =>
             /\ output'[e].by \in Stored /\ DataDir(Request(output'[e].by)) = e
             /\ cmd'[output'[e].by] \in Exits
      BY <1>1, <1>2, <1>3 DEF d, IInv, Evidence, Stored
    <2>2. ASSUME NEW i \in Stored, NEW record \in Records, Truthful(record, i)
          PROVE  Truthful(record, i)'
      <3>1. CASE i = j
        BY <3>1, <1>1, <1>4, <1>6, <2>2 DEF Truthful, Request
      <3>2. CASE i # j
        BY <3>2, <1>2, <1>3, <1>4, <1>5, <2>2 DEF Truthful, Request, Stored
      <3> QED  BY <3>1, <3>2
    <2>3. \A i \in Stored : Truthful(file[i], i)'
      BY <2>2, <1>4, RecordFacts
    <2>4. \A i \in Jobs : work'[i].at = "settled" =>
                             Truthful(work[i].copy, i)' /\ Settled(work[i].copy)'
      BY <2>2, <1>4, RecordFacts DEF Settled
    <2> QED
      BY <2>1, <2>3, <2>4, <1>4 DEF Evidence, Stored, Request
  <1> QED  BY <1>7, <1>8, <1>9, <1>10 DEF IInv

LEMMA FoundFacts ==
  ASSUME IInv, NEW j \in Jobs, j \in Stored, output[DataDir(Request(j))] # NoOutput
  PROVE  output[DataDir(Request(j))].by = j
  <1> DEFINE d == DataDir(Request(j))
             i == output[d].by
  <1>1. Request(j) \in Requests /\ d \in Dirs
    BY DEF IInv, TypeOK, Stored, Request, Records, Dirs
  <1>2. i \in Stored /\ DataDir(Request(i)) = d
    BY <1>1 DEF IInv, Evidence
  <1>3. i \in Jobs /\ Request(i) \in Requests
    BY <1>2 DEF IInv, TypeOK, Stored, Request, Records
  <1> QED  BY <1>1, <1>2, <1>3, SameDir DEF IInv, Runs

LEMMA VerdictFacts ==
  ASSUME NEW exit \in Exits, NEW evidence \in Outputs, Readable(evidence)
  PROVE  /\ Verdict(exit, evidence) \in {"failed", "partial", "completed"}
         /\ Verdict(exit, evidence) = "completed" =>
               exit = "zero" /\ QualityOf(evidence) = "complete"
  BY DEF Verdict, Readable, QualityOf, Exits, Outputs, Qualities

LEMMA ClassifiedFacts ==
  ASSUME NEW record \in Records, NEW exit \in Exits, Readable(record.evidence)
  PROVE  /\ Classified(record, exit) \in Records
         /\ Classified(record, exit).request = record.request
         /\ Classified(record, exit).evidence = record.evidence
         /\ Classified(record, exit).exit = exit
         /\ Classified(record, exit).status \in {"failed", "partial", "completed"}
         /\ Classified(record, exit).status = "completed" =>
               exit = "zero" /\ QualityOf(record.evidence) = "complete"
  BY VerdictFacts DEF Classified, Records

LEMMA SettlesKeeps ==
  ASSUME IInv, NEW j \in Jobs, j \in Stored, NEW record \in Records,
         work[j].at \in {"launched", "waiting"}, Truthful(record, j), Settled(record),
         starts[j] = 1 \/ work[j].at = "launched", Settles(j, record),
         UNCHANGED <<lock, sub, file, cmd, starts, output>>
  PROVE  IInv'
  <1>1. /\ work' \in [Jobs -> WorkRows]
        /\ work'[j].at = "settled" /\ work'[j].copy = record
        /\ \A i \in Jobs : i # j => work'[i] = work[i]
    BY DEF IInv, TypeOK, Settles, WorkRows
  <1>2. TypeOK'  BY <1>1 DEF IInv, TypeOK, Stored
  <1>3. Calls'  BY DEF IInv, Calls, Owning, At, JobOf, Stored, Request
  <1>4. Owners'
    BY <1>1, OwnersKept
  <1>5. Runs'  BY <1>1 DEF IInv, Runs, Stored, Request, Running
  <1>6. Evidence'  BY <1>1 DEF IInv, Evidence, Stored, Request, Truthful, Settled
  <1> QED  BY <1>2, <1>3, <1>4, <1>5, <1>6 DEF IInv

LEMMA WorkingFacts ==
  ASSUME IInv, NEW j \in Jobs, work[j].at \in {"launched", "waiting", "settled"}
  PROVE  /\ j \in Stored /\ Request(j) \in Requests
         /\ file[j] = Running(j) /\ Running(j) \in Records
         /\ Running(j).request = Request(j) /\ Running(j).exit = "unset"
         /\ Running(j).evidence = NoOutput
         /\ output[DataDir(Request(j))] \in Outputs
  <1>1. j \in Stored /\ Request(j) \in Requests /\ file[j] = Running(j)
    BY DEF IInv, TypeOK, Runs, Stored, Request, Records
  <1>2. output[DataDir(Request(j))] \in Outputs
    BY <1>1 DEF IInv, TypeOK, Dirs
  <1> QED  BY <1>1, <1>2, NewRecordType DEF Running

LEMMA SettleKeeps ==
  ASSUME IInv, NEW j \in Jobs, Settle(j)
  PROVE  IInv'
  <1> DEFINE found == output[DataDir(Request(j))]
             record == [Running(j) EXCEPT !.evidence = found]
  <1>1. work[j].at = "waiting" /\ cmd[j] \in Exits /\ Readable(found)
    BY DEF Settle, Ended
  <1>2. j \in Stored /\ found \in Outputs /\ (found # NoOutput => found.by = j)
    BY <1>1, WorkingFacts, FoundFacts
  <1>3. record \in Records /\ record.request = Request(j) /\ record.evidence = found
    BY <1>1, <1>2, WorkingFacts DEF Records
  <1> HIDE DEF record
  <1>4. LET copy == Classified(record, cmd[j]) IN
        copy \in Records /\ Truthful(copy, j) /\ Settled(copy)
    BY <1>1, <1>2, <1>3, ClassifiedFacts, MarksAssumption DEF Truthful, Settled
  <1>5. starts[j] = 1
    BY <1>1 DEF IInv, Runs, Exits
  <1> QED  BY <1>1, <1>2, <1>4, <1>5, SettlesKeeps DEF Settle, record

LEMMA TripKeeps ==
  ASSUME IInv, NEW j \in Jobs, Trip(j)
  PROVE  IInv'
  <1> DEFINE found == output[DataDir(Request(j))]
             exit == IF Ended(j) /\ Request(j).mode = "detached" THEN cmd[j] ELSE "unset"
             Copy(evidence) == [Running(j) EXCEPT !.status = "failed", !.exit = exit,
                                                  !.evidence = evidence]
  <1>1. work[j].at \in {"launched", "waiting"} /\ (work[j].at = "launched" \/ Ended(j))
    BY DEF Trip, Ended
  <1>2. j \in Stored /\ found \in Outputs /\ (found # NoOutput => found.by = j)
    BY <1>1, WorkingFacts, FoundFacts
  <1>3. PICK evidence \in {NoOutput} \cup (IF Ended(j) /\ ~Readable(found) THEN {found} ELSE {}) :
               Settles(j, Copy(evidence))
    BY DEF Trip
  <1>4. /\ evidence \in Outputs
        /\ evidence # NoOutput => evidence = found /\ evidence.by = j /\ Ended(j)
    BY <1>2, <1>3 DEF Outputs
  <1>5. /\ Copy(evidence) \in Records
        /\ Copy(evidence).request = Request(j) /\ Copy(evidence).status = "failed"
        /\ Copy(evidence).exit = exit /\ Copy(evidence).evidence = evidence
    BY <1>1, <1>4, WorkingFacts DEF Records, Ended
  <1>6. Truthful(Copy(evidence), j) /\ Settled(Copy(evidence))
    BY <1>4, <1>5, MarksAssumption DEF Truthful, Settled, Ended
  <1>7. starts[j] = 1 \/ work[j].at = "launched"
    BY <1>1 DEF IInv, Runs, Exits, Ended
  <1> QED  BY <1>1, <1>2, <1>3, <1>5, <1>6, <1>7, SettlesKeeps DEF Trip

LEMMA RecordKeeps ==
  ASSUME IInv, NEW j \in Jobs, Record(j)
  PROVE  IInv'
  <1> DEFINE record == work[j].copy
  <1>1. /\ work[j].at = "settled" /\ j \in Stored /\ file[j] = Running(j)
        /\ record \in Records /\ record.request = Request(j)
        /\ Truthful(record, j)
    BY RecordFacts DEF Record, IInv, Runs, Truthful
  <1>2. /\ file' \in [Jobs -> Records \cup {NoRecord}]
        /\ file'[j] = record /\ file'[j] # NoRecord
        /\ \A i \in Jobs : i # j => file'[i] = file[i]
    BY <1>1, WriteFacts DEF Record, IInv
  <1>3. /\ work' \in [Jobs -> WorkRows] /\ work'[j].at = "done"
        /\ \A i \in Jobs : i # j => work'[i] = work[i]
    BY DEF Record, IInv, TypeOK, WorkRows
  <1>4. /\ sub' \in [Submitters -> SubRows]
        /\ \A q \in Submitters : /\ sub'[q].request = sub[q].request
                                 /\ sub'[q].job = sub[q].job
                                 /\ \/ sub'[q].at = sub[q].at
                                    \/ sub[q].at = "attending" /\ sub'[q].at = "returned"
    BY DEF Record, IInv, TypeOK, SubRows
  <1>5. UNCHANGED <<lock, cmd, starts, output>>
    BY DEF Record
  <1>6. \A i \in Jobs : /\ file'[i] = NoRecord <=> file[i] = NoRecord
                        /\ file[i] # NoRecord => file'[i].request = file[i].request
    BY <1>1, <1>2 DEF Stored, Request
  <1>7. \A q \in Submitters : sub[q].at \in {"created", "launching"} =>
                                 sub[q].job \in Jobs /\ sub[q].job # j
    BY <1>1, OwnerFacts DEF IInv, Owners, Owning, JobOf
  <1> HIDE DEF record
  <1>8. TypeOK'
    BY <1>2, <1>3, <1>4, <1>5, <1>6 DEF IInv, TypeOK, Stored
  <1>9. Calls'
    BY <1>2, <1>4, <1>6 DEF IInv, Calls, Owning, At, JobOf, Stored, Request
  <1>10. Owners'
    BY <1>2, <1>3, <1>4, <1>7 DEF IInv, Owners, Owning, At, JobOf, Running, Request
  <1>11. Runs'
    BY <1>1, <1>2, <1>3, <1>5, <1>6 DEF IInv, Runs, Stored, Request, Running
  <1>12. Evidence'
    BY <1>1, <1>2, <1>3, <1>5, <1>6
       DEF IInv, Evidence, Truthful, Stored, Request, Settled
  <1> QED  BY <1>8, <1>9, <1>10, <1>11, <1>12 DEF IInv

LEMMA ViewFacts ==
  ASSUME NEW record \in Records
  PROVE  /\ View(record) \in Records
         /\ View(record).request = record.request
         /\ View(record).exit = record.exit
         /\ View(record).evidence = record.evidence
         /\ View(record) # record =>
               /\ record.status \in {"completed", "failed"}
               /\ View(record).status = "completed" =>
                     record.exit = "zero" /\ QualityOf(record.evidence) = "complete"
  <1> DEFINE exit == IF record.exit = "unset" THEN "nonzero" ELSE record.exit
  <1>1. CASE View(record) = record
    BY <1>1
  <1>2. CASE View(record) # record
    <2>1. /\ View(record) = [Classified(record, exit) EXCEPT !.exit = record.exit]
          /\ record.status \in {"completed", "failed"} /\ Readable(record.evidence)
      BY <1>2 DEF View
    <2>2. exit \in Exits /\ (exit = "zero" => record.exit = "zero")
      BY DEF Records, Exits
    <2> HIDE DEF exit
    <2>3. /\ Classified(record, exit) \in Records
          /\ Classified(record, exit).request = record.request
          /\ Classified(record, exit).evidence = record.evidence
          /\ Classified(record, exit).status = "completed" =>
                exit = "zero" /\ QualityOf(record.evidence) = "complete"
      BY <2>1, <2>2, ClassifiedFacts
    <2> QED  BY <2>1, <2>2, <2>3 DEF Records
  <1> QED  BY <1>1, <1>2

LEMMA MigrateKeeps ==
  ASSUME IInv, NEW j \in Jobs, Migrate(j)
  PROVE  IInv'
  <1> DEFINE record == View(file[j])
  <1>1. /\ j \in Stored /\ file[j] \in Records /\ Truthful(file[j], j)
        /\ record # file[j] /\ Request(j) = file[j].request
    BY RecordFacts DEF Migrate, Request
  <1>2. /\ record \in Records /\ record.request = Request(j)
        /\ record.exit = file[j].exit /\ record.evidence = file[j].evidence
        /\ file[j].status \in {"completed", "failed"}
        /\ record.status = "completed" =>
              record.exit = "zero" /\ QualityOf(record.evidence) = "complete"
    BY <1>1, ViewFacts
  <1>3. Truthful(record, j)
    BY <1>1, <1>2 DEF Truthful
  <1>4. /\ file' \in [Jobs -> Records \cup {NoRecord}]
        /\ file'[j] = record /\ file'[j] # NoRecord
        /\ \A i \in Jobs : i # j => file'[i] = file[i]
    BY <1>2, WriteFacts DEF Migrate, IInv
  <1>5. UNCHANGED <<lock, sub, work, cmd, starts, output>>
    BY DEF Migrate
  <1>6. \A i \in Jobs : /\ file'[i] = NoRecord <=> file[i] = NoRecord
                        /\ file[i] # NoRecord => file'[i].request = file[i].request
    BY <1>1, <1>2, <1>4 DEF Stored
  <1>7. file[j] # Running(j)
    BY <1>2 DEF Running, NewRecord
  <1>8. \A q \in Submitters : sub[q].at \in {"created", "launching"} =>
                                 sub[q].job \in Jobs /\ sub[q].job # j
    BY <1>2, <1>7, OwnerFacts DEF IInv, Owners, Owning, At, JobOf
  <1>9. work[j].at \notin {"launched", "waiting", "settled"}
    BY <1>7 DEF IInv, Runs
  <1> HIDE DEF record
  <1>10. TypeOK'
    BY <1>4, <1>5, <1>6 DEF IInv, TypeOK, Stored
  <1>11. Calls'
    BY <1>4, <1>5, <1>6 DEF IInv, Calls, Owning, At, JobOf, Stored, Request
  <1>12. Owners'
    BY <1>4, <1>5, <1>8 DEF IInv, Owners, Owning, At, JobOf, Running, Request
  <1>13. Runs'
    BY <1>1, <1>2, <1>4, <1>5, <1>6, <1>9 DEF IInv, Runs, Stored, Request, Running
  <1>14. Evidence'
    BY <1>1, <1>2, <1>3, <1>4, <1>5, <1>6, <1>9
       DEF IInv, Evidence, Truthful, Stored, Request, Settled
  <1> QED  BY <1>10, <1>11, <1>12, <1>13, <1>14 DEF IInv

(* A worker that dies, with its submitter or alone.                        *)
LEMMA CrashWorkerKeeps ==
  ASSUME IInv, NEW j \in Jobs, CrashWorker(j)
  PROVE  IInv'
  <1>1. /\ work[j].at \in {"launched", "waiting", "settled"}
        /\ work' \in [Jobs -> WorkRows] /\ work'[j].at = "dead"
        /\ \A i \in Jobs : i # j => work'[i] = work[i]
        /\ UNCHANGED <<lock, sub, file, cmd, starts, output>>
    BY WorkGoesFacts DEF CrashWorker, IInv
  <1>2. TypeOK'
    BY <1>1 DEF IInv, TypeOK, Runs, Stored
  <1>3. Calls'
    BY <1>1 DEF IInv, Calls, Owning, At, JobOf, Stored, Request
  <1>4. Owners'
    BY <1>1, OwnersKept
  <1>5. Runs'
    BY <1>1 DEF IInv, Runs, Stored, Request, Running
  <1>6. Evidence'
    BY <1>1 DEF IInv, Evidence, Truthful, Stored, Request, Settled
  <1> QED  BY <1>2, <1>3, <1>4, <1>5, <1>6 DEF IInv

LEMMA CrashSubmitterKeeps ==
  ASSUME IInv, NEW s \in Submitters, CrashSubmitter(s)
  PROVE  IInv'
  <1> DEFINE j == sub[s].job
  <1>1. /\ sub' \in [Submitters -> SubRows]
        /\ sub[s].at # "idle" /\ sub'[s].at = "crashed"
        /\ \A q \in Submitters : /\ sub'[q].request = sub[q].request
                                 /\ sub'[q].job = sub[q].job
                                 /\ q # s => sub'[q] = sub[q]
    BY GoesFacts DEF CrashSubmitter, Ats, IInv
  <1>2. /\ UNCHANGED <<file, cmd, starts, output>>
        /\ lock' = IF lock = s THEN NoSubmitter ELSE lock
    BY DEF CrashSubmitter
  <1>3. sub[s].at = "attending" =>
           /\ j \in Stored /\ work'[j].at = "dead" /\ work' \in [Jobs -> WorkRows]
           /\ \A q \in Submitters : q # s /\ Owning(q) => sub[q].job # j
    <2> SUFFICES ASSUME sub[s].at = "attending" PROVE
           /\ j \in Stored /\ work'[j].at = "dead" /\ work' \in [Jobs -> WorkRows]
           /\ \A q \in Submitters : q # s /\ Owning(q) => sub[q].job # j
      OBVIOUS
    <2>1. Owning(s) /\ j \in Stored
      BY DEF Owning, IInv, Calls, JobOf
    <2> QED
      BY <2>1, WorkGoesFacts DEF CrashSubmitter, IInv, Owners, JobOf, Stored
  <1>4. \A i \in Jobs : work'[i] = work[i] \/ (sub[s].at = "attending" /\ i = j)
    <2>1. CASE sub[s].at = "attending"
      BY <2>1, <1>3, WorkGoesFacts DEF CrashSubmitter, IInv, Stored
    <2>2. CASE sub[s].at # "attending"
      BY <2>2 DEF CrashSubmitter
    <2> QED  BY <2>1, <2>2
  <1>5. work' \in [Jobs -> WorkRows]
    BY <1>3 DEF CrashSubmitter, IInv, TypeOK
  <1> HIDE DEF j
  <1>6. TypeOK'
    BY <1>1, <1>2, <1>3, <1>4, <1>5, MarksAssumption DEF IInv, TypeOK, Stored
  <1>7. Calls'
    BY <1>1, <1>2 DEF IInv, Calls, Owning, At, JobOf, Stored, Request
  <1>8. Owners'
    <2>1. \A q \in Submitters : Owning(q) => sub[q].job \in Jobs
      BY OwnerFacts
    <2> QED
      BY <1>1, <1>2, <1>3, <1>4, <2>1
         DEF IInv, Owners, Owning, At, JobOf, Running, Request
  <1>9. Runs'
    BY <1>2, <1>3, <1>4 DEF IInv, Runs, Stored, Request, Running
  <1>10. Evidence'
    BY <1>2, <1>3, <1>4 DEF IInv, Evidence, Truthful, Stored, Request, Settled
  <1> QED  BY <1>6, <1>7, <1>8, <1>9, <1>10 DEF IInv
-----------------------------------------------------------------------------
LEMMA InitHolds == Init => IInv
  <1> SUFFICES ASSUME Init PROVE IInv
    OBVIOUS
  <1>1. /\ lock = NoSubmitter
        /\ \A s \in Submitters : sub[s].at = "idle" /\ sub[s].job = NoJob
        /\ \A j \in Jobs : /\ file[j] = NoRecord /\ work[j].at = "none"
                           /\ cmd[j] = "none" /\ starts[j] = 0
        /\ \A d \in Dirs : output[d] = NoOutput
    BY DEF Init
  <1>2. TypeOK
    BY <1>1, MarksAssumption DEF Init, TypeOK, SubRows, WorkRows, Outputs
  <1>3. Stored = {}
    BY <1>1 DEF Stored
  <1>4. Calls /\ Owners /\ Runs /\ Evidence
    BY <1>1, <1>3 DEF Calls, Owners, Runs, Evidence, Owning, At, JobOf
  <1> QED  BY <1>2, <1>4 DEF IInv

LEMMA NextKeeps == IInv /\ [Next]_vars => IInv'
  <1> SUFFICES ASSUME IInv, [Next]_vars PROVE IInv'
    OBVIOUS
  <1>1. CASE UNCHANGED vars
    BY <1>1 DEF vars, IInv, TypeOK, Calls, Owners, Runs, Evidence, Truthful,
                Owning, At, JobOf, Stored, Request, Running, Settled
  <1>2. ASSUME NEW s \in Submitters, Refuse(s) \/ Simulate(s) \/ WritePid(s)
        PROVE  IInv'
    BY <1>2, AnswerKeeps DEF Refuse, Simulate, WritePid, Owning
  <1>3. ASSUME NEW s \in Submitters, Call(s) PROVE IInv'
    BY <1>2, <1>3, LookingKeeps, CreateKeeps, StartRunningKeeps, LaunchKeeps DEF Call
  <1>4. ASSUME NEW s \in Submitters, (\E r \in Requests : Submit(s, r)) \/ CrashSubmitter(s)
        PROVE  IInv'
    BY <1>4, SubmitKeeps, CrashSubmitterKeeps
  <1>5. ASSUME NEW j \in Jobs,
               \/ RunCommand(j) \/ CommandEnds(j) \/ Settle(j)
               \/ Trip(j) \/ Record(j) \/ Migrate(j) \/ CrashWorker(j)
        PROVE  IInv'
    BY <1>5, RunCommandKeeps, CommandEndsKeeps, SettleKeeps, TripKeeps, RecordKeeps,
       MigrateKeeps, CrashWorkerKeeps
  <1> QED  BY <1>1, <1>3, <1>4, <1>5 DEF Next

LEMMA SpecHoldsIInv == Spec => []IInv
  BY InitHolds, NextKeeps, PTL DEF Spec

(* Every reachable state of the jobs directory is well formed.             *)
THEOREM TypeTheorem == Spec => []TypeOK
  <1>1. IInv => TypeOK
    BY DEF IInv
  <1> QED  BY <1>1, SpecHoldsIInv, PTL

(* However many submissions race, retry and die, one job exists for a key  *)
(* and its command is started at most once.                                *)
THEOREM OneRunTheorem == Spec => []OneRunPerKey
  <1>1. IInv => OneRunPerKey
    BY DEF IInv, Runs, OneRunPerKey, Stored
  <1> QED  BY <1>1, SpecHoldsIInv, PTL

(* A submission is answered with a job of the kind it submitted.           *)
THEOREM KindTheorem == Spec => []AnsweredInKind
  <1>1. IInv => AnsweredInKind
    <2> SUFFICES ASSUME IInv, NEW s \in Submitters, sub[s].job # NoJob
                 PROVE  Request(sub[s].job).kind = sub[s].request.kind
      BY DEF AnsweredInKind
    <2>1. /\ sub[s].job \in Stored /\ sub[s].request \in Requests
          /\ Key(Request(sub[s].job)) = Key(sub[s].request)
      BY DEF IInv, Calls, JobOf
    <2> QED  BY <2>1, RecordFacts, KeyKinds DEF Request, Records
  <1> QED  BY <1>1, SpecHoldsIInv, PTL

(* A recorded result is only judged again by the migration, or overwritten *)
(* by the submitter that still owes the worker's pid.                      *)
THEOREM ResultsStayTheorem == Spec => ResultsStay
  <1> DEFINE Stays == \A j \in Jobs : Settled(file[j]) /\ ~BeingNamed(j)
                                        => file'[j] \in {file[j], View(file[j])}
  <1>1. ASSUME IInv, [Next]_vars PROVE Stays
    <2> SUFFICES ASSUME NEW i \in Jobs, Settled(file[i]), ~BeingNamed(i)
                 PROVE  file'[i] \in {file[i], View(file[i])}
      OBVIOUS
    <2>1. CASE UNCHANGED file
      BY <2>1
    <2>2. ASSUME NEW j \in Jobs, NEW record, Write(j, record), j # i
          PROVE  file'[i] = file[i]
      BY <1>1, <2>2 DEF Write, IInv, TypeOK
    <2>3. ASSUME NEW s \in Submitters, NEW j \in Jobs, Create(s, j)
          PROVE  file'[i] = file[i]
      BY <2>2, <2>3 DEF Create, Stored, Settled
    <2>4. ASSUME NEW s \in Submitters, Refuse(s) \/ Simulate(s) \/ StartRunning(s)
          PROVE  file'[i] = file[i]
      <3>1. Owning(s) /\ sub[s].at = "created" /\ file[sub[s].job].status = "pending"
        BY <1>1, <2>4 DEF Refuse, Simulate, StartRunning, Owning, IInv, Owners, At, JobOf
      <3> QED  BY <1>1, <2>2, <2>4, <3>1, OwnerFacts DEF Refuse, Simulate, StartRunning, Settled
    <2>5. ASSUME NEW s \in Submitters, WritePid(s)
          PROVE  file'[i] = file[i]
      BY <1>1, <2>2, <2>5, OwnerFacts DEF WritePid, Owning, BeingNamed
    <2>6. ASSUME NEW j \in Jobs, Record(j)
          PROVE  file'[i] = file[i]
      <3>1. Write(j, work[j].copy) /\ work[j].at = "settled"
        BY <2>6 DEF Record
      <3>2. file[j] = Running(j)
        BY <1>1, <3>1 DEF IInv, Runs
      <3>3. ~Settled(file[j])
        BY <3>2 DEF Settled, Running, NewRecord
      <3> QED  BY <2>2, <3>1, <3>3
    <2>7. ASSUME NEW j \in Jobs, Migrate(j)
          PROVE  file'[i] \in {file[i], View(file[i])}
      BY <1>1, <2>2, <2>7 DEF Migrate, Write, IInv, TypeOK
    <2>8. CASE \E s \in Submitters, r \in Requests : Submit(s, r)
      BY <2>1, <2>8 DEF Submit
    <2>9. CASE \E s \in Submitters :
                  Lock(s) \/ Reuse(s) \/ FindNone(s) \/ Launch(s) \/ CrashSubmitter(s)
      BY <2>1, <2>9 DEF Lock, Reuse, FindNone, Launch, CrashSubmitter
    <2>10. CASE \E j \in Jobs :
                  RunCommand(j) \/ CommandEnds(j) \/ Settle(j) \/ Trip(j) \/ CrashWorker(j)
      BY <2>1, <2>10 DEF RunCommand, CommandEnds, Settle, Trip, CrashWorker
    <2> QED
      BY <1>1, <2>1, <2>3, <2>4, <2>5, <2>6, <2>7, <2>8, <2>9, <2>10
         DEF Next, Call, vars
  <1>2. IInv /\ [Next]_vars => [Stays]_vars
    BY <1>1
  <1> QED  BY <1>2, SpecHoldsIInv, PTL DEF Spec, ResultsStay
-----------------------------------------------------------------------------
(* The refinement: the ledger entry of a key is that of its one job.       *)
KeyOf(j) == Key(Request(j))
Entry(k) == IF JobsByKey(k) = {} THEN NoJob
            ELSE EntryOf(CHOOSE j \in JobsByKey(k) : TRUE)
TheLedger == [k \in Keys |-> Entry(k)]

Entered == /\ \A i \in Stored : KeyOf(i) \in Keys
           /\ \A k \in Keys : (\A i \in Stored : KeyOf(i) # k) => Entry(k) = NoJob
           /\ \A k \in Keys, i \in Stored : KeyOf(i) = k => Entry(k) = EntryOf(i)

LEMMA EntryFacts == IInv => Entered
  <1> SUFFICES ASSUME IInv PROVE Entered
    OBVIOUS
  <1>1. ASSUME NEW i \in Stored PROVE KeyOf(i) \in Keys
    BY RecordFacts DEF KeyOf, Keys, Request, Records
  <1>2. ASSUME NEW k \in Keys, \A i \in Stored : KeyOf(i) # k
        PROVE  Entry(k) = NoJob
    BY <1>2 DEF Entry, JobsByKey, KeyOf, Request
  <1>3. ASSUME NEW k \in Keys, NEW i \in Stored, KeyOf(i) = k
        PROVE  Entry(k) = EntryOf(i)
    <2>1. i \in JobsByKey(k) /\ \A j \in JobsByKey(k) : j = i
      BY <1>3 DEF JobsByKey, KeyOf, Request, IInv, Runs
    <2>2. (CHOOSE j \in JobsByKey(k) : TRUE) = i
      BY <2>1
    <2> QED  BY <2>1, <2>2 DEF Entry
  <1> QED  BY <1>1, <1>2, <1>3 DEF Entered

LEMMA EntryFactsNext == IInv' => Entered'
  BY EntryFacts, PTL

(* A step that changes what is known of one stored job changes its entry.  *)
LEMMA EntryChanges ==
  ASSUME IInv, IInv', NEW j \in Stored,
         \A i \in Jobs : /\ file'[i] = NoRecord <=> file[i] = NoRecord
                         /\ file[i] # NoRecord => file'[i].request = file[i].request,
         \A i \in Stored : i # j => EntryOf(i)' = EntryOf(i)
  PROVE  /\ KeyOf(j) \in Keys /\ TheLedger[KeyOf(j)] = EntryOf(j)
         /\ TheLedger' = [TheLedger EXCEPT ![KeyOf(j)] = EntryOf(j)']
  <1>1. Stored' = Stored /\ \A i \in Stored : KeyOf(i)' = KeyOf(i)
    BY DEF Stored, KeyOf, Request
  <1>2. /\ \A k \in Keys : (\A i \in Stored : KeyOf(i) # k) => Entry(k)' = NoJob
        /\ \A k \in Keys, i \in Stored : KeyOf(i) = k => Entry(k)' = EntryOf(i)'
    BY <1>1, EntryFactsNext DEF Entered
  <1>3. KeyOf(j) \in Keys /\ Entry(KeyOf(j)) = EntryOf(j)
    BY EntryFacts DEF Entered
  <1>4. \A i \in Stored : KeyOf(i) = KeyOf(j) => i = j
    BY DEF IInv, Runs, KeyOf
  <1>5. ASSUME NEW k \in Keys
        PROVE  Entry(k)' = IF k = KeyOf(j) THEN EntryOf(j)' ELSE Entry(k)
    <2>1. CASE \A i \in Stored : KeyOf(i) # k
      BY <2>1, <1>2, EntryFacts DEF Entered
    <2>2. CASE \E i \in Stored : KeyOf(i) = k
      BY <2>2, <1>2, <1>4, EntryFacts DEF Entered
    <2> QED  BY <2>1, <2>2
  <1> QED  BY <1>3, <1>5 DEF TheLedger

(* The actions of JobLedger on this ledger.                                *)
LEMMA LedgerIs ==
  /\ Ledger!Init <=> TheLedger = [k \in Keys |-> NoJob]
  /\ \A k \in Keys :
       /\ \A plan \in Plans, simulated \in BOOLEAN :
            Ledger!Open(k, plan, simulated) <=>
              /\ TheLedger[k] = NoJob
              /\ TheLedger' = [TheLedger EXCEPT ![k] = Ledger!NewEntry(plan, simulated)]
       /\ Ledger!Run(k) <=>
              /\ TheLedger[k] # NoJob
              /\ ~TheLedger[k].ran /\ ~TheLedger[k].simulated
              /\ TheLedger' = [TheLedger EXCEPT ![k] = [TheLedger[k] EXCEPT !.ran = TRUE]]
       /\ Ledger!Succeed(k) <=>
              /\ TheLedger[k] # NoJob
              /\ TheLedger[k].ran
              /\ TheLedger' = [TheLedger EXCEPT ![k] = [TheLedger[k] EXCEPT !.good = TRUE]]
       /\ \A status \in Ledger!Statuses : Ledger!Show(k, status) <=>
              /\ TheLedger[k] # NoJob
              /\ status = "completed" => TheLedger[k].good \/ TheLedger[k].simulated
              /\ TheLedger' = [TheLedger EXCEPT ![k] = [TheLedger[k] EXCEPT !.status = status]]
  BY DEF Ledger!Init, Ledger!Open, Ledger!Run, Ledger!Succeed, Ledger!Show,
         Ledger!Becomes, TheLedger, Entry

Good(j) == /\ cmd[j] = "zero"
           /\ output[DataDir(Request(j))] = [by |-> j, quality |-> "complete"]

EntryRow(plan, simulated, ran, good, status) ==
    [plan |-> plan, simulated |-> simulated, ran |-> ran, good |-> good,
     status |-> status]
Row(j, ran, good, status) ==
    EntryRow(Request(j).plan, Request(j).mode = "mock", ran, good, status)

LEMMA EntryIsRow ==
  ASSUME NEW j
  PROVE  EntryOf(j) = Row(j, starts[j] > 0, Good(j), file[j].status)
  BY DEF EntryOf, EntryRow, Row, Good

LEMMA SameEntry ==
  ASSUME NEW k \in Keys
  PROVE  [TheLedger EXCEPT ![k] = TheLedger[k]] = TheLedger
  BY DEF TheLedger

LEMMA EntryTypes ==
  ASSUME IInv, NEW j \in Stored
  PROVE  /\ EntryOf(j) # NoJob
         /\ EntryOf(j).ran <=> starts[j] > 0
         /\ EntryOf(j).simulated <=> Request(j).mode = "mock"
         /\ EntryOf(j).good <=> Good(j)
  <1>1. EntryOf(j) \in Ledger!Entries
    BY RecordFacts, RequestsAssumption
       DEF EntryOf, Ledger!Entries, Ledger!Statuses, Request, Records, RequestType
  <1> QED  BY <1>1, EntriesAssumption DEF EntryOf, Good

(* job.json is rewritten and nothing else that an entry depends on changes. *)
LEMMA ShowStep ==
  ASSUME IInv, IInv', NEW j \in Jobs, file[j] # NoRecord, file'[j] # NoRecord,
         file'[j].request = file[j].request,
         \A i \in Jobs : i # j => file'[i] = file[i],
         UNCHANGED <<cmd, starts, output>>
  PROVE  KeyOf(j) \in Keys /\ Ledger!Show(KeyOf(j), file'[j].status)
  <1> DEFINE status == file'[j].status
  <1>1. /\ j \in Stored /\ file'[j] \in Records /\ Truthful(file'[j], j)
        /\ status \in Ledger!Statuses
    <2>1. j \in Stored
      BY DEF Stored
    <2>2. file'[j] \in Records
      BY DEF IInv, TypeOK
    <2>3. Truthful(file[j], j)'
      BY DEF IInv, Evidence, Stored
    <2>4. Truthful(file'[j], j)
      BY <2>3 DEF Truthful, Request
    <2> QED  BY <2>1, <2>2, <2>4 DEF Records, Ledger!Statuses
  <1>2. ASSUME NEW i \in Stored, i # j PROVE EntryOf(i)' = EntryOf(i)
    BY <1>2 DEF EntryOf, Request, Stored
  <1>3. EntryOf(j)' = [EntryOf(j) EXCEPT !.status = status]
    <2>1. EntryOf(j)' = Row(j, starts[j] > 0, Good(j), status)
      BY DEF EntryOf, EntryRow, Row, Good, Request
    <2> HIDE DEF status
    <2>2. [EntryOf(j) EXCEPT !.status = status] = Row(j, starts[j] > 0, Good(j), status)
      BY EntryIsRow DEF Row, EntryRow
    <2> QED  BY <2>1, <2>2
  <1>4. /\ KeyOf(j) \in Keys /\ TheLedger[KeyOf(j)] = EntryOf(j)
        /\ TheLedger' = [TheLedger EXCEPT ![KeyOf(j)] = EntryOf(j)']
    BY <1>1, <1>2, EntryChanges
  <1>5. status = "completed" => EntryOf(j).good \/ EntryOf(j).simulated
    <2>1. CASE Request(j).mode = "mock"
      BY <1>1, <2>1, EntryTypes
    <2>2. CASE Request(j).mode # "mock" /\ status = "completed"
      <3> DEFINE evidence == file'[j].evidence
      <3>1. /\ cmd[j] = "zero" /\ evidence # NoOutput /\ evidence.quality = "complete"
            /\ evidence = output[DataDir(Request(j))] /\ evidence.by = j
        BY <1>1, <2>2 DEF Truthful, QualityOf, Records, Exits
      <3>2. evidence \in [by : Jobs, quality : Qualities]
        BY <1>1, <3>1 DEF Records, Outputs
      <3>3. evidence = [by |-> j, quality |-> "complete"]
        BY <3>1, <3>2
      <3> QED  BY <1>1, <3>1, <3>3, EntryTypes DEF Good
    <2> QED  BY <2>1, <2>2
  <1>6. /\ TheLedger[KeyOf(j)] # NoJob
        /\ status = "completed" => TheLedger[KeyOf(j)].good \/ TheLedger[KeyOf(j)].simulated
        /\ TheLedger' = [TheLedger EXCEPT ![KeyOf(j)] =
                            [TheLedger[KeyOf(j)] EXCEPT !.status = status]]
    BY <1>1, <1>3, <1>4, <1>5, EntryTypes
  <1> HIDE DEF status
  <1>7. Ledger!Show(KeyOf(j), status)
    BY <1>1, <1>4, <1>6, LedgerIs
  <1> QED  BY <1>4, <1>7 DEF status

LEMMA CreateOpens ==
  ASSUME IInv, IInv', NEW s \in Submitters, NEW j \in Jobs, Create(s, j)
  PROVE  \E k \in Keys, plan \in Plans, simulated \in BOOLEAN :
            Ledger!Open(k, plan, simulated)
  <1> DEFINE r == sub[s].request
             k == Key(r)
             simulated == r.mode = "mock"
             entry == Ledger!NewEntry(r.plan, simulated)
  <1>1. /\ r \in Requests /\ k \in Keys /\ r.plan \in Plans /\ simulated \in BOOLEAN
        /\ file[j] = NoRecord /\ \A i \in Stored : KeyOf(i) # k
    BY RequestsAssumption DEF Create, IInv, Calls, At, KeyOf, Keys, Stored, RequestType
  <1>2. /\ file'[j] = NewRecord(r, "pending") /\ file'[j] # NoRecord
        /\ \A i \in Jobs : i # j => file'[i] = file[i]
        /\ UNCHANGED <<cmd, starts, output>>
    BY <1>1, NewRecordType, WriteFacts DEF Create, IInv
  <1>3. cmd[j] = "none" /\ starts[j] = 0
    BY <1>1 DEF IInv, TypeOK, Runs, Stored
  <1>4. EntryOf(j)' = entry
    <2>1. (starts[j] > 0) = FALSE /\ Good(j)' = FALSE
      BY <1>2, <1>3 DEF Good
    <2>2. EntryOf(j)' = EntryRow(r.plan, simulated, starts[j] > 0, Good(j)', "pending")
      BY <1>2, <1>3 DEF EntryOf, EntryRow, Good, Request, NewRecord
    <2>3. EntryOf(j)' = EntryRow(r.plan, simulated, FALSE, FALSE, "pending")
      BY <2>1, <2>2
    <2> QED  BY <2>3 DEF EntryRow, Ledger!NewEntry
  <1>5. ASSUME NEW i \in Stored
        PROVE  /\ i \in Stored' /\ i # j /\ KeyOf(i)' = KeyOf(i)
               /\ EntryOf(i)' = EntryOf(i)
    BY <1>1, <1>2 DEF EntryOf, KeyOf, Request, Stored
  <1>6. j \in Stored' /\ KeyOf(j)' = k /\ \A i \in Stored' : i = j \/ i \in Stored
    BY <1>2 DEF Stored, KeyOf, Request, NewRecord
  <1>7. ASSUME NEW l \in Keys
        PROVE  Entry(l)' = IF l = k THEN entry ELSE Entry(l)
    <2>1. CASE l = k
      BY <2>1, <1>4, <1>6, EntryFactsNext DEF Entered
    <2>2. CASE l # k /\ \E i \in Stored : KeyOf(i) = l
      BY <2>2, <1>5, EntryFacts, EntryFactsNext DEF Entered
    <2>3. CASE l # k /\ \A i \in Stored : KeyOf(i) # l
      <3>1. \A i \in Stored' : KeyOf(i)' # l
        BY <2>3, <1>5, <1>6
      <3> QED  BY <2>3, <3>1, EntryFacts, EntryFactsNext DEF Entered
    <2> QED  BY <2>1, <2>2, <2>3
  <1>8. TheLedger[k] = NoJob
    BY <1>1, EntryFacts DEF Entered, TheLedger
  <1> HIDE DEF r, k, simulated, entry
  <1>9. TheLedger' = [TheLedger EXCEPT ![k] = entry]
    BY <1>1, <1>7 DEF TheLedger
  <1> QED  BY <1>1, <1>8, <1>9, LedgerIs DEF entry

LEMMA CommandRuns ==
  ASSUME IInv, IInv', NEW j \in Jobs, RunCommand(j)
  PROVE  KeyOf(j) \in Keys /\ Ledger!Run(KeyOf(j))
  <1>1. /\ j \in Stored /\ work[j].at = "launched" /\ Request(j).mode # "mock"
        /\ cmd[j] = "none" /\ starts[j] = 0 /\ cmd'[j] = "running" /\ starts'[j] = 1
        /\ \A i \in Jobs : i # j => cmd'[i] = cmd[i] /\ starts'[i] = starts[i]
        /\ UNCHANGED <<file, output>>
    BY DEF RunCommand, IInv, TypeOK, Runs
  <1>2. EntryOf(j)' = [EntryOf(j) EXCEPT !.ran = TRUE]
    <2>1. EntryOf(j)' = Row(j, starts'[j] > 0, Good(j)', file[j].status)
      BY <1>1 DEF EntryOf, EntryRow, Row, Good, Request
    <2>2. /\ (starts[j] > 0) = FALSE /\ (starts'[j] > 0) = TRUE
          /\ Good(j) = FALSE /\ Good(j)' = FALSE
      BY <1>1 DEF Good
    <2>3. EntryOf(j)' = Row(j, TRUE, FALSE, file[j].status)
      BY <2>1, <2>2
    <2>4. EntryOf(j) = Row(j, FALSE, FALSE, file[j].status)
      BY <2>2, EntryIsRow
    <2> DEFINE yes == TRUE
               no == FALSE
    <2>5. yes \in BOOLEAN /\ no \in BOOLEAN
      OBVIOUS
    <2>6. EntryOf(j) = Row(j, FALSE, no, file[j].status)
      BY <2>4
    <2> HIDE DEF yes, no
    <2>7. [EntryOf(j) EXCEPT !.ran = yes] = Row(j, yes, no, file[j].status)
      BY <2>5, <2>6 DEF Row, EntryRow
    <2> QED  BY <2>3, <2>7, Zenon DEF yes, no
  <1>3. ASSUME NEW i \in Stored, i # j PROVE EntryOf(i)' = EntryOf(i)
    BY <1>1, <1>3 DEF EntryOf, Request, Stored
  <1>4. /\ KeyOf(j) \in Keys /\ TheLedger[KeyOf(j)] = EntryOf(j)
        /\ TheLedger' = [TheLedger EXCEPT ![KeyOf(j)] = EntryOf(j)']
    BY <1>1, <1>3, EntryChanges
  <1>5. EntryOf(j) # NoJob /\ ~EntryOf(j).ran /\ ~EntryOf(j).simulated
    BY <1>1, EntryTypes
  <1> QED  BY <1>2, <1>4, <1>5, LedgerIs

LEMMA CommandSucceeds ==
  ASSUME IInv, IInv', NEW j \in Jobs, CommandEnds(j)
  PROVE  \/ TheLedger' = TheLedger
         \/ KeyOf(j) \in Keys /\ Ledger!Succeed(KeyOf(j))
  <1>1. /\ j \in Stored /\ cmd[j] = "running" /\ starts[j] = 1
        /\ \A i \in Jobs : i # j => cmd'[i] = cmd[i]
        /\ \A d \in Dirs : d # DataDir(Request(j)) => output'[d] = output[d]
        /\ UNCHANGED <<file, starts>>
    BY DEF CommandEnds, IInv, TypeOK, Runs, Stored
  <1>2. ASSUME NEW i \in Stored, i # j PROVE EntryOf(i)' = EntryOf(i)
    <2>1. /\ Request(i) \in Requests /\ Request(j) \in Requests
          /\ Key(Request(i)) # Key(Request(j))
      BY <1>1, <1>2, RecordFacts DEF IInv, Runs, Request, Records
    <2>2. output'[DataDir(Request(i))] = output[DataDir(Request(i))]
      BY <1>1, <2>1, SameDir DEF Dirs
    <2> QED  BY <1>1, <1>2, <2>2 DEF EntryOf, Request, Stored
  <1>3. /\ KeyOf(j) \in Keys /\ TheLedger[KeyOf(j)] = EntryOf(j)
        /\ TheLedger' = [TheLedger EXCEPT ![KeyOf(j)] = EntryOf(j)']
    BY <1>1, <1>2, EntryChanges
  <1>4. EntryOf(j)' = EntryOf(j) \/ EntryOf(j)' = [EntryOf(j) EXCEPT !.good = TRUE]
    <2>1. EntryOf(j)' = Row(j, starts[j] > 0, Good(j)', file[j].status)
      BY <1>1 DEF EntryOf, EntryRow, Row, Good, Request
    <2>2. Good(j) = FALSE /\ (Good(j)' = TRUE \/ Good(j)' = FALSE)
      BY <1>1 DEF Good
    <2>3. EntryOf(j) = Row(j, starts[j] > 0, FALSE, file[j].status)
      BY <2>2, EntryIsRow
    <2>4. \/ EntryOf(j)' = Row(j, starts[j] > 0, TRUE, file[j].status)
          \/ EntryOf(j)' = Row(j, starts[j] > 0, FALSE, file[j].status)
      BY <2>1, <2>2
    <2> DEFINE yes == TRUE
    <2>5. yes \in BOOLEAN
      OBVIOUS
    <2> HIDE DEF yes
    <2>6. [EntryOf(j) EXCEPT !.good = yes] = Row(j, starts[j] > 0, yes, file[j].status)
      BY <2>3, <2>5 DEF Row, EntryRow
    <2> QED  BY <2>3, <2>4, <2>6, Zenon DEF yes
  <1>5. EntryOf(j) # NoJob /\ EntryOf(j).ran
    BY <1>1, EntryTypes
  <1>6. CASE EntryOf(j)' = EntryOf(j)
    BY <1>3, <1>6, SameEntry
  <1>7. CASE EntryOf(j)' = [EntryOf(j) EXCEPT !.good = TRUE]
    BY <1>3, <1>5, <1>7, LedgerIs
  <1> QED  BY <1>4, <1>6, <1>7

(* Every step of the jobs directory is a step of the ledger or leaves it   *)
(* alone.                                                                  *)
LEMMA LedgerStep ==
  ASSUME IInv, IInv', [Next]_vars
  PROVE  Ledger!Next \/ TheLedger' = TheLedger
  <1>1. ASSUME UNCHANGED <<file, cmd, starts, output>>
        PROVE  TheLedger' = TheLedger
    BY <1>1 DEF TheLedger, Entry, EntryOf, JobsByKey, Stored, Request
  <1>2. ASSUME NEW j \in Jobs, NEW record \in Records, Write(j, record),
               file[j] \in Records, file[j].request = record.request,
               UNCHANGED <<cmd, starts, output>>
        PROVE  Ledger!Next
    <2>1. /\ file[j] # NoRecord /\ file'[j] = record /\ file'[j] # NoRecord
          /\ \A i \in Jobs : i # j => file'[i] = file[i]
      BY <1>2, WriteFacts, MarksAssumption DEF IInv
    <2>2. KeyOf(j) \in Keys /\ Ledger!Show(KeyOf(j), record.status)
      BY <1>2, <2>1, ShowStep
    <2>3. record.status \in Ledger!Statuses
      BY DEF Records, Ledger!Statuses
    <2> QED  BY <2>2, <2>3 DEF Ledger!Next, Ledger!Progress
  <1>3. ASSUME NEW s \in Submitters, Refuse(s) \/ Simulate(s) \/ StartRunning(s) \/ WritePid(s)
        PROVE  Ledger!Next
    <2>1. Owning(s) /\ UNCHANGED <<cmd, starts, output>>
      BY <1>3 DEF Owning, Refuse, Simulate, StartRunning, WritePid
    <2>2. PICK status \in {"running", "failed", "completed"} :
                Write(sub[s].job, NewRecord(sub[s].request, status))
      BY <1>3 DEF Refuse, Simulate, StartRunning, WritePid
    <2> QED  BY <1>2, <2>1, <2>2, OwnerFacts, NewRecordType
  <1>4. ASSUME NEW s \in Submitters, NEW j \in Jobs, Create(s, j)
        PROVE  Ledger!Next
    BY <1>4, CreateOpens DEF Ledger!Next
  <1>5. ASSUME NEW j \in Jobs, RunCommand(j)
        PROVE  Ledger!Next
    BY <1>5, CommandRuns DEF Ledger!Next, Ledger!Progress
  <1>6. ASSUME NEW j \in Jobs, CommandEnds(j)
        PROVE  Ledger!Next \/ TheLedger' = TheLedger
    BY <1>6, CommandSucceeds DEF Ledger!Next, Ledger!Progress
  <1>7. ASSUME NEW j \in Jobs, Record(j)
        PROVE  Ledger!Next
    <2>1. /\ work[j].copy \in Records /\ file[j] \in Records
          /\ file[j].request = work[j].copy.request
      BY <1>7, RecordFacts DEF Record, Truthful, Request
    <2> QED  BY <1>2, <1>7, <2>1 DEF Record
  <1>8. ASSUME NEW j \in Jobs, Migrate(j)
        PROVE  Ledger!Next
    <2>1. /\ View(file[j]) \in Records /\ file[j] \in Records
          /\ file[j].request = View(file[j]).request
      BY <1>8, RecordFacts, ViewFacts DEF Migrate
    <2> QED  BY <1>2, <1>8, <2>1 DEF Migrate
  <1>9. CASE \E s \in Submitters :
               \/ \E r \in Requests : Submit(s, r)
               \/ Lock(s) \/ Reuse(s) \/ FindNone(s) \/ Launch(s) \/ CrashSubmitter(s)
    BY <1>1, <1>9 DEF Submit, Lock, Reuse, FindNone, Launch, CrashSubmitter
  <1>10. CASE \E j \in Jobs : Settle(j) \/ Trip(j) \/ CrashWorker(j)
    BY <1>1, <1>10 DEF Settle, Trip, CrashWorker
  <1>11. CASE UNCHANGED vars
    BY <1>1, <1>11 DEF vars
  <1> QED
    BY <1>3, <1>4, <1>5, <1>6, <1>7, <1>8, <1>9, <1>10, <1>11 DEF Next, Call

(* The jobs directory implements the ledger: one job and one run for every *)
(* key, "completed" only when that run succeeded and left complete results. *)
THEOREM LedgerTheorem == Spec => ImplementsJobLedger
  <1>1. Init => Ledger!Init
    <2> SUFFICES ASSUME Init PROVE TheLedger = [k \in Keys |-> NoJob]
      BY LedgerIs
    <2>1. Stored = {}
      BY DEF Init, Stored
    <2> QED  BY <2>1 DEF TheLedger, Entry, JobsByKey
  <1>2. IInv /\ IInv' /\ [Next]_vars =>
           [Ledger!Next]_([k \in Keys |-> IF JobsByKey(k) = {} THEN NoJob
                              ELSE EntryOf(CHOOSE j \in JobsByKey(k) : TRUE)])
    BY LedgerStep DEF TheLedger, Entry
  <1> QED
    BY <1>1, <1>2, SpecHoldsIInv, PTL DEF Spec, ImplementsJobLedger, Ledger!Spec
=============================================================================
