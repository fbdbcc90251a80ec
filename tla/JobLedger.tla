------------------------------ MODULE JobLedger -----------------------------
(***************************************************************************)
(* What the job manager promises the rest of the program: one job for      *)
(* every execution key, whose command is started at most once and whose    *)
(* status is "completed" only when that very run left complete results.    *)
(* BenchmarkJobs.tla implements it; ExecutionApprovals.tla builds on it.   *)
(***************************************************************************)
CONSTANTS Keys,     \* execution keys
          Plans,    \* the plans jobs run
          NoJob     \* the entry of a key nothing was submitted for

VARIABLE ledger

Statuses == {"pending", "running", "failed", "partial", "completed"}
Entries == [plan : Plans, simulated : BOOLEAN,
            ran : BOOLEAN,    \* the command was started
            good : BOOLEAN,   \* it succeeded and left complete results
            status : Statuses]

NewEntry(plan, simulated) ==
    [plan |-> plan, simulated |-> simulated, ran |-> FALSE, good |-> FALSE,
     status |-> "pending"]

Becomes(k, entry) == ledger' = [ledger EXCEPT ![k] = entry]

Init == ledger = [k \in Keys |-> NoJob]

Open(k, plan, simulated) == /\ ledger[k] = NoJob
                            /\ Becomes(k, NewEntry(plan, simulated))

Run(k) == /\ ledger[k] # NoJob
          /\ ~ledger[k].ran /\ ~ledger[k].simulated
          /\ Becomes(k, [ledger[k] EXCEPT !.ran = TRUE])

Succeed(k) == /\ ledger[k] # NoJob
              /\ ledger[k].ran
              /\ Becomes(k, [ledger[k] EXCEPT !.good = TRUE])

(* The record may show any status, an earlier one too.                     *)
Show(k, status) == /\ ledger[k] # NoJob
                   /\ status = "completed" => ledger[k].good \/ ledger[k].simulated
                   /\ Becomes(k, [ledger[k] EXCEPT !.status = status])

Progress(k) == Run(k) \/ Succeed(k) \/ \E status \in Statuses : Show(k, status)

Next == \E k \in Keys : \/ \E plan \in Plans, simulated \in BOOLEAN :
                              Open(k, plan, simulated)
                        \/ Progress(k)

Spec == Init /\ [][Next]_ledger
=============================================================================
