----------------------- MODULE RuntimeObservationsProofs -----------------------
(***************************************************************************)
(* Proofs about RuntimeObservations for every set of transactions and of   *)
(* repository revisions, every number of crashes, both initial states, and *)
(* every choice of the two faults.  A step of the runtime is read as a     *)
(* step of the store; the log is followed record by record.  The order of  *)
(* the log holds only without the two faults and is proved last.           *)
(***************************************************************************)
EXTENDS RuntimeObservations, TurnTransactionsProofs, SequenceTheorems

(* The rows of the runtime's own state.                                    *)
LogRows == [schema : {"v6", "older", "torn"}, seq : Nat, tx : TxIds \cup {Root},
            payload : Payloads \cup {NoPayload}]
Stages == {"absent", "clean", "invoking", "invoked"}
RuntimeRows == [step : Steps, cur : TxIds \cup {Root}, at : Nat,
                goal : TxIds \cup {Root}]

RuntimeShape ==
    /\ runtime \in RuntimeRows
    /\ repo \in Revs
    /\ origin \in [TxIds -> Revs \cup {NoRev}]
    /\ \A t \in TxIds : origin[t] = NoRev <=> attempts[t].status = "absent"
    /\ stage \in [TxIds -> Stages]
    /\ stale \in BOOLEAN /\ crashes \in 0..MaxCrashes

(* The log: whole records are of turns and carry payloads, and current     *)
(* ones are of committed turns, one each, at their revision.               *)
LogShape ==
    /\ log \in Seq(LogRows)
    /\ \A i \in DOMAIN log : log[i].schema = "v6" => log[i].payload \in Payloads
    /\ LogHoldsCommitsOnce

(* What the runtime's position says of the store and of the log.           *)
Working == runtime.step \in {"seeding", "running"} =>
              runtime.cur \in ActiveAttempts /\ runtime.at = 0
Observing == runtime.step = "observing" =>
                /\ runtime.cur \in Committed /\ runtime.at = 0
                /\ \A t \in TxIds : Logged(t) => t # runtime.cur
Marking == runtime.step = "marking" =>
              /\ runtime.cur \in Committed /\ log # <<>>
              /\ log[Len(log)].schema = "v6" /\ log[Len(log)].tx = runtime.cur
              /\ runtime.at # 0 => outbox[runtime.cur].product.rev = runtime.at
Rebuilding ==
    /\ runtime.step = "rebuilding" => runtime.at # 0
    /\ runtime.step \in {"rebuilding", "marking"} =>
          \A t \in Committed :
             outbox[t].product.rev < runtime.at => outbox[t].event = "published"
Quarantining == runtime.step = "quarantining" => PublishedEvents = {}

Evidence(t) == /\ outbox[t].event = "published"
               /\ \E i \in DOMAIN log :
                     /\ log[i].schema = "v6" /\ log[i].tx = t
                     /\ log[i].payload = outbox[t].payload
                     /\ log[i].payload.rev = origin[t]
Presenting == runtime.step = "presenting" =>
                 /\ runtime.goal \in TxIds
                 /\ \A t \in Committed : t = runtime.goal => Evidence(t)

Phases == /\ Working /\ Observing /\ Marking
          /\ Rebuilding /\ Quarantining /\ Presenting

Stored == Turns /\ DetourTypes /\ Authority

(* The inductive invariant.                                                *)
RuntimeInv == /\ Stored /\ RuntimeShape /\ LogShape /\ Phases
              /\ PublishedIsLogged /\ InvokedIsNeverAborted

-----------------------------------------------------------------------------
(* What the store's operations do to the rows the log is compared with.    *)
Kept == \A t \in TxIds :
           outbox[t].kind # "none" =>
              outbox'[t].kind = outbox[t].kind /\ outbox'[t].product = outbox[t].product

SameBegun == \A t \in TxIds : attempts'[t].status = "absent" <=> attempts[t].status = "absent"

Unpublished == \A t \in TxIds : outbox'[t].event = "published" =>
                  outbox[t].event = "published" /\ outbox'[t].payload = outbox[t].payload

LEMMA FinishKeeps ==
    ASSUME Turns, NEW t \in TxIds, NEW kind \in Kinds, NEW product,
           FinishAttempt(t, kind, product)
    PROVE  /\ Kept /\ SameBegun /\ Unpublished
           /\ outbox[t].kind = "none" /\ outbox'[t].kind = kind
           /\ outbox'[t].product = product
           /\ \A u \in TxIds : u # t => outbox'[u] = outbox[u]
<1>1. /\ attempts[t].status = "active" /\ outbox[t].kind = "none"
      /\ attempts' = [attempts EXCEPT ![t] = [status |-> kind, base |-> head]]
      /\ outbox' = [outbox EXCEPT ![t] =
            [kind |-> kind, product |-> product,
             event |-> IF kind = "committed" THEN "pending" ELSE "not_applicable",
             payload |-> NoPayload, delivered |-> FALSE]]
  BY FinishWrites
<1>2. t \in DOMAIN outbox /\ t \in DOMAIN attempts
  BY DEF Turns, TurnTypes
<1>3. outbox'[t].kind = kind /\ outbox'[t].product = product /\ outbox'[t].event # "published"
  BY <1>1, <1>2
<1>4. \A u \in TxIds : u # t => outbox'[u] = outbox[u] /\ attempts'[u] = attempts[u]
  BY <1>1, <1>2 DEF Turns, TurnTypes
<1>5. attempts'[t].status = kind
  BY <1>1, <1>2
<1>6. kind # "absent"
  BY DEF Kinds
<1>7. Kept
  BY <1>1, <1>4 DEF Kept
<1>8. SameBegun
  BY <1>1, <1>4, <1>5, <1>6 DEF SameBegun
<1>9. Unpublished
  BY <1>3, <1>4 DEF Unpublished
<1>10. QED BY <1>1, <1>3, <1>4, <1>7, <1>8, <1>9

(* A close of either kind, by the turn itself or by a later start.         *)
LEMMA CloseKeeps ==
    ASSUME Turns, NEW t \in TxIds, CloseByEvidence(t)
    PROVE  /\ Kept /\ SameBegun /\ Unpublished
           /\ outbox'[t].kind = "aborted" => stage[t] = "clean"
           /\ \A u \in TxIds : u # t => outbox'[u] = outbox[u]
<1>1. CASE RequireReconciliation(t)
  BY <1>1, FinishKeeps DEF RequireReconciliation, Kinds
<1>2. CASE stage[t] = "clean" /\ AbortAttempt(t)
  BY <1>2, FinishKeeps DEF AbortAttempt, Kinds
<1>3. QED BY <1>1, <1>2 DEF CloseByEvidence

LEMMA PublishKeeps ==
    ASSUME Turns, NEW t \in TxIds, NEW p, MarkRuntimeEventPublished(t, p)
    PROVE  /\ Kept /\ SameBegun
           /\ \A u \in TxIds : /\ outbox'[u].kind = outbox[u].kind
                               /\ outbox'[u].product = outbox[u].product
                               /\ u # t => outbox'[u] = outbox[u]
           /\ outbox'[t].event = "published" /\ outbox'[t].payload = p
<1>1. outbox \in [TxIds -> OutboxRows]
  BY DEF Turns, TurnTypes, OutboxRows
<1>2. /\ outbox' = [outbox EXCEPT ![t].event = "published", ![t].payload = p]
      /\ attempts' = attempts
  BY DEF MarkRuntimeEventPublished
<1>3. /\ \A u \in TxIds : u # t => outbox'[u] = outbox[u]
      /\ outbox'[t].event = "published" /\ outbox'[t].payload = p
      /\ outbox'[t].kind = outbox[t].kind /\ outbox'[t].product = outbox[t].product
  BY <1>1, <1>2 DEF OutboxRows
<1>4. QED BY <1>2, <1>3 DEF Kept, SameBegun

(* A record of a turn is what RecordOf finds.                              *)
LEMMA RecordOfFinds ==
    ASSUME LogHoldsCommitsOnce, NEW t \in TxIds, NEW i \in DOMAIN log,
           log[i].schema = "v6", log[i].tx = t
    PROVE  RecordOf(t) = log[i]
<1> DEFINE k == CHOOSE j \in DOMAIN log : log[j].schema = "v6" /\ log[j].tx = t
<1>1. k \in DOMAIN log /\ log[k].schema = "v6" /\ log[k].tx = t
  OBVIOUS
<1> HIDE DEF k
<1>2. k = i
  BY <1>1 DEF LogHoldsCommitsOnce
<1> USE DEF k
<1>3. QED BY <1>2 DEF RecordOf

-----------------------------------------------------------------------------
(* What a step does to the log.                                            *)

LEMMA LogStays ==
    ASSUME Turns, LogShape, Kept, UNCHANGED log
    PROVE  LogShape'
<1>1. \A t \in Committed : t \in Committed' /\ outbox'[t].product = outbox[t].product
  BY DEF Kept, Committed
<1>2. LogHoldsCommitsOnce'
  BY <1>1 DEF LogShape, LogHoldsCommitsOnce
<1>3. QED BY <1>2 DEF LogShape

LEMMA LogGrows ==
    ASSUME LogShape, UNCHANGED outbox, NEW record \in LogRows, log' = Append(log, record),
           record.schema = "v6" =>
              /\ record.payload \in Payloads /\ record.tx \in Committed
              /\ record.seq = outbox[record.tx].product.rev
              /\ ~Logged(record.tx)
    PROVE  /\ LogShape'
           /\ \A i \in DOMAIN log : i \in DOMAIN log' /\ log'[i] = log[i]
           /\ Len(log') \in DOMAIN log' /\ log'[Len(log')] = record
           /\ DOMAIN log' = DOMAIN log \cup {Len(log')}
<1>1. log \in Seq(LogRows)
  BY DEF LogShape
<1>2. /\ log' \in Seq(LogRows) /\ Len(log') = Len(log) + 1
      /\ log'[Len(log) + 1] = record
      /\ \A i \in 1..Len(log) : log'[i] = log[i]
  BY <1>1
<1>3. DOMAIN log = 1..Len(log) /\ DOMAIN log' = 1..(Len(log) + 1) /\ Len(log) \in Nat
  BY <1>1, <1>2
<1>4. \A i \in DOMAIN log' : i \in DOMAIN log \/ i = Len(log')
  BY <1>2, <1>3
<1>5. Committed' = Committed
  BY DEF Committed
<1>6. \A i \in DOMAIN log' : log'[i].schema = "v6" =>
         /\ log'[i].payload \in Payloads /\ log'[i].tx \in Committed
         /\ log'[i].seq = outbox[log'[i].tx].product.rev
  BY <1>2, <1>3, <1>4 DEF LogShape, LogHoldsCommitsOnce
<1>7. \A i \in DOMAIN log : log[i].schema = "v6" /\ record.schema = "v6" =>
         log[i].tx # record.tx
  BY DEF Logged
<1>8. \A i, j \in DOMAIN log' :
         log'[i].schema = "v6" /\ log'[j].schema = "v6" /\ log'[i].tx = log'[j].tx => i = j
  BY <1>2, <1>3, <1>4, <1>7 DEF LogShape, LogHoldsCommitsOnce
<1>9. LogHoldsCommitsOnce'
  BY <1>5, <1>6, <1>8 DEF LogHoldsCommitsOnce
<1>10. LogShape'
  BY <1>2, <1>6, <1>9 DEF LogShape
<1>11. QED BY <1>2, <1>3, <1>10

(* Receipts stay covered while the log keeps its records.                  *)
LEMMA ReceiptsStay ==
    ASSUME PublishedIsLogged, Unpublished,
           \A i \in DOMAIN log : i \in DOMAIN log' /\ log'[i] = log[i]
    PROVE  PublishedIsLogged'
<1> SUFFICES ASSUME NEW t \in PublishedEvents'
             PROVE  \E i \in DOMAIN log' : log'[i].tx = t /\ log'[i].payload = outbox'[t].payload
  BY DEF PublishedIsLogged
<1>1. t \in PublishedEvents /\ outbox'[t].payload = outbox[t].payload
  BY DEF PublishedEvents, Unpublished
<1>2. PICK i \in DOMAIN log : log[i].tx = t /\ log[i].payload = outbox[t].payload
  BY <1>1 DEF PublishedIsLogged
<1>3. QED BY <1>1, <1>2

LEMMA PhasesKeep ==
    ASSUME Phases, UNCHANGED <<runtime, store, log, origin>> PROVE Phases'
<1>1. /\ runtime' = runtime /\ attempts' = attempts /\ outbox' = outbox /\ log' = log
      /\ origin' = origin
  BY DEF store
<1>2. Working' /\ Marking' /\ Rebuilding' /\ Quarantining'
  BY <1>1 DEF Phases, Working, Marking, Rebuilding, Quarantining, ActiveAttempts, Committed,
     PublishedEvents
<1>3. Observing'
  BY <1>1 DEF Phases, Observing, Committed, Logged
<1>4. Presenting'
  BY <1>1 DEF Phases, Presenting, Committed, Evidence
<1>5. QED BY <1>2, <1>3, <1>4 DEF Phases

LEMMA PhasesRest ==
    ASSUME runtime'.step \in {"down", "closing", "scanning", "idle"} PROVE Phases'
BY DEF Phases, Working, Observing, Marking, Rebuilding, Quarantining, Presenting
-----------------------------------------------------------------------------
(* The runtime's own position.                                             *)
LEMMA Positions ==
    /\ Down \in RuntimeRows /\ Down.step = "down"
    /\ Idle \in RuntimeRows /\ Idle.step = "idle" /\ Idle.at = 0
<1>1. Idle = [step |-> "idle", cur |-> Root, at |-> 0, goal |-> Root]
  BY DEF Idle, Down
<1>2. QED BY <1>1 DEF Down, RuntimeRows, Steps

LEMMA GoesTo ==
    ASSUME runtime \in RuntimeRows, NEW step \in Steps, Goes(step)
    PROVE  /\ runtime' \in RuntimeRows /\ runtime'.step = step
           /\ runtime'.cur = runtime.cur /\ runtime'.at = runtime.at
           /\ runtime'.goal = runtime.goal
BY DEF Goes, RuntimeRows

(* Going on in a scan, at some revision.                                   *)
LEMMA ScansAt ==
    ASSUME runtime \in RuntimeRows, NEW step \in Steps, NEW at \in Nat,
           runtime' = [runtime EXCEPT !.step = step, !.at = at]
    PROVE  /\ runtime' \in RuntimeRows /\ runtime'.step = step
           /\ runtime'.at = at /\ runtime'.goal = runtime.goal
BY DEF RuntimeRows

(* Nothing but the runtime's position moves, or the surroundings.          *)
LEMMA QuietStep ==
    ASSUME RuntimeInv, UNCHANGED <<store, log, origin, stage>>,
           runtime' \in RuntimeRows, repo' \in Revs, stale' \in BOOLEAN,
           crashes' \in 0..MaxCrashes, Phases'
    PROVE  RuntimeShape' /\ LogShape' /\ PublishedIsLogged' /\ InvokedIsNeverAborted' /\ Phases'
<1>1. attempts' = attempts /\ outbox' = outbox /\ log' = log
  BY DEF store
<1>2. RuntimeShape'
  BY <1>1 DEF RuntimeInv, RuntimeShape
<1>3. Kept /\ Unpublished
  BY <1>1 DEF Kept, Unpublished
<1>4. LogShape'
  BY <1>3, LogStays DEF RuntimeInv, Stored
<1>5. PublishedIsLogged'
  BY <1>1, <1>3, ReceiptsStay DEF RuntimeInv
<1>6. InvokedIsNeverAborted'
  BY <1>1 DEF RuntimeInv, InvokedIsNeverAborted
<1>7. QED BY <1>2, <1>4, <1>5, <1>6

(* The store moves, no receipt is added and nothing is aborted untouched.  *)
LEMMA StoreStep ==
    ASSUME RuntimeInv, UNCHANGED <<log, repo, origin, stage, crashes>>, stale' \in BOOLEAN,
           runtime' \in RuntimeRows, Phases', Kept, SameBegun, PublishedIsLogged',
           \A t \in TxIds : outbox'[t].kind = "aborted" =>
              outbox[t].kind = "aborted" \/ stage[t] # "invoked"
    PROVE  RuntimeShape' /\ LogShape' /\ PublishedIsLogged' /\ InvokedIsNeverAborted' /\ Phases'
<1>1. RuntimeShape'
  BY DEF RuntimeInv, RuntimeShape, SameBegun
<1>2. LogShape'
  BY LogStays DEF RuntimeInv, Stored
<1>3. InvokedIsNeverAborted'
  BY DEF RuntimeInv, InvokedIsNeverAborted
<1>4. QED BY <1>1, <1>2, <1>3

(* The log moves and the store stays.                                      *)
LEMMA LogStep ==
    ASSUME RuntimeInv, UNCHANGED store, Beside, runtime' \in RuntimeRows,
           Phases', LogShape', PublishedIsLogged'
    PROVE  RuntimeShape' /\ LogShape' /\ PublishedIsLogged' /\ InvokedIsNeverAborted' /\ Phases'
<1>1. attempts' = attempts /\ outbox' = outbox /\ UNCHANGED <<repo, origin, stage, stale, crashes>>
  BY DEF store, Beside
<1>2. RuntimeShape'
  BY <1>1 DEF RuntimeInv, RuntimeShape
<1>3. InvokedIsNeverAborted'
  BY <1>1 DEF RuntimeInv, InvokedIsNeverAborted
<1>4. QED BY <1>2, <1>3

(* A record appended for a turn that has none.                             *)
LEMMA AppendStep ==
    ASSUME RuntimeInv, UNCHANGED store, Beside, NEW t \in Committed, ~Logged(t),
           NEW o \in Observations, AppendRecord(t, o)
    PROVE  /\ LogShape' /\ PublishedIsLogged'
           /\ log' # <<>> /\ log'[Len(log')].schema = "v6" /\ log'[Len(log')].tx = t
<1> DEFINE record == Record("v6", t, [rev |-> repo, observation |-> o])
<1>1. outbox' = outbox /\ attempts' = attempts /\ repo \in Revs
  BY DEF store, RuntimeInv, RuntimeShape
<1>2. t \in TxIds /\ outbox[t].product \in Heads
  BY DEF Committed, RuntimeInv, Stored, Turns, TurnTypes, TablesAgree, MaybeHead
<1>3. [rev |-> repo, observation |-> o] \in Payloads
  BY <1>1, PayloadsAssumption
<1>4. /\ record \in LogRows /\ record.tx = t /\ record.schema = "v6"
      /\ record.seq = outbox[t].product.rev /\ record.payload \in Payloads
  BY <1>2, <1>3 DEF Record, LogRows, Heads
<1>5. log' = Append(log, record)
  BY DEF AppendRecord
<1> HIDE DEF record
<1>6. /\ LogShape' /\ \A i \in DOMAIN log : i \in DOMAIN log' /\ log'[i] = log[i]
      /\ Len(log') \in DOMAIN log' /\ log'[Len(log')] = record
  BY <1>1, <1>4, <1>5, LogGrows DEF RuntimeInv
<1>7. PublishedIsLogged'
  BY <1>1, <1>6, ReceiptsStay DEF RuntimeInv, Unpublished
<1>8. log' # <<>>
  BY <1>6
<1>9. QED BY <1>4, <1>6, <1>7, <1>8

(* A receipt for a record the log holds.                                   *)
LEMMA ReceiptStep ==
    ASSUME RuntimeInv, UNCHANGED log, NEW t \in TxIds, NEW i \in DOMAIN log,
           log[i].tx = t, MarkRuntimeEventPublished(t, log[i].payload)
    PROVE  /\ PublishedIsLogged'
           /\ \A u \in TxIds : outbox'[u].kind = "aborted" => outbox[u].kind = "aborted"
<1>1. /\ \A u \in TxIds : outbox'[u].kind = outbox[u].kind /\ (u # t => outbox'[u] = outbox[u])
      /\ outbox'[t].event = "published" /\ outbox'[t].payload = log[i].payload
  BY PublishKeeps DEF RuntimeInv, Stored
<1>2. ASSUME NEW u \in PublishedEvents'
      PROVE  \E j \in DOMAIN log' : log'[j].tx = u /\ log'[j].payload = outbox'[u].payload
  <2>1. CASE u = t
    BY <1>1, <2>1
  <2>2. CASE u # t
    <3>1. u \in PublishedEvents /\ outbox'[u] = outbox[u]
      BY <1>1, <1>2, <2>2 DEF PublishedEvents
    <3>2. QED BY <3>1 DEF RuntimeInv, PublishedIsLogged
  <2>3. QED BY <2>1, <2>2
<1>3. QED BY <1>1, <1>2 DEF PublishedIsLogged
-----------------------------------------------------------------------------
(* A revision of a committed turn is at least 1, the revision a scan       *)
(* starts at, and belongs to that turn alone.                              *)
LEMMA CommittedRevisions ==
    ASSUME Turns
    PROVE  /\ \A t \in Committed : /\ t \in TxIds /\ outbox[t].product \in Heads
                                   /\ outbox[t].product.rev \in Nat \ {0}
           /\ \A t, u \in Committed :
                 outbox[t].product.rev = outbox[u].product.rev => t = u
<1> USE NoHeadAssumption
<1>1. ASSUME NEW t \in Committed
      PROVE  /\ t \in TxIds /\ outbox[t].product \in Heads
             /\ outbox[t].product.rev \in Nat \ {0}
  <2>1. t \in TxIds /\ outbox[t].kind = "committed"
    BY <1>1 DEF Committed
  <2>2. outbox[t].product \in Heads
    BY <2>1 DEF Turns, TurnTypes, TablesAgree, MaybeHead
  <2>3. attempts[t].base \in Heads /\ outbox[t].product.rev = attempts[t].base.rev + 1
    BY <1>1, <2>1 DEF Turns, TurnTypes, CommitsFormOneChain, MaybeHead
  <2>4. attempts[t].base.rev \in Nat
    BY <2>3 DEF Heads
  <2>5. QED BY <2>1, <2>2, <2>3, <2>4
<1>2. QED BY <1>1 DEF Turns, CommitsFormOneChain

(* Nothing of the runtime depends on what was committed below revision 1.  *)
LEMMA ScanStarts ==
    ASSUME Turns, UNCHANGED outbox,
           runtime'.step = "rebuilding", runtime'.at = 1
    PROVE  Phases'
<1>1. \A t \in Committed' : ~(outbox'[t].product.rev < runtime'.at)
  BY CommittedRevisions DEF Committed
<1>2. Rebuilding'
  BY <1>1 DEF Rebuilding
<1>3. QED BY <1>2 DEF Phases, Working, Observing, Marking, Quarantining, Presenting

(* A receipt at the scan's revision lets it go on to the next.             *)
LEMMA ScanGoesOn ==
    ASSUME RuntimeInv, runtime.step \in {"rebuilding", "marking"}, runtime.at # 0,
           NEW t \in Committed, outbox[t].product.rev = runtime.at,
           NEW p, MarkRuntimeEventPublished(t, p),
           runtime'.step = "rebuilding", runtime'.at = runtime.at + 1
    PROVE  Phases'
<1>1. /\ \A u \in TxIds : /\ outbox'[u].kind = outbox[u].kind
                          /\ outbox'[u].product = outbox[u].product
                          /\ u # t => outbox'[u] = outbox[u]
      /\ outbox'[t].event = "published"
  BY PublishKeeps DEF RuntimeInv, Stored, Committed
<1>2. Committed' = Committed
  BY <1>1 DEF Committed
<1>3. runtime.at \in Nat
  BY DEF RuntimeInv, RuntimeShape, RuntimeRows
<1>4. ASSUME NEW u \in Committed, outbox[u].product.rev < runtime.at + 1
      PROVE  outbox'[u].event = "published"
  <2>1. u \in TxIds /\ outbox[u].product.rev \in Nat
    BY CommittedRevisions DEF RuntimeInv, Stored
  <2>2. CASE outbox[u].product.rev = runtime.at
    <3>1. u = t
      BY <2>2, CommittedRevisions DEF RuntimeInv, Stored
    <3>2. QED BY <1>1, <3>1
  <2>3. CASE outbox[u].product.rev # runtime.at
    <3>1. outbox[u].product.rev < runtime.at
      BY <1>3, <1>4, <2>1, <2>3
    <3>2. outbox[u].event = "published"
      BY <3>1 DEF RuntimeInv, Phases, Rebuilding
    <3>3. QED BY <1>1, <2>1, <2>3, <3>2
  <2>4. QED BY <2>2, <2>3
<1>5. Rebuilding'
  <2>1. runtime'.at # 0
    BY <1>3
  <2>2. \A u \in Committed' : outbox'[u].product.rev < runtime'.at => outbox'[u].event = "published"
    BY <1>1, <1>2, <1>4 DEF Committed
  <2>3. QED BY <2>1, <2>2 DEF Rebuilding
<1>6. QED BY <1>5 DEF Phases, Working, Observing, Marking, Quarantining, Presenting

(* A scan ends with what a presentation needs.                             *)
LEMMA ScanEnds ==
    ASSUME RuntimeInv, UNCHANGED <<store, log, origin>>, Rebuilt, NEW t \in Committed,
           Presentable(t)
    PROVE  Evidence(t)'
<1>1. t \in TxIds
  BY DEF Committed
<1>2. PICK i \in DOMAIN log : log[i].schema = "v6" /\ log[i].tx = t
  BY DEF Presentable, Logged
<1>3. RecordOf(t) = log[i]
  BY <1>1, <1>2, RecordOfFinds DEF RuntimeInv, LogShape
<1>4. outbox[t].event = "published"
  BY DEF Rebuilt, RuntimeInv, Phases, Rebuilding
<1>5. log[i].payload.rev = origin[t] /\ outbox[t].payload = log[i].payload
  BY <1>3, <1>4 DEF Presentable, Validates
<1>6. outbox' = outbox /\ log' = log /\ origin' = origin
  BY DEF store
<1>7. QED BY <1>2, <1>4, <1>5, <1>6 DEF Evidence

LEMMA RequeueKeeps ==
    ASSUME Turns, RequeueRuntimeEvents
    PROVE  /\ Kept /\ SameBegun /\ PublishedEvents' = {}
           /\ \A t \in TxIds : outbox'[t].kind = outbox[t].kind
<1>1. outbox \in [TxIds -> OutboxRows]
  BY DEF Turns, TurnTypes, OutboxRows
<1>2. ASSUME NEW t \in TxIds
      PROVE  /\ outbox'[t].kind = outbox[t].kind /\ outbox'[t].product = outbox[t].product
             /\ outbox'[t].event # "published"
  <2>1. CASE t \in Committed
    <3>1. outbox'[t] = [outbox[t] EXCEPT !.event = "pending", !.payload = NoPayload]
      BY <2>1 DEF RequeueRuntimeEvents
    <3>2. QED BY <1>1, <3>1 DEF OutboxRows
  <2>2. CASE t \notin Committed
    <3>1. outbox'[t] = outbox[t]
      BY <2>2 DEF RequeueRuntimeEvents
    <3>2. outbox[t].event # "published"
      BY <2>2 DEF Committed, Turns, TablesAgree
    <3>3. QED BY <3>1, <3>2
  <2>3. QED BY <2>1, <2>2
<1>3. SameBegun
  BY DEF RequeueRuntimeEvents, SameBegun
<1>4. QED BY <1>2, <1>3 DEF Kept, PublishedEvents
-----------------------------------------------------------------------------
(* Every step of the runtime and of its surroundings keeps its own state,  *)
(* the log and the phases.                                                 *)
LEMMA OwnStep ==
    ASSUME RuntimeInv, RuntimeNext
    PROVE  RuntimeShape' /\ LogShape' /\ PublishedIsLogged' /\ InvokedIsNeverAborted' /\ Phases'
<1> DEFINE Good == /\ RuntimeShape' /\ LogShape' /\ PublishedIsLogged'
                   /\ InvokedIsNeverAborted' /\ Phases'
<1>1. /\ Turns /\ runtime \in RuntimeRows /\ repo \in Revs /\ stale \in BOOLEAN
      /\ crashes \in 0..MaxCrashes /\ origin \in [TxIds -> Revs \cup {NoRev}]
      /\ stage \in [TxIds -> Stages]
  BY DEF RuntimeInv, Stored, RuntimeShape
<1>2. Working /\ Observing /\ Marking /\ Rebuilding /\ Quarantining /\ Presenting
  BY DEF RuntimeInv, Phases
<1>3. LogShape /\ LogHoldsCommitsOnce /\ PublishedIsLogged /\ InvokedIsNeverAborted
  BY DEF RuntimeInv, LogShape
<1>4. /\ runtime.at \in Nat /\ runtime.cur \in TxIds \cup {Root}
      /\ runtime.goal \in TxIds \cup {Root}
  BY <1>1 DEF RuntimeRows
<1>5. ASSUME UNCHANGED <<store, log>>, Beside, runtime' \in RuntimeRows, Phases' PROVE Good
  BY <1>1, <1>5, QuietStep DEF Beside
<1>6. ASSUME UNCHANGED log, Beside, runtime' \in RuntimeRows, Phases',
             Kept, SameBegun, PublishedIsLogged',
             \A t \in TxIds : outbox'[t].kind = "aborted" =>
                outbox[t].kind = "aborted" \/ stage[t] # "invoked"
      PROVE  Good
  BY <1>1, <1>6, StoreStep DEF Beside
<1>7. ASSUME Unpublished, UNCHANGED log PROVE PublishedIsLogged'
  BY <1>3, <1>7, ReceiptsStay
<1>8. ASSUME Start \/ FinishClosing \/ RefuseLog \/ RefuseGoal \/ (\E t \in TxIds : RefuseRecord(t))
      PROVE  Good
  <2>1. /\ UNCHANGED <<store, log>> /\ Beside
        /\ Goes("closing") \/ Goes("scanning") \/ runtime' = Down
    BY <1>8 DEF Start, FinishClosing, RefuseLog, RefuseGoal, RefuseRecord
  <2>2. runtime' \in RuntimeRows /\ runtime'.step \in {"closing", "scanning", "down"}
    BY <1>1, <2>1, GoesTo, Positions DEF Steps
  <2>3. QED BY <1>5, <2>1, <2>2, PhasesRest
<1>9. ASSUME AcceptLog PROVE Good
  <2>1. UNCHANGED <<store, log>> /\ Beside
        /\ runtime' = [runtime EXCEPT !.step = "rebuilding", !.at = 1]
    BY <1>9 DEF AcceptLog
  <2>2. runtime' \in RuntimeRows /\ runtime'.step = "rebuilding" /\ runtime'.at = 1
    BY <1>1, <2>1, ScansAt DEF Steps
  <2>3. UNCHANGED outbox
    BY <2>1 DEF store
  <2>4. QED BY <1>1, <1>5, <2>1, <2>2, <2>3, ScanStarts
<1>10. ASSUME FinishRebuild PROVE Good
  <2> DEFINE step == IF runtime.goal = Root THEN "idle" ELSE "presenting"
  <2>1. /\ UNCHANGED <<store, log>> /\ Beside /\ Rebuilt
        /\ runtime.goal # Root => Presentable(runtime.goal)
        /\ runtime' = [runtime EXCEPT !.step = step, !.at = 0]
    BY <1>10 DEF FinishRebuild
  <2>2. /\ runtime' \in RuntimeRows /\ runtime'.step = step /\ runtime'.at = 0
        /\ runtime'.goal = runtime.goal
    BY <1>1, <2>1, ScansAt DEF Steps
  <2>3. CASE runtime.goal = Root
    BY <1>5, <2>1, <2>2, <2>3, PhasesRest
  <2>4. CASE runtime.goal # Root
    <3>1. runtime.goal \in TxIds /\ runtime'.step = "presenting"
      BY <1>4, <2>2, <2>4
    <3>2. UNCHANGED <<store, log, origin>> /\ Committed' = Committed
      BY <2>1 DEF Beside, store, Committed
    <3>3. \A t \in Committed : t = runtime.goal => Evidence(t)'
      BY <2>1, <2>4, <3>2, ScanEnds
    <3>4. Presenting'
      BY <2>2, <3>1, <3>2, <3>3 DEF Presenting
    <3>5. Phases'
      BY <3>1, <3>4 DEF Phases, Working, Observing, Marking, Rebuilding, Quarantining
    <3>6. QED BY <1>5, <2>1, <2>2, <3>5
  <2>5. QED BY <2>3, <2>4
<1>11. ASSUME NEW t \in TxIds, Present(t) PROVE Good
  <2> DEFINE step == IF t \in Committed THEN "scanning" ELSE "presenting"
  <2>1. UNCHANGED <<store, log>> /\ Beside /\ runtime' = [Idle EXCEPT !.goal = t, !.step = step]
    BY <1>11 DEF Present
  <2>2. runtime' \in RuntimeRows /\ runtime'.step = step /\ runtime'.goal = t
    BY <2>1, Positions DEF RuntimeRows, Steps
  <2>3. CASE t \in Committed
    BY <1>5, <2>1, <2>2, <2>3, PhasesRest
  <2>4. CASE t \notin Committed
    <3>1. Committed' = Committed
      BY <2>1 DEF store, Committed
    <3>2. Presenting'
      BY <2>2, <2>4, <3>1 DEF Presenting
    <3>3. runtime'.step = "presenting"
      BY <2>2, <2>4
    <3>4. Phases'
      BY <3>2, <3>3 DEF Phases, Working, Observing, Marking, Rebuilding, Quarantining
    <3>5. QED BY <1>5, <2>1, <2>2, <3>4
  <2>5. QED BY <2>3, <2>4
<1>12. ASSUME Crash PROVE Good
  <2>1. /\ UNCHANGED <<store, log, origin, stage>> /\ runtime' = Down
        /\ repo' \in Revs /\ stale' \in BOOLEAN /\ crashes' = crashes + 1 /\ crashes < MaxCrashes
    BY <1>1, <1>12 DEF Crash
  <2>2. crashes' \in 0..MaxCrashes
    BY <1>1, <2>1, RuntimeBoundsAssumption
  <2>3. QED BY <2>1, <2>2, Positions, PhasesRest, QuietStep
<1>13. ASSUME (\E r \in Revs : ChangeRepository(r)) \/ Upgrade PROVE Good
  <2>1. /\ UNCHANGED <<store, log, origin, stage, runtime, crashes>>
        /\ repo' \in Revs /\ stale' \in BOOLEAN
    BY <1>1, <1>13 DEF ChangeRepository, Upgrade
  <2>2. Phases'
    BY <2>1, PhasesKeep DEF RuntimeInv
  <2>3. QED BY <1>1, <2>1, <2>2, QuietStep
<1>14. ASSUME SeedAttempt \/ MarkInvoking \/ InvokeEffect PROVE Good
  <2>1. /\ UNCHANGED <<store, log, repo, origin, stale, crashes>>
        /\ \E s \in {"clean", "invoking", "invoked"} :
              stage' = [stage EXCEPT ![runtime.cur] = s]
        /\ runtime.step \in {"seeding", "running"}
        /\ Goes("running") \/ (runtime' = runtime /\ runtime.step = "running")
    BY <1>14 DEF SeedAttempt, MarkInvoking, InvokeEffect
  <2>2. runtime.cur \in ActiveAttempts /\ runtime.at = 0
    BY <1>2, <2>1 DEF Working
  <2>3. /\ runtime' \in RuntimeRows /\ runtime'.step = "running"
        /\ runtime'.cur = runtime.cur /\ runtime'.at = runtime.at
    BY <1>1, <2>1, GoesTo DEF Steps
  <2>4. attempts' = attempts /\ outbox' = outbox
    BY <2>1 DEF store
  <2>5. Phases'
    BY <2>2, <2>3, <2>4 DEF Phases, Working, Observing, Marking, Rebuilding, Quarantining,
       Presenting, ActiveAttempts
  <2>6. stage' \in [TxIds -> Stages]
    BY <1>1, <2>1 DEF Stages
  <2>7. RuntimeShape'
    BY <2>1, <2>3, <2>4, <2>6 DEF RuntimeInv, RuntimeShape
  <2>8. outbox[runtime.cur].kind = "none" /\ runtime.cur \in TxIds
    BY <1>1, <2>2 DEF Turns, TablesAgree, ActiveAttempts
  <2>9. InvokedIsNeverAborted'
    BY <1>1, <1>3, <2>1, <2>4, <2>8 DEF InvokedIsNeverAborted
  <2>10. Kept /\ Unpublished
    BY <2>4 DEF Kept, Unpublished
  <2>11. LogShape' /\ PublishedIsLogged'
    BY <1>1, <1>3, <1>7, <2>1, <2>10, LogStays
  <2>12. QED BY <2>5, <2>7, <2>9, <2>11
<1>15. ASSUME NEW t \in TxIds, CloseByEvidence(t), Beside, UNCHANGED log,
              runtime' = runtime \/ runtime' = Idle,
              runtime' = runtime => runtime.step = "closing"
       PROVE  Good
  <2>1. /\ Kept /\ SameBegun /\ Unpublished
        /\ outbox'[t].kind = "aborted" => stage[t] = "clean"
        /\ \A u \in TxIds : u # t => outbox'[u] = outbox[u]
    BY <1>1, <1>15, CloseKeeps
  <2>2. \A u \in TxIds : outbox'[u].kind = "aborted" =>
           outbox[u].kind = "aborted" \/ stage[u] # "invoked"
    BY <2>1
  <2>3. runtime' \in RuntimeRows /\ runtime'.step \in {"closing", "idle"}
    BY <1>1, <1>15, Positions
  <2>4. Phases'
    BY <2>3, PhasesRest
  <2>5. PublishedIsLogged'
    BY <1>7, <1>15, <2>1
  <2>6. QED BY <1>6, <1>15, <2>1, <2>2, <2>3, <2>4, <2>5
<1>16. ASSUME NEW t \in TxIds, CloseInterrupted(t) PROVE Good
  BY <1>15, <1>16 DEF CloseInterrupted
<1>17. ASSUME FailTurnAttempt PROVE Good
  <2>1. runtime.cur \in TxIds
    BY <1>2, <1>17 DEF FailTurnAttempt, Working, ActiveAttempts
  <2>2. Idle # runtime
    BY <1>17, Positions DEF FailTurnAttempt
  <2>3. QED BY <1>15, <1>17, <2>1, <2>2 DEF FailTurnAttempt
<1>18. ASSUME NEW c \in Ckpts, CommitTurnAttempt(c) PROVE Good
  <2> DEFINE step == IF stale THEN "idle" ELSE "observing"
  <2>1. /\ runtime.step = "running" /\ Goes(step) /\ CommitAttempt(runtime.cur, c)
        /\ UNCHANGED <<log, repo, origin, stage, crashes>> /\ stale' \in BOOLEAN
    BY <1>18 DEF CommitTurnAttempt
  <2>2. runtime.cur \in TxIds /\ runtime.cur \in ActiveAttempts /\ runtime.at = 0
    BY <1>2, <2>1 DEF Working, ActiveAttempts
  <2>3. /\ Kept /\ SameBegun /\ Unpublished
        /\ outbox[runtime.cur].kind = "none" /\ outbox'[runtime.cur].kind = "committed"
        /\ \A u \in TxIds : u # runtime.cur => outbox'[u] = outbox[u]
    BY <1>1, <2>1, <2>2, FinishKeeps DEF CommitAttempt, Kinds
  <2>4. /\ runtime' \in RuntimeRows /\ runtime'.step = step
        /\ runtime'.cur = runtime.cur /\ runtime'.at = runtime.at
    BY <1>1, <2>1, GoesTo DEF Steps
  <2>5. \A t \in TxIds : Logged(t) => t # runtime.cur
    BY <1>3, <2>3 DEF Logged, LogHoldsCommitsOnce, Committed
  <2>6. Observing'
    <3>1. runtime'.cur \in Committed'
      BY <2>2, <2>3, <2>4 DEF Committed
    <3>2. \A t \in TxIds : Logged(t)' <=> Logged(t)
      BY <2>1 DEF Logged
    <3>3. QED BY <2>2, <2>4, <2>5, <3>1, <3>2 DEF Observing
  <2>7. Phases'
    BY <2>4, <2>6 DEF Phases, Working, Marking, Rebuilding, Quarantining, Presenting
  <2>8. \A u \in TxIds : outbox'[u].kind = "aborted" => outbox[u].kind = "aborted"
    BY <2>3
  <2>9. PublishedIsLogged'
    BY <1>7, <2>1, <2>3
  <2>10. QED BY <2>1, <2>3, <2>4, <2>7, <2>8, <2>9, StoreStep
<1>19. ASSUME NEW t \in TxIds, ConfirmLogged(t) PROVE Good
  <2>1. /\ runtime.step = "rebuilding" /\ t \in Committed /\ outbox[t].product.rev = runtime.at
        /\ Logged(t) /\ MarkRuntimeEventPublished(t, RecordOf(t).payload)
        /\ runtime' = [runtime EXCEPT !.at = @ + 1] /\ Beside /\ UNCHANGED log
    BY <1>19 DEF ConfirmLogged, Due
  <2>2. PICK i \in DOMAIN log : log[i].schema = "v6" /\ log[i].tx = t
    BY <2>1 DEF Logged
  <2>3. MarkRuntimeEventPublished(t, log[i].payload)
    BY <1>3, <2>1, <2>2, RecordOfFinds
  <2>4. /\ runtime' \in RuntimeRows /\ runtime'.step = "rebuilding"
        /\ runtime'.at = runtime.at + 1
    BY <1>1, <1>4, <2>1 DEF RuntimeRows
  <2>5. Kept /\ SameBegun
    BY <1>1, <2>3, PublishKeeps
  <2>6. /\ PublishedIsLogged'
        /\ \A u \in TxIds : outbox'[u].kind = "aborted" => outbox[u].kind = "aborted"
    BY <2>1, <2>2, <2>3, ReceiptStep
  <2>7. runtime.at # 0
    BY <1>2, <2>1 DEF Rebuilding
  <2>8. Phases'
    BY <2>1, <2>3, <2>4, <2>7, ScanGoesOn
  <2>9. QED BY <1>6, <2>1, <2>4, <2>5, <2>6, <2>8
<1>20. ASSUME MarkAppended PROVE Good
  <2> DEFINE step == IF runtime.at = 0 THEN "idle" ELSE "rebuilding"
             at == IF runtime.at = 0 THEN 0 ELSE runtime.at + 1
  <2>1. /\ runtime.step = "marking" /\ Beside /\ UNCHANGED log
        /\ MarkRuntimeEventPublished(runtime.cur, log[Len(log)].payload)
        /\ runtime' = [runtime EXCEPT !.step = step, !.at = at]
    BY <1>20 DEF MarkAppended
  <2>2. /\ runtime.cur \in Committed /\ runtime.cur \in TxIds /\ log # <<>>
        /\ log[Len(log)].tx = runtime.cur
        /\ runtime.at # 0 => outbox[runtime.cur].product.rev = runtime.at
    BY <1>2, <2>1 DEF Marking, Committed
  <2>3. Len(log) \in DOMAIN log
    BY <1>3, <2>2 DEF LogShape
  <2>4. at \in Nat
    BY <1>4
  <2>5. runtime' \in RuntimeRows /\ runtime'.step = step /\ runtime'.at = at
    BY <1>1, <2>1, <2>4, ScansAt DEF Steps
  <2>6. Kept /\ SameBegun
    BY <1>1, <2>1, <2>2, PublishKeeps
  <2>7. /\ PublishedIsLogged'
        /\ \A u \in TxIds : outbox'[u].kind = "aborted" => outbox[u].kind = "aborted"
    BY <2>1, <2>2, <2>3, ReceiptStep
  <2>8. Phases'
    <3>1. CASE runtime.at = 0
      BY <2>5, <3>1, PhasesRest
    <3>2. CASE runtime.at # 0
      BY <2>1, <2>2, <2>5, <3>2, ScanGoesOn
    <3>3. QED BY <3>1, <3>2
  <2>9. QED BY <1>6, <2>1, <2>5, <2>6, <2>7, <2>8
<1>21. ASSUME FinishPresenting PROVE Good
  <2>1. /\ MarkTerminalDelivered(runtime.goal) /\ runtime' = Idle /\ Beside /\ UNCHANGED log
        /\ runtime.goal \in TxIds
    BY <1>2, <1>21 DEF FinishPresenting, Presenting
  <2>2. outbox \in [TxIds -> OutboxRows] /\ attempts' = attempts
    BY <1>1, <2>1 DEF Turns, TurnTypes, OutboxRows, MarkTerminalDelivered
  <2>3. \A t \in TxIds : /\ outbox'[t].kind = outbox[t].kind
                         /\ outbox'[t].product = outbox[t].product
                         /\ outbox'[t].event = outbox[t].event
                         /\ outbox'[t].payload = outbox[t].payload
    BY <2>1, <2>2 DEF MarkTerminalDelivered, OutboxRows
  <2>4. Kept /\ SameBegun /\ Unpublished
    BY <2>2, <2>3 DEF Kept, SameBegun, Unpublished
  <2>5. PublishedIsLogged'
    BY <1>7, <2>1, <2>4
  <2>6. runtime' \in RuntimeRows /\ Phases'
    BY <2>1, Positions, PhasesRest
  <2>7. QED BY <1>6, <2>1, <2>3, <2>4, <2>5, <2>6
<1>22. ASSUME (\E t \in TxIds, v \in Verdicts : OperatorResolves(t, v))
              \/ (\E c \in Ckpts : EnsureProductHead(c))
       PROVE  Good
  <2>1. /\ runtime.step = "idle" /\ UNCHANGED <<runtime, log, attempts, outbox>> /\ Beside
    BY <1>22 DEF OperatorResolves, EnsureProductHead, ResolveReconciliation,
       BootstrapProductHead
  <2>2. Kept /\ SameBegun /\ Unpublished
    BY <2>1 DEF Kept, SameBegun, Unpublished
  <2>3. runtime' \in RuntimeRows /\ Phases'
    BY <1>1, <2>1, PhasesRest
  <2>4. PublishedIsLogged'
    BY <1>7, <2>1, <2>2
  <2>5. QED BY <1>6, <2>1, <2>2, <2>3, <2>4
<1>23. ASSUME RequeueOlder PROVE Good
  <2>1. RequeueRuntimeEvents /\ Goes("quarantining") /\ Beside /\ UNCHANGED log
    BY <1>23 DEF RequeueOlder
  <2>2. /\ Kept /\ SameBegun /\ PublishedEvents' = {}
        /\ \A t \in TxIds : outbox'[t].kind = outbox[t].kind
    BY <1>1, <2>1, RequeueKeeps
  <2>3. runtime' \in RuntimeRows /\ runtime'.step = "quarantining"
    BY <1>1, <2>1, GoesTo DEF Steps
  <2>4. Phases'
    BY <2>2, <2>3 DEF Phases, Working, Observing, Marking, Rebuilding, Quarantining, Presenting
  <2>5. PublishedIsLogged'
    BY <2>2 DEF PublishedIsLogged
  <2>6. QED BY <1>6, <2>1, <2>2, <2>3, <2>4, <2>5
<1>24. ASSUME QuarantineLog PROVE Good
  <2>1. /\ runtime.step = "quarantining" /\ log' = <<>> /\ Beside /\ UNCHANGED store
        /\ runtime' = [runtime EXCEPT !.step = "rebuilding", !.at = 1]
    BY <1>24 DEF QuarantineLog
  <2>2. runtime' \in RuntimeRows /\ runtime'.step = "rebuilding" /\ runtime'.at = 1
    BY <1>1, <2>1, ScansAt DEF Steps
  <2>3. outbox' = outbox /\ PublishedEvents' = {}
    BY <1>2, <2>1 DEF store, Quarantining, PublishedEvents
  <2>4. PublishedIsLogged'
    BY <2>3 DEF PublishedIsLogged
  <2>5. LogShape'
    BY <2>1 DEF LogShape, LogHoldsCommitsOnce
  <2>6. Phases'
    BY <1>1, <2>2, <2>3, ScanStarts
  <2>7. QED BY <2>1, <2>2, <2>4, <2>5, <2>6, LogStep
<1>25. ASSUME NEW t \in TxIds, AppendMissing(t) PROVE Good
  <2>1. /\ runtime.step = "rebuilding" /\ t \in Committed /\ outbox[t].product.rev = runtime.at
        /\ ~Logged(t) /\ AppendRecord(t, "turn_recovered") /\ Beside /\ UNCHANGED store
        /\ runtime' = [runtime EXCEPT !.step = "marking", !.cur = t]
    BY <1>25 DEF AppendMissing, Due
  <2>2. /\ runtime' \in RuntimeRows /\ runtime'.step = "marking" /\ runtime'.cur = t
        /\ runtime'.at = runtime.at
    BY <1>1, <2>1 DEF RuntimeRows, Steps
  <2>3. /\ LogShape' /\ PublishedIsLogged'
        /\ log' # <<>> /\ log'[Len(log')].schema = "v6" /\ log'[Len(log')].tx = t
    BY <2>1, AppendStep DEF Observations
  <2>4. outbox' = outbox /\ Committed' = Committed
    BY <2>1 DEF store, Committed
  <2>5. Marking'
    BY <2>1, <2>2, <2>3, <2>4 DEF Marking
  <2>6. Rebuilding'
    BY <1>2, <2>1, <2>2, <2>4 DEF Rebuilding
  <2>7. Phases'
    BY <2>2, <2>5, <2>6 DEF Phases, Working, Observing, Quarantining, Presenting
  <2>8. QED BY <2>1, <2>2, <2>3, <2>7, LogStep
<1>26. ASSUME NEW o \in Observations, WriteTurnObservation(o) PROVE Good
  <2>1. /\ runtime.step = "observing" /\ AppendRecord(runtime.cur, o) /\ Goes("marking")
        /\ Beside /\ UNCHANGED store
    BY <1>26 DEF WriteTurnObservation
  <2>2. /\ runtime' \in RuntimeRows /\ runtime'.step = "marking"
        /\ runtime'.cur = runtime.cur /\ runtime'.at = runtime.at
    BY <1>1, <2>1, GoesTo DEF Steps
  <2>3. /\ runtime.cur \in Committed /\ runtime.at = 0
        /\ \A t \in TxIds : Logged(t) => t # runtime.cur
    BY <1>2, <2>1 DEF Observing
  <2>4. PICK t \in Committed : t = runtime.cur
    BY <2>3
  <2>5. ~Logged(t) /\ AppendRecord(t, o)
    BY <2>1, <2>3, <2>4 DEF Committed
  <2>6. /\ LogShape' /\ PublishedIsLogged'
        /\ log' # <<>> /\ log'[Len(log')].schema = "v6" /\ log'[Len(log')].tx = t
    BY <2>1, <2>5, AppendStep
  <2>7. outbox' = outbox /\ Committed' = Committed
    BY <2>1 DEF store, Committed
  <2>8. Marking' /\ Rebuilding'
    <3>1. Marking'
      BY <2>2, <2>3, <2>4, <2>6, <2>7 DEF Marking
    <3>2. \A u \in Committed : ~(outbox[u].product.rev < 0)
      BY <1>1, CommittedRevisions
    <3>3. Rebuilding'
      BY <2>2, <2>3, <2>7, <3>2 DEF Rebuilding
    <3>4. QED BY <3>1, <3>3
  <2>9. Phases'
    BY <2>2, <2>8 DEF Phases, Working, Observing, Quarantining, Presenting
  <2>10. QED BY <2>1, <2>2, <2>6, <2>9, LogStep
<1>27. ASSUME TearAppend PROVE Good
  <2>1. log' = Append(log, Torn) /\ runtime' = Down /\ Beside /\ UNCHANGED store
    BY <1>27 DEF TearAppend
  <2>2. Torn \in LogRows /\ Torn.schema # "v6"
    BY DEF Torn, LogRows
  <2>3. outbox' = outbox
    BY <2>1 DEF store
  <2>4. LogShape' /\ \A i \in DOMAIN log : i \in DOMAIN log' /\ log'[i] = log[i]
    BY <1>3, <2>1, <2>2, <2>3, LogGrows
  <2>5. PublishedIsLogged'
    BY <1>3, <2>3, <2>4, ReceiptsStay DEF Unpublished
  <2>6. runtime' \in RuntimeRows /\ Phases'
    BY <2>1, Positions, PhasesRest
  <2>7. QED BY <2>1, <2>4, <2>5, <2>6, LogStep
<1>28. ASSUME NEW t \in TxIds, BeginTurnAttempt(t) PROVE Good
  <2>1. /\ BeginAttempt(t) /\ origin' = [origin EXCEPT ![t] = repo]
        /\ runtime' = [Idle EXCEPT !.step = "seeding", !.cur = t]
        /\ UNCHANGED <<log, repo, stage, stale, crashes>>
    BY <1>28 DEF BeginTurnAttempt
  <2>2. /\ runtime' \in RuntimeRows /\ runtime'.step = "seeding" /\ runtime'.cur = t
        /\ runtime'.at = 0
    BY <2>1, Positions DEF RuntimeRows, Steps
  <2>3. /\ attempts' = [attempts EXCEPT ![t] = [status |-> "active", base |-> head]]
        /\ outbox' = outbox
    BY <2>1 DEF BeginAttempt
  <2>4. /\ attempts'[t].status = "active"
        /\ \A u \in TxIds : u # t => attempts'[u] = attempts[u]
    BY <1>1, <2>3 DEF Turns, TurnTypes
  <2>5. origin' \in [TxIds -> Revs \cup {NoRev}]
        /\ \A u \in TxIds : origin'[u] = NoRev <=> attempts'[u].status = "absent"
    <3>1. \A u \in TxIds : origin[u] = NoRev <=> attempts[u].status = "absent"
      BY DEF RuntimeInv, RuntimeShape
    <3>2. origin'[t] = repo /\ repo # NoRev
      BY <1>1, <2>1, NoRevAssumption
    <3>3. \A u \in TxIds : u # t => origin'[u] = origin[u]
      BY <1>1, <2>1
    <3>4. QED BY <1>1, <2>1, <2>4, <3>1, <3>2, <3>3
  <2>6. RuntimeShape'
    BY <1>1, <2>1, <2>2, <2>5 DEF RuntimeShape
  <2>7. Working'
    BY <2>2, <2>4 DEF Working, ActiveAttempts
  <2>8. Phases'
    BY <2>2, <2>7 DEF Phases, Observing, Marking, Rebuilding, Quarantining, Presenting
  <2>9. Kept /\ Unpublished
    BY <2>3 DEF Kept, Unpublished
  <2>10. LogShape' /\ PublishedIsLogged'
    BY <1>1, <1>3, <1>7, <2>1, <2>9, LogStays
  <2>11. InvokedIsNeverAborted'
    BY <1>3, <2>1, <2>3 DEF InvokedIsNeverAborted
  <2>12. QED BY <2>6, <2>8, <2>10, <2>11
<1>29. CASE Proceed
  BY <1>8, <1>9, <1>10, <1>14, <1>16, <1>17, <1>18, <1>19, <1>20, <1>21, <1>23, <1>24, <1>25,
     <1>26, <1>29 DEF Proceed
<1>30. QED BY <1>8, <1>11, <1>12, <1>13, <1>14, <1>22, <1>27, <1>28, <1>29 DEF RuntimeNext
-----------------------------------------------------------------------------
(* The two states a runtime starts from.                                   *)
LEMMA PositionsInit ==
    ASSUME NewRuntime, origin \in [TxIds -> Revs \cup {NoRev}], stage \in [TxIds -> Stages],
           \A t \in TxIds : origin[t] = NoRev <=> attempts[t].status = "absent"
    PROVE  RuntimeShape /\ Phases
<1>1. runtime \in RuntimeRows /\ runtime.step = "down"
  BY Positions DEF NewRuntime
<1>2. crashes \in 0..MaxCrashes
  BY RuntimeBoundsAssumption DEF NewRuntime
<1>3. RuntimeShape
  BY <1>1, <1>2 DEF RuntimeShape, NewRuntime
<1>4. Phases
  BY <1>1 DEF Phases, Working, Observing, Marking, Rebuilding, Quarantining, Presenting
<1>5. QED BY <1>3, <1>4

LEMMA FreshInvInit == FreshInit => RuntimeInv
<1> SUFFICES ASSUME FreshInit PROVE RuntimeInv
  OBVIOUS
<1>1. Init /\ NewRuntime /\ log = <<>>
  BY DEF FreshInit
<1>2. Stored
  BY <1>1, TurnsInit, DetourTypesInit, AuthorityInit DEF Stored
<1>3. RuntimeShape /\ Phases
  <2>1. origin \in [TxIds -> Revs \cup {NoRev}] /\ stage \in [TxIds -> Stages]
    BY DEF FreshInit, Stages
  <2>2. \A t \in TxIds : origin[t] = NoRev <=> attempts[t].status = "absent"
    BY <1>1 DEF FreshInit, Init, AbsentAttempt
  <2>3. QED BY <1>1, <2>1, <2>2, PositionsInit
<1>4. LogShape
  BY <1>1 DEF LogShape, LogHoldsCommitsOnce
<1>5. PublishedIsLogged
  BY <1>1 DEF PublishedIsLogged, PublishedEvents, Init, AbsentOutcome
<1>6. InvokedIsNeverAborted
  BY DEF FreshInit, InvokedIsNeverAborted
<1>7. QED BY <1>2, <1>3, <1>4, <1>5, <1>6 DEF RuntimeInv

(* The record an older program left is not one of this one's.              *)
LEMMA OlderInvInit == OlderLogInit => RuntimeInv
<1> SUFFICES ASSUME OlderLogInit PROVE RuntimeInv
  OBVIOUS
<1> USE RootAssumption, NoHeadAssumption, NoPayloadAssumption, NoVerdictAssumption
<1>1. PICK t \in TxIds, c \in Ckpts, p \in Payloads :
         LET base == [rev |-> 0, thread |-> Root, ckpt |-> c]
             product == [rev |-> 1, thread |-> t, ckpt |-> c]
         IN /\ head = product
            /\ attempts = [u \in TxIds |->
                 IF u = t THEN [status |-> "committed", base |-> base]
                 ELSE AbsentAttempt]
            /\ outbox = [u \in TxIds |->
                 IF u = t THEN [kind |-> "committed", product |-> product,
                                event |-> "published", payload |-> p,
                                delivered |-> FALSE]
                 ELSE AbsentOutcome]
            /\ log = <<[schema |-> "older", seq |-> 1, tx |-> t, payload |-> p]>>
            /\ origin = [u \in TxIds |-> IF u = t THEN p.rev ELSE NoRev]
            /\ stage = [u \in TxIds |-> IF u = t THEN "clean" ELSE "absent"]
  BY DEF OlderLogInit
<1> DEFINE base == [rev |-> 0, thread |-> Root, ckpt |-> c]
           product == [rev |-> 1, thread |-> t, ckpt |-> c]
           record == [schema |-> "older", seq |-> 1, tx |-> t, payload |-> p]
<1>2. /\ base \in Heads /\ product \in Heads /\ base # NoHead /\ product # NoHead
      /\ base.rev = 0 /\ product.rev = 1 /\ product.thread = t
  BY DEF Heads
<1>3. record \in LogRows /\ record.schema = "older" /\ record.tx = t /\ record.payload = p
  BY DEF LogRows
<1>4. p.rev \in Revs /\ p.rev # NoRev
  BY PayloadsAssumption, NoRevAssumption
<1>5. /\ NewRuntime /\ resolutions = [u \in TxIds |-> NoVerdict]
      /\ detours = [d \in DetourIds |-> AbsentDetour]
  BY DEF OlderLogInit
<1>6. /\ head = product /\ log = <<record>>
      /\ attempts = [u \in TxIds |->
            IF u = t THEN [status |-> "committed", base |-> base] ELSE AbsentAttempt]
      /\ outbox = [u \in TxIds |->
            IF u = t THEN [kind |-> "committed", product |-> product,
                           event |-> "published", payload |-> p, delivered |-> FALSE]
            ELSE AbsentOutcome]
      /\ origin = [u \in TxIds |-> IF u = t THEN p.rev ELSE NoRev]
      /\ stage = [u \in TxIds |-> IF u = t THEN "clean" ELSE "absent"]
  BY <1>1
<1> HIDE DEF base, product, record
<1>7. Committed = {t}
  BY <1>6 DEF Committed, AbsentOutcome
<1>8. TurnTypes
  <2>1. head \in MaybeHead /\ base \in MaybeHead /\ product \in MaybeHead
    BY <1>2, <1>6 DEF MaybeHead
  <2>2. attempts \in [TxIds -> [status : Kinds \cup {"absent", "active"}, base : MaybeHead]]
    BY <1>6, <2>1 DEF AbsentAttempt, MaybeHead, Kinds
  <2>3. outbox \in [TxIds -> [kind : Kinds \cup {"none"}, product : MaybeHead,
                             event : {"not_applicable", "pending", "published"},
                             payload : Payloads \cup {NoPayload},
                             delivered : BOOLEAN]]
    BY <1>6, <2>1 DEF AbsentOutcome, MaybeHead, Kinds
  <2>4. QED BY <1>5, <2>1, <2>2, <2>3 DEF TurnTypes
<1>9. TablesAgree
  BY <1>2, <1>5, <1>6 DEF TablesAgree, AbsentAttempt, AbsentOutcome
<1>10. CommitsFormOneChain
  <2>1. outbox[t].product = product /\ attempts[t].base = base
    BY <1>6
  <2>2. \A k \in 1..head.rev : k = 1
    BY <1>2, <1>6
  <2>3. QED BY <1>2, <1>6, <1>7, <2>1, <2>2 DEF CommitsFormOneChain
<1>11. Stored
  <2>1. DetourTypes
    BY <1>5, AbsentIsARow DEF DetourTypes
  <2>2. ActiveAttempts = {} /\ UnresolvedReconciliations = {} /\ PreparedDetours = {}
    BY <1>5, <1>6 DEF ActiveAttempts, UnresolvedReconciliations, PreparedDetours, AbsentAttempt,
       AbsentOutcome, AbsentDetour
  <2>3. Authority
    BY <2>2 DEF Authority, OneOpenAuthority, ActiveAttemptCanClose
  <2>4. QED BY <1>8, <1>9, <1>10, <2>1, <2>3 DEF Stored, Turns
<1>12. RuntimeShape /\ Phases
  <2>1. origin \in [TxIds -> Revs \cup {NoRev}] /\ stage \in [TxIds -> Stages]
    BY <1>4, <1>6 DEF Stages
  <2>2. \A u \in TxIds : origin[u] = NoRev <=> attempts[u].status = "absent"
    BY <1>4, <1>6 DEF AbsentAttempt
  <2>3. QED BY <1>5, <2>1, <2>2, PositionsInit
<1>13. log \in Seq(LogRows) /\ DOMAIN log = {1} /\ log[1] = record
  BY <1>3, <1>6
<1>14. LogShape
  BY <1>3, <1>13 DEF LogShape, LogHoldsCommitsOnce
<1>15. PublishedIsLogged
  <2>1. PublishedEvents = {t} /\ outbox[t].payload = p
    BY <1>6 DEF PublishedEvents, AbsentOutcome
  <2>2. QED BY <1>3, <1>13, <2>1 DEF PublishedIsLogged
<1>16. InvokedIsNeverAborted
  BY <1>6 DEF InvokedIsNeverAborted
<1>17. QED BY <1>11, <1>12, <1>14, <1>15, <1>16 DEF RuntimeInv

(* What the runtime does to the store is what the store allows.            *)
LEMMA RuntimeActIsNext == ASSUME RuntimeInv, RuntimeNext PROVE [Next]_vars
<1>1. ASSUME UNCHANGED store PROVE [Next]_vars
  BY <1>1 DEF store, vars
<1>2. ASSUME NEW t \in TxIds, CloseByEvidence(t) PROVE [Next]_vars
  BY <1>2 DEF CloseByEvidence, Next, TurnNext
<1>3. ASSUME NEW t \in TxIds, NEW i \in DOMAIN log, log[i].schema = "v6",
             MarkRuntimeEventPublished(t, log[i].payload)
      PROVE  [Next]_vars
  <2>1. log[i].payload \in Payloads
    BY <1>3 DEF RuntimeInv, LogShape
  <2>2. QED BY <1>3, <2>1 DEF Next, TurnNext
<1>4. ASSUME NEW t \in TxIds, ConfirmLogged(t) PROVE [Next]_vars
  <2>1. Logged(t) /\ MarkRuntimeEventPublished(t, RecordOf(t).payload)
    BY <1>4 DEF ConfirmLogged
  <2>2. PICK i \in DOMAIN log : log[i].schema = "v6" /\ log[i].tx = t
    BY <2>1 DEF Logged
  <2>3. RecordOf(t) = log[i]
    BY <2>2, RecordOfFinds DEF RuntimeInv, LogShape
  <2>4. QED BY <1>3, <2>1, <2>2, <2>3
<1>5. ASSUME MarkAppended PROVE [Next]_vars
  <2>1. /\ runtime.step = "marking"
        /\ MarkRuntimeEventPublished(runtime.cur, log[Len(log)].payload)
    BY <1>5 DEF MarkAppended
  <2>2. runtime.cur \in TxIds /\ log # <<>> /\ log[Len(log)].schema = "v6"
    BY <2>1 DEF RuntimeInv, Phases, Marking, Committed
  <2>3. Len(log) \in DOMAIN log
    BY <2>2 DEF RuntimeInv, LogShape
  <2>4. QED BY <1>3, <2>1, <2>2, <2>3
<1>6. ASSUME FailTurnAttempt PROVE [Next]_vars
  BY <1>2, <1>6 DEF FailTurnAttempt, RuntimeInv, Phases, Working, ActiveAttempts
<1>7. ASSUME NEW c \in Ckpts, CommitTurnAttempt(c) PROVE [Next]_vars
  BY <1>7 DEF CommitTurnAttempt, RuntimeInv, Phases, Working, ActiveAttempts, Next, TurnNext
<1>8. ASSUME FinishPresenting PROVE [Next]_vars
  BY <1>8 DEF FinishPresenting, RuntimeInv, Phases, Presenting, Next, TurnNext
<1>9. ASSUME RequeueOlder \/ (\E c \in Ckpts : EnsureProductHead(c))
             \/ (\E t \in TxIds : \/ CloseInterrupted(t) \/ BeginTurnAttempt(t)
                                  \/ \E v \in Verdicts : OperatorResolves(t, v))
      PROVE  [Next]_vars
  BY <1>2, <1>9 DEF RequeueOlder, EnsureProductHead, CloseInterrupted, BeginTurnAttempt,
     OperatorResolves, Next, TurnNext
<1>10. CASE Proceed
  <2>1. CASE \/ FinishClosing \/ RefuseLog \/ QuarantineLog \/ AcceptLog \/ FinishRebuild
             \/ RefuseGoal \/ SeedAttempt \/ InvokeEffect
             \/ (\E t \in TxIds : RefuseRecord(t) \/ AppendMissing(t))
             \/ (\E o \in Observations : WriteTurnObservation(o))
    BY <1>1, <2>1 DEF FinishClosing, RefuseLog, QuarantineLog, AcceptLog, FinishRebuild,
       RefuseGoal, SeedAttempt, InvokeEffect, RefuseRecord, AppendMissing, WriteTurnObservation
  <2>2. QED BY <1>4, <1>5, <1>6, <1>7, <1>8, <1>9, <1>10, <2>1 DEF Proceed
<1>11. CASE \/ Start \/ MarkInvoking \/ TearAppend \/ Crash \/ Upgrade
            \/ (\E r \in Revs : ChangeRepository(r)) \/ (\E t \in TxIds : Present(t))
  BY <1>1, <1>11 DEF Start, MarkInvoking, TearAppend, Crash, Upgrade, ChangeRepository, Present
<1>12. QED BY <1>9, <1>10, <1>11 DEF RuntimeNext

LEMMA RuntimeInvInit == RuntimeInit => RuntimeInv
BY FreshInvInit, OlderInvInit DEF RuntimeInit

LEMMA RuntimeInvStep == RuntimeInv /\ [RuntimeNext]_allvars => RuntimeInv' /\ [Next]_vars
<1>1. ASSUME RuntimeInv, UNCHANGED allvars PROVE RuntimeInv' /\ [Next]_vars
  <2>1. /\ UNCHANGED <<store, log, origin, stage, runtime>> /\ UNCHANGED vars
        /\ repo' = repo /\ stale' = stale /\ crashes' = crashes
    BY <1>1 DEF allvars, store, vars
  <2>2. Phases'
    BY <1>1, <2>1, PhasesKeep DEF RuntimeInv
  <2>3. Stored'
    BY <1>1, <2>1, TurnsStep, DetourTypesStep, AuthorityStep DEF RuntimeInv, Stored
  <2>4. runtime' \in RuntimeRows /\ repo' \in Revs /\ stale' \in BOOLEAN
        /\ crashes' \in 0..MaxCrashes
    BY <1>1, <2>1 DEF RuntimeInv, RuntimeShape
  <2>5. QED BY <1>1, <2>1, <2>2, <2>3, <2>4, QuietStep DEF RuntimeInv
<1>2. ASSUME RuntimeInv, RuntimeNext PROVE RuntimeInv' /\ [Next]_vars
  <2>1. [Next]_vars
    BY <1>2, RuntimeActIsNext
  <2>2. Stored'
    BY <1>2, <2>1, TurnsStep, DetourTypesStep, AuthorityStep DEF RuntimeInv, Stored
  <2>3. QED BY <1>2, <2>1, <2>2, OwnStep DEF RuntimeInv
<1>3. QED BY <1>1, <1>2
-----------------------------------------------------------------------------
(* A runtime is one of the store's callers, also when it starts on a log   *)
(* an older program left, so one attempt is open at a time and it can be   *)
(* closed, and the committed turns the log is rebuilt from are one chain.  *)
THEOREM RuntimeUsesStore ==
    RuntimeSpec => /\ [][Next]_vars
                   /\ [](OneOpenAuthority /\ ActiveAttemptCanClose)
                   /\ [](CommitsFormOneChain /\ TablesAgree)
<1>1. RuntimeInv => /\ OneOpenAuthority /\ ActiveAttemptCanClose
                    /\ CommitsFormOneChain /\ TablesAgree
  BY DEF RuntimeInv, Stored, Authority, Turns
<1>2. QED BY <1>1, RuntimeInvInit, RuntimeInvStep, PTL DEF RuntimeSpec

(* The runtime's fields keep their types, and an attempt has an origin     *)
(* revision exactly when it has begun (_begin_turn_attempt).               *)
THEOREM RuntimeTypeTheorem == RuntimeSpec => []RuntimeTypeOK
<1>1. RuntimeInv => RuntimeTypeOK
  <2> SUFFICES ASSUME RuntimeInv PROVE RuntimeTypeOK
    OBVIOUS
  <2>1. RuntimeShape /\ log \in Seq(LogRows)
    BY DEF RuntimeInv, LogShape
  <2>2. \A i \in DOMAIN log : log[i] \in LogRows
    BY <2>1
  <2>3. QED BY <2>1, <2>2 DEF RuntimeTypeOK, RuntimeShape, RuntimeRows, LogRows, Stages
<1>2. QED BY <1>1, RuntimeInvInit, RuntimeInvStep, PTL DEF RuntimeSpec

(* Whatever crashes and torn appends come between, the log has one record  *)
(* per turn, of committed turns only, at their revision                    *)
(* (_write_turn_observation appends, _recover_missing_runtime_observations *)
(* rebuilds).                                                              *)
THEOREM LogTheorem == RuntimeSpec => []LogHoldsCommitsOnce
<1>1. RuntimeInv => LogHoldsCommitsOnce
  BY DEF RuntimeInv, LogShape
<1>2. QED BY <1>1, RuntimeInvInit, RuntimeInvStep, PTL DEF RuntimeSpec

(* The store never calls an event published that the file does not hold,   *)
(* not even while an older log is requeued and moved away                  *)
(* (mark_runtime_event_published after the append, quarantine_jsonl_file). *)
THEOREM ReceiptTheorem == RuntimeSpec => []PublishedIsLogged
<1>1. RuntimeInv => PublishedIsLogged
  BY DEF RuntimeInv
<1>2. QED BY <1>1, RuntimeInvInit, RuntimeInvStep, PTL DEF RuntimeSpec

(* No crash and no restart lets an invoked effect end as an abort: the     *)
(* checkpoint an attempt is closed by says "invoking" before the call is   *)
(* made (mark_side_effect_invoking_step, _attempt_effect_evidence).        *)
THEOREM InvokedTheorem == RuntimeSpec => []InvokedIsNeverAborted
<1>1. RuntimeInv => InvokedIsNeverAborted
  BY DEF RuntimeInv
<1>2. QED BY <1>1, RuntimeInvInit, RuntimeInvStep, PTL DEF RuntimeSpec

-----------------------------------------------------------------------------
(* Only a presentation acknowledges a committed turn.                      *)
LEMMA OnlyPresentationDelivers ==
    ASSUME RuntimeInv, RuntimeNext, NEW t \in Committed, outbox'[t].delivered,
           ~outbox[t].delivered
    PROVE  FinishPresenting /\ t = runtime.goal
<1>1. Turns /\ t \in TxIds /\ outbox[t].kind = "committed" /\ outbox \in [TxIds -> OutboxRows]
  BY DEF RuntimeInv, Stored, Committed, Turns, TurnTypes, OutboxRows
<1>2. ASSUME UNCHANGED outbox PROVE FALSE
  BY <1>2
<1>3. ASSUME UNCHANGED store PROVE FALSE
  BY <1>2, <1>3 DEF store
<1>4. ASSUME NEW u \in TxIds, CloseByEvidence(u) PROVE FALSE
  <2>1. outbox[u].kind = "none"
    BY <1>4 DEF CloseByEvidence, AbortAttempt, RequireReconciliation, FinishAttempt
  <2>2. outbox'[t] = outbox[t]
    BY <1>1, <1>4, <2>1, CloseKeeps
  <2>3. QED BY <2>2
<1>5. ASSUME NEW u \in TxIds, NEW p, MarkRuntimeEventPublished(u, p) PROVE FALSE
  BY <1>1, <1>5 DEF MarkRuntimeEventPublished, OutboxRows
<1>6. ASSUME RequeueRuntimeEvents PROVE FALSE
  <2>1. outbox'[t] = [outbox[t] EXCEPT !.event = "pending", !.payload = NoPayload]
    BY <1>1, <1>6 DEF RequeueRuntimeEvents
  <2>2. QED BY <1>1, <2>1 DEF OutboxRows
<1>7. ASSUME NEW c \in Ckpts, CommitTurnAttempt(c) PROVE FALSE
  <2>1. /\ runtime.cur \in TxIds
        /\ FinishAttempt(runtime.cur, "committed",
                         [rev |-> head.rev + 1, thread |-> runtime.cur, ckpt |-> c])
    BY <1>7 DEF CommitTurnAttempt, CommitAttempt, RuntimeInv, Phases, Working, ActiveAttempts
  <2>2. /\ outbox[runtime.cur].kind = "none"
        /\ \A u \in TxIds : u # runtime.cur => outbox'[u] = outbox[u]
    BY <1>1, <2>1, FinishKeeps DEF Kinds
  <2>3. QED BY <1>1, <2>2
<1>8. ASSUME MarkAppended \/ (\E u \in TxIds : ConfirmLogged(u)) PROVE FALSE
  <2>1. CASE MarkAppended
    <3>1. runtime.cur \in TxIds
      BY <2>1 DEF MarkAppended, RuntimeInv, Phases, Marking, Committed
    <3>2. QED BY <1>5, <2>1, <3>1 DEF MarkAppended
  <2>2. QED BY <1>5, <1>8, <2>1 DEF ConfirmLogged
<1>9. ASSUME FailTurnAttempt PROVE FALSE
  BY <1>4, <1>9 DEF FailTurnAttempt, RuntimeInv, Phases, Working, ActiveAttempts
<1>10. ASSUME FinishPresenting PROVE t = runtime.goal
  <2>1. /\ outbox' = [outbox EXCEPT ![runtime.goal].delivered = TRUE]
        /\ runtime.goal \in TxIds
    BY <1>10 DEF FinishPresenting, MarkTerminalDelivered, RuntimeInv, Phases, Presenting
  <2>2. QED BY <1>1, <2>1
<1>11. ASSUME RequeueOlder \/ (\E c \in Ckpts : EnsureProductHead(c))
              \/ (\E u \in TxIds : \/ CloseInterrupted(u) \/ BeginTurnAttempt(u)
                                   \/ \E v \in Verdicts : OperatorResolves(u, v))
       PROVE  FALSE
  BY <1>2, <1>4, <1>6, <1>11 DEF RequeueOlder, EnsureProductHead, CloseInterrupted,
     BeginTurnAttempt, OperatorResolves, BootstrapProductHead, BeginAttempt,
     ResolveReconciliation
<1>12. CASE Proceed
  <2>1. CASE \/ FinishClosing \/ RefuseLog \/ QuarantineLog \/ AcceptLog \/ FinishRebuild
             \/ RefuseGoal \/ SeedAttempt \/ InvokeEffect
             \/ (\E u \in TxIds : RefuseRecord(u) \/ AppendMissing(u))
             \/ (\E o \in Observations : WriteTurnObservation(o))
    BY <1>3, <2>1 DEF FinishClosing, RefuseLog, QuarantineLog, AcceptLog, FinishRebuild,
       RefuseGoal, SeedAttempt, InvokeEffect, RefuseRecord, AppendMissing, WriteTurnObservation
  <2>2. QED BY <1>7, <1>8, <1>9, <1>10, <1>11, <1>12, <2>1 DEF Proceed
<1>13. CASE \/ Start \/ MarkInvoking \/ TearAppend \/ Crash \/ Upgrade
            \/ (\E r \in Revs : ChangeRepository(r)) \/ (\E u \in TxIds : Present(u))
  BY <1>3, <1>13 DEF Start, MarkInvoking, TearAppend, Crash, Upgrade, ChangeRepository, Present
<1>14. QED BY <1>11, <1>12, <1>13 DEF RuntimeNext

(* A committed turn is acknowledged as shown only on the evidence of the   *)
(* log: its record, a receipt that matches it, and the revision the turn   *)
(* began at (ensure_runtime_observation before mark_terminal_delivered).   *)
THEOREM PresentationTheorem == RuntimeSpec => PresentationFollowsEvidence
<1> DEFINE Shows == \A t \in Committed :
              outbox'[t].delivered /\ ~outbox[t].delivered =>
                 /\ Logged(t) /\ outbox[t].event = "published"
                 /\ outbox[t].payload = RecordOf(t).payload
                 /\ RecordOf(t).payload.rev = origin[t]
<1>1. RuntimeInv /\ [RuntimeNext]_allvars => [Shows]_allvars
  <2> SUFFICES ASSUME RuntimeInv, RuntimeNext, NEW t \in Committed,
                      outbox'[t].delivered, ~outbox[t].delivered
               PROVE  /\ Logged(t) /\ outbox[t].event = "published"
                      /\ outbox[t].payload = RecordOf(t).payload
                      /\ RecordOf(t).payload.rev = origin[t]
    OBVIOUS
  <2>1. FinishPresenting /\ t = runtime.goal
    BY OnlyPresentationDelivers
  <2>2. Evidence(t)
    BY <2>1 DEF FinishPresenting, RuntimeInv, Phases, Presenting
  <2>3. PICK i \in DOMAIN log : /\ log[i].schema = "v6" /\ log[i].tx = t
                                /\ log[i].payload = outbox[t].payload
                                /\ log[i].payload.rev = origin[t]
    BY <2>2 DEF Evidence
  <2>4. t \in TxIds
    BY DEF Committed
  <2>5. RecordOf(t) = log[i]
    BY <2>3, <2>4, RecordOfFinds DEF RuntimeInv, LogShape
  <2>6. Logged(t)
    BY <2>3 DEF Logged
  <2>7. QED BY <2>2, <2>3, <2>5, <2>6 DEF Evidence
<1>2. PresentationFollowsEvidence <=> [][Shows]_allvars
  BY DEF PresentationFollowsEvidence
<1>3. QED BY <1>1, <1>2, RuntimeInvInit, RuntimeInvStep, PTL DEF RuntimeSpec
-----------------------------------------------------------------------------
(* With no newer program and no torn append, the log is moved away at most *)
(* once, and otherwise grows in revision order and is never behind by more *)
(* than the turn that was being closed.                                    *)
StartSteps == {"down", "closing", "scanning", "quarantining"}
ServingSteps == {"idle", "seeding", "running", "presenting"}
LoggedInOrder ==
    \A t, u \in Committed :
        Logged(u) /\ outbox[t].product.rev < outbox[u].product.rev => Logged(t)
CaughtUp ==
    /\ runtime.step \in ServingSteps => \A t \in Committed : Logged(t)
    /\ runtime.step = "observing" => /\ outbox[runtime.cur].product = head
                                     /\ \A t \in Committed \ {runtime.cur} : Logged(t)
    /\ runtime.step = "marking" /\ runtime.at = 0 => \A t \in Committed : Logged(t)
    /\ runtime.step = "marking" /\ runtime.at # 0 =>
          \A t \in Committed : outbox[t].product.rev =< runtime.at => Logged(t)
    /\ runtime.step = "rebuilding" =>
          \A t \in Committed : outbox[t].product.rev < runtime.at => Logged(t)
Steady ==
    /\ stale = FALSE /\ Readable
    /\ HasOlderRecords => runtime.step \in StartSteps
    /\ LoggedInOrder /\ CaughtUp /\ LogInRevisionOrder

LEMMA CaughtUpAtRest == ASSUME runtime'.step \in StartSteps PROVE CaughtUp'
BY DEF CaughtUp, StartSteps, ServingSteps

(* The log stays, and so do the committed turns.                           *)
LEMMA SteadyStays ==
    ASSUME Steady, UNCHANGED <<log, stale>>, Committed' = Committed,
           \A t \in Committed : outbox'[t].product = outbox[t].product,
           HasOlderRecords => runtime'.step \in StartSteps, CaughtUp'
    PROVE  Steady'
<1>1. /\ Readable' /\ (HasOlderRecords' <=> HasOlderRecords) /\ (InOrder' <=> InOrder)
      /\ stale' = FALSE
  BY DEF Steady, Readable, HasOlderRecords, InOrder
<1>2. \A t \in TxIds : Logged(t)' <=> Logged(t)
  BY DEF Logged
<1>3. LoggedInOrder'
  BY <1>2 DEF Steady, LoggedInOrder, Committed
<1>4. LogInRevisionOrder'
  BY <1>1 DEF Steady, LogInRevisionOrder
<1>5. QED BY <1>1, <1>3, <1>4 DEF Steady

(* A record is added for the lowest committed turn that has none, above    *)
(* all that have one.                                                      *)
LEMMA SteadyGrows ==
    ASSUME RuntimeInv, Steady, ~HasOlderRecords, UNCHANGED store, UNCHANGED stale,
           NEW t \in Committed, NEW o \in Observations, AppendRecord(t, o),
           \A u \in Committed :
              /\ outbox[u].product.rev < outbox[t].product.rev => Logged(u)
              /\ Logged(u) => outbox[u].product.rev < outbox[t].product.rev
    PROVE  /\ stale' = FALSE /\ Readable' /\ ~HasOlderRecords'
           /\ LoggedInOrder' /\ LogInRevisionOrder'
           /\ Committed' = Committed /\ outbox' = outbox
           /\ \A u \in Committed : Logged(u) \/ u = t => Logged(u)'
<1> DEFINE record == Record("v6", t, [rev |-> repo, observation |-> o])
<1>1. outbox' = outbox /\ Committed' = Committed
  BY DEF store, Committed
<1>2. t \in TxIds /\ outbox[t].product.rev \in Nat
  BY CommittedRevisions DEF RuntimeInv, Stored
<1>3. record.tx = t /\ record.schema = "v6" /\ record.seq = outbox[t].product.rev
  BY DEF Record
<1>4. log' = Append(log, record) /\ log \in Seq(LogRows)
  BY DEF AppendRecord, RuntimeInv, LogShape
<1> HIDE DEF record
<1> DEFINE n == Len(log) + 1
<1>5. /\ n \in DOMAIN log' /\ log'[n] = record
      /\ \A i \in DOMAIN log : i \in DOMAIN log' /\ log'[i] = log[i] /\ i < n
      /\ \A i \in DOMAIN log' : i \in DOMAIN log \/ i = n
      /\ n \in Nat /\ DOMAIN log' \subseteq Nat
  <2>1. DOMAIN log = 1..Len(log) /\ Len(log) \in Nat
    BY <1>4
  <2>2. Len(log') = n /\ DOMAIN log' = 1..n
    BY <1>4, <2>1
  <2>3. log'[n] = record /\ \A i \in 1..Len(log) : log'[i] = log[i]
    BY <1>4
  <2>4. QED BY <2>1, <2>2, <2>3
<1> HIDE DEF n
<1>6. \A i \in DOMAIN log : /\ log[i].schema = "v6" /\ log[i].tx \in Committed
                            /\ log[i].seq = outbox[log[i].tx].product.rev
                            /\ Logged(log[i].tx)
  <2>1. \A i \in DOMAIN log : log[i] \in LogRows
    BY <1>4
  <2>2. \A i \in DOMAIN log : log[i].schema = "v6"
    BY <2>1 DEF Steady, Readable, HasOlderRecords, LogRows
  <2>3. QED BY <2>2 DEF RuntimeInv, LogShape, LogHoldsCommitsOnce, Logged
<1>7. Readable' /\ ~HasOlderRecords' /\ stale' = FALSE
  BY <1>3, <1>5, <1>6 DEF Readable, HasOlderRecords, Steady
<1>8. \A u \in Committed : Logged(u)' <=> Logged(u) \/ u = t
  BY <1>3, <1>5, <1>6 DEF Logged
<1>9. LoggedInOrder'
  <2> SUFFICES ASSUME NEW u \in Committed, NEW v \in Committed, Logged(v)',
                      outbox[u].product.rev < outbox[v].product.rev
               PROVE  Logged(u)'
    BY <1>1 DEF LoggedInOrder
  <2>1. CASE v = t
    BY <1>8, <2>1
  <2>2. CASE v # t
    BY <1>8, <2>2 DEF Steady, LoggedInOrder
  <2>3. QED BY <2>1, <2>2
<1>10. InOrder'
  <2> SUFFICES ASSUME NEW i \in DOMAIN log', NEW j \in DOMAIN log', i < j
               PROVE  log'[i].seq =< log'[j].seq
    BY DEF InOrder
  <2>1. i \in DOMAIN log
    BY <1>5
  <2>2. CASE j \in DOMAIN log
    BY <1>5, <2>1, <2>2 DEF Steady, LogInRevisionOrder, InOrder
  <2>3. CASE j = n
    <3>1. log[i].seq < outbox[t].product.rev /\ log[i].seq \in Nat
      BY <1>6, <2>1, CommittedRevisions DEF RuntimeInv, Stored
    <3>2. QED BY <1>2, <1>3, <1>5, <2>1, <2>3, <3>1
  <2>4. QED BY <1>5, <2>2, <2>3
<1>11. QED BY <1>1, <1>7, <1>8, <1>9, <1>10 DEF LogInRevisionOrder

LEMMA SteadyInit == RuntimeInit => Steady
<1>1. ASSUME FreshInit PROVE Steady
  <2>1. log = <<>> /\ stale = FALSE /\ runtime.step = "down" /\ Committed = {}
    BY <1>1, Positions DEF FreshInit, NewRuntime, Init, Committed, AbsentOutcome
  <2>2. QED BY <2>1 DEF Steady, Readable, HasOlderRecords, LoggedInOrder, CaughtUp,
        LogInRevisionOrder, InOrder, StartSteps, ServingSteps
<1>2. ASSUME OlderLogInit PROVE Steady
  <2>1. stale = FALSE /\ runtime.step = "down"
    BY <1>2, Positions DEF OlderLogInit, NewRuntime
  <2>2. PICK t \in TxIds, p \in Payloads :
           log = <<[schema |-> "older", seq |-> 1, tx |-> t, payload |-> p]>>
    BY <1>2 DEF OlderLogInit
  <2>3. DOMAIN log = {1} /\ log[1].schema = "older"
    BY <2>2
  <2>4. QED BY <2>1, <2>3 DEF Steady, Readable, HasOlderRecords, LoggedInOrder, CaughtUp,
        LogInRevisionOrder, Logged, StartSteps, ServingSteps
<1>3. QED BY <1>1, <1>2 DEF RuntimeInit

(* Outcomes other than commits leave the committed turns alone.            *)
LEMMA ClosedUncommitted ==
    ASSUME Turns, NEW t \in TxIds, CloseByEvidence(t)
    PROVE  /\ Committed' = Committed
           /\ \A u \in Committed : outbox'[u].product = outbox[u].product
<1>1. /\ \A u \in TxIds : u # t => outbox'[u] = outbox[u]
      /\ outbox[t].kind = "none" /\ outbox'[t].kind # "committed"
  <2>1. CASE RequireReconciliation(t)
    BY <2>1, FinishKeeps DEF RequireReconciliation, Kinds
  <2>2. CASE AbortAttempt(t)
    BY <2>2, FinishKeeps DEF AbortAttempt, Kinds
  <2>3. QED BY <2>1, <2>2 DEF CloseByEvidence
<1>2. QED BY <1>1 DEF Committed

LEMMA SteadyStep ==
    ASSUME RuntimeInv, Steady, RuntimeNext, ~CanUpgrade, ~CanTear PROVE Steady'
<1>1. /\ Turns /\ runtime \in RuntimeRows /\ runtime.at \in Nat /\ stale = FALSE /\ Readable
      /\ Working /\ Observing /\ Marking /\ Rebuilding
  BY DEF RuntimeInv, Stored, RuntimeShape, RuntimeRows, Phases, Steady
<1>2. \A t \in Committed : t \in TxIds /\ outbox[t].product.rev \in Nat \ {0}
  BY <1>1, CommittedRevisions
<1>3. ASSUME UNCHANGED <<outbox, log, stale>>, runtime'.step \in StartSteps PROVE Steady'
  BY <1>3, SteadyStays, CaughtUpAtRest DEF Committed
<1>4. ASSUME UNCHANGED <<outbox, log, stale>>, runtime.step \in ServingSteps,
             runtime'.step \in ServingSteps
      PROVE  Steady'
  <2>1. ~HasOlderRecords /\ \A t \in Committed : Logged(t)
    BY <1>4 DEF Steady, CaughtUp, StartSteps, ServingSteps
  <2>2. Committed' = Committed /\ \A t \in TxIds : Logged(t)' <=> Logged(t)
    BY <1>4 DEF Committed, Logged
  <2>3. CaughtUp'
    BY <1>2, <1>4, <2>1, <2>2 DEF CaughtUp, ServingSteps
  <2>4. QED BY <1>4, <2>1, <2>2, <2>3, SteadyStays
<1>5. ASSUME Start \/ FinishClosing \/ RefuseLog \/ RefuseGoal \/ (\E t \in TxIds : RefuseRecord(t))
             \/ Crash
      PROVE  Steady'
  <2>1. /\ UNCHANGED <<store, log, stale>>
        /\ Goes("closing") \/ Goes("scanning") \/ runtime' = Down
    BY <1>5 DEF Start, FinishClosing, RefuseLog, RefuseGoal, RefuseRecord, Crash, Beside
  <2>2. runtime'.step \in StartSteps
    BY <1>1, <2>1, GoesTo, Positions DEF Steps, StartSteps
  <2>3. QED BY <1>3, <2>1, <2>2 DEF store
<1>6. ASSUME AcceptLog PROVE Steady'
  <2>1. /\ UNCHANGED <<outbox, log, stale>> /\ ~HasOlderRecords
        /\ runtime' = [runtime EXCEPT !.step = "rebuilding", !.at = 1]
    BY <1>1, <1>6 DEF AcceptLog, Beside, store
  <2>2. runtime'.step = "rebuilding" /\ runtime'.at = 1
    BY <1>1, <2>1, ScansAt DEF Steps
  <2>3. Committed' = Committed /\ \A t \in Committed : ~(outbox[t].product.rev < 1)
    BY <1>2, <2>1 DEF Committed
  <2>4. CaughtUp'
    BY <2>1, <2>2, <2>3 DEF CaughtUp, ServingSteps
  <2>5. QED BY <2>1, <2>3, <2>4, SteadyStays
<1>7. ASSUME FinishRebuild PROVE Steady'
  <2> DEFINE step == IF runtime.goal = Root THEN "idle" ELSE "presenting"
  <2>1. /\ UNCHANGED <<outbox, log, stale>> /\ Rebuilt
        /\ runtime' = [runtime EXCEPT !.step = step, !.at = 0]
    BY <1>7 DEF FinishRebuild, Beside, store
  <2>2. runtime'.step \in {"idle", "presenting"}
    BY <1>1, <2>1, ScansAt DEF Steps
  <2>3. ~HasOlderRecords /\ \A t \in Committed : Logged(t)
    BY <2>1 DEF Rebuilt, Steady, CaughtUp, StartSteps
  <2>4. Committed' = Committed /\ \A t \in TxIds : Logged(t)' <=> Logged(t)
    BY <2>1 DEF Committed, Logged
  <2>5. CaughtUp'
    BY <1>2, <2>2, <2>3, <2>4 DEF CaughtUp
  <2>6. QED BY <2>1, <2>3, <2>4, <2>5, SteadyStays
<1>8. ASSUME NEW t \in TxIds, Present(t) PROVE Steady'
  <2> DEFINE step == IF t \in Committed THEN "scanning" ELSE "presenting"
  <2>1. /\ UNCHANGED <<outbox, log, stale>> /\ runtime.step = "idle"
        /\ runtime' = [Idle EXCEPT !.goal = t, !.step = step]
    BY <1>8 DEF Present, Beside, store
  <2>2. runtime'.step = step
    BY <2>1, Positions DEF RuntimeRows
  <2>3. CASE t \in Committed
    BY <1>3, <2>1, <2>2, <2>3 DEF StartSteps
  <2>4. CASE t \notin Committed
    BY <1>4, <2>1, <2>2, <2>4 DEF ServingSteps
  <2>5. QED BY <2>3, <2>4
<1>9. ASSUME NEW r \in Revs, ChangeRepository(r) PROVE Steady'
  <2>1. UNCHANGED <<attempts, outbox, head, log, stale, runtime>>
    BY <1>9 DEF ChangeRepository, store
  <2>2. Committed' = Committed /\ \A t \in TxIds : Logged(t)' <=> Logged(t)
    BY <2>1 DEF Committed, Logged
  <2>3. CaughtUp'
    BY <1>2, <2>1, <2>2 DEF CaughtUp, Steady
  <2>4. QED BY <2>1, <2>2, <2>3, SteadyStays DEF Steady
<1>10. ASSUME SeedAttempt \/ MarkInvoking \/ InvokeEffect PROVE Steady'
  <2>1. /\ UNCHANGED <<outbox, log, stale>> /\ runtime.step \in {"seeding", "running"}
        /\ Goes("running") \/ runtime' = runtime
    BY <1>10 DEF SeedAttempt, MarkInvoking, InvokeEffect, store
  <2>2. runtime'.step \in ServingSteps
    BY <1>1, <2>1, GoesTo DEF Steps, ServingSteps
  <2>3. QED BY <1>4, <2>1, <2>2 DEF ServingSteps
<1>11. ASSUME NEW t \in TxIds, CloseInterrupted(t) PROVE Steady'
  <2>1. /\ CloseByEvidence(t) /\ UNCHANGED <<log, stale, runtime>> /\ runtime.step = "closing"
    BY <1>11 DEF CloseInterrupted, Beside
  <2>2. /\ Committed' = Committed
        /\ \A u \in Committed : outbox'[u].product = outbox[u].product
    BY <1>1, <2>1, ClosedUncommitted
  <2>3. QED BY <2>1, <2>2, SteadyStays, CaughtUpAtRest DEF StartSteps
(* Serving goes on after something that commits nothing.                   *)
<1>12. ASSUME runtime.step \in ServingSteps \cup {"marking"},
              runtime.step = "marking" => runtime.at = 0,
              UNCHANGED <<log, stale>>, runtime'.step \in ServingSteps, Committed' = Committed,
              \A u \in Committed : outbox'[u].product = outbox[u].product
       PROVE  Steady'
  <2>1. ~HasOlderRecords /\ \A u \in Committed : Logged(u)
    BY <1>12 DEF Steady, CaughtUp, StartSteps, ServingSteps
  <2>2. \A u \in TxIds : Logged(u)' <=> Logged(u)
    BY <1>12 DEF Logged
  <2>3. CaughtUp'
    BY <1>2, <1>12, <2>1, <2>2 DEF CaughtUp, ServingSteps
  <2>4. QED BY <1>12, <2>1, <2>3, SteadyStays
<1>13. ASSUME FailTurnAttempt PROVE Steady'
  <2>1. /\ CloseByEvidence(runtime.cur) /\ runtime.cur \in TxIds /\ UNCHANGED <<log, stale>>
        /\ runtime.step \in ServingSteps /\ runtime'.step \in ServingSteps
    BY <1>1, <1>13, Positions
       DEF FailTurnAttempt, Beside, Working, ActiveAttempts, ServingSteps
  <2>2. PICK t \in TxIds : t = runtime.cur
    BY <2>1
  <2>3. /\ Committed' = Committed
        /\ \A u \in Committed : outbox'[u].product = outbox[u].product
    BY <1>1, <2>1, <2>2, ClosedUncommitted
  <2>4. QED BY <1>12, <2>1, <2>3 DEF ServingSteps
<1>14. ASSUME (\E c \in Ckpts : EnsureProductHead(c))
              \/ (\E t \in TxIds : \/ BeginTurnAttempt(t)
                                   \/ \E v \in Verdicts : OperatorResolves(t, v))
       PROVE  Steady'
  <2>1. /\ UNCHANGED <<outbox, log, stale>> /\ runtime.step = "idle"
        /\ \/ runtime' = runtime
           \/ \E t \in TxIds : runtime' = [Idle EXCEPT !.step = "seeding", !.cur = t]
    BY <1>14 DEF EnsureProductHead, BeginTurnAttempt, OperatorResolves, Beside,
       BootstrapProductHead, BeginAttempt, ResolveReconciliation
  <2>2. runtime'.step \in ServingSteps
    BY <2>1, Positions DEF RuntimeRows, ServingSteps
  <2>3. QED BY <1>4, <2>1, <2>2 DEF ServingSteps
<1>15. ASSUME FinishPresenting PROVE Steady'
  <2>1. /\ runtime.step = "presenting" /\ runtime' = Idle /\ UNCHANGED <<log, stale>>
        /\ outbox' = [outbox EXCEPT ![runtime.goal].delivered = TRUE]
    BY <1>15 DEF FinishPresenting, MarkTerminalDelivered, Beside
  <2>2. outbox \in [TxIds -> OutboxRows]
    BY <1>1 DEF Turns, TurnTypes, OutboxRows
  <2>3. \A u \in TxIds : outbox'[u].kind = outbox[u].kind /\ outbox'[u].product = outbox[u].product
    BY <2>1, <2>2 DEF OutboxRows
  <2>4. Committed' = Committed
    BY <2>3 DEF Committed
  <2>5. QED BY <1>2, <1>12, <2>1, <2>3, <2>4, Positions DEF ServingSteps
<1>16. ASSUME RequeueOlder PROVE Steady'
  <2>1. RequeueRuntimeEvents /\ Goes("quarantining") /\ UNCHANGED <<log, stale>>
    BY <1>16 DEF RequeueOlder, Beside
  <2>2. Kept /\ \A t \in TxIds : outbox'[t].kind = outbox[t].kind
    BY <1>1, <2>1, RequeueKeeps
  <2>3. Committed' = Committed /\ \A u \in Committed : outbox'[u].product = outbox[u].product
    BY <2>2 DEF Committed, Kept
  <2>4. runtime'.step \in StartSteps
    BY <1>1, <2>1, GoesTo DEF Steps, StartSteps
  <2>5. QED BY <2>1, <2>3, <2>4, SteadyStays, CaughtUpAtRest
<1>17. ASSUME QuarantineLog PROVE Steady'
  <2>1. /\ log' = <<>> /\ UNCHANGED <<outbox, stale>>
        /\ runtime' = [runtime EXCEPT !.step = "rebuilding", !.at = 1]
    BY <1>17 DEF QuarantineLog, Beside, store
  <2>2. runtime'.step = "rebuilding" /\ runtime'.at = 1
    BY <1>1, <2>1, ScansAt DEF Steps
  <2>3. Committed' = Committed /\ \A t \in Committed : ~(outbox[t].product.rev < 1)
    BY <1>2, <2>1 DEF Committed
  <2>4. CaughtUp'
    BY <2>1, <2>2, <2>3 DEF CaughtUp, ServingSteps
  <2>5. Readable' /\ ~HasOlderRecords' /\ LoggedInOrder' /\ LogInRevisionOrder'
    BY <2>1 DEF Readable, HasOlderRecords, LoggedInOrder, LogInRevisionOrder, InOrder, Logged
  <2>6. QED BY <1>1, <2>1, <2>4, <2>5 DEF Steady
<1>18. ASSUME NEW c \in Ckpts, CommitTurnAttempt(c) PROVE Steady'
  <2> DEFINE new == [rev |-> head.rev + 1, thread |-> runtime.cur, ckpt |-> c]
  <2>1. /\ runtime.step = "running" /\ Goes("observing") /\ UNCHANGED log /\ stale' = FALSE
        /\ FinishAttempt(runtime.cur, "committed", new)
    BY <1>1, <1>18 DEF CommitTurnAttempt, CommitAttempt
  <2>2. PICK t \in TxIds : t = runtime.cur
    BY <1>1, <2>1 DEF Working, ActiveAttempts
  <2>3. /\ outbox[t].kind = "none" /\ outbox'[t].kind = "committed"
        /\ outbox'[t].product = new /\ head' = new
        /\ \A u \in TxIds : u # t => outbox'[u] = outbox[u]
    <3>1. FinishAttempt(t, "committed", new)
      BY <2>1, <2>2
    <3>2. head' = new
      BY <3>1 DEF FinishAttempt
    <3>3. QED BY <1>1, <3>1, <3>2, FinishKeeps DEF Kinds
  <2>4. /\ runtime'.step = "observing" /\ runtime'.cur = t
    BY <1>1, <2>1, <2>2, GoesTo DEF Steps
  <2>5. /\ t \notin Committed /\ Committed' = Committed \cup {t}
        /\ \A u \in Committed : outbox'[u].product = outbox[u].product
    BY <2>3 DEF Committed
  <2>6. ~HasOlderRecords /\ \A u \in Committed : Logged(u)
    BY <2>1 DEF Steady, CaughtUp, StartSteps, ServingSteps
  <2>7. ~Logged(t)
    BY <2>5 DEF Logged, RuntimeInv, LogShape, LogHoldsCommitsOnce
  <2>8. \A u \in TxIds : Logged(u)' <=> Logged(u)
    BY <2>1 DEF Logged
  <2>9. \A u \in Committed : outbox[u].product.rev < outbox'[t].product.rev
    <3>1. \A u \in Committed : outbox[u].product.rev =< head.rev /\ head # NoHead
      BY <1>1 DEF Turns, CommitsFormOneChain
    <3>2. head # NoHead => head.rev \in Nat
      BY <1>1 DEF Turns, TurnTypes, MaybeHead, Heads
    <3>3. outbox'[t].product.rev = head.rev + 1
      BY <2>3
    <3>4. QED BY <1>2, <3>1, <3>2, <3>3
  <2>10. LoggedInOrder'
    <3> SUFFICES ASSUME NEW u \in Committed', NEW v \in Committed', Logged(v)',
                        outbox'[u].product.rev < outbox'[v].product.rev
                 PROVE  Logged(u)'
      BY DEF LoggedInOrder
    <3>1. v \in Committed
      BY <2>2, <2>5, <2>7, <2>8
    <3>2. CASE u = t
      <4>1. /\ outbox'[v].product.rev < outbox'[u].product.rev
            /\ outbox'[v].product.rev \in Nat
        BY <1>2, <2>5, <2>9, <3>1, <3>2
      <4>2. outbox'[u].product.rev \in Nat
        <5>1. head # NoHead /\ head \in Heads
          BY <1>1, <3>1 DEF Turns, TurnTypes, CommitsFormOneChain, MaybeHead
        <5>2. QED BY <2>3, <3>2, <5>1 DEF Heads
      <4>3. QED BY <4>1, <4>2
    <3>3. CASE u # t
      BY <1>2, <2>5, <2>6, <2>8, <3>3
    <3>4. QED BY <3>2, <3>3
  <2>11. CaughtUp'
    BY <1>2, <2>3, <2>4, <2>5, <2>6, <2>8 DEF CaughtUp, ServingSteps
  <2>12. Readable' /\ ~HasOlderRecords' /\ LogInRevisionOrder'
    BY <2>1, <2>6 DEF Steady, Readable, HasOlderRecords, LogInRevisionOrder, InOrder
  <2>13. QED BY <2>1, <2>10, <2>11, <2>12 DEF Steady
(* A receipt changes neither what is committed nor what is logged.         *)
<1>19. ASSUME NEW t \in TxIds, NEW p, MarkRuntimeEventPublished(t, p)
       PROVE  Committed' = Committed /\ \A u \in Committed : outbox'[u].product = outbox[u].product
  BY <1>1, <1>19, PublishKeeps DEF Committed
<1>20. ASSUME NEW t \in Committed, outbox[t].product.rev = runtime.at, Logged(t),
              \A u \in Committed : outbox[u].product.rev < runtime.at => Logged(u),
              ~HasOlderRecords, UNCHANGED <<log, stale>>, Committed' = Committed,
              \A u \in Committed : outbox'[u].product = outbox[u].product,
              runtime'.step = "rebuilding", runtime'.at = runtime.at + 1
       PROVE  Steady'
  <2>1. \A u \in TxIds : Logged(u)' <=> Logged(u)
    BY <1>20 DEF Logged
  <2>2. ASSUME NEW u \in Committed, outbox[u].product.rev < runtime.at + 1
        PROVE  Logged(u)
    <3>1. CASE outbox[u].product.rev = runtime.at
      BY <1>1, <1>20, <3>1, CommittedRevisions
    <3>2. CASE outbox[u].product.rev # runtime.at
      <4>1. outbox[u].product.rev < runtime.at
        BY <1>1, <1>2, <2>2, <3>2
      <4>2. QED BY <1>20, <4>1
    <3>3. QED BY <3>1, <3>2
  <2>3. CaughtUp'
    BY <1>2, <1>20, <2>1, <2>2 DEF CaughtUp, ServingSteps
  <2>4. QED BY <1>20, <2>3, SteadyStays
<1>21. ASSUME NEW t \in TxIds, ConfirmLogged(t) PROVE Steady'
  <2>1. /\ runtime.step = "rebuilding" /\ t \in Committed /\ outbox[t].product.rev = runtime.at
        /\ Logged(t) /\ MarkRuntimeEventPublished(t, RecordOf(t).payload)
        /\ runtime' = [runtime EXCEPT !.at = @ + 1] /\ UNCHANGED <<log, stale>>
    BY <1>21 DEF ConfirmLogged, Due, Beside
  <2>2. runtime'.step = "rebuilding" /\ runtime'.at = runtime.at + 1
    BY <1>1, <2>1 DEF RuntimeRows
  <2>3. /\ ~HasOlderRecords
        /\ \A u \in Committed : outbox[u].product.rev < runtime.at => Logged(u)
    BY <2>1 DEF Steady, CaughtUp, StartSteps
  <2>4. Committed' = Committed /\ \A u \in Committed : outbox'[u].product = outbox[u].product
    BY <1>19, <2>1
  <2>5. QED BY <1>20, <2>1, <2>2, <2>3, <2>4
<1>22. ASSUME MarkAppended PROVE Steady'
  <2> DEFINE step == IF runtime.at = 0 THEN "idle" ELSE "rebuilding"
             at == IF runtime.at = 0 THEN 0 ELSE runtime.at + 1
  <2>1. /\ runtime.step = "marking" /\ UNCHANGED <<log, stale>>
        /\ MarkRuntimeEventPublished(runtime.cur, log[Len(log)].payload)
        /\ runtime' = [runtime EXCEPT !.step = step, !.at = at]
    BY <1>22 DEF MarkAppended, Beside
  <2>2. /\ runtime.cur \in Committed
        /\ runtime.at # 0 => outbox[runtime.cur].product.rev = runtime.at
    BY <1>1, <2>1 DEF Marking
  <2>3. at \in Nat
    BY <1>1
  <2>4. runtime'.step = step /\ runtime'.at = at
    BY <1>1, <2>1, <2>3, ScansAt DEF Steps
  <2>5. Committed' = Committed /\ \A u \in Committed : outbox'[u].product = outbox[u].product
    BY <1>2, <1>19, <2>1, <2>2
  <2>6. CASE runtime.at = 0
    BY <1>12, <2>1, <2>4, <2>5, <2>6 DEF ServingSteps
  <2>7. CASE runtime.at # 0
    <3>1. PICK t \in Committed : t = runtime.cur
      BY <2>2
    <3>2. /\ ~HasOlderRecords
          /\ \A u \in Committed : outbox[u].product.rev =< runtime.at => Logged(u)
      BY <2>1, <2>7 DEF Steady, CaughtUp, StartSteps
    <3>3. outbox[t].product.rev = runtime.at
      BY <2>2, <2>7, <3>1
    <3>4. /\ Logged(t)
          /\ \A u \in Committed : outbox[u].product.rev < runtime.at => Logged(u)
      BY <1>1, <1>2, <3>2, <3>3
    <3>5. QED BY <1>20, <2>1, <2>4, <2>5, <2>7, <3>2, <3>3, <3>4
  <2>8. QED BY <2>6, <2>7
<1>23. ASSUME NEW t \in TxIds, AppendMissing(t) PROVE Steady'
  <2>1. /\ runtime.step = "rebuilding" /\ t \in Committed /\ outbox[t].product.rev = runtime.at
        /\ ~Logged(t) /\ AppendRecord(t, "turn_recovered") /\ UNCHANGED store /\ UNCHANGED stale
        /\ runtime' = [runtime EXCEPT !.step = "marking", !.cur = t]
    BY <1>23 DEF AppendMissing, Due, Beside
  <2>2. runtime'.step = "marking" /\ runtime'.cur = t /\ runtime'.at = runtime.at
    BY <1>1, <2>1 DEF RuntimeRows
  <2>3. /\ ~HasOlderRecords
        /\ \A u \in Committed : outbox[u].product.rev < runtime.at => Logged(u)
    BY <2>1 DEF Steady, CaughtUp, StartSteps
  <2>4. ASSUME NEW u \in Committed, Logged(u)
        PROVE  outbox[u].product.rev < outbox[t].product.rev
    <3>1. outbox[u].product.rev # outbox[t].product.rev
      BY <1>1, <2>1, <2>4, CommittedRevisions
    <3>2. ~(outbox[t].product.rev < outbox[u].product.rev)
      BY <2>1, <2>4 DEF Steady, LoggedInOrder
    <3>3. QED BY <1>2, <2>1, <3>1, <3>2
  <2>5. /\ stale' = FALSE /\ Readable' /\ ~HasOlderRecords'
        /\ LoggedInOrder' /\ LogInRevisionOrder'
        /\ Committed' = Committed /\ outbox' = outbox
        /\ \A u \in Committed : Logged(u) \/ u = t => Logged(u)'
    BY <2>1, <2>3, <2>4, SteadyGrows DEF Observations
  <2>6. \A u \in Committed : outbox[u].product.rev =< runtime.at => Logged(u)'
    <3> SUFFICES ASSUME NEW u \in Committed, outbox[u].product.rev =< runtime.at
                 PROVE  Logged(u)'
      OBVIOUS
    <3>1. CASE outbox[u].product.rev = runtime.at
      BY <1>1, <2>1, <2>5, <3>1, CommittedRevisions
    <3>2. CASE outbox[u].product.rev # runtime.at
      BY <1>1, <1>2, <2>3, <2>5, <3>2
    <3>3. QED BY <3>1, <3>2
  <2>7. runtime.at # 0
    BY <1>1, <2>1 DEF Rebuilding
  <2>8. CaughtUp'
    BY <2>2, <2>5, <2>6, <2>7 DEF CaughtUp, ServingSteps
  <2>9. QED BY <2>5, <2>8 DEF Steady
<1>24. ASSUME NEW o \in Observations, WriteTurnObservation(o) PROVE Steady'
  <2>1. /\ runtime.step = "observing" /\ AppendRecord(runtime.cur, o) /\ Goes("marking")
        /\ UNCHANGED store /\ UNCHANGED stale
    BY <1>24 DEF WriteTurnObservation, Beside
  <2>2. /\ runtime.cur \in Committed /\ runtime.at = 0
        /\ \A t \in TxIds : Logged(t) => t # runtime.cur
    BY <1>1, <2>1 DEF Observing
  <2>3. PICK t \in Committed : t = runtime.cur
    BY <2>2
  <2>4. runtime'.step = "marking" /\ runtime'.cur = t /\ runtime'.at = 0
    BY <1>1, <2>1, <2>2, <2>3, GoesTo DEF Steps
  <2>5. /\ ~HasOlderRecords /\ outbox[t].product = head
        /\ \A u \in Committed \ {t} : Logged(u)
    BY <2>1, <2>3 DEF Steady, CaughtUp, StartSteps
  <2>6. \A u \in Committed : outbox[u].product.rev =< outbox[t].product.rev
    BY <1>1, <2>5 DEF Turns, CommitsFormOneChain
  <2>7. ASSUME NEW u \in Committed
        PROVE  /\ outbox[u].product.rev < outbox[t].product.rev => Logged(u)
               /\ Logged(u) => outbox[u].product.rev < outbox[t].product.rev
    <3>1. CASE u = t
      BY <1>2, <2>2, <2>3, <3>1
    <3>2. CASE u # t
      <4>1. outbox[u].product.rev # outbox[t].product.rev
        BY <1>1, <3>2, CommittedRevisions
      <4>2. QED BY <1>2, <2>5, <2>6, <3>2, <4>1
    <3>3. QED BY <3>1, <3>2
  <2>8. AppendRecord(t, o)
    BY <2>1, <2>3
  <2>9. /\ stale' = FALSE /\ Readable' /\ ~HasOlderRecords'
        /\ LoggedInOrder' /\ LogInRevisionOrder'
        /\ Committed' = Committed /\ outbox' = outbox
        /\ \A u \in Committed : Logged(u) \/ u = t => Logged(u)'
    BY <2>1, <2>5, <2>7, <2>8, SteadyGrows
  <2>10. \A u \in Committed : Logged(u)'
    BY <2>5, <2>9
  <2>11. CaughtUp'
    BY <2>4, <2>9, <2>10 DEF CaughtUp, ServingSteps
  <2>12. QED BY <2>9, <2>11 DEF Steady
<1>25. ~TearAppend /\ ~Upgrade
  BY DEF TearAppend, Upgrade
<1>26. CASE Proceed
  BY <1>5, <1>6, <1>7, <1>10, <1>11, <1>13, <1>15, <1>16, <1>17, <1>18, <1>21, <1>22, <1>23,
     <1>24, <1>26 DEF Proceed
<1>27. QED BY <1>5, <1>8, <1>9, <1>10, <1>14, <1>25, <1>26 DEF RuntimeNext

(* While no newer program migrates a checkpoint and no append is torn, the *)
(* log stays ordered, so no scan of it refuses to serve: not after crashes *)
(* between a commit and its record, nor across the rebuild of an older log.*)
THEOREM OrderTheorem ==
    ASSUME ~CanUpgrade, ~CanTear PROVE RuntimeSpec => []LogInRevisionOrder
<1> DEFINE Inv == RuntimeInv /\ Steady
<1>1. RuntimeInit => Inv
  BY RuntimeInvInit, SteadyInit
<1>2. Inv /\ [RuntimeNext]_allvars => Inv'
  <2>1. ASSUME Inv, UNCHANGED allvars PROVE Steady'
    <3>1. UNCHANGED <<head, outbox, log, stale, runtime>>
      BY <2>1 DEF allvars, store
    <3>2. /\ Committed' = Committed /\ \A t \in TxIds : Logged(t)' <=> Logged(t)
          /\ \A t \in Committed : t \in TxIds
      BY <3>1 DEF Committed, Logged
    <3>3. CaughtUp'
      BY <2>1, <3>1, <3>2 DEF CaughtUp, Steady
    <3>4. QED BY <2>1, <3>1, <3>2, <3>3, SteadyStays DEF Steady
  <2>2. QED BY <2>1, RuntimeInvStep, SteadyStep
<1>3. Inv => LogInRevisionOrder
  BY DEF Steady
<1>4. QED BY <1>1, <1>2, <1>3, PTL DEF RuntimeSpec
=============================================================================
