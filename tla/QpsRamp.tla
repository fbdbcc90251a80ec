------------------------------- MODULE QpsRamp ------------------------------
(***************************************************************************)
(* The load ladder of the benchmark (src/core/master_qps_executor.sh) with *)
(* the three programs that judge it: the bottleneck detector it calls      *)
(* after every round, whose counters survive in a shared file; the         *)
(* block-height monitor, which runs beside it and raises a flag; and the   *)
(* framework, which reads both status files when the ladder is over.       *)
(*                                                                         *)
(* A load is its number on the ladder.  A round's measurement is reduced   *)
(* to what the thresholds tell apart, a sample of the machine to the       *)
(* resources above their limits.                                           *)
(***************************************************************************)
EXTENDS Naturals, FiniteSets

CONSTANTS Levels,       \* loads from INITIAL_QPS to MAX_QPS
          Consecutive,  \* BOTTLENECK_CONSECUTIVE_COUNT
          Outcomes,     \* the measurements an attack may give
          Samples,      \* what the detector may find above its limits
          Failed,       \* vegeta itself failed: no result file
          NoResult,     \* the round has not been run
          NoStatus      \* there is no qps_status.json

VARIABLES mode,     \* "bounded", "intensive" or "manual" (no auto-stop)
          phase,    \* where the executor stands
          level,    \* current_qps
          rounds,   \* what each round gave: result file and event log
          ramp,     \* BOTTLENECK_COUNT, _DETECTED and LAST_SUCCESSFUL_QPS
          detector, \* bottleneck_counters.json and bottleneck_status.json
          monitor,  \* the block-height monitor, its flag, and the CSV
          status,   \* qps_status.json
          verdict   \* the framework's BOTTLENECK_DETECTED

vars == <<mode, phase, level, rounds, ramp, detector, monitor, status, verdict>>

Loads == 1..Levels
Measurements == [rate : {"high", "low", "none"}, latency : {"ok", "slow"}]
Counters == {"cpu", "disk", "connection", "rate", "latency"}
RpcTypes == {"RPC_Success_Rate", "RPC_Latency", "RPC_Connection"}

ASSUME RampAssumption ==
    /\ Levels \in Nat \ {0} /\ Consecutive \in Nat \ {0}
    /\ Outcomes \subseteq Measurements
    /\ Samples \subseteq SUBSET {"cpu", "disk", "connection"}
    /\ Failed \notin Measurements /\ NoResult \notin Measurements
    /\ Failed # NoResult

Modes == {"bounded", "intensive", "manual"}
Phases == {"attack", "look", "detect", "decide", "ending", "written", "over"}
Rulings == {"none", "skipped", "clear", "confirmed"}

TypeOK ==
    /\ mode \in Modes /\ phase \in Phases /\ level \in 1..(Levels + 1)
    /\ rounds \in [Loads -> [result : Measurements \cup {Failed, NoResult},
                             found : BOOLEAN, ruling : Rulings]]
    /\ ramp \in [count : 0..Levels, detected : BOOLEAN, best : 0..Levels]
    /\ detector \in [counters : [Counters -> 0..Levels], detected : BOOLEAN,
                     types : SUBSET (RpcTypes \cup {"CPU", "Node_Unhealthy"})]
    /\ monitor \in [alert : BOOLEAN, flag : BOOLEAN, csv : BOOLEAN]
    /\ \/ status = NoStatus
       \/ status \in [detected : BOOLEAN, max : 0..Levels, at : 0..Levels,
                      reason : {"none", "pressure", "Node_Unhealthy"}]
    /\ verdict \in BOOLEAN
    /\ ramp.detected => phase \in {"ending", "written", "over"}

Init ==
    /\ mode \in Modes
    /\ phase = "attack" /\ level = 1
    /\ rounds = [l \in Loads |-> [result |-> NoResult, found |-> FALSE,
                                  ruling |-> "none"]]
    /\ ramp = [count |-> 0, detected |-> FALSE, best |-> 0]
    /\ detector = [counters |-> [k \in Counters |-> 0], detected |-> FALSE,
                   types |-> {}]
    /\ monitor = [alert |-> FALSE, flag |-> FALSE, csv |-> FALSE]
    /\ status = NoStatus /\ verdict = FALSE

-----------------------------------------------------------------------------
\* The executor's round.

\* The success rate is a percentage already when it is multiplied by 100, so
\* one per cent of good answers passes the threshold of 95.
Passed(result) == /\ result # Failed
                  /\ result.rate # "none"
                  /\ result.latency = "ok"

NextLoad == /\ level' = level + 1
            /\ phase' = IF level = Levels THEN "ending" ELSE "attack"

\* A bounded ladder ends with its first failed load; an intensive one asks for
\* a judgement after every load, passed or failed.
Attack(result) ==
    /\ phase = "attack"
    /\ rounds' = [rounds EXCEPT ![level].result = result]
    /\ ramp' = IF Passed(result) THEN [ramp EXCEPT !.best = level] ELSE ramp
    /\ \/ /\ mode = "intensive"
          /\ phase' = "look" /\ UNCHANGED level
       \/ /\ mode = "manual" \/ (mode = "bounded" /\ Passed(result))
          /\ NextLoad
       \/ /\ mode = "bounded" /\ ~Passed(result)
          /\ phase' = "ending" /\ UNCHANGED level
    /\ UNCHANGED <<mode, detector, monitor, status, verdict>>

\* The executor's own look at the latest sample of the machine.
Look(found) ==
    /\ phase = "look"
    /\ rounds' = [rounds EXCEPT ![level].found = found]
    /\ ramp' = IF found THEN [ramp EXCEPT !.count = @ + 1] ELSE ramp
    /\ phase' = "detect"
    /\ UNCHANGED <<mode, level, detector, monitor, status, verdict>>

-----------------------------------------------------------------------------
\* The bottleneck detector, one run per round.

Measured == rounds[level].result # Failed
Slow == Measured /\ rounds[level].result.latency = "slow"
Unreliable == Measured /\ rounds[level].result.rate # "high"

BumpForever(key, above) ==
    detector.counters[key] + (IF above THEN 1 ELSE 0)
Bump(key, above) == IF above THEN detector.counters[key] + 1 ELSE 0

\* check_qps_bottleneck runs first and, finding no report of the name it looks
\* for, sets the latency counter back to 0 on every run; only then does the
\* check of the result file count this round's latency.
ClearedLatency == 0

Counted(sample) ==
    [key \in Counters |->
        CASE key = "latency" -> IF Slow THEN ClearedLatency + 1 ELSE 0
          [] key = "rate" -> IF Measured THEN Bump("rate", Unreliable)
                             ELSE detector.counters["rate"]
          [] OTHER -> Bump(key, key \in sample)]

Reached(counters, key) == counters[key] >= Consecutive

RpcBottleneck(counters) ==
    Measured /\ (Reached(counters, "rate") \/ Reached(counters, "latency"))

SomeBottleneck(counters) ==
    \/ RpcBottleneck(counters)
    \/ \E key \in {"cpu", "disk", "connection"} : Reached(counters, key)

\* A disk at its limit is named after a counter that is never raised, so it
\* adds no type.
TypesOf(counters) ==
    {type \in {"CPU"} \cup RpcTypes :
        CASE type = "CPU" -> Reached(counters, "cpu")
          [] type = "RPC_Connection" -> Reached(counters, "connection")
          [] type = "RPC_Success_Rate" -> RpcBottleneck(counters) /\ Unreliable
          [] OTHER -> RpcBottleneck(counters) /\ Slow}

\* A resource alone, on a healthy node, is a false positive: its counters are
\* reset, except those of the disk, which have other names.
Forgiven(counters) == [counters EXCEPT !["cpu"] = 0]

RuleSticky(ruling, counters, types) ==
    /\ detector' = [counters |-> counters,
                    detected |-> detector.detected \/ ruling = "confirmed",
                    types |-> types]
    /\ rounds' = [rounds EXCEPT ![level].ruling = ruling]

Rule(ruling, counters, types) ==
    /\ detector' = [counters |-> counters, detected |-> ruling = "confirmed",
                    types |-> types]
    /\ rounds' = [rounds EXCEPT ![level].ruling = ruling]

Judge(sample) ==
    LET counters == Counted(sample)
        some == SomeBottleneck(counters)
    IN \/ /\ some /\ (monitor.flag \/ RpcBottleneck(counters))
          /\ Rule("confirmed", counters, TypesOf(counters))
       \/ /\ some /\ ~monitor.flag /\ ~RpcBottleneck(counters)
          /\ Rule("clear", Forgiven(counters), {})
       \/ /\ ~some /\ monitor.flag
          /\ Rule("confirmed", counters, {"Node_Unhealthy"})
       \/ /\ ~some /\ ~monitor.flag
          /\ Rule("clear", counters, {})

Detect(sample) ==
    /\ phase = "detect" /\ monitor.csv
    /\ Judge(sample)
    /\ phase' = "decide"
    /\ UNCHANGED <<mode, level, ramp, monitor, status, verdict>>

\* Without the monitors' CSV file the detector is not run at all.
SkipDetection ==
    /\ phase = "detect" /\ ~monitor.csv
    /\ rounds' = [rounds EXCEPT ![level].ruling = "skipped"]
    /\ phase' = "decide"
    /\ UNCHANGED <<mode, level, ramp, detector, monitor, status, verdict>>

-----------------------------------------------------------------------------
\* What the executor makes of it.

Found == rounds[level].found
Confirmed == rounds[level].ruling = "confirmed"

\* save_bottleneck_context
Stop(reason, count) ==
    /\ ramp' = [ramp EXCEPT !.count = count, !.detected = TRUE]
    /\ status' = [detected |-> TRUE, max |-> ramp.best, at |-> level,
                  reason |-> reason]
    /\ phase' = "ending"
    /\ UNCHANGED level

KeepCount == UNCHANGED ramp

ForgiveCount ==
    ramp' = IF Found THEN [ramp EXCEPT !.count = 0] ELSE ramp

GoOn ==
    /\ phase = "decide" /\ ~Confirmed
    /\ ForgiveCount
    /\ NextLoad
    /\ UNCHANGED <<mode, rounds, detector, monitor, status, verdict>>

\* The count after this round: the executor's own look has counted it already,
\* a bottleneck of the RPC alone is counted here.
CountNow == ramp.count + (IF Found THEN 0 ELSE 1)

BlameNode ==
    /\ phase = "decide" /\ Confirmed /\ ~Found
    /\ detector.types \cap RpcTypes = {}
    /\ Stop("Node_Unhealthy", ramp.count)
    /\ UNCHANGED <<mode, rounds, detector, monitor, verdict>>

Accumulates == Confirmed /\ (Found \/ detector.types \cap RpcTypes # {})

CountBottleneck ==
    /\ phase = "decide" /\ Accumulates /\ CountNow < Consecutive
    /\ ramp' = [ramp EXCEPT !.count = CountNow]
    /\ NextLoad
    /\ UNCHANGED <<mode, rounds, detector, monitor, status, verdict>>

StopRamp ==
    /\ phase = "decide" /\ Accumulates /\ CountNow >= Consecutive
    /\ Stop("pressure", CountNow)
    /\ UNCHANGED <<mode, rounds, detector, monitor, verdict>>

Finish ==
    /\ phase = "ending"
    /\ status' = IF ramp.detected THEN status
                 ELSE [detected |-> FALSE, max |-> ramp.best, at |-> 0,
                       reason |-> "none"]
    /\ phase' = "written"
    /\ UNCHANGED <<mode, level, rounds, ramp, detector, monitor, verdict>>

\* The framework removes the lifecycle marker and takes either file's word.
WrapUp ==
    /\ phase = "written"
    /\ verdict' = (status.detected \/ detector.detected)
    /\ phase' = "over"
    /\ UNCHANGED <<mode, level, rounds, ramp, detector, monitor, status>>

-----------------------------------------------------------------------------
\* The monitors, which run as long as the lifecycle marker exists.

Running == phase # "over"

WriteCsv ==
    /\ Running /\ ~monitor.csv
    /\ monitor' = [monitor EXCEPT !.csv = TRUE]
    /\ UNCHANGED <<mode, phase, level, rounds, ramp, detector, status, verdict>>

\* A sample of a node behind the main net starts an alert; a later one, once
\* the threshold has passed (long), raises the flag.
SampleBehind(long) ==
    /\ Running
    /\ monitor' = [monitor EXCEPT !.alert = TRUE,
                                  !.flag = @ \/ (monitor.alert /\ long)]
    /\ UNCHANGED <<mode, phase, level, rounds, ramp, detector, status, verdict>>

\* A node that has caught up ends the alert; the flag stays.
SampleSynced ==
    /\ Running /\ monitor.alert
    /\ monitor' = [monitor EXCEPT !.alert = FALSE]
    /\ UNCHANGED <<mode, phase, level, rounds, ramp, detector, status, verdict>>

Executor ==
    \/ \E result \in Outcomes \cup {Failed} : Attack(result)
    \/ \E found \in BOOLEAN : Look(found)
    \/ \E sample \in Samples : Detect(sample)
    \/ SkipDetection \/ GoOn \/ BlameNode \/ CountBottleneck \/ StopRamp
    \/ Finish \/ WrapUp

Monitors == \/ WriteCsv \/ SampleSynced
            \/ \E long \in BOOLEAN : SampleBehind(long)

Next == Executor \/ Monitors

Spec == Init /\ [][Next]_vars

-----------------------------------------------------------------------------
\* Properties.

Ruled == {l \in Loads : rounds[l].ruling \in {"clear", "confirmed"}}
FalsePositive(l) == rounds[l].found /\ rounds[l].ruling \in {"clear", "skipped"}
Counting == {l \in Ruled : /\ rounds[l].ruling = "confirmed"
                           /\ \A m \in Loads : FalsePositive(m) => m < l}

\* The ladder is stopped for pressure only by BOTTLENECK_CONSECUTIVE_COUNT
\* rounds the detector confirmed, with no false positive since the first of
\* them (check_bottleneck_during_test).  Rounds in which neither saw anything
\* may lie between them: the count survives those.
StopsAreEarned ==
    (status # NoStatus /\ status.reason = "pressure")
        => Cardinality(Counting) >= Consecutive

MeasuredRounds == {l \in Ruled : rounds[l].result # Failed}

\* On a node whose flag was never raised, the ladder is only ever stopped by
\* answers that kept failing: the last BOTTLENECK_CONSECUTIVE_COUNT rounds that
\* were measured and judged all had a success rate below the threshold, so no
\* resource alone, and no good round forgotten, stops it (detect_bottleneck,
\* "false positive").  Slow answers would be as good a reason, but the detector
\* never counts enough of them: see SustainedLatencyStops.
HealthyStopsAreDegraded ==
    (ramp.detected /\ ~monitor.flag)
        => Cardinality({l \in MeasuredRounds :
                           \A m \in MeasuredRounds :
                               m >= l => rounds[m].result.rate # "high"})
              >= Consecutive

\* SUCCESS_RATE_THRESHOLD (95 %) and MAX_LATENCY_THRESHOLD, as configured.
Served(l) == /\ rounds[l].result \in Measurements
             /\ rounds[l].result.rate = "high"
             /\ rounds[l].result.latency = "ok"

\* The maximum successful QPS of the status file, whichever way the ladder
\* ended, is the highest load whose answers met both thresholds, and no load
\* was run after the one that stopped it (qps_status.json, read by the archiver
\* and the reports; execute_single_qps_test, "Check success rate and latency").
ReportedLoadWasReached ==
    status # NoStatus =>
        /\ \A l \in Loads : Served(l) => l <= status.max
        /\ status.max = 0 \/ Served(status.max)
        /\ status.detected =>
              \A l \in Loads : l > status.at => rounds[l].result = NoResult

LastRuled(l) == l \in Ruled /\ \A m \in Ruled : m <= l

\* The framework calls the run a bottleneck exactly when the last judgement
\* of the detector was one, even if the ladder went to its end because too few
\* had been counted (execute_core_qps_test, "intelligently merge").
VerdictIsLastRuling ==
    phase = "over" =>
        (verdict <=> \E l \in Loads : /\ LastRuled(l)
                                      /\ rounds[l].ruling = "confirmed")

SlowRound(l) == /\ l \in Ruled /\ rounds[l].result # Failed
                /\ rounds[l].result.latency = "slow"

\* A latency above the threshold, round after round, is a bottleneck of the
\* RPC and stops an intensive ladder like a low success rate does: after the
\* detector's consecutive rounds and the executor's (bottleneck_detector.sh,
\* "Detect RPC performance bottleneck (success rate and latency)").
SustainedLatencyStops ==
    (mode = "intensive" /\ phase = "attack" /\ level >= 2 * Consecutive)
        => \E l \in (level + 1 - 2 * Consecutive)..(level - 1) : ~SlowRound(l)
=============================================================================
