---------------------------- MODULE QpsRampProofs ---------------------------
(***************************************************************************)
(* Proofs about QpsRamp.tla, for ladders of any length, any number of      *)
(* consecutive rounds, and any measurements and samples.                   *)
(***************************************************************************)
EXTENDS QpsRamp, FiniteSetTheorems, TLAPS

RoundRows == [result : Measurements \cup {Failed, NoResult},
              found : BOOLEAN, ruling : Rulings]
RampRows == [count : Nat, detected : BOOLEAN, best : 0..Levels]
TypeSets == SUBSET (RpcTypes \cup {"CPU", "Node_Unhealthy"})
DetectorRows == [counters : [Counters -> Nat], detected : BOOLEAN, types : TypeSets]
MonitorRows == [alert : BOOLEAN, flag : BOOLEAN, csv : BOOLEAN]

Types == /\ phase \in Phases /\ level \in 1..(Levels + 1)
         /\ rounds \in [Loads -> RoundRows]
         /\ ramp \in RampRows
         /\ detector \in DetectorRows
         /\ monitor \in MonitorRows

(* The round at the executor's hands, and nothing of the loads above it.   *)
Climbing == phase \in {"attack", "look", "detect", "decide"}
Untouched == [result |-> NoResult, found |-> FALSE, ruling |-> "none"]
Ahead ==
    /\ Climbing => level \in Loads
    /\ phase = "attack" => rounds[level] = Untouched
    /\ phase = "look" => ~rounds[level].found
    /\ phase \in {"look", "detect"} => rounds[level].ruling = "none"
    /\ \A l \in Loads : l > level => rounds[l] = Untouched

(* The executor's own idea of a good round, and the rounds there may be.    *)
Accepted(l) == /\ rounds[l].result \in Outcomes
               /\ rounds[l].result.rate # "none"
               /\ rounds[l].result.latency = "ok"

BestAccepted ==
    /\ \A l \in Loads : rounds[l].result \in Outcomes \cup {Failed, NoResult}
    /\ \A l \in Loads : Accepted(l) => l <= ramp.best
    /\ ramp.best = 0 \/ (ramp.best \in Loads /\ Accepted(ramp.best))

StatusTold ==
    /\ Climbing => ~ramp.detected /\ status = NoStatus
    /\ (status # NoStatus \/ ramp.detected \/ phase \in {"written", "over"}) =>
          /\ status.max = ramp.best
          /\ status.detected = ramp.detected
          /\ ramp.detected => status.at = level

Ruling ==
    /\ detector.detected <=> \E l \in Loads : /\ LastRuled(l)
                                              /\ rounds[l].ruling = "confirmed"
    /\ ramp.detected => detector.detected
    /\ phase = "over" => (verdict <=> detector.detected)

(* The executor's count never runs ahead of the confirmed rounds, except   *)
(* by its own look before the detector has spoken.                         *)
CountIsEarned ==
    /\ phase \in {"attack", "look"} => ramp.count <= Cardinality(Counting)
    /\ phase = "detect" =>
          ramp.count <= Cardinality(Counting) + (IF Found THEN 1 ELSE 0)
    /\ phase = "decide" /\ Confirmed => CountNow <= Cardinality(Counting)
    /\ phase = "decide" /\ ~Confirmed /\ ~Found => ramp.count <= Cardinality(Counting)
    /\ StopsAreEarned

(* The detector's count of bad rates is about the latest measured rounds.  *)
Degraded == {l \in MeasuredRounds :
                \A m \in MeasuredRounds : m >= l => rounds[m].result.rate # "high"}
RateIsCounted ==
    /\ detector.counters["rate"] <= Cardinality(Degraded)
    /\ (phase = "decide" /\ Confirmed /\ ~monitor.flag) \/ (ramp.detected /\ ~monitor.flag)
          => detector.counters["rate"] >= Consecutive

IInv == Types /\ Ahead /\ BestAccepted /\ StatusTold /\ Ruling /\ CountIsEarned
-----------------------------------------------------------------------------
(* What each step does, field by field.                                    *)
LEMMA LoadFacts ==
  ASSUME Types
  PROVE  /\ Levels \in Nat /\ level \in Nat
         /\ \A l \in Loads : l \in Nat /\ 1 <= l /\ l <= Levels /\ rounds[l] \in RoundRows
         /\ ramp.count \in Nat /\ ramp.best \in Nat /\ ramp.best <= Levels
  BY RampAssumption DEF Types, Loads, RampRows

LEMMA NextLoadFacts ==
  ASSUME Types, level \in Loads, NextLoad
  PROVE  /\ level' = level + 1 /\ level' \in 1..(Levels + 1)
         /\ phase' \in {"attack", "ending"}
         /\ phase' = "attack" => level' \in Loads
  BY RampAssumption DEF NextLoad, Loads

LEMMA AttackFacts ==
  ASSUME Types, Ahead, NEW result \in Outcomes \cup {Failed}, Attack(result)
  PROVE  /\ phase = "attack" /\ level \in Loads
         /\ UNCHANGED <<mode, detector, monitor, status, verdict>>
         /\ rounds' \in [Loads -> RoundRows]
         /\ rounds'[level].result = result
         /\ ~rounds'[level].found /\ rounds'[level].ruling = "none"
         /\ \A l \in Loads : l # level => rounds'[l] = rounds[l]
         /\ ramp' \in RampRows
         /\ ramp'.best = IF Passed(result) THEN level ELSE ramp.best
         /\ ramp'.count = ramp.count /\ ramp'.detected = ramp.detected
         /\ phase' \in {"look", "attack", "ending"} /\ level' \in 1..(Levels + 1)
         /\ phase' = "attack" => level' = level + 1 /\ level' \in Loads
         /\ phase' = "look" => level' = level
         /\ level' = level \/ level' = level + 1
  <1>1. /\ phase = "attack" /\ level \in Loads
        /\ rounds[level] = Untouched
        /\ UNCHANGED <<mode, detector, monitor, status, verdict>>
    BY DEF Attack, Ahead, Climbing
  <1>2. result \in Measurements \cup {Failed}
    BY RampAssumption
  <1>3. rounds' = [rounds EXCEPT ![level].result = result]
    BY DEF Attack
  <1>4. /\ rounds' \in [Loads -> RoundRows]
        /\ rounds'[level].result = result
        /\ ~rounds'[level].found /\ rounds'[level].ruling = "none"
        /\ \A l \in Loads : l # level => rounds'[l] = rounds[l]
    <2>1. /\ rounds' \in [Loads -> RoundRows]
          /\ rounds'[level].result = result
          /\ rounds'[level].found = rounds[level].found
          /\ rounds'[level].ruling = rounds[level].ruling
          /\ \A l \in Loads : l # level => rounds'[l] = rounds[l]
      BY <1>1, <1>2, <1>3 DEF Types, RoundRows
    <2>2. ~rounds[level].found /\ rounds[level].ruling = "none"
      BY <1>1 DEF Untouched
    <2> QED  BY <2>1, <2>2
  <1>5. /\ ramp' \in RampRows
        /\ ramp'.best = IF Passed(result) THEN level ELSE ramp.best
        /\ ramp'.count = ramp.count /\ ramp'.detected = ramp.detected
    BY <1>1, RampAssumption DEF Attack, Types, RampRows, Loads
  <1>6. /\ phase' \in {"look", "attack", "ending"} /\ level' \in 1..(Levels + 1)
        /\ phase' = "attack" => level' = level + 1 /\ level' \in Loads
        /\ phase' = "look" => level' = level
        /\ level' = level \/ level' = level + 1
    BY <1>1, NextLoadFacts DEF Attack, Types
  <1> QED  BY <1>1, <1>4, <1>5, <1>6

LEMMA LookFacts ==
  ASSUME Types, Ahead, NEW found \in BOOLEAN, Look(found)
  PROVE  /\ phase = "look" /\ phase' = "detect" /\ level \in Loads
         /\ UNCHANGED <<mode, level, detector, monitor, status, verdict>>
         /\ rounds' \in [Loads -> RoundRows]
         /\ rounds'[level].result = rounds[level].result
         /\ rounds'[level].found = found /\ rounds'[level].ruling = rounds[level].ruling
         /\ \A l \in Loads : l # level => rounds'[l] = rounds[l]
         /\ ramp' \in RampRows
         /\ ramp'.count = ramp.count + (IF found THEN 1 ELSE 0)
         /\ ramp'.best = ramp.best /\ ramp'.detected = ramp.detected
  <1>1. /\ phase = "look" /\ phase' = "detect" /\ level \in Loads
        /\ UNCHANGED <<mode, level, detector, monitor, status, verdict>>
    BY DEF Look, Ahead, Climbing
  <1>2. rounds' = [rounds EXCEPT ![level].found = found]
    BY DEF Look
  <1>3. /\ rounds' \in [Loads -> RoundRows]
        /\ rounds'[level].result = rounds[level].result
        /\ rounds'[level].found = found /\ rounds'[level].ruling = rounds[level].ruling
        /\ \A l \in Loads : l # level => rounds'[l] = rounds[l]
    BY <1>1, <1>2 DEF Types, RoundRows
  <1>4. /\ ramp' \in RampRows
        /\ ramp'.count = ramp.count + (IF found THEN 1 ELSE 0)
        /\ ramp'.best = ramp.best /\ ramp'.detected = ramp.detected
    BY DEF Look, Types, RampRows
  <1> QED  BY <1>1, <1>3, <1>4

LEMMA RuledFacts ==
  ASSUME Types, level \in Loads, NEW ruling \in Rulings,
         rounds' = [rounds EXCEPT ![level].ruling = ruling]
  PROVE  /\ rounds' \in [Loads -> RoundRows]
         /\ rounds'[level].result = rounds[level].result
         /\ rounds'[level].found = rounds[level].found
         /\ rounds'[level].ruling = ruling
         /\ \A l \in Loads : l # level => rounds'[l] = rounds[l]
  BY DEF Types, RoundRows

LEMMA DetectFacts ==
  ASSUME Types, Ahead, NEW sample, Detect(sample)
  PROVE  /\ phase = "detect" /\ phase' = "decide" /\ level \in Loads
         /\ UNCHANGED <<mode, level, ramp, monitor, status, verdict>>
         /\ rounds' \in [Loads -> RoundRows]
         /\ rounds'[level].result = rounds[level].result
         /\ rounds'[level].found = rounds[level].found
         /\ rounds'[level].ruling \in {"clear", "confirmed"}
         /\ \A l \in Loads : l # level => rounds'[l] = rounds[l]
         /\ detector' \in DetectorRows
         /\ detector'.detected <=> rounds'[level].ruling = "confirmed"
         /\ detector'.counters["rate"] = Counted(sample)["rate"]
         /\ detector'.detected => monitor.flag \/ RpcBottleneck(Counted(sample))
  <1> DEFINE counts == Counted(sample)
  <1>1. /\ phase = "detect" /\ phase' = "decide" /\ level \in Loads
        /\ UNCHANGED <<mode, level, ramp, monitor, status, verdict>>
    BY DEF Detect, Ahead, Climbing
  <1>2. counts \in [Counters -> Nat]
    BY DEF Counted, Bump, ClearedLatency, Types, DetectorRows
  <1>3. /\ Forgiven(counts) \in [Counters -> Nat]
        /\ Forgiven(counts)["rate"] = counts["rate"]
    BY <1>2 DEF Forgiven, Counters
  <1>4. TypesOf(counts) \in TypeSets /\ {} \in TypeSets /\ {"Node_Unhealthy"} \in TypeSets
    BY DEF TypesOf, TypeSets
  <1> HIDE DEF counts
  <1>5. PICK ruling \in {"clear", "confirmed"}, counters \in [Counters -> Nat],
             types \in TypeSets :
             /\ Rule(ruling, counters, types) /\ counters["rate"] = counts["rate"]
             /\ ruling = "confirmed" => monitor.flag \/ RpcBottleneck(counts)
    <2>1. \/ Rule("confirmed", counts, TypesOf(counts)) /\ (monitor.flag \/ RpcBottleneck(counts))
          \/ Rule("clear", Forgiven(counts), {})
          \/ Rule("confirmed", counts, {"Node_Unhealthy"}) /\ monitor.flag
          \/ Rule("clear", counts, {})
      BY DEF Detect, Judge, counts
    <2> QED  BY <1>2, <1>3, <1>4, <2>1
  <1>6. /\ rounds' \in [Loads -> RoundRows]
        /\ rounds'[level].result = rounds[level].result
        /\ rounds'[level].found = rounds[level].found
        /\ rounds'[level].ruling = ruling
        /\ \A l \in Loads : l # level => rounds'[l] = rounds[l]
    <2>1. ruling \in Rulings /\ rounds' = [rounds EXCEPT ![level].ruling = ruling]
      BY <1>5 DEF Rule, Rulings
    <2> QED  BY <1>1, <2>1, RuledFacts
  <1>7. /\ detector' \in DetectorRows
        /\ detector'.detected <=> ruling = "confirmed"
        /\ detector'.counters = counters
    BY <1>5 DEF Rule, DetectorRows
  <1> QED  BY <1>1, <1>5, <1>6, <1>7 DEF counts

LEMMA SkipFacts ==
  ASSUME Types, Ahead, SkipDetection
  PROVE  /\ phase = "detect" /\ phase' = "decide" /\ level \in Loads
         /\ UNCHANGED <<mode, level, ramp, detector, monitor, status, verdict>>
         /\ rounds' \in [Loads -> RoundRows]
         /\ rounds'[level].result = rounds[level].result
         /\ rounds'[level].found = rounds[level].found
         /\ rounds'[level].ruling = "skipped"
         /\ \A l \in Loads : l # level => rounds'[l] = rounds[l]
  <1>1. /\ phase = "detect" /\ phase' = "decide" /\ level \in Loads
        /\ UNCHANGED <<mode, level, ramp, detector, monitor, status, verdict>>
    BY DEF SkipDetection, Ahead, Climbing
  <1>2. "skipped" \in Rulings /\ rounds' = [rounds EXCEPT ![level].ruling = "skipped"]
    BY DEF SkipDetection, Rulings
  <1> QED  BY <1>1, <1>2, RuledFacts

LEMMA GoOnFacts ==
  ASSUME Types, Ahead, GoOn \/ CountBottleneck
  PROVE  /\ phase = "decide" /\ level \in Loads
         /\ UNCHANGED <<mode, rounds, detector, monitor, status, verdict>>
         /\ level' = level + 1 /\ level' \in 1..(Levels + 1)
         /\ phase' \in {"attack", "ending"} /\ (phase' = "attack" => level' \in Loads)
         /\ ramp' \in RampRows /\ ramp'.best = ramp.best /\ ramp'.detected = ramp.detected
         /\ \/ Confirmed /\ ramp'.count = CountNow
            \/ ~Confirmed /\ Found /\ ramp'.count = 0
            \/ ~Confirmed /\ ~Found /\ ramp'.count = ramp.count
  <1>1. /\ phase = "decide" /\ level \in Loads /\ NextLoad
        /\ UNCHANGED <<mode, rounds, detector, monitor, status, verdict>>
    BY DEF GoOn, CountBottleneck, Ahead, Climbing
  <1>2. /\ ramp' \in RampRows /\ ramp'.best = ramp.best /\ ramp'.detected = ramp.detected
        /\ \/ Confirmed /\ ramp'.count = CountNow
           \/ ~Confirmed /\ Found /\ ramp'.count = 0
           \/ ~Confirmed /\ ~Found /\ ramp'.count = ramp.count
    <2>1. CASE GoOn
      BY <2>1 DEF GoOn, ForgiveCount, Types, RampRows
    <2>2. CASE CountBottleneck
      <3>1. Confirmed /\ ramp' = [ramp EXCEPT !.count = CountNow]
        BY <2>2 DEF CountBottleneck, Accumulates
      <3>2. CountNow \in Nat
        BY DEF CountNow, Types, RampRows
      <3> QED  BY <3>1, <3>2 DEF Types, RampRows
    <2> QED  BY <2>1, <2>2
  <1> QED  BY <1>1, <1>2, NextLoadFacts

LEMMA StopFacts ==
  ASSUME Types, Ahead, BlameNode \/ StopRamp
  PROVE  /\ phase = "decide" /\ phase' = "ending" /\ level \in Loads /\ Confirmed
         /\ UNCHANGED <<mode, level, rounds, detector, monitor, verdict>>
         /\ ramp' \in RampRows /\ ramp'.best = ramp.best /\ ramp'.detected
         /\ status'.max = ramp.best /\ status'.detected = TRUE /\ status'.at = level
         /\ status'.reason = "pressure" => CountNow >= Consecutive
  <1>1. /\ phase = "decide" /\ phase' = "ending" /\ level \in Loads /\ Confirmed
        /\ UNCHANGED <<mode, level, rounds, detector, monitor, verdict>>
    BY DEF BlameNode, StopRamp, Stop, Accumulates, Ahead, Climbing
  <1>2. PICK count \in Nat, reason \in {"Node_Unhealthy", "pressure"} :
             /\ Stop(reason, count)
             /\ reason = "pressure" => CountNow >= Consecutive
    BY DEF BlameNode, StopRamp, CountNow, Types, RampRows
  <1> QED  BY <1>1, <1>2 DEF Stop, Types, RampRows

LEMMA MonitorFacts ==
  ASSUME Types, Monitors
  PROVE  /\ UNCHANGED <<mode, phase, level, rounds, ramp, detector, status, verdict>>
         /\ monitor' \in MonitorRows
         /\ monitor.flag => monitor'.flag
  <1>1. CASE WriteCsv \/ SampleSynced
    BY <1>1 DEF WriteCsv, SampleSynced, Types, MonitorRows
  <1>2. ASSUME NEW long \in BOOLEAN, SampleBehind(long)
        PROVE  /\ UNCHANGED <<mode, phase, level, rounds, ramp, detector, status, verdict>>
               /\ monitor' \in MonitorRows
               /\ monitor.flag => monitor'.flag
    BY <1>2 DEF SampleBehind, Types, MonitorRows
  <1> QED  BY <1>1, <1>2 DEF Monitors

LEMMA FinishFacts ==
  ASSUME Finish
  PROVE  /\ phase = "ending" /\ phase' = "written"
         /\ UNCHANGED <<mode, level, rounds, ramp, detector, monitor, verdict>>
         /\ ramp.detected => status' = status
         /\ ~ramp.detected => /\ status'.max = ramp.best /\ status'.detected = FALSE
                              /\ status'.reason = "none"
  BY DEF Finish

LEMMA WrapUpFacts ==
  ASSUME WrapUp
  PROVE  /\ phase = "written" /\ phase' = "over"
         /\ UNCHANGED <<mode, level, rounds, ramp, detector, monitor, status>>
         /\ verdict' <=> (status.detected \/ detector.detected)
  BY DEF WrapUp

-----------------------------------------------------------------------------
LEMMA TypesKept == ASSUME IInv, Next PROVE Types'
  <1>0. Types /\ Ahead
    BY DEF IInv
  <1>1. ASSUME NEW result \in Outcomes \cup {Failed}, Attack(result) PROVE Types'
    BY <1>0, <1>1, AttackFacts DEF Types, Phases
  <1>2. ASSUME NEW found \in BOOLEAN, Look(found) PROVE Types'
    BY <1>0, <1>2, LookFacts DEF Types, Phases
  <1>3. ASSUME NEW sample \in Samples, Detect(sample) PROVE Types'
    BY <1>0, <1>3, DetectFacts DEF Types, Phases
  <1>4. CASE SkipDetection
    BY <1>0, <1>4, SkipFacts DEF Types, Phases
  <1>5. CASE GoOn \/ CountBottleneck
    BY <1>0, <1>5, GoOnFacts DEF Types, Phases
  <1>6. CASE BlameNode \/ StopRamp
    BY <1>0, <1>6, StopFacts DEF Types, Phases
  <1>7. CASE Finish
    BY <1>0, <1>7, FinishFacts DEF Types, Phases
  <1>8. CASE WrapUp
    BY <1>0, <1>8, WrapUpFacts DEF Types, Phases
  <1>9. CASE Monitors
    BY <1>0, <1>9, MonitorFacts DEF Types, Phases
  <1> QED  BY <1>1, <1>2, <1>3, <1>4, <1>5, <1>6, <1>7, <1>8, <1>9 DEF Next, Executor

LEMMA AheadKept == ASSUME IInv, Next PROVE Ahead'
  <1>0. Types /\ Ahead
    BY DEF IInv
  <1>a. level \in Nat /\ \A l \in Loads : l \in Nat
    BY <1>0, LoadFacts
  <1>1. ASSUME NEW result \in Outcomes \cup {Failed}, Attack(result) PROVE Ahead'
    <2>1. \A l \in Loads : l > level => rounds'[l] = Untouched
      BY <1>0, <1>1, <1>a, AttackFacts DEF Ahead
    <2>2. ~rounds'[level].found /\ rounds'[level].ruling = "none"
      BY <1>0, <1>1, AttackFacts
    <2>3. (\A l \in Loads : l > level => rounds[l] = Untouched)'
      BY <1>0, <1>1, <1>a, <2>1, AttackFacts
    <2>4. CASE phase' = "attack"
      <3>1. level' = level + 1 /\ level' \in Loads
        BY <1>0, <1>1, <2>4, AttackFacts
      <3>2. rounds'[level'] = Untouched
        BY <1>a, <2>1, <3>1
      <3> QED  BY <2>3, <2>4, <3>1, <3>2 DEF Ahead, Climbing
    <2>5. CASE phase' = "look"
      BY <1>0, <1>1, <2>2, <2>3, <2>5, AttackFacts DEF Ahead, Climbing
    <2>6. CASE phase' = "ending"
      BY <2>3, <2>6 DEF Ahead, Climbing
    <2> QED  BY <1>0, <1>1, <2>4, <2>5, <2>6, AttackFacts
  <1>2. ASSUME NEW found \in BOOLEAN, Look(found) PROVE Ahead'
    BY <1>0, <1>2, <1>a, LookFacts DEF Ahead, Climbing
  <1>3. ASSUME NEW sample \in Samples, Detect(sample) PROVE Ahead'
    BY <1>0, <1>3, <1>a, DetectFacts DEF Ahead, Climbing
  <1>4. CASE SkipDetection
    BY <1>0, <1>4, <1>a, SkipFacts DEF Ahead, Climbing
  <1>5. CASE GoOn \/ CountBottleneck
    <2>1. \A l \in Loads : l > level => rounds'[l] = Untouched
      BY <1>0, <1>5, GoOnFacts DEF Ahead
    <2>2. (\A l \in Loads : l > level => rounds[l] = Untouched)'
      BY <1>0, <1>5, <1>a, <2>1, GoOnFacts
    <2>3. phase' = "attack" => rounds'[level'] = Untouched
      BY <1>0, <1>5, <1>a, <2>1, GoOnFacts
    <2> QED  BY <1>0, <1>5, <2>2, <2>3, GoOnFacts DEF Ahead, Climbing
  <1>6. CASE BlameNode \/ StopRamp
    BY <1>0, <1>6, StopFacts DEF Ahead, Climbing
  <1>7. CASE Finish
    BY <1>0, <1>7, FinishFacts DEF Ahead, Climbing
  <1>8. CASE WrapUp
    BY <1>0, <1>8, WrapUpFacts DEF Ahead, Climbing
  <1>9. CASE Monitors
    BY <1>0, <1>9, MonitorFacts DEF Ahead, Climbing
  <1> QED  BY <1>1, <1>2, <1>3, <1>4, <1>5, <1>6, <1>7, <1>8, <1>9 DEF Next, Executor

LEMMA StatusKept == ASSUME IInv, Next PROVE StatusTold'
  <1>0. Types /\ Ahead /\ StatusTold
    BY DEF IInv
  <1>1. ASSUME NEW result \in Outcomes \cup {Failed}, Attack(result) PROVE StatusTold'
    BY <1>0, <1>1, AttackFacts DEF StatusTold, Climbing
  <1>2. ASSUME NEW found \in BOOLEAN, Look(found) PROVE StatusTold'
    BY <1>0, <1>2, LookFacts DEF StatusTold, Climbing
  <1>3. ASSUME NEW sample \in Samples, Detect(sample) PROVE StatusTold'
    BY <1>0, <1>3, DetectFacts DEF StatusTold, Climbing
  <1>4. CASE SkipDetection
    BY <1>0, <1>4, SkipFacts DEF StatusTold, Climbing
  <1>5. CASE GoOn \/ CountBottleneck
    BY <1>0, <1>5, GoOnFacts DEF StatusTold, Climbing
  <1>6. CASE BlameNode \/ StopRamp
    BY <1>0, <1>6, StopFacts DEF StatusTold, Climbing, Types, RampRows
  <1>7. CASE Finish
    BY <1>0, <1>7, FinishFacts DEF StatusTold, Climbing, Types, RampRows
  <1>8. CASE WrapUp
    BY <1>0, <1>8, WrapUpFacts DEF StatusTold, Climbing
  <1>9. CASE Monitors
    BY <1>0, <1>9, MonitorFacts DEF StatusTold, Climbing
  <1> QED  BY <1>1, <1>2, <1>3, <1>4, <1>5, <1>6, <1>7, <1>8, <1>9 DEF Next, Executor

LEMMA PassedIsAccepted ==
  ASSUME NEW result \in Outcomes \cup {Failed}
  PROVE  Passed(result) <=> /\ result \in Outcomes
                            /\ result.rate # "none" /\ result.latency = "ok"
  BY RampAssumption DEF Passed

LEMMA BestKept == ASSUME IInv, Next PROVE BestAccepted'
  <1>0. Types /\ Ahead /\ BestAccepted
    BY DEF IInv
  <1>a. level \in Nat /\ ramp.best \in Nat /\ \A l \in Loads : l \in Nat
    BY <1>0, LoadFacts
  <1>1. ASSUME NEW result \in Outcomes \cup {Failed}, Attack(result) PROVE BestAccepted'
    <2>1. /\ rounds'[level].result = result /\ level \in Loads
          /\ \A l \in Loads : l # level => rounds'[l] = rounds[l]
      BY <1>0, <1>1, AttackFacts
    <2>2. \A l \in Loads : /\ l # level => (Accepted(l)' <=> Accepted(l))
                           /\ l = level => (Accepted(l)' <=> Passed(result))
      BY <2>1, PassedIsAccepted DEF Accepted
    <2>0. \A l \in Loads : rounds'[l].result \in Outcomes \cup {Failed, NoResult}
      BY <1>0, <1>1, <2>1 DEF BestAccepted
    <2>3. \A l \in Loads : (l > level \/ l = level) => ~Accepted(l)
      <3>1. \A l \in Loads : (l > level \/ l = level) => rounds[l] = Untouched
        BY <1>0, <1>1, AttackFacts DEF Ahead
      <3> QED  BY <3>1, RampAssumption DEF Untouched, Accepted
    <2>4. CASE Passed(result)
      <3>1. ramp'.best = level
        BY <1>0, <1>1, <2>4, AttackFacts
      <3>2. \A l \in Loads : Accepted(l)' => l <= level
        BY <1>a, <2>2, <2>3
      <3>3. \A l \in Loads : l = level => Accepted(l)'
        BY <2>2, <2>4
      <3> QED  BY <2>0, <2>1, <3>1, <3>2, <3>3 DEF BestAccepted, Accepted
    <2>5. CASE ~Passed(result)
      <3>1. ramp'.best = ramp.best
        BY <1>0, <1>1, <2>5, AttackFacts
      <3>2. \A l \in Loads : Accepted(l)' <=> Accepted(l)
        BY <2>2, <2>3, <2>5
      <3> QED  BY <1>0, <2>0, <3>1, <3>2 DEF BestAccepted, Accepted
    <2> QED  BY <2>4, <2>5
  <1>2. ASSUME NEW found \in BOOLEAN, Look(found) PROVE BestAccepted'
    <2>1. /\ \A l \in Loads : rounds'[l].result = rounds[l].result
          /\ ramp'.best = ramp.best
      BY <1>0, <1>2, LookFacts
    <2> QED  BY <1>0, <2>1 DEF BestAccepted, Accepted
  <1>3. ASSUME NEW sample \in Samples, Detect(sample) PROVE BestAccepted'
    <2>1. /\ \A l \in Loads : rounds'[l].result = rounds[l].result
          /\ ramp'.best = ramp.best
      BY <1>0, <1>3, DetectFacts
    <2> QED  BY <1>0, <2>1 DEF BestAccepted, Accepted
  <1>4. CASE SkipDetection
    <2>1. /\ \A l \in Loads : rounds'[l].result = rounds[l].result
          /\ ramp'.best = ramp.best
      BY <1>0, <1>4, SkipFacts
    <2> QED  BY <1>0, <2>1 DEF BestAccepted, Accepted
  <1>5. CASE GoOn \/ CountBottleneck
    BY <1>0, <1>5, GoOnFacts DEF BestAccepted, Accepted
  <1>6. CASE BlameNode \/ StopRamp
    BY <1>0, <1>6, StopFacts DEF BestAccepted, Accepted
  <1>7. CASE Finish
    BY <1>0, <1>7, FinishFacts DEF BestAccepted, Accepted
  <1>8. CASE WrapUp
    BY <1>0, <1>8, WrapUpFacts DEF BestAccepted, Accepted
  <1>9. CASE Monitors
    BY <1>0, <1>9, MonitorFacts DEF BestAccepted, Accepted
  <1> QED  BY <1>1, <1>2, <1>3, <1>4, <1>5, <1>6, <1>7, <1>8, <1>9 DEF Next, Executor

-----------------------------------------------------------------------------
(* Which rounds a step judges: none, or the one at hand.                   *)
Measuring == \/ \E result \in Outcomes \cup {Failed} : Attack(result)
             \/ \E found \in BOOLEAN : Look(found)

LEMMA MeasuringFacts ==
  ASSUME Types, Ahead, Measuring
  PROVE  /\ phase \in {"attack", "look"} /\ phase' \in {"attack", "look", "detect", "ending"}
         /\ phase = "attack" => phase' # "detect"
         /\ phase = "look" => phase' = "detect" /\ level' = level
         /\ UNCHANGED <<detector, monitor, status, verdict>>
         /\ level \in Loads /\ ramp'.detected = ramp.detected
         /\ rounds[level].ruling = "none" /\ ~rounds[level].found
         /\ \A l \in Loads : rounds'[l].ruling = rounds[l].ruling
         /\ \A l \in Loads : l # level => rounds'[l] = rounds[l]
         /\ phase = "attack" => ramp'.count = ramp.count
         /\ phase = "look" =>
               ramp'.count = ramp.count + (IF rounds'[level].found THEN 1 ELSE 0)
  <1>1. ASSUME NEW result \in Outcomes \cup {Failed}, Attack(result)
        PROVE  /\ phase = "attack" /\ phase' \in {"attack", "look", "ending"}
               /\ UNCHANGED <<detector, monitor, status, verdict>>
               /\ level \in Loads /\ ramp'.detected = ramp.detected
               /\ rounds[level].ruling = "none" /\ ~rounds[level].found
               /\ \A l \in Loads : rounds'[l].ruling = rounds[l].ruling
               /\ \A l \in Loads : l # level => rounds'[l] = rounds[l]
               /\ ramp'.count = ramp.count
    <2>1. phase = "attack" /\ level \in Loads /\ rounds[level] = Untouched
      BY <1>1, AttackFacts DEF Ahead
    <2>2. rounds[level].ruling = "none" /\ ~rounds[level].found
      BY <2>1 DEF Untouched
    <2> QED  BY <1>1, <2>1, <2>2, AttackFacts
  <1>2. ASSUME NEW found \in BOOLEAN, Look(found)
        PROVE  /\ phase = "look" /\ phase' = "detect" /\ level' = level
               /\ UNCHANGED <<detector, monitor, status, verdict>>
               /\ level \in Loads /\ ramp'.detected = ramp.detected
               /\ rounds[level].ruling = "none" /\ ~rounds[level].found
               /\ \A l \in Loads : rounds'[l].ruling = rounds[l].ruling
               /\ \A l \in Loads : l # level => rounds'[l] = rounds[l]
               /\ ramp'.count = ramp.count + (IF rounds'[level].found THEN 1 ELSE 0)
    <2>1. rounds[level].ruling = "none" /\ ~rounds[level].found
      BY <1>2, LookFacts DEF Ahead
    <2> QED  BY <1>2, <2>1, LookFacts
  <1> QED  BY <1>1, <1>2 DEF Measuring

LEMMA SameRuled ==
  ASSUME Types, Ahead, Measuring \/ SkipDetection
  PROVE  /\ level \in Loads /\ level \notin Ruled /\ Ruled' = Ruled
         /\ \A l \in Loads : rounds'[l].ruling = "confirmed" <=> rounds[l].ruling = "confirmed"
         /\ \A l \in Ruled : rounds'[l] = rounds[l]
         /\ detector' = detector /\ monitor' = monitor
         /\ ramp'.detected = ramp.detected
         /\ phase' \in {"attack", "look", "detect", "ending"} \/ ~Confirmed'
  <1>1. CASE Measuring
    <2>1. level \notin Ruled
      BY <1>1, MeasuringFacts DEF Ruled
    <2>2. Ruled' = Ruled
      BY <1>1, MeasuringFacts DEF Ruled
    <2> QED  BY <1>1, <2>1, <2>2, MeasuringFacts DEF Ruled
  <1>2. CASE SkipDetection
    <2>1. /\ level \in Loads /\ rounds[level].ruling = "none"
          /\ rounds'[level].ruling = "skipped" /\ level' = level
          /\ \A l \in Loads : l # level => rounds'[l] = rounds[l]
      BY <1>2, SkipFacts DEF Ahead
    <2>2. level \notin Ruled /\ Ruled' = Ruled
      BY <2>1 DEF Ruled
    <2>3. ~Confirmed'
      BY <2>1 DEF Confirmed
    <2> QED  BY <1>2, <2>1, <2>2, <2>3, SkipFacts DEF Ruled
  <1> QED  BY <1>1, <1>2

LEMMA NewRuled ==
  ASSUME Types, Ahead, NEW sample, Detect(sample)
  PROVE  /\ level \in Loads /\ level \notin Ruled /\ Ruled' = Ruled \cup {level}
         /\ \A l \in Ruled : l < level /\ rounds'[l] = rounds[l]
         /\ \A l \in Loads : l > level => rounds[l] = Untouched /\ rounds'[l] = rounds[l]
  <1>1. /\ level \in Loads /\ rounds[level].ruling = "none"
        /\ rounds'[level].ruling \in {"clear", "confirmed"}
        /\ \A l \in Loads : l # level => rounds'[l] = rounds[l]
    BY DetectFacts DEF Ahead
  <1>2. level \notin Ruled /\ Ruled' = Ruled \cup {level}
    BY <1>1 DEF Ruled
  <1>3. \A l \in Loads : l > level => rounds[l] = Untouched
    BY DEF Ahead
  <1>4. \A l \in Loads : l \in Nat
    BY LoadFacts
  <1>5. \A l \in Ruled : l \in Loads /\ l # level /\ rounds[l] # Untouched
    BY <1>1 DEF Ruled, Untouched
  <1>6. \A l \in Ruled : l < level
    BY <1>1, <1>3, <1>4, <1>5
  <1> QED  BY <1>1, <1>2, <1>3, <1>4, <1>5, <1>6

LastConfirmed == \E l \in Loads : LastRuled(l) /\ rounds[l].ruling = "confirmed"

LEMMA RulingKept == ASSUME IInv, Next PROVE Ruling'
  <1>0. Types /\ Ahead /\ StatusTold /\ Ruling
    BY DEF IInv
  <1>a. level \in Nat /\ \A l \in Loads : l \in Nat
    BY <1>0, LoadFacts
  <1>b. Ruled \subseteq Loads
    BY DEF Ruled
  <1>1. CASE Measuring \/ SkipDetection
    <2>1. LastConfirmed' <=> LastConfirmed
      BY <1>0, <1>1, SameRuled DEF LastConfirmed, LastRuled
    <2>2. phase' # "over"
      BY <1>0, <1>1, MeasuringFacts, SkipFacts
    <2> QED  BY <1>0, <1>1, <2>1, <2>2, SameRuled DEF Ruling, LastConfirmed
  <1>3. ASSUME NEW sample \in Samples, Detect(sample) PROVE Ruling'
    <2>1. /\ level \in Loads /\ level' = level /\ phase' = "decide" /\ ~ramp'.detected
          /\ detector'.detected <=> rounds'[level].ruling = "confirmed"
      BY <1>0, <1>3, DetectFacts DEF StatusTold, Climbing
    <2>2. Ruled' = Ruled \cup {level} /\ \A l \in Ruled : l < level
      BY <1>0, <1>3, NewRuled
    <2>3. \A l \in Loads : LastRuled(l)' <=> l = level
      BY <1>a, <1>b, <2>1, <2>2 DEF LastRuled
    <2>4. LastConfirmed' <=> \E l \in Loads : l = level /\ rounds'[l].ruling = "confirmed"
      BY <2>3 DEF LastConfirmed
    <2>5. LastConfirmed' <=> detector'.detected
      BY <2>1, <2>4
    <2> QED  BY <2>1, <2>5 DEF Ruling, LastConfirmed
  <1>5. CASE GoOn \/ CountBottleneck
    BY <1>0, <1>5, GoOnFacts DEF Ruling, LastRuled, Ruled
  <1>6. CASE BlameNode \/ StopRamp
    <2>1. /\ phase = "decide" /\ level \in Loads /\ rounds[level].ruling = "confirmed"
          /\ UNCHANGED <<rounds, detector>> /\ phase' = "ending"
      BY <1>0, <1>6, StopFacts DEF Confirmed
    <2>2. \A l \in Loads : l > level => l \notin Ruled
      BY <1>0 DEF Ahead, Untouched, Ruled
    <2>3. LastRuled(level)
      BY <1>a, <1>b, <2>1, <2>2 DEF LastRuled, Ruled
    <2>4. detector.detected
      BY <1>0, <2>1, <2>3 DEF Ruling
    <2> QED  BY <1>0, <2>1, <2>4 DEF Ruling, LastRuled, Ruled
  <1>7. CASE Finish
    BY <1>0, <1>7, FinishFacts DEF Ruling, LastRuled, Ruled
  <1>8. CASE WrapUp
    <2>1. status.detected = ramp.detected
      BY <1>0, <1>8, WrapUpFacts DEF StatusTold
    <2> QED  BY <1>0, <1>8, <2>1, WrapUpFacts DEF Ruling, LastRuled, Ruled
  <1>9. CASE Monitors
    BY <1>0, <1>9, MonitorFacts DEF Ruling, LastRuled, Ruled
  <1> QED  BY <1>1, <1>3, <1>5, <1>6, <1>7, <1>8, <1>9 DEF Next, Executor, Measuring

-----------------------------------------------------------------------------
LEMMA LoadsFinite ==
  ASSUME NEW S \in SUBSET Loads
  PROVE  IsFiniteSet(S) /\ Cardinality(S) \in Nat
  <1>1. IsFiniteSet(Loads)
    BY FS_Interval, RampAssumption DEF Loads
  <1> QED  BY <1>1, FS_Subset, FS_CardinalityType

LEMMA OneMore ==
  ASSUME NEW S \in SUBSET Loads, NEW l \in Loads, l \notin S
  PROVE  Cardinality(S \cup {l}) = Cardinality(S) + 1
  BY LoadsFinite, FS_AddElement

(* A round confirmed by the detector adds to the rounds that count, one    *)
(* without a ruling changes nothing.                                       *)
LEMMA SameCounting ==
  ASSUME Types, \/ rounds' = rounds
                \/ Ahead /\ Measuring
                \/ Ahead /\ ~Found /\ SkipDetection
                \/ Ahead /\ ~Found /\ ~Confirmed' /\ \E sample \in Samples : Detect(sample)
  PROVE  Counting' = Counting
  <1>1. CASE rounds' = rounds
    BY <1>1 DEF Counting, Ruled, FalsePositive
  <1>2. CASE Ahead /\ Measuring
    <2>1. \A l \in Loads : FalsePositive(l)' <=> FalsePositive(l)
      BY <1>2, MeasuringFacts DEF FalsePositive
    <2>2. \A l \in Ruled : rounds'[l] = rounds[l]
      BY <1>2, SameRuled
    <2>3. Ruled' = Ruled
      BY <1>2, SameRuled
    <2> QED  BY <2>1, <2>2, <2>3 DEF Counting
  <1>3. CASE Ahead /\ ~Found /\ SkipDetection
    <2>1. \A l \in Loads : FalsePositive(l)' <=> FalsePositive(l)
      <3>1. /\ ~rounds[level].found /\ rounds'[level].found = rounds[level].found
            /\ \A l \in Loads : l # level => rounds'[l] = rounds[l]
        BY <1>3, SkipFacts DEF Found
      <3> QED  BY <3>1 DEF FalsePositive
    <2>2. Ruled' = Ruled /\ \A l \in Ruled : rounds'[l] = rounds[l]
      BY <1>3, SameRuled
    <2> QED  BY <2>1, <2>2 DEF Counting
  <1>4. ASSUME Ahead, ~Found, ~Confirmed', NEW sample \in Samples, Detect(sample)
        PROVE  Counting' = Counting
    <2>1. /\ ~rounds[level].found /\ rounds'[level].found = rounds[level].found
          /\ level' = level /\ level \in Loads
          /\ \A l \in Loads : l # level => rounds'[l] = rounds[l]
      BY <1>4, DetectFacts DEF Found
    <2>2. \A l \in Loads : FalsePositive(l)' <=> FalsePositive(l)
      BY <2>1 DEF FalsePositive
    <2>3. rounds'[level].ruling # "confirmed"
      BY <1>4, <2>1 DEF Confirmed
    <2>4. /\ level \notin Ruled /\ Ruled' = Ruled \cup {level}
          /\ \A l \in Ruled : rounds'[l] = rounds[l]
      BY <1>4, NewRuled
    <2> QED  BY <2>2, <2>3, <2>4 DEF Counting
  <1> QED  BY <1>1, <1>2, <1>3, <1>4

LEMMA OneMoreCounting ==
  ASSUME Types, Ahead, NEW sample, Detect(sample), Confirmed'
  PROVE  Cardinality(Counting') = Cardinality(Counting) + 1
  <1>1. /\ level' = level /\ level \in Loads
        /\ rounds[level].ruling = "none"
        /\ \A l \in Loads : l # level => rounds'[l] = rounds[l]
    BY DetectFacts DEF Ahead
  <1>2. rounds'[level].ruling = "confirmed"
    BY <1>1 DEF Confirmed
  <1>3. \A l \in Loads : FalsePositive(l)' <=> FalsePositive(l)
    BY <1>1, <1>2 DEF FalsePositive
  <1>4. /\ level \notin Ruled /\ Ruled' = Ruled \cup {level}
        /\ \A l \in Ruled : rounds'[l] = rounds[l]
        /\ \A l \in Loads : l > level => rounds[l] = Untouched
    BY NewRuled
  <1>5. \A m \in Loads : FalsePositive(m) => m < level
    <2>1. \A l \in Loads : l \in Nat
      BY LoadFacts
    <2>2. \A m \in Loads : FalsePositive(m) => m # level /\ ~(m > level)
      BY <1>1, <1>4 DEF FalsePositive, Untouched
    <2> QED  BY <1>1, <2>1, <2>2
  <1>6. Counting' = Counting \cup {level}
    BY <1>1, <1>2, <1>3, <1>4, <1>5 DEF Counting
  <1>7. Counting \in SUBSET Loads /\ level \notin Counting
    BY <1>4 DEF Counting, Ruled
  <1> QED  BY <1>1, <1>6, <1>7, OneMore

LEMMA CountKept == ASSUME IInv, Next PROVE CountIsEarned'
  <1>0. Types /\ Ahead /\ StatusTold /\ CountIsEarned
    BY DEF IInv
  <1>a. /\ ramp.count \in Nat /\ Consecutive \in Nat
        /\ Counting \in SUBSET Loads /\ Cardinality(Counting) \in Nat
    BY <1>0, RampAssumption, LoadFacts, LoadsFinite DEF Counting, Ruled
  <1>1. CASE Measuring
    <2>1. Counting' = Counting
      BY <1>0, <1>1, SameCounting
    <2>2. status = NoStatus /\ status' = NoStatus
      BY <1>0, <1>1, MeasuringFacts DEF StatusTold, Climbing
    <2>3. StopsAreEarned'
      BY <2>2 DEF StopsAreEarned
    <2>4. CASE phase = "attack"
      <3>1. phase' \in {"attack", "look", "ending"} /\ ramp'.count = ramp.count
        BY <1>0, <1>1, <2>4, MeasuringFacts
      <3> QED  BY <1>0, <2>1, <2>3, <2>4, <3>1 DEF CountIsEarned
    <2>5. CASE phase = "look"
      <3>1. /\ phase' = "detect" /\ level' = level
            /\ ramp'.count = ramp.count + (IF rounds'[level].found THEN 1 ELSE 0)
        BY <1>0, <1>1, <2>5, MeasuringFacts
      <3>2. ramp'.count <= Cardinality(Counting) + (IF Found' THEN 1 ELSE 0)
        BY <1>0, <1>a, <2>5, <3>1 DEF CountIsEarned, Found
      <3> QED  BY <2>1, <2>3, <3>1, <3>2 DEF CountIsEarned
    <2> QED  BY <1>0, <1>1, <2>4, <2>5, MeasuringFacts
  <1>2. ASSUME phase = "detect", phase' = "decide", level' = level, status' = status,
               ramp' = ramp, Found' <=> Found,
               Found \/ Counting' = Counting \/ Confirmed',
               Confirmed' => Cardinality(Counting') = Cardinality(Counting) + 1
        PROVE  CountIsEarned'
    <2>1. StopsAreEarned'
      BY <1>0, <1>2 DEF StatusTold, Climbing, StopsAreEarned
    <2>2. ramp.count <= Cardinality(Counting) + (IF Found THEN 1 ELSE 0)
      BY <1>0, <1>2 DEF CountIsEarned
    <2>3. Confirmed' => CountNow' <= Cardinality(Counting')
      BY <1>a, <1>2, <2>2 DEF CountNow
    <2>4. ~Confirmed' /\ ~Found' => ramp'.count <= Cardinality(Counting')
      BY <1>2, <2>2, <1>a
    <2> QED  BY <1>2, <2>1, <2>3, <2>4 DEF CountIsEarned
  <1>3. ASSUME NEW sample \in Samples, Detect(sample) PROVE CountIsEarned'
    <2>1. /\ phase = "detect" /\ phase' = "decide" /\ level' = level
          /\ status' = status /\ ramp' = ramp
          /\ rounds'[level].found = rounds[level].found
      BY <1>0, <1>3, DetectFacts
    <2>2. Found' <=> Found
      BY <2>1 DEF Found
    <2>3. Found \/ Counting' = Counting \/ Confirmed'
      BY <1>0, <1>3, SameCounting
    <2>4. Confirmed' => Cardinality(Counting') = Cardinality(Counting) + 1
      BY <1>0, <1>3, OneMoreCounting
    <2> QED  BY <1>2, <2>1, <2>2, <2>3, <2>4
  <1>4. CASE SkipDetection
    <2>1. /\ phase = "detect" /\ phase' = "decide" /\ level' = level
          /\ status' = status /\ ramp' = ramp
          /\ rounds'[level].found = rounds[level].found
          /\ rounds'[level].ruling = "skipped"
      BY <1>0, <1>4, SkipFacts
    <2>2. (Found' <=> Found) /\ ~Confirmed'
      BY <2>1 DEF Found, Confirmed
    <2>3. Found \/ Counting' = Counting
      BY <1>0, <1>4, SameCounting
    <2> QED  BY <1>2, <2>1, <2>2, <2>3
  <1>5. CASE GoOn \/ CountBottleneck
    <2>1. Counting' = Counting
      BY <1>0, <1>5, GoOnFacts, SameCounting
    <2>2. /\ phase = "decide" /\ phase' \in {"attack", "ending"}
          /\ status' = status
      BY <1>0, <1>5, GoOnFacts
    <2>3. StopsAreEarned'
      BY <1>0, <2>1, <2>2 DEF StatusTold, Climbing, StopsAreEarned
    <2>4. ramp'.count <= Cardinality(Counting)
      BY <1>0, <1>a, <1>5, GoOnFacts, <2>2 DEF CountIsEarned
    <2> QED  BY <2>1, <2>2, <2>3, <2>4 DEF CountIsEarned
  <1>6. CASE BlameNode \/ StopRamp
    <2>1. Counting' = Counting
      BY <1>0, <1>6, StopFacts, SameCounting
    <2>2. /\ phase = "decide" /\ phase' = "ending" /\ Confirmed
          /\ status'.reason = "pressure" => CountNow >= Consecutive
      BY <1>0, <1>6, StopFacts
    <2>3. CountNow <= Cardinality(Counting) /\ CountNow \in Nat
      BY <1>0, <1>a, <2>2 DEF CountIsEarned, CountNow
    <2>4. status'.reason = "pressure" => Cardinality(Counting) >= Consecutive
      BY <1>a, <2>2, <2>3
    <2> QED  BY <2>1, <2>2, <2>4 DEF CountIsEarned, StopsAreEarned
  <1>7. CASE Finish
    <2>1. Counting' = Counting
      BY <1>0, <1>7, FinishFacts, SameCounting
    <2>2. phase' = "written" /\ (status' = status \/ status'.reason = "none")
      BY <1>0, <1>7, FinishFacts DEF Types, RampRows
    <2>3. StopsAreEarned'
      BY <1>0, <2>1, <2>2 DEF CountIsEarned, StopsAreEarned
    <2> QED  BY <2>2, <2>3 DEF CountIsEarned
  <1>8. CASE WrapUp
    <2>1. Counting' = Counting
      BY <1>0, <1>8, WrapUpFacts, SameCounting
    <2> QED  BY <1>0, <1>8, <2>1, WrapUpFacts DEF CountIsEarned, StopsAreEarned
  <1>9. CASE Monitors
    <2>1. Counting' = Counting
      BY <1>0, <1>9, MonitorFacts, SameCounting
    <2> QED  BY <1>0, <1>9, <2>1, MonitorFacts
             DEF CountIsEarned, StopsAreEarned, Found, Confirmed, CountNow
  <1> QED  BY <1>1, <1>3, <1>4, <1>5, <1>6, <1>7, <1>8, <1>9 DEF Next, Executor, Measuring

-----------------------------------------------------------------------------
LEMMA InitHolds == Init => IInv
  <1> SUFFICES ASSUME Init PROVE IInv
    OBVIOUS
  <1>1. /\ 1 \in Loads /\ level = 1 /\ phase = "attack" /\ status = NoStatus
        /\ rounds = [l \in Loads |-> Untouched]
        /\ ramp.count = 0 /\ ~ramp.detected /\ ramp.best = 0
        /\ ~detector.detected
    BY RampAssumption DEF Init, Loads, Untouched
  <1>2. /\ \A l \in Loads : rounds[l] = Untouched
        /\ Untouched.result = NoResult /\ ~Untouched.found /\ Untouched.ruling = "none"
    BY <1>1 DEF Untouched
  <1>3. Types
    <2>1. Untouched \in RoundRows
      BY DEF Untouched, RoundRows, Rulings
    <2>2. ramp \in RampRows
      BY RampAssumption DEF Init, RampRows
    <2>3. detector \in DetectorRows
      BY DEF Init, DetectorRows, TypeSets
    <2>4. monitor \in MonitorRows
      BY DEF Init, MonitorRows
    <2> QED  BY <1>1, <2>1, <2>2, <2>3, <2>4, RampAssumption DEF Types, Phases
  <1>4. Ahead
    BY <1>1, <1>2 DEF Ahead, Climbing
  <1>5. BestAccepted
    BY <1>1, <1>2, RampAssumption DEF BestAccepted, Accepted
  <1>6. StatusTold
    BY <1>1 DEF StatusTold, Climbing
  <1>7. Ruled = {}
    BY <1>2 DEF Ruled
  <1>8. Ruling
    BY <1>1, <1>7 DEF Ruling, LastRuled
  <1>9. CountIsEarned
    <2>1. Counting \in SUBSET Loads
      BY DEF Counting, Ruled
    <2> QED  BY <1>1, <2>1, LoadsFinite DEF CountIsEarned, StopsAreEarned
  <1> QED  BY <1>3, <1>4, <1>5, <1>6, <1>8, <1>9 DEF IInv

LEMMA Stutters == IInv /\ UNCHANGED vars => IInv'
  <1> SUFFICES ASSUME IInv, UNCHANGED vars PROVE IInv'
    OBVIOUS
  <1> USE DEF vars
  <1>1. Types'
    BY DEF IInv, Types
  <1>2. Ahead'
    BY DEF IInv, Ahead, Climbing
  <1>3. BestAccepted'
    BY DEF IInv, BestAccepted, Accepted
  <1>4. StatusTold'
    BY DEF IInv, StatusTold, Climbing
  <1>5. Ruling'
    BY DEF IInv, Ruling, LastRuled, Ruled
  <1>6. Counting' = Counting
    BY DEF Counting, Ruled, FalsePositive
  <1>7. CountIsEarned'
    BY <1>6 DEF IInv, CountIsEarned, StopsAreEarned, Found, Confirmed, CountNow
  <1> QED  BY <1>1, <1>2, <1>3, <1>4, <1>5, <1>7 DEF IInv

LEMMA SpecHoldsIInv == Spec => []IInv
  <1>1. IInv /\ [Next]_vars => IInv'
    <2> SUFFICES ASSUME IInv, [Next]_vars PROVE IInv'
      OBVIOUS
    <2>1. CASE Next
      BY <2>1, TypesKept, AheadKept, BestKept, StatusKept, RulingKept, CountKept DEF IInv
    <2>2. CASE UNCHANGED vars
      BY <2>2, Stutters
    <2> QED  BY <2>1, <2>2
  <1> QED  BY <1>1, InitHolds, PTL DEF Spec
-----------------------------------------------------------------------------
(* The counts never exceed the loads.                                      *)
Fits(n) == IF phase \in {"attack", "look", "detect"} THEN n < level
                                                     ELSE n <= level /\ n <= Levels
CountsFit ==
    /\ \A key \in Counters : Fits(detector.counters[key])
    /\ phase \in {"detect", "decide"} /\ Found => ramp.count <= level
    /\ phase \in {"detect", "decide"} /\ ~Found => ramp.count < level
    /\ phase \in {"attack", "look"} => ramp.count < level
    /\ ~Climbing => ramp.count <= Levels
Told == \/ status = NoStatus
        \/ status \in [detected : BOOLEAN, max : 0..Levels, at : 0..Levels,
                       reason : {"none", "pressure", "Node_Unhealthy"}]
Shapes == mode \in Modes /\ verdict \in BOOLEAN /\ Told /\ CountsFit

LEMMA BumpFacts ==
  ASSUME Types, NEW sample, Detect(sample)
  PROVE  \A key \in Counters : /\ detector'.counters[key] \in Nat
                               /\ detector'.counters[key] <= detector.counters[key] + 1
  <1>1. \A key \in Counters : detector.counters[key] \in Nat
    BY DEF Types, DetectorRows
  <1>2. PICK c : c = Counted(sample)
    OBVIOUS
  <1>3. /\ \A key \in Counters : c[key] \in Nat /\ c[key] <= detector.counters[key] + 1
        /\ c \in [Counters -> Nat]
    BY <1>1, <1>2 DEF Counted, Bump, ClearedLatency
  <1>4. \A key \in Counters : /\ Forgiven(c)[key] \in Nat
                              /\ Forgiven(c)[key] <= detector.counters[key] + 1
    BY <1>1, <1>3 DEF Forgiven
  <1>5. detector'.counters = c \/ detector'.counters = Forgiven(c)
    BY <1>2 DEF Detect, Judge, Rule
  <1> QED  BY <1>3, <1>4, <1>5

LEMMA CountsStayFit == ASSUME IInv, CountsFit, Next PROVE CountsFit'
  <1>0. /\ Types /\ Ahead /\ Levels \in Nat /\ level \in Nat /\ ramp.count \in Nat
        /\ \A key \in Counters : detector.counters[key] \in Nat
    BY LoadFacts DEF IInv, Types, DetectorRows
  <1>1. ASSUME NEW result \in Outcomes \cup {Failed}, Attack(result) PROVE CountsFit'
    BY <1>0, <1>1, AttackFacts DEF CountsFit, Fits, Loads, Climbing
  <1>2. ASSUME NEW found \in BOOLEAN, Look(found) PROVE CountsFit'
    BY <1>0, <1>2, LookFacts DEF CountsFit, Fits, Climbing, Found
  <1>3. ASSUME NEW sample \in Samples, Detect(sample) PROVE CountsFit'
    <2>1. /\ phase = "detect" /\ phase' = "decide" /\ level' = level /\ ramp' = ramp
          /\ level <= Levels /\ (Found' <=> Found)
      BY <1>0, <1>3, DetectFacts DEF Found, Loads
    <2>2. \A key \in Counters : Fits(detector.counters[key])'
      BY <1>0, <1>3, <2>1, BumpFacts DEF CountsFit, Fits
    <2> QED  BY <2>1, <2>2 DEF CountsFit, Climbing
  <1>4. CASE SkipDetection
    BY <1>0, <1>4, SkipFacts DEF CountsFit, Fits, Climbing, Found, Loads
  <1>5. CASE GoOn \/ CountBottleneck
    <2>1. ramp'.count < level' /\ ramp'.count <= Levels
      BY <1>0, <1>5, GoOnFacts DEF CountsFit, CountNow, Loads
    <2>2. \A key \in Counters : Fits(detector.counters[key])'
      BY <1>0, <1>5, GoOnFacts DEF CountsFit, Fits, Loads
    <2> QED  BY <1>0, <1>5, <2>1, <2>2, GoOnFacts DEF CountsFit, Climbing
  <1>6. CASE BlameNode \/ StopRamp
    <2>1. ramp'.count = ramp.count \/ ramp'.count = CountNow
      BY <1>6 DEF BlameNode, StopRamp, Stop, Types, RampRows, IInv
    <2>2. level \in Loads /\ phase = "decide"
      BY <1>0, <1>6, StopFacts
    <2>3. ramp'.count <= Levels
      BY <1>0, <2>1, <2>2 DEF CountsFit, CountNow, Loads
    <2> QED  BY <1>0, <1>6, <2>3, StopFacts DEF CountsFit, Climbing, Fits
  <1>7. CASE Finish
    BY <1>0, <1>7, FinishFacts DEF CountsFit, Fits, Climbing
  <1>8. CASE WrapUp
    BY <1>0, <1>8, WrapUpFacts DEF CountsFit, Fits, Climbing
  <1>9. CASE Monitors
    BY <1>0, <1>9, MonitorFacts DEF CountsFit, Fits, Climbing, Found
  <1> QED  BY <1>1, <1>2, <1>3, <1>4, <1>5, <1>6, <1>7, <1>8, <1>9 DEF Next, Executor

LEMMA TellingKept == ASSUME IInv, Told, mode \in Modes, verdict \in BOOLEAN, Next
                     PROVE  Told' /\ mode' \in Modes /\ verdict' \in BOOLEAN
  <1>0. /\ Types /\ Ahead /\ StatusTold /\ Levels \in Nat /\ ramp.best \in 0..Levels
        /\ ramp.detected \in BOOLEAN /\ detector.detected \in BOOLEAN
    BY LoadFacts DEF IInv, Types, RampRows, DetectorRows
  <1>1. CASE BlameNode \/ StopRamp
    <2>1. level \in Loads
      BY <1>0, <1>1, StopFacts
    <2>2. level \in 0..Levels
      BY <1>0, <2>1 DEF Loads
    <2>3. PICK reason \in {"none", "pressure", "Node_Unhealthy"} :
             status' = [detected |-> TRUE, max |-> ramp.best, at |-> level, reason |-> reason]
      BY <1>1 DEF BlameNode, StopRamp, Stop
    <2>4. Told'
      BY <1>0, <2>2, <2>3 DEF Told
    <2> QED  BY <1>1, <2>4 DEF BlameNode, StopRamp
  <1>2. CASE Finish
    BY <1>0, <1>2 DEF Finish, Told
  <1>3. CASE WrapUp
    <2>1. status.detected = ramp.detected
      BY <1>0, <1>3 DEF WrapUp, StatusTold
    <2> QED  BY <1>0, <1>3, <2>1 DEF WrapUp, Told
  <1>4. CASE UNCHANGED <<mode, status, verdict>>
    BY <1>4 DEF Told
  <1>5. ASSUME NEW result \in Outcomes \cup {Failed}, Attack(result)
        PROVE  UNCHANGED <<mode, status, verdict>>
    BY <1>5 DEF Attack
  <1>6. ASSUME NEW found \in BOOLEAN, Look(found) PROVE UNCHANGED <<mode, status, verdict>>
    BY <1>6 DEF Look
  <1>7. ASSUME NEW sample \in Samples, Detect(sample) PROVE UNCHANGED <<mode, status, verdict>>
    BY <1>7 DEF Detect
  <1>8. CASE SkipDetection \/ GoOn \/ CountBottleneck
    BY <1>4, <1>8 DEF SkipDetection, GoOn, CountBottleneck
  <1>9. CASE Monitors
    BY <1>0, <1>4, <1>9, MonitorFacts
  <1> QED
    BY <1>1, <1>2, <1>3, <1>4, <1>5, <1>6, <1>7, <1>8, <1>9 DEF Next, Executor

(* Every variable of the ladder keeps its shape: no count passes the       *)
(* number of loads, and the ladder is over once it has been stopped        *)
(* (master_qps_executor.sh, bottleneck_counters.json).                     *)
THEOREM RampTypeTheorem == Spec => []TypeOK
  <1>1. Init => Shapes
    <2> SUFFICES ASSUME Init PROVE Shapes
      OBVIOUS
    <2>1. \A key \in Counters : detector.counters[key] = 0
      BY DEF Init
    <2>2. phase = "attack" /\ level = 1 /\ ramp.count = 0
      BY DEF Init
    <2>3. CountsFit
      BY <2>1, <2>2 DEF CountsFit, Fits, Climbing
    <2> QED  BY <2>3 DEF Init, Shapes, Told
  <1>2. IInv /\ Shapes /\ [Next]_vars => Shapes'
    <2>1. IInv /\ Shapes /\ Next => Shapes'
      BY CountsStayFit, TellingKept DEF Shapes
    <2>2. Shapes /\ UNCHANGED vars => Shapes'
      BY DEF Shapes, Told, CountsFit, Fits, Climbing, Found, vars
    <2> QED  BY <2>1, <2>2
  <1>3. IInv /\ Shapes => TypeOK
    <2> SUFFICES ASSUME IInv, Shapes PROVE TypeOK
      OBVIOUS
    <2>1. /\ Types /\ Ahead /\ StatusTold /\ level \in 1..(Levels + 1) /\ phase \in Phases
          /\ ramp.count \in Nat /\ ramp.best \in 0..Levels /\ ramp.detected \in BOOLEAN
          /\ Levels \in Nat
      BY LoadFacts DEF IInv, Types, RampRows
    <2>2. Climbing => level <= Levels
      BY <2>1, LoadFacts DEF Ahead
    <2>3. ramp.count \in 0..Levels
      BY <2>1, <2>2 DEF Shapes, CountsFit, Climbing, Phases
    <2>4. ramp \in [count : 0..Levels, detected : BOOLEAN, best : 0..Levels]
      BY <2>1, <2>3 DEF Types, RampRows
    <2>5. \A key \in Counters : detector.counters[key] \in 0..Levels
      BY <2>1, <2>2 DEF Shapes, CountsFit, Fits, Climbing, Types, DetectorRows
    <2>6. detector \in [counters : [Counters -> 0..Levels], detected : BOOLEAN,
                        types : SUBSET (RpcTypes \cup {"CPU", "Node_Unhealthy"})]
      BY <2>1, <2>5 DEF Types, DetectorRows, TypeSets
    <2>7. ramp.detected => phase \in {"ending", "written", "over"}
      BY <2>1 DEF StatusTold, Climbing, Phases
    <2> QED  BY <2>1, <2>4, <2>6, <2>7 DEF TypeOK, Types, RoundRows, MonitorRows, Shapes, Told
  <1> QED  BY <1>1, <1>2, <1>3, SpecHoldsIInv, PTL DEF Spec

(* A ladder of any length is stopped for pressure only by confirmed rounds *)
(* without a false positive between them, as many as the setting asks for. *)
THEOREM EarnedTheorem == Spec => []StopsAreEarned
  <1>1. IInv => StopsAreEarned
    BY DEF IInv, CountIsEarned
  <1> QED  BY <1>1, SpecHoldsIInv, PTL

(* Were it not for the success rates between 1 % and the threshold, which   *)
(* the executor takes for good, the reported maximum would be the highest  *)
(* load whose answers met both thresholds, on every way the ladder may end *)
(* (the product by 100 of execute_single_qps_test is all that is wrong).   *)
THEOREM ReportTheorem ==
  ASSUME \A outcome \in Outcomes : outcome.rate # "low"
  PROVE  Spec => []ReportedLoadWasReached
  <1>1. IInv => ReportedLoadWasReached
    <2> SUFFICES ASSUME IInv, status # NoStatus
                 PROVE  /\ \A l \in Loads : Served(l) => l <= status.max
                        /\ status.max = 0 \/ Served(status.max)
                        /\ status.detected =>
                              \A l \in Loads : l > status.at => rounds[l].result = NoResult
      BY DEF ReportedLoadWasReached
    <2>1. /\ status.max = ramp.best /\ status.detected = ramp.detected
          /\ ramp.detected => status.at = level
      BY DEF IInv, StatusTold
    <2>2. \A l \in Loads : l > level => rounds[l].result = NoResult
      BY DEF IInv, Ahead, Untouched
    <2>3. ASSUME NEW l \in Loads PROVE Served(l) <=> Accepted(l)
      <3>1. rounds[l].result \in Outcomes \cup {Failed, NoResult}
        BY DEF IInv, BestAccepted
      <3>2. rounds[l].result \in Measurements <=> rounds[l].result \in Outcomes
        BY <3>1, RampAssumption
      <3>3. rounds[l].result \in Outcomes =>
               (rounds[l].result.rate = "high" <=> rounds[l].result.rate # "none")
        BY RampAssumption DEF Measurements
      <3> QED  BY <3>2, <3>3 DEF Served, Accepted
    <2> QED  BY <2>1, <2>2, <2>3 DEF IInv, BestAccepted
  <1> QED  BY <1>1, SpecHoldsIInv, PTL

(* The framework's verdict is the detector's last judgement, whoever wrote *)
(* which of the two status files last.                                     *)
THEOREM VerdictTheorem == Spec => []VerdictIsLastRuling
  <1>1. IInv => VerdictIsLastRuling
    BY DEF IInv, Ruling, VerdictIsLastRuling
  <1> QED  BY <1>1, SpecHoldsIInv, PTL

-----------------------------------------------------------------------------
LEMMA SameDegraded ==
  ASSUME Ruled' = Ruled, \A l \in Ruled : rounds'[l] = rounds[l]
  PROVE  Degraded' = Degraded
  <1>1. MeasuredRounds' = MeasuredRounds /\ MeasuredRounds \subseteq Ruled
    BY DEF MeasuredRounds
  <1> QED  BY <1>1 DEF Degraded

LEMMA RateInit == Init => RateIsCounted
  <1> SUFFICES ASSUME Init PROVE RateIsCounted
    OBVIOUS
  <1>1. Degraded \in SUBSET Loads
    BY DEF Degraded, MeasuredRounds, Ruled
  <1>2. detector.counters["rate"] = 0 /\ ~ramp.detected /\ phase = "attack"
    BY DEF Init, Counters
  <1> QED  BY <1>1, <1>2, LoadsFinite DEF RateIsCounted

LEMMA RateKept ==
  ASSUME Consecutive >= 2, IInv, RateIsCounted, [Next]_vars
  PROVE  RateIsCounted'
  <1>0. Types /\ Ahead /\ StatusTold
    BY DEF IInv
  <1>a. /\ Consecutive \in Nat /\ detector.counters["rate"] \in Nat
        /\ Degraded \in SUBSET Loads /\ Cardinality(Degraded) \in Nat
    BY <1>0, RampAssumption, LoadsFinite
    DEF Types, DetectorRows, Counters, Degraded, MeasuredRounds, Ruled
  <1>1. CASE Measuring \/ SkipDetection
    <2>1. Degraded' = Degraded
      BY <1>0, <1>1, SameRuled, SameDegraded
    <2>2. /\ detector' = detector /\ monitor' = monitor /\ ramp'.detected = ramp.detected
          /\ phase' # "decide" \/ ~Confirmed'
      BY <1>0, <1>1, SameRuled
    <2> QED  BY <2>1, <2>2 DEF RateIsCounted
  <1>2. ASSUME NEW sample \in Samples, Detect(sample) PROVE RateIsCounted'
    <2> DEFINE bad == rounds[level].result.rate # "high"
    <2>1. /\ level \in Loads /\ level' = level /\ monitor' = monitor
          /\ ~ramp.detected /\ ~ramp'.detected
          /\ rounds'[level].result = rounds[level].result
          /\ detector'.detected <=> rounds'[level].ruling = "confirmed"
          /\ detector'.counters["rate"] = Counted(sample)["rate"]
          /\ detector'.detected => monitor.flag \/ RpcBottleneck(Counted(sample))
      BY <1>0, <1>2, DetectFacts DEF StatusTold, Climbing
    <2>2. Counted(sample)["rate"] =
             IF Measured THEN (IF bad THEN detector.counters["rate"] + 1 ELSE 0)
                         ELSE detector.counters["rate"]
      BY DEF Counted, Bump, Unreliable, Counters
    <2>3. Counted(sample)["latency"] \in {0, 1}
      BY DEF Counted, ClearedLatency, Counters
    <2>4. RpcBottleneck(Counted(sample)) => Counted(sample)["rate"] >= Consecutive
      BY <1>a, <2>3 DEF RpcBottleneck, Reached
    <2>5. /\ level \notin Ruled /\ Ruled' = Ruled \cup {level}
          /\ \A l \in Ruled : l < level /\ rounds'[l] = rounds[l]
      BY <1>0, <1>2, NewRuled
    <2>6. Counted(sample)["rate"] <= Cardinality(Degraded')
      <3>1. CASE ~Measured
        <4>1. MeasuredRounds' = MeasuredRounds
          BY <2>1, <2>5, <3>1 DEF MeasuredRounds, Measured
        <4>2. Degraded' = Degraded
          BY <2>5, <4>1 DEF Degraded, MeasuredRounds
        <4> QED  BY <2>2, <3>1, <4>2 DEF RateIsCounted
      <3>2. CASE Measured /\ bad
        <4>1. MeasuredRounds' = MeasuredRounds \cup {level}
          BY <2>1, <2>5, <3>2 DEF MeasuredRounds, Measured
        <4>2. \A l \in MeasuredRounds : /\ l \in Nat /\ l # level /\ ~(l >= level /\ l # level)
                                        /\ level >= l /\ rounds'[l] = rounds[l]
          BY <1>0, <2>1, <2>5, LoadFacts DEF MeasuredRounds, Ruled
        <4>3. rounds'[level].result.rate # "high" /\ level >= level
          BY <1>0, <2>1, <3>2, LoadFacts
        <4>4. Degraded' = Degraded \cup {level}
          BY <4>1, <4>2, <4>3, <2>1 DEF Degraded
        <4>5. level \notin Degraded
          BY <2>5 DEF Degraded, MeasuredRounds
        <4>6. Cardinality(Degraded') = Cardinality(Degraded) + 1
          BY <1>a, <2>1, <4>4, <4>5, OneMore
        <4> QED  BY <1>a, <2>2, <3>2, <4>6 DEF RateIsCounted
      <3>3. CASE Measured /\ ~bad
        <4>1. Degraded' \in SUBSET Loads
          BY DEF Degraded, MeasuredRounds, Ruled, Loads
        <4>2. Cardinality(Degraded') \in Nat
          BY <4>1, LoadsFinite
        <4> QED  BY <2>2, <3>3, <4>2
      <3> QED  BY <3>1, <3>2, <3>3
    <2> HIDE DEF bad
    <2>7. Confirmed' /\ ~monitor'.flag => detector'.counters["rate"] >= Consecutive
      BY <2>1, <2>4 DEF Confirmed
    <2> QED  BY <2>1, <2>6, <2>7 DEF RateIsCounted
  <1>5. CASE GoOn \/ CountBottleneck
    <2>1. /\ rounds' = rounds /\ detector' = detector /\ monitor' = monitor
          /\ phase' \in {"attack", "ending"} /\ ramp'.detected = ramp.detected
      BY <1>0, <1>5, GoOnFacts
    <2>2. Degraded' = Degraded
      BY <2>1 DEF Degraded, MeasuredRounds, Ruled
    <2> QED  BY <2>1, <2>2 DEF RateIsCounted
  <1>6. CASE BlameNode \/ StopRamp
    <2>1. /\ rounds' = rounds /\ detector' = detector /\ monitor' = monitor
          /\ phase = "decide" /\ Confirmed /\ phase' = "ending"
      BY <1>0, <1>6, StopFacts
    <2>2. Degraded' = Degraded
      BY <2>1 DEF Degraded, MeasuredRounds, Ruled
    <2> QED  BY <2>1, <2>2 DEF RateIsCounted
  <1>7. CASE Finish \/ WrapUp
    <2>1. /\ rounds' = rounds /\ detector' = detector /\ monitor' = monitor
          /\ ramp' = ramp /\ phase' # "decide"
      BY <1>7, FinishFacts, WrapUpFacts
    <2>2. Degraded' = Degraded
      BY <2>1 DEF Degraded, MeasuredRounds, Ruled
    <2> QED  BY <2>1, <2>2 DEF RateIsCounted
  <1>8. CASE Monitors \/ UNCHANGED vars
    <2>1. /\ rounds' = rounds /\ detector' = detector /\ level' = level
          /\ ramp' = ramp /\ phase' = phase /\ (monitor.flag => monitor'.flag)
      BY <1>0, <1>8, MonitorFacts DEF vars
    <2>2. Degraded' = Degraded
      BY <2>1 DEF Degraded, MeasuredRounds, Ruled
    <2> QED  BY <2>1, <2>2 DEF RateIsCounted, Confirmed
  <1> QED  BY <1>1, <1>2, <1>5, <1>6, <1>7, <1>8 DEF Next, Executor, Measuring

(* Where more than one consecutive round is asked for, a ladder on a node  *)
(* never seen unhealthy stops only after that many measured rounds in a    *)
(* row, the latest, whose answers kept failing.                            *)
THEOREM HealthyTheorem ==
  ASSUME Consecutive >= 2
  PROVE  Spec => []HealthyStopsAreDegraded
  <1>1. IInv /\ RateIsCounted => HealthyStopsAreDegraded
    <2> SUFFICES ASSUME IInv, RateIsCounted, ramp.detected, ~monitor.flag
                 PROVE  Cardinality(Degraded) >= Consecutive
      BY DEF HealthyStopsAreDegraded, Degraded
    <2>1. /\ detector.counters["rate"] >= Consecutive
          /\ detector.counters["rate"] <= Cardinality(Degraded)
      BY DEF RateIsCounted
    <2>2. /\ detector.counters["rate"] \in Nat /\ Consecutive \in Nat
          /\ Cardinality(Degraded) \in Nat
      BY RampAssumption, LoadsFinite
      DEF IInv, Types, DetectorRows, Counters, Degraded, MeasuredRounds, Ruled
    <2> QED  BY <2>1, <2>2
  <1>2. IInv /\ RateIsCounted /\ [Next]_vars => RateIsCounted'
    BY RateKept
  <1> QED  BY <1>1, <1>2, RateInit, SpecHoldsIInv, PTL DEF Spec
=============================================================================
