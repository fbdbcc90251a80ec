------------------------------ MODULE MCQpsRamp -----------------------------
EXTENDS QpsRamp

\* A good, a bad and a useless round (a failed attack comes on top).
ThreeOutcomes == {[rate |-> "high", latency |-> "ok"],
                  [rate |-> "low", latency |-> "ok"],
                  [rate |-> "none", latency |-> "slow"]}

\* What a threshold of the success rate must tell apart.
RateOutcomes == {[rate |-> "high", latency |-> "ok"],
                 [rate |-> "low", latency |-> "ok"]}

\* Rounds that are only slow.
SlowOutcomes == {[rate |-> "high", latency |-> "ok"],
                 [rate |-> "high", latency |-> "slow"]}

\* A quiet machine, and one at its limits whose node does not answer.
TwoSamples == {{}, {"cpu", "disk", "connection"}}
=============================================================================
