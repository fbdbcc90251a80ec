--------------------------- MODULE MCBenchmarkJobs --------------------------
(* A small instance of BenchmarkJobs for TLC.                              *)
EXTENDS BenchmarkJobs, TLC

CONSTANTS b1, b2, p1, p2

MCBases == {b1, b2}
MCPlans == {p1, p2}

(* A smoke and its final benchmark in one conversation, and another plan's *)
(* smoke on the fake node, which is only simulated.                        *)
MCRequests ==
    {[base |-> b1, plan |-> p1, kind |-> "real_node_smoke", mode |-> "detached"],
     [base |-> b1, plan |-> p1, kind |-> "final_benchmark", mode |-> "foreground"],
     [base |-> b2, plan |-> p2, kind |-> "fake_node_smoke", mode |-> "mock"]}
=============================================================================
