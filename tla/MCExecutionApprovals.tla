------------------------ MODULE MCExecutionApprovals -----------------------
(* A small instance of ExecutionApprovals for TLC.                         *)
EXTENDS ExecutionApprovals
=============================================================================
