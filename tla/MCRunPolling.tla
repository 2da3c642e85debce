---------------------------- MODULE MCRunPolling ----------------------------
(***************************************************************************)
(* Instances of RunPolling for TLC: those of MCWorkflowEngine, with a      *)
(* dashboard.                                                              *)
(***************************************************************************)
EXTENDS RunPolling, TLC

TwoSteps == <<1, 1>>

StopAndRetry == [d \in Disturbances |-> IF d \in {"stop", "retry"} THEN 1 ELSE 0]
=============================================================================
