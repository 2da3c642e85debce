-------------------------- MODULE MCWorkflowEngine --------------------------
(***************************************************************************)
(* Instances of WorkflowEngine for TLC: the retry policies and the budgets *)
(* of disturbances its runs choose from.                                   *)
(***************************************************************************)
EXTENDS WorkflowEngine, TLC

\* Two steps: one that may be tried twice, one that may be tried once.
TwiceThenOnce == <<2, 1>>

\* A single step, tried once.
OnceOnly == <<1>>

Budget(stops, retries, timeouts, faults) ==
    [d \in Disturbances |-> CASE d = "stop"    -> stops
                              [] d = "retry"   -> retries
                              [] d = "timeout" -> timeouts
                              [] d = "fault"   -> faults]

StopAndRetry == Budget(1, 1, 0, 0)
StopTimeoutFault == Budget(1, 0, 1, 1)
OneOfEach == Budget(1, 1, 1, 1)

\* Runs differ by their created_at only and clients not at all.
Symmetry == Permutations(Runs) \union Permutations(Clients)
=============================================================================
