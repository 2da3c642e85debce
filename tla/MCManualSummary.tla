-------------------------- MODULE MCManualSummary --------------------------
(***************************************************************************)
(* The instance of ManualSummary for TLC: the definitions main registers,  *)
(* and two others, so that a selection can name a workflow that is         *)
(* disabled or that the executor does not serve.                           *)
(***************************************************************************)
EXTENDS ManualSummary

CONSTANTS m1, m2   \* models

WithOthers ==
    {[id |-> "manual-summary", version |-> 1, enabled |-> TRUE],
     [id |-> "triage", version |-> 1, enabled |-> TRUE],
     [id |-> "digest", version |-> 1, enabled |-> FALSE]}
=============================================================================
