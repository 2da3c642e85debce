---------------------------- MODULE MCThreadSync ----------------------------
(***************************************************************************)
(* Instances of ThreadSync for TLC: which messages carry which files.      *)
(***************************************************************************)
EXTENDS ThreadSync

CONSTANTS doc, img   \* files

\* The last reply has a file of its own, the parent and the other reply may carry the
\* same one.
SharedWithParent == [f \in Files |-> IF f = doc THEN {3} ELSE {1, 2}]
=============================================================================
