--------------------------- MODULE MCSlackIngest ---------------------------
(***************************************************************************)
(* Instances of SlackIngest for TLC: the texts of the messages and the     *)
(* budgets of disturbances.                                                *)
(***************************************************************************)
EXTENDS SlackIngest, TLC

CONSTANTS p, q   \* the parent and a reply

\* The parent is edited once, the reply never.
EditedParent == [m \in Messages |-> IF m = p THEN 2 ELSE 1]

\* No message is edited.
Unedited == [m \in Messages |-> 1]

Budget(crashes, faults, slow, manual, empty) ==
    [d \in Disturbances |-> CASE d = "crash"  -> crashes
                              [] d = "fault"  -> faults
                              [] d = "slow"   -> slow
                              [] d = "manual" -> manual
                              [] d = "empty"  -> empty]

Unfailing     == Budget(0, 0, 0, 0, 3)
FaultOnly     == Budget(0, 1, 0, 0, 0)
CrashAndFault == Budget(1, 1, 0, 0, 4)
Failures      == Budget(1, 1, 1, 1, 0)

Symmetry == Permutations(Handlers)
=============================================================================
