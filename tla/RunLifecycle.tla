---------------------------- MODULE RunLifecycle ----------------------------
(***************************************************************************)
(* What the workflow engine promises about one run row, whatever the       *)
(* worker, the HTTP clients and the restarts of the API process do: the    *)
(* life of a run as a status and the set of steps whose result is stored.  *)
(* A result, once stored, is never lost; a run completes only with every   *)
(* result; a cancelled or completed run never changes again.               *)
(* WorkflowEngine implements it (property RefinesLifecycle).               *)
(***************************************************************************)
EXTENDS Integers

CONSTANTS Runs,      \* the requests that may be submitted, one run for each
          NumSteps   \* the number of steps of the workflow definition

VARIABLES status,    \* status[r]: the run's status, "absent" before it exists
          done       \* done[r]: the steps whose result and artifact are stored

vars == <<status, done>>

Steps == 1..NumSteps

Init == /\ status = [r \in Runs |-> "absent"]
        /\ done = [r \in Runs |-> {}]

Move(r, from, to) == /\ status[r] \in from
                     /\ status' = [status EXCEPT ![r] = to]
                     /\ UNCHANGED done

\* A request is accepted: its run is persisted before anything executes.
Submit(r) == Move(r, {"absent"}, "pending")

\* The worker takes the run.
Claim(r) == Move(r, {"pending"}, "running")

\* Steps are completed in the order of the definition, one at a time.
Progress(r) == /\ status[r] = "running"
               /\ \E i \in Steps :
                     /\ done[r] = 1 .. i-1
                     /\ done' = [done EXCEPT ![r] = 1..i]
               /\ UNCHANGED status

Finish(r) == /\ done[r] = Steps
             /\ Move(r, {"running"}, "completed")

Fail(r) == /\ done[r] # Steps
           /\ Move(r, {"running"}, "failed")

Cancel(r) == Move(r, {"pending", "running"}, "cancelled")

\* A manual retry of a failed run, and the recovery of an interrupted one: both
\* keep what is done.
Retry(r) == Move(r, {"failed"}, "pending")
Requeue(r) == Move(r, {"running"}, "pending")

Next == \E r \in Runs :
           \/ Submit(r) \/ Claim(r) \/ Progress(r) \/ Finish(r)
           \/ Fail(r) \/ Cancel(r) \/ Retry(r) \/ Requeue(r)

Spec == Init /\ [][Next]_vars
=============================================================================
