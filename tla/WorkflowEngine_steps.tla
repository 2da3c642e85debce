------------------------ MODULE WorkflowEngine_steps ------------------------
(***************************************************************************)
(* What one step of WorkflowEngine may do to the rows of a run, for every  *)
(* value of its constants: the proofs of its action properties and of the  *)
(* refinement of RunLifecycle.  All of them follow from one lemma, which   *)
(* says that a step writes the rows of at most one run and in which way    *)
(* (StepEffect); it needs the invariant StoreInv.                          *)
(***************************************************************************)
EXTENDS WorkflowEngine_proofs

Frozen(r) == /\ status'[r] = status[r] /\ current'[r] = current[r]
             /\ final'[r] = final[r] /\ stepStatus'[r] = stepStatus[r]
             /\ attempt'[r] = attempt[r] /\ artifacts'[r] = artifacts[r]

SameResults(r) == Completed(r)' = Completed(r)

\* The status changes; the results and the attempts stay.
Moved(r, from, to) == /\ status[r] \in from
                      /\ status'[r] = to
                      /\ SameResults(r)
                      /\ attempt'[r] = attempt[r]

\* A step of the first i is stored, in the order of the definition.
Progressed(r) == /\ status[r] = "running" /\ status'[r] = "running"
                 /\ \E i \in Steps : /\ Completed(r) = 1 .. i-1
                                     /\ Completed(r)' = 1 .. i
                 /\ attempt'[r] = attempt[r]

\* A step is marked, or an attempt of the first step without a result recorded.
Recorded(r) == /\ status[r] = "running" /\ status'[r] = "running"
               /\ SameResults(r)
               /\ \A i \in Steps : attempt'[r][i] # attempt[r][i] =>
                     /\ attempt'[r][i] = attempt[r][i] + 1
                     /\ pc = "attempt" /\ r = cur
                     /\ Completed(r) = 1 .. i-1

\* What execute and failRun do to their run.
Worked(r) ==
    /\ phase = "up"
    /\ \/ Recorded(r)
       \/ Progressed(r)
       \/ Moved(r, {"running"}, "completed") /\ Completed(r) = Steps
       \/ Moved(r, {"running"}, "failed") /\ Completed(r) # Steps

\* What any step does to the run whose rows it writes.
Effect(r) ==
    \/ Worked(r)
    \/ phase = "up" /\ Moved(r, {"absent"}, "pending")
    \/ phase = "up" /\ Moved(r, {"pending"}, "running")
    \/ phase = "up" /\ Moved(r, {"pending", "running"}, "cancelled")
    \/ phase = "up" /\ Moved(r, {"failed"}, "pending")
    \/ phase = "recovering" /\ Moved(r, {"pending", "running"}, "pending")

Others(r) == \A x \in Runs \ {r} : Frozen(x)

\* The rows of the worker's run say how far it is: the steps before the index, no more.
LEMMA CursorIsPrefix ==
    ASSUME EngineAssumption, TypeOK, StoreInv, pc \in OnStep
    PROVE  /\ cur \in Runs /\ idx \in Steps /\ status[cur] \in {"running", "cancelled"}
           /\ Completed(cur) = 1 .. idx-1
<1>1. cur \in Runs /\ idx \in Steps
  BY DEF OnStep, TypeOK, WorkerOK
<1>2. /\ status[cur] \in {"running", "cancelled"}
      /\ 1 .. idx-1 \subseteq Completed(cur) /\ idx \notin Completed(cur)
      /\ PrefixStored(cur)
  BY <1>1 DEF StoreInv, RowInv, HoldsRun, Cursor
<1>3. ASSUME NEW i \in Completed(cur) PROVE i \in 1 .. idx-1
  <2>1. i \in Steps /\ 1..i \subseteq Completed(cur)
    BY <1>2 DEF PrefixStored, Completed
  <2> QED
    BY <1>1, <1>2, <2>1 DEF Steps
<1> QED
  BY <1>1, <1>2, <1>3

\* The stores of execute and failRun.
LEMMA ExecuteEffect ==
    ASSUME EngineAssumption, TypeOK, StoreInv, ~Abandon,
           \/ BeginStep \/ BeginAttempt \/ CompleteStep \/ RecordFailure \/ SkipStep
           \/ FailRun \/ CompleteRun
    PROVE  UNCHANGED dbVars \/ \E r \in Runs : Others(r) /\ Worked(r)
<1> USE DEF StepsLeft
<1>1. PICK r \in Runs : r = cur /\ cur' = r /\ phase = "up"
  BY DEF WorkerGoto, BeginStep, BeginAttempt, CompleteStep, RecordFailure, SkipStep, FailRun,
         CompleteRun, RefusedAt, AllowedAt, TypeOK, WorkerOK, StoreInv, ProcessInv
<1>2. CASE BeginStep
  <2>1. /\ status[r] = "running" /\ UNCHANGED <<status, stepStatus, attempt, artifacts>>
        /\ \A x \in Runs \ {r} : current'[x] = current[x] /\ final'[x] = final[x]
    BY <1>1, <1>2 DEF BeginStep, RefusedAt, AllowedAt, Writable, TypeOK, RunRowsOK,
                      StoreInv, HoldsRun, stepVars
  <2> QED
    BY <1>1, <2>1 DEF Others, Frozen, Worked, Recorded, SameResults, Completed
<1>3. CASE BeginAttempt
  <2>1. /\ pc = "attempt" /\ UNCHANGED <<runVars, artifacts>> /\ Writable(r)
        /\ stepStatus' = [stepStatus EXCEPT ![r][idx] = "running"]
        /\ attempt' = [attempt EXCEPT ![r][idx] = attempt[r][idx] + 1]
    BY <1>1, <1>3 DEF BeginAttempt, RefusedAt, AllowedAt
  <2>2. idx \in Steps /\ status[r] = "running" /\ Completed(r) = 1 .. idx-1
    BY <1>1, <2>1, CursorIsPrefix DEF OnStep, Writable
  <2>3. Others(r)
    BY <1>1, <2>1 DEF Others, Frozen, runVars, TypeOK, StepRowsOK
  <2>4. SameResults(r)
    BY <1>1, <2>1, <2>2, StepRow DEF SameResults, Completed, StepStatuses, Steps
  <2>5. Recorded(r)
    BY <1>1, <2>1, <2>2, <2>4 DEF Recorded, runVars, TypeOK, StepRowsOK
  <2> QED
    BY <1>1, <2>3, <2>5 DEF Worked
<1>4. CASE CompleteStep
  <2>1. /\ pc = "ok" /\ UNCHANGED <<runVars, attempt>> /\ Writable(r)
        /\ stepStatus' = [stepStatus EXCEPT ![r][idx] = "completed"]
        /\ artifacts' = [artifacts EXCEPT ![r][idx] = artifacts[r][idx] + 1]
    BY <1>1, <1>4 DEF CompleteStep, RefusedAt, AllowedAt
  <2>2. idx \in Steps /\ status[r] = "running" /\ Completed(r) = 1 .. idx-1
    BY <1>1, <2>1, CursorIsPrefix DEF OnStep, Writable
  <2>3. Others(r)
    BY <1>1, <2>1 DEF Others, Frozen, runVars, TypeOK, StepRowsOK
  <2>4. Completed(r)' = Completed(r) \union {idx}
    <3>1. /\ stepStatus'[r][idx] = "completed"
          /\ \A j \in Steps \ {idx} : stepStatus'[r][j] = stepStatus[r][j]
      BY <1>1, <2>1, <2>2 DEF TypeOK, StepRowsOK
    <3> QED
      BY <2>2, <3>1 DEF Completed
  <2>5. Completed(r)' = 1..idx
    BY <2>2, <2>4 DEF Steps
  <2>6. Progressed(r)
    BY <1>1, <2>1, <2>2, <2>5 DEF Progressed, runVars
  <2> QED
    BY <1>1, <2>3, <2>6 DEF Worked
<1>5. CASE RecordFailure
  <2>1. /\ pc = "err" /\ UNCHANGED <<runVars, attempt, artifacts>> /\ Writable(r)
        /\ stepStatus' = [stepStatus EXCEPT ![r][idx] = "failed"]
    BY <1>1, <1>5 DEF RecordFailure, RefusedAt, AllowedAt
  <2>2. idx \in Steps /\ status[r] = "running" /\ Completed(r) = 1 .. idx-1
    BY <1>1, <2>1, CursorIsPrefix DEF OnStep, Writable
  <2>3. Others(r)
    BY <1>1, <2>1 DEF Others, Frozen, runVars, TypeOK, StepRowsOK
  <2>4. SameResults(r)
    BY <1>1, <2>1, <2>2, StepRow DEF SameResults, Completed, StepStatuses, Steps
  <2> QED
    BY <1>1, <2>1, <2>2, <2>3, <2>4 DEF Worked, Recorded, runVars
<1>6. CASE SkipStep
  <2>1. /\ pc = "skip" /\ idx \in Steps /\ UNCHANGED <<runVars, attempt, artifacts>>
        /\ \/ /\ Writable(r)
              /\ stepStatus' = [stepStatus EXCEPT ![r][idx] = "skipped"]
           \/ UNCHANGED stepStatus
    BY <1>1, <1>6 DEF SkipStep, TypeOK, WorkerOK, Steps, EngineAssumption
  <2>2. CASE UNCHANGED stepStatus
    BY <2>1, <2>2 DEF dbVars, stepVars
  <2>3. CASE Writable(r) /\ stepStatus' = [stepStatus EXCEPT ![r][idx] = "skipped"]
    <3>1. status[r] = "running" /\ idx \notin Completed(r)
      BY <1>1, <2>1, <2>3 DEF Writable, StoreInv, HoldsRun, RowInv, PrefixStored, Cursor, Steps
    <3>2. Others(r)
      BY <1>1, <2>1, <2>3 DEF Others, Frozen, runVars, TypeOK, StepRowsOK
    <3>3. SameResults(r)
      BY <1>1, <2>1, <2>3, <3>1, StepRow DEF SameResults, Completed, StepStatuses
    <3> QED
      BY <1>1, <2>1, <3>1, <3>2, <3>3 DEF Worked, Recorded, runVars
  <2> QED
    BY <2>1, <2>2, <2>3
<1>7. CASE FailRun
  <2>1. /\ pc = "skip" /\ Writable(r) /\ UNCHANGED <<current, stepVars>>
        /\ status' = [status EXCEPT ![r] = "failed"]
        /\ final' = [final EXCEPT ![r] = fin]
    BY <1>1, <1>7 DEF FailRun
  <2>2. status[r] = "running" /\ Completed(r) # Steps
    BY <1>1, <2>1 DEF Writable, StoreInv, HoldsRun, Cursor
  <2>3. Others(r)
    BY <1>1, <2>1 DEF Others, Frozen, stepVars, TypeOK, RunRowsOK
  <2>4. Moved(r, {"running"}, "failed")
    BY <1>1, <2>1, <2>2 DEF Moved, SameResults, Completed, stepVars, TypeOK, RunRowsOK
  <2> QED
    BY <1>1, <2>2, <2>3, <2>4 DEF Worked
<1>8. CASE CompleteRun
  <2>1. /\ pc = "step" /\ idx = NumSteps + 1 /\ Writable(r) /\ UNCHANGED stepVars
        /\ status' = [status EXCEPT ![r] = "completed"]
        /\ current' = [current EXCEPT ![r] = 0]
        /\ final' = [final EXCEPT ![r] = fin]
    BY <1>1, <1>8 DEF CompleteRun, RefusedAt, AllowedAt, TypeOK, WorkerOK, EngineAssumption
  <2>2. status[r] = "running" /\ Completed(r) = Steps
    BY <1>1, <2>1 DEF Writable, StoreInv, HoldsRun, Cursor, Completed, Steps, EngineAssumption
  <2>3. Others(r)
    BY <1>1, <2>1 DEF Others, Frozen, stepVars, TypeOK, RunRowsOK
  <2>4. Moved(r, {"running"}, "completed")
    BY <1>1, <2>1, <2>2 DEF Moved, SameResults, Completed, stepVars, TypeOK, RunRowsOK
  <2> QED
    BY <1>1, <2>2, <2>3, <2>4 DEF Worked
<1> QED
  BY <1>2, <1>3, <1>4, <1>5, <1>6, <1>7, <1>8

\* A requeued run keeps its results and attempts.
LEMMA RequeueEffect ==
    ASSUME TypeOK, NEW r \in Runs, RequeueRun(r)
    PROVE  /\ Others(r)
           /\ status'[r] = "pending" /\ SameResults(r) /\ attempt'[r] = attempt[r]
<1>1. /\ status'[r] = "pending" /\ attempt' = attempt
      /\ \A i \in Steps : stepStatus'[r][i] = KeptStatus(stepStatus[r][i])
  BY DEF TypeOK, RunRowsOK, StepRowsOK, RequeueRun
<1>2. SameResults(r)
  BY <1>1 DEF SameResults, Completed, KeptStatus
<1>3. Others(r)
  BY DEF TypeOK, RunRowsOK, StepRowsOK, RequeueRun, Others, Frozen
<1> QED
  BY <1>1, <1>2, <1>3

\* Every step writes the rows of one run at most, in one of the ways of Effect.
LEMMA StepEffect ==
    ASSUME EngineAssumption, TypeOK, StoreInv, Next
    PROVE  UNCHANGED dbVars \/ \E r \in Runs : Others(r) /\ Effect(r)
<1>1. CASE Worker \/ Faults
  <2>1. CASE Abandon
    BY <2>1 DEF Abandon
  <2>2. CASE ClaimNextPendingRun
    <3>1. PICK r \in Oldest(Pending) : status' = [status EXCEPT ![r] = "running"]
      BY <2>2 DEF ClaimNextPendingRun
    <3>2. /\ r \in Runs /\ status[r] = "pending" /\ phase = "up"
          /\ UNCHANGED <<current, final, stepStatus, attempt, artifacts>>
      BY <2>2, <3>1 DEF ClaimNextPendingRun, Oldest, Pending, StoreInv, ProcessInv, stepVars
    <3>3. Others(r) /\ Moved(r, {"pending"}, "running")
      BY <3>1, <3>2 DEF Others, Frozen, Moved, SameResults, Completed, TypeOK, RunRowsOK
    <3> QED
      BY <3>2, <3>3 DEF Effect
  <2>3. CASE \/ BeginStep \/ BeginAttempt \/ CompleteStep \/ RecordFailure \/ SkipStep
             \/ FailRun \/ CompleteRun
    BY <2>1, <2>3, ExecuteEffect DEF Effect
  <2>4. CASE \/ WakeUp \/ WorkerExit \/ NothingToClaim \/ ClaimInterrupted \/ Publish
             \/ Reload \/ Release \/ SkipCompleted \/ MapInput \/ Execute \/ Backoff \/ Faults
    BY <2>4 DEF WakeUp, WorkerExit, NothingToClaim, ClaimInterrupted, ClaimLost, Publish,
                Reload, Release, SkipCompleted, MapInput, Execute, Backoff, EnterFailRun,
                Abandon, Faults, ClaimFails, StoreFails, SkipFails, Expire
  <2> QED
    BY <1>1, <2>2, <2>3, <2>4 DEF Worker
<1>2. CASE Process
  <2>1. ASSUME NEW r \in Runs, Recover(r) PROVE Others(r) /\ Effect(r)
    <3>1. phase = "recovering" /\ status[r] \in {"pending", "running"} /\ RequeueRun(r)
      BY <2>1 DEF Recover, Oldest, StoreInv, ProcessInv, Interrupted
    <3> QED
      BY <3>1, RequeueEffect DEF Effect, Moved
  <2>2. CASE StartWorker \/ Serve \/ Terminate \/ Exit \/ Crash
    BY <2>2 DEF StartWorker, Serve, Terminate, Exit, Crash, LoseMemory
  <2> QED
    BY <1>2, <2>1, <2>2 DEF Process, Boot
<1>3. ASSUME NEW c \in Clients, Handler(c)
      PROVE  UNCHANGED dbVars \/ \E r \in Runs : Others(r) /\ Effect(r)
  <2>1. phase = "up"
    BY <1>3 DEF Handler, Start, Retry, CancelRun, Call, CreateRun, ResetRunForRetry, GiveUp,
                Signal, NotifyWorker, StoreInv, ProcessInv
  <2>2. CASE CreateRun(c) /\ ~UNCHANGED dbVars
    <3>1. PICK r \in Runs : /\ status[r] = "absent"
                            /\ status' = [status EXCEPT ![r] = "pending"]
                            /\ UNCHANGED <<current, final, stepStatus, attempt, artifacts>>
      BY <2>2 DEF CreateRun, TypeOK, HandlersOK, dbVars, runVars, stepVars
    <3>2. Others(r) /\ Moved(r, {"absent"}, "pending")
      BY <3>1 DEF Others, Frozen, Moved, SameResults, Completed, TypeOK, RunRowsOK
    <3> QED
      BY <2>1, <3>2 DEF Effect
  <2>3. CASE ResetRunForRetry(c)
    <3>1. PICK r \in Runs : status[r] = "failed" /\ RequeueRun(r)
      BY <2>3 DEF ResetRunForRetry, Retryable, TypeOK, HandlersOK
    <3> QED
      BY <2>1, <3>1, RequeueEffect DEF Effect, Moved
  <2>4. ASSUME NEW r \in Runs, CancelRun(c, r) PROVE Others(r) /\ Effect(r)
    <3>1. /\ status[r] \in {"pending", "running"} /\ status'[r] = "cancelled"
          /\ attempt' = attempt
          /\ \A i \in Steps : stepStatus'[r][i] = CancelledStep(stepStatus[r][i])
      BY <2>4 DEF CancelRun, Cancellable, TypeOK, RunRowsOK, StepRowsOK
    <3>2. Moved(r, {"pending", "running"}, "cancelled")
      BY <3>1 DEF Moved, SameResults, Completed, CancelledStep
    <3>3. Others(r)
      BY <2>4 DEF CancelRun, Others, Frozen, TypeOK, RunRowsOK, StepRowsOK
    <3> QED
      BY <2>1, <3>2, <3>3 DEF Effect
  <2>5. ASSUME NEW r \in Runs, Start(c, r) \/ Retry(c, r) PROVE UNCHANGED dbVars
    BY <2>5 DEF Start, Retry
  <2>6. CASE GiveUp(c) \/ Signal(c) \/ NotifyWorker(c)
    BY <2>6 DEF GiveUp, Signal, NotifyWorker
  <2> QED
    BY <1>3, <2>2, <2>3, <2>4, <2>5, <2>6 DEF Handler
<1> QED
  BY <1>1, <1>2, <1>3 DEF Next

-----------------------------------------------------------------------------
(* The action properties.                                                  *)

\* What every step of a behaviour does, with the invariants it starts from.
LEMMA StepOfRow ==
    ASSUME TypeOK, StoreInv, [Next]_vars, NEW r \in Runs
    PROVE  Frozen(r) \/ Effect(r)
<1>1. CASE UNCHANGED dbVars
  BY <1>1 DEF Frozen, dbVars, runVars, stepVars
<1>2. CASE UNCHANGED vars
  BY <1>1, <1>2 DEF vars
<1>3. CASE Next /\ ~UNCHANGED dbVars
  <2>1. PICK x \in Runs : Others(x) /\ Effect(x)
    BY <1>3, StepEffect, EngineAssumption
  <2>2. CASE r = x
    BY <2>1, <2>2
  <2>3. CASE r # x
    BY <2>1, <2>3 DEF Others
  <2> QED
    BY <2>2, <2>3
<1> QED
  BY <1>1, <1>2, <1>3

\* No step touches a cancelled or completed run, its steps or its artifacts: whatever a
\* late worker, a retry or a recovery does.
THEOREM FrozenTheorem == Spec => TerminalIsFrozen
<1>1. TypeOK /\ StoreInv /\ [Next]_vars =>
         [\A r \in Runs : status[r] \in {"cancelled", "completed"} =>
             /\ status'[r] = status[r] /\ current'[r] = current[r] /\ final'[r] = final[r]
             /\ stepStatus'[r] = stepStatus[r] /\ attempt'[r] = attempt[r]
             /\ artifacts'[r] = artifacts[r]]_vars
  BY StepOfRow DEF Frozen, Effect, Worked, Moved, Recorded, Progressed
<1> QED
  BY <1>1, TypeCorrect, StoreConsistent, PTL DEF Spec, TerminalIsFrozen

\* While the process serves, a run's status changes only as CanTransitionTo says.
THEOREM TableTheorem == Spec => ServingFollowsTable
<1>1. TypeOK /\ StoreInv /\ [Next]_vars =>
         [phase = "up" => \A r \in Runs : Transition(r)]_vars
  BY StepOfRow DEF Frozen, Effect, Worked, Moved, Recorded, Progressed, Transition,
                   CanTransitionTo
<1> QED
  BY <1>1, TypeCorrect, StoreConsistent, PTL DEF Spec, ServingFollowsTable

-----------------------------------------------------------------------------
(* The refinement of RunLifecycle, with done mapped to the completed steps. *)

Done == [r \in Runs |-> Completed(r)]

\* A step that changes the results of one run at most changes "done" there only.
LEMMA DoneOf ==
    ASSUME NEW r \in Runs, Others(r)
    PROVE  Done' = [Done EXCEPT ![r] = Completed(r)']
<1>1. \A x \in Runs \ {r} : Completed(x)' = Completed(x)
  BY DEF Others, Frozen, Completed
<1> QED
  BY <1>1 DEF Done

\* A change of one run's status is a change of the table at this run.
LEMMA StatusOf ==
    ASSUME TypeOK, TypeOK', NEW r \in Runs, Others(r)
    PROVE  /\ status' = [status EXCEPT ![r] = status'[r]]
           /\ status'[r] = status[r] => status' = status
<1>1. /\ status \in [Runs -> RunStatuses] /\ status' \in [Runs -> RunStatuses]
      /\ \A x \in Runs \ {r} : status'[x] = status[x]
  BY DEF TypeOK, RunRowsOK, Others, Frozen
<1> QED
  BY <1>1

\* A step that moves a run and keeps its results is a step of the abstract life.
LEMMA AbstractMove ==
    ASSUME TypeOK, TypeOK', NEW r \in Runs, Others(r), NEW from, NEW to, Moved(r, from, to)
    PROVE  Lifecycle!Move(r, from, to)
<1>1. Done' = Done
  BY DoneOf DEF Done, Moved, SameResults
<1> QED
  BY <1>1, StatusOf DEF Lifecycle!Move, Moved, Done

\* Every step of the engine is a step of RunLifecycle or leaves the run's life alone.
LEMMA AbstractStep ==
    ASSUME TypeOK, TypeOK', StoreInv, [Next]_vars
    PROVE  [Lifecycle!Next]_(Lifecycle!vars)
<1>1. CASE UNCHANGED dbVars \/ UNCHANGED vars
  <2>1. status' = status /\ Done' = Done
    BY <1>1 DEF vars, dbVars, runVars, stepVars, Done, Completed
  <2> QED
    BY <2>1 DEF Lifecycle!vars, Done
<1>2. ASSUME NEW r \in Runs, Others(r), Effect(r)
      PROVE  [Lifecycle!Next]_(Lifecycle!vars)
  <2>1. CASE Recorded(r) \/ Moved(r, {"pending"}, "pending")
    <3>1. status' = status /\ Done' = Done
      <4>1. status'[r] = status[r] /\ Completed(r)' = Completed(r)
        BY <2>1 DEF Recorded, Moved, SameResults
      <4>2. status' = status
        BY <1>2, <4>1, StatusOf
      <4>3. Done' = Done
        BY <1>2, <4>1, DoneOf DEF Done
      <4> QED
        BY <4>2, <4>3
    <3> QED
      BY <3>1 DEF Lifecycle!vars, Done
  <2>2. CASE Progressed(r)
    <3>1. status' = status
      BY <1>2, <2>2, StatusOf DEF Progressed
    <3>2. PICK i \in Steps : Completed(r) = 1 .. i-1 /\ Completed(r)' = 1..i
      BY <2>2 DEF Progressed
    <3>3. Done[r] = 1 .. i-1 /\ Done' = [Done EXCEPT ![r] = 1..i]
      BY <1>2, <3>2, DoneOf DEF Done
    <3>4. Lifecycle!Progress(r)
      BY <2>2, <3>1, <3>3 DEF Lifecycle!Progress, Lifecycle!Steps, Steps, Progressed, Done
    <3> QED
      BY <3>4 DEF Lifecycle!Next
  <2>3. CASE Moved(r, {"running"}, "completed") /\ Completed(r) = Steps
    <3>1. Lifecycle!Finish(r)
      BY <1>2, <2>3, AbstractMove DEF Lifecycle!Finish, Lifecycle!Steps, Steps
    <3> QED
      BY <3>1 DEF Lifecycle!Next
  <2>4. CASE Moved(r, {"running"}, "failed") /\ Completed(r) # Steps
    <3>1. Lifecycle!Fail(r)
      BY <1>2, <2>4, AbstractMove DEF Lifecycle!Fail, Lifecycle!Steps, Steps
    <3> QED
      BY <3>1 DEF Lifecycle!Next
  <2>5. CASE \/ Moved(r, {"absent"}, "pending") \/ Moved(r, {"pending"}, "running")
             \/ Moved(r, {"pending", "running"}, "cancelled") \/ Moved(r, {"failed"}, "pending")
             \/ Moved(r, {"running"}, "pending")
    <3>1. \/ Lifecycle!Submit(r) \/ Lifecycle!Claim(r) \/ Lifecycle!Cancel(r)
          \/ Lifecycle!Retry(r) \/ Lifecycle!Requeue(r)
      BY <1>2, <2>5, AbstractMove DEF Lifecycle!Submit, Lifecycle!Claim, Lifecycle!Cancel,
                                      Lifecycle!Retry, Lifecycle!Requeue
    <3> QED
      BY <3>1 DEF Lifecycle!Next
  <2>6. Moved(r, {"pending", "running"}, "pending") =>
           Moved(r, {"pending"}, "pending") \/ Moved(r, {"running"}, "pending")
    BY DEF Moved
  <2> QED
    BY <1>2, <2>1, <2>2, <2>3, <2>4, <2>5, <2>6 DEF Effect, Worked
<1>3. CASE Next /\ ~UNCHANGED dbVars
  BY <1>2, <1>3, StepEffect, EngineAssumption
<1> QED
  BY <1>1, <1>3

\* The engine implements RunLifecycle: for any number of runs, handlers and steps, over
\* stops, crashes, retries and failing store calls, the life of every run is one that
\* the abstract specification allows.
THEOREM RefinementTheorem == Spec => RefinesLifecycle
<1>1. Init => Lifecycle!Init
  BY DEF Init, Lifecycle!Init, Completed
<1>2. TypeOK /\ TypeOK' /\ StoreInv /\ [Next]_vars => [Lifecycle!Next]_(Lifecycle!vars)
  BY AbstractStep
<1> QED
  BY <1>1, <1>2, TypeCorrect, StoreConsistent, PTL DEF Spec, RefinesLifecycle, Lifecycle!Spec

=============================================================================
