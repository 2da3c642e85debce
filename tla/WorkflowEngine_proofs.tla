------------------------ MODULE WorkflowEngine_proofs -----------------------
(***************************************************************************)
(* Theorems about WorkflowEngine, for every number of runs, handlers and   *)
(* steps, every retry policy and every budget of disturbances.             *)
(***************************************************************************)
EXTENDS WorkflowEngine, TLAPS

(***************************************************************************)
(* Type correctness.  The invariant has one part for each group of         *)
(* variables; a step is checked against the parts it can disturb.          *)
(***************************************************************************)

\* A part of the type invariant survives a step that leaves its variables alone.
LEMMA Frames ==
    /\ RunRowsOK /\ UNCHANGED runVars => RunRowsOK'
    /\ StepRowsOK /\ UNCHANGED stepVars => StepRowsOK'
    /\ ProcessOK /\ UNCHANGED processVars => ProcessOK'
    /\ ControlOK /\ UNCHANGED controlVars => ControlOK'
    /\ WorkerOK /\ UNCHANGED <<pc, localVars>> => WorkerOK'
    /\ HandlersOK /\ UNCHANGED clientVars => HandlersOK'
    /\ BoundsOK /\ UNCHANGED boundVars => BoundsOK'
  BY DEF RunRowsOK, StepRowsOK, ProcessOK, ControlOK, WorkerOK, HandlersOK, BoundsOK,
         runVars, stepVars, processVars, controlVars, localVars, clientVars, boundVars

\* A disturbance is counted within the domain of "spent".
LEMMA Spending ==
    ASSUME BoundsOK, NEW d \in Disturbances, Spend(d), UNCHANGED now
    PROVE  BoundsOK'
  BY DEF BoundsOK, Spend

\* Init establishes every part.
LEMMA InitType == EngineAssumption /\ Init => TypeOK
<1> SUFFICES ASSUME EngineAssumption, Init PROVE TypeOK
  OBVIOUS
<1>1. RunRowsOK
  BY DEF EngineAssumption, Init, RunRowsOK, RunStatuses
<1>2. StepRowsOK
  BY DEF Init, StepRowsOK, StepStatuses
<1>3. ProcessOK
  BY DEF Init, ProcessOK
<1>4. ControlOK
  BY DEF Init, ControlOK
<1>5. WorkerOK
  BY DEF EngineAssumption, Init, WorkerOK, WorkerPcs
<1>6. HandlersOK
  BY DEF EngineAssumption, Init, HandlersOK, ClientPcs
<1>7. BoundsOK
  BY DEF EngineAssumption, Init, BoundsOK
<1> QED
  BY <1>1, <1>2, <1>3, <1>4, <1>5, <1>6, <1>7 DEF TypeOK

\* A step of execute or failRun leaves the process, the control and the handlers alone
\* and stays with its run.
LEMMA Executing ==
    ASSUME TypeOK, NEW label, WorkerGoto(label)
    PROVE  /\ ProcessOK' /\ ControlOK' /\ HandlersOK'
           /\ pc' = label /\ cur' = cur /\ now' = now
<1>1. /\ UNCHANGED processVars /\ UNCHANGED controlVars /\ UNCHANGED clientVars
      /\ pc' = label /\ cur' = cur /\ now' = now
  BY DEF WorkerGoto, WorkerFrame, processVars
<1> QED
  BY <1>1, Frames DEF TypeOK

\* Giving up an execution is type correct wherever the worker holds a run.
LEMMA AbandonType ==
    ASSUME TypeOK, Abandon, pc \notin {"off", "idle", "claim"}
    PROVE  TypeOK'
<1>1. /\ ProcessOK' /\ ControlOK' /\ HandlersOK'
      /\ pc' = "release" /\ cur' = cur /\ now' = now
  BY Executing DEF Abandon
<1>2. RunRowsOK' /\ StepRowsOK' /\ BoundsOK'
  BY <1>1, Frames DEF TypeOK, Abandon, dbVars, boundVars
<1>3. WorkerOK'
  BY <1>1 DEF TypeOK, Abandon, WorkerOK, WorkerPcs
<1> QED
  BY <1>1, <1>2, <1>3 DEF TypeOK

\* The requeuing transaction writes rows of the right type.
LEMMA RequeueType ==
    ASSUME EngineAssumption, RunRowsOK, StepRowsOK, NEW r \in Runs, RequeueRun(r)
    PROVE  RunRowsOK' /\ StepRowsOK'
<1>1. RunRowsOK'
  BY DEF EngineAssumption, RunRowsOK, RequeueRun, RunStatuses
<1>2. stepStatus' \in [Runs -> [Steps -> StepStatuses]]
  <2>1. \A i \in Steps : KeptStatus(stepStatus[r][i]) \in StepStatuses
    BY DEF KeptStatus, StepStatuses
  <2> QED
    BY <2>1 DEF StepRowsOK, RequeueRun
<1>3. artifacts' \in [Runs -> [Steps -> Nat]]
  BY DEF StepRowsOK, RequeueRun
<1>4. attempt' \in [Runs -> [Steps -> Nat]]
  BY DEF StepRowsOK, RequeueRun
<1> QED
  BY <1>1, <1>2, <1>3, <1>4 DEF StepRowsOK

\* Writing one cell of a step table keeps the table's type.
LEMMA CellWrite ==
    ASSUME NEW S, NEW f \in [Runs -> [Steps -> S]], NEW r \in Runs, NEW i \in Steps, NEW v \in S
    PROVE  [f EXCEPT ![r][i] = v] \in [Runs -> [Steps -> S]]
  OBVIOUS

\* Every step of the worker's loop preserves the type invariant.
LEMMA LoopType ==
    ASSUME EngineAssumption, TypeOK,
           \/ WakeUp \/ WorkerExit \/ ClaimNextPendingRun \/ NothingToClaim
           \/ ClaimInterrupted \/ ClaimFails \/ Publish \/ Reload \/ Release
    PROVE  TypeOK'
<1> USE Frames DEF TypeOK, WorkerFrame, dbVars, processVars, localVars, boundVars
<1>1. CASE WakeUp
  BY <1>1 DEF WakeUp, ProcessOK, WorkerOK, WorkerPcs
<1>2. CASE WorkerExit
  BY <1>2 DEF WorkerExit, ProcessOK, ControlOK, WorkerOK, WorkerPcs
<1>3. CASE ClaimNextPendingRun
  <2>1. PICK r \in Oldest(Pending) : /\ status' = [status EXCEPT ![r] = "running"]
                                     /\ cur' = r
    BY <1>3 DEF ClaimNextPendingRun
  <2>2. r \in Runs
    BY <2>1 DEF Oldest, Pending
  <2>3. RunRowsOK'
    BY <1>3, <2>1, <2>2 DEF ClaimNextPendingRun, RunRowsOK, RunStatuses
  <2>4. WorkerOK'
    BY <1>3, <2>1, <2>2 DEF ClaimNextPendingRun, WorkerOK, WorkerPcs
  <2> QED
    BY <1>3, <2>3, <2>4 DEF ClaimNextPendingRun
<1>4. CASE NothingToClaim
  BY <1>4 DEF NothingToClaim, WorkerOK, WorkerPcs
<1>5. CASE ClaimInterrupted
  BY <1>5 DEF ClaimInterrupted, ClaimLost, WorkerOK, WorkerPcs
<1>6. CASE ClaimFails
  BY <1>6, Spending DEF ClaimFails, ClaimLost, ProcessOK, WorkerOK, WorkerPcs, Disturbances
<1>7. CASE Publish
  BY <1>7 DEF Publish, ControlOK, WorkerOK, WorkerPcs
<1>8. CASE Reload
  <2>1. CASE Abandon
    BY <1>8, <2>1, AbandonType DEF Reload
  <2>2. CASE ~Abandon
    <3>1. /\ WorkerGoto("step") /\ idx' = 1 /\ fin' = final[cur]
          /\ UNCHANGED <<dbVars, tries, spent>>
          /\ pc = "reload"
      BY <1>8, <2>2 DEF Reload
    <3>2. WorkerOK'
      BY <3>1, Executing DEF WorkerOK, WorkerPcs, RunRowsOK, EngineAssumption
    <3> QED
      BY <3>1, <3>2, Executing
  <2> QED
    BY <2>1, <2>2
<1>9. CASE Release
  <2>1. WorkerOK'
    BY <1>9 DEF Release, WorkerOK, WorkerPcs, EngineAssumption
  <2>2. ControlOK'
    BY <1>9 DEF Release, ControlOK
  <2> QED
    BY <1>9, <2>1, <2>2 DEF Release
<1> QED
  BY <1>1, <1>2, <1>3, <1>4, <1>5, <1>6, <1>7, <1>8, <1>9

\* Every step of execute and failRun preserves the type invariant.
LEMMA ExecuteType ==
    ASSUME EngineAssumption, TypeOK,
           \/ SkipCompleted \/ BeginStep \/ MapInput \/ BeginAttempt \/ Execute
           \/ CompleteStep \/ RecordFailure \/ Backoff \/ SkipStep \/ FailRun
           \/ CompleteRun \/ StoreFails \/ SkipFails \/ Expire
    PROVE  TypeOK'
<1> USE DEF StepsLeft, FirstSkipped
<1>1. CASE Abandon /\ pc \notin {"off", "idle", "claim"}
  BY <1>1, AbandonType
<1>2. CASE SkipCompleted
  <2>1. WorkerOK'
    BY <1>2, Executing DEF SkipCompleted, CarriedArtifact, TypeOK, WorkerOK, WorkerPcs, EngineAssumption
  <2> QED
    BY <1>2, <2>1, Executing, Frames DEF SkipCompleted, TypeOK, dbVars, boundVars
<1>3. CASE BeginStep /\ ~Abandon
  <2>1. RunRowsOK'
    BY <1>3 DEF BeginStep, RefusedAt, TypeOK, RunRowsOK, WorkerOK, EngineAssumption
  <2>2. WorkerOK'
    BY <1>3, Executing DEF BeginStep, RefusedAt, TypeOK, WorkerOK, WorkerPcs, EngineAssumption, Steps
  <2> QED
    BY <1>3, <2>1, <2>2, Executing, Frames DEF BeginStep, RefusedAt, TypeOK, boundVars
<1>4. CASE MapInput /\ ~Abandon
  <2>1. WorkerOK'
    BY <1>4, Executing DEF MapInput, EnterFailRun, TypeOK, WorkerOK, WorkerPcs, Steps, EngineAssumption
  <2> QED
    BY <1>4, <2>1, Executing, Frames DEF MapInput, EnterFailRun, TypeOK, dbVars, boundVars
<1>5. CASE BeginAttempt /\ ~Abandon
  <2>1. StepRowsOK'
    <3>1. /\ cur \in Runs /\ idx \in Steps
          /\ stepStatus' = [stepStatus EXCEPT ![cur][idx] = "running"]
          /\ attempt' = [attempt EXCEPT ![cur][idx] = attempt[cur][idx] + 1]
          /\ artifacts' = artifacts
      BY <1>5 DEF BeginAttempt, RefusedAt, AllowedAt, TypeOK, WorkerOK
    <3>2. attempt[cur][idx] + 1 \in Nat
      BY <3>1 DEF TypeOK, StepRowsOK
    <3> QED
      BY <3>1, <3>2, CellWrite DEF TypeOK, StepRowsOK, StepStatuses
  <2>2. WorkerOK'
    BY <1>5, Executing DEF BeginAttempt, RefusedAt, AllowedAt, TypeOK, WorkerOK, WorkerPcs
  <2> QED
    BY <1>5, <2>1, <2>2, Executing, Frames DEF BeginAttempt, RefusedAt, TypeOK, boundVars
<1>6. CASE Execute /\ ~Abandon
  <2>1. WorkerOK'
    BY <1>6, Executing DEF Execute, TypeOK, WorkerOK, WorkerPcs
  <2> QED
    BY <1>6, <2>1, Executing, Frames DEF Execute, TypeOK, dbVars, boundVars
<1>7. CASE CompleteStep /\ ~Abandon
  <2>1. StepRowsOK'
    <3>1. /\ cur \in Runs /\ idx \in Steps
          /\ stepStatus' = [stepStatus EXCEPT ![cur][idx] = "completed"]
          /\ artifacts' = [artifacts EXCEPT ![cur][idx] = artifacts[cur][idx] + 1]
          /\ attempt' = attempt
      BY <1>7 DEF CompleteStep, RefusedAt, AllowedAt, TypeOK, WorkerOK
    <3>2. artifacts[cur][idx] + 1 \in Nat
      BY <3>1 DEF TypeOK, StepRowsOK
    <3> QED
      BY <3>1, <3>2, CellWrite DEF TypeOK, StepRowsOK, StepStatuses
  <2>2. WorkerOK'
    BY <1>7, Executing DEF CompleteStep, RefusedAt, AllowedAt, TypeOK, WorkerOK, WorkerPcs, Steps, EngineAssumption
  <2> QED
    BY <1>7, <2>1, <2>2, Executing, Frames DEF CompleteStep, RefusedAt, TypeOK, boundVars
<1>8. CASE RecordFailure /\ ~Abandon
  <2>1. StepRowsOK'
    <3>1. /\ cur \in Runs /\ idx \in Steps
          /\ stepStatus' = [stepStatus EXCEPT ![cur][idx] = "failed"]
          /\ attempt' = attempt /\ artifacts' = artifacts
      BY <1>8 DEF RecordFailure, RefusedAt, AllowedAt, TypeOK, WorkerOK
    <3> QED
      BY <3>1, CellWrite DEF TypeOK, StepRowsOK, StepStatuses
  <2>2. WorkerOK'
    BY <1>8, Executing DEF RecordFailure, RefusedAt, AllowedAt, TypeOK, WorkerOK, WorkerPcs
  <2> QED
    BY <1>8, <2>1, <2>2, Executing, Frames DEF RecordFailure, RefusedAt, TypeOK, boundVars
<1>9. CASE Backoff /\ ~Abandon
  <2>1. WorkerOK'
    BY <1>9, Executing DEF Backoff, EnterFailRun, TypeOK, WorkerOK, WorkerPcs, Steps, EngineAssumption
  <2> QED
    BY <1>9, <2>1, Executing, Frames DEF Backoff, EnterFailRun, TypeOK, dbVars, boundVars
<1>10. CASE SkipStep
  <2>1. StepRowsOK'
    <3>1. /\ cur \in Runs /\ idx \in Steps
          /\ \/ stepStatus' = [stepStatus EXCEPT ![cur][idx] = "skipped"]
             \/ stepStatus' = stepStatus
          /\ attempt' = attempt /\ artifacts' = artifacts
      BY <1>10, EngineAssumption DEF SkipStep, TypeOK, WorkerOK, Steps, EngineAssumption
    <3>2. CASE stepStatus' = stepStatus
      BY <3>1, <3>2 DEF TypeOK, StepRowsOK
    <3>3. CASE stepStatus' = [stepStatus EXCEPT ![cur][idx] = "skipped"]
      BY <3>1, <3>3, CellWrite DEF TypeOK, StepRowsOK, StepStatuses
    <3> QED
      BY <3>1, <3>2, <3>3
  <2>2. WorkerOK'
    BY <1>10, Executing DEF SkipStep, TypeOK, WorkerOK, WorkerPcs, EngineAssumption
  <2> QED
    BY <1>10, <2>1, <2>2, Executing, Frames DEF SkipStep, TypeOK, boundVars
<1>11. CASE FailRun /\ ~Abandon
  <2>1. RunRowsOK'
    BY <1>11 DEF FailRun, TypeOK, RunRowsOK, RunStatuses, WorkerOK
  <2>2. WorkerOK'
    BY <1>11, Executing DEF FailRun, TypeOK, WorkerOK, WorkerPcs
  <2> QED
    BY <1>11, <2>1, <2>2, Executing, Frames DEF FailRun, TypeOK, boundVars
<1>12. CASE CompleteRun /\ ~Abandon
  <2>1. RunRowsOK'
    BY <1>12 DEF CompleteRun, RefusedAt, TypeOK, RunRowsOK, RunStatuses, WorkerOK, EngineAssumption
  <2>2. WorkerOK'
    BY <1>12, Executing DEF CompleteRun, RefusedAt, AllowedAt, TypeOK, WorkerOK, WorkerPcs
  <2> QED
    BY <1>12, <2>1, <2>2, Executing, Frames DEF CompleteRun, RefusedAt, TypeOK, boundVars
<1>13. CASE StoreFails
  <2>1. WorkerOK'
    BY <1>13, Executing DEF StoreFails, TypeOK, WorkerOK, WorkerPcs
  <2> QED
    BY <1>13, <2>1, Executing, Spending, Frames DEF StoreFails, TypeOK, dbVars, Disturbances
<1>14. CASE SkipFails
  <2>1. WorkerOK'
    BY <1>14, Executing DEF SkipFails, TypeOK, WorkerOK, WorkerPcs, EngineAssumption
  <2> QED
    BY <1>14, <2>1, Executing, Spending, Frames DEF SkipFails, TypeOK, dbVars, Disturbances
<1>15. CASE Expire
  BY <1>15, Spending, Frames DEF Expire, TypeOK, ControlOK, dbVars, Disturbances
<1>16. ASSUME Abandon,
              BeginStep \/ MapInput \/ BeginAttempt \/ Execute \/ CompleteStep
              \/ RecordFailure \/ Backoff \/ FailRun \/ CompleteRun
       PROVE  TypeOK'
  <2>1. pc \notin {"off", "idle", "claim"}
    BY <1>16 DEF BeginStep, MapInput, BeginAttempt, Execute, CompleteStep, RecordFailure,
                 Backoff, FailRun, CompleteRun, RefusedAt, AllowedAt
  <2> QED
    BY <1>16, <2>1, <1>1
<1> QED
  BY <1>2, <1>3, <1>4, <1>5, <1>6, <1>7, <1>8, <1>9, <1>10, <1>11, <1>12, <1>13, <1>14,
     <1>15, <1>16

\* Every step of the process's life preserves the type invariant.
LEMMA ProcessType ==
    ASSUME EngineAssumption, TypeOK, Process
    PROVE  TypeOK'
<1>1. CASE StartWorker
  <2>1. ProcessOK'
    BY <1>1 DEF StartWorker, TypeOK, ProcessOK, Recoverable, CutOff
  <2>2. BoundsOK'
    BY <1>1, Spending, Frames DEF StartWorker, TypeOK, boundVars, Disturbances
  <2> QED
    BY <1>1, <2>1, <2>2, Frames DEF StartWorker, TypeOK, dbVars
<1>2. CASE Serve
  BY <1>2, Frames DEF Serve, TypeOK, ProcessOK, WorkerOK, WorkerPcs, dbVars, localVars
<1>3. ASSUME NEW r \in Runs, Recover(r) PROVE TypeOK'
  <2>1. RunRowsOK' /\ StepRowsOK'
    BY <1>3, RequeueType DEF Recover, TypeOK
  <2> QED
    BY <1>3, <2>1, Frames DEF Recover, TypeOK, ProcessOK
<1>4. CASE Terminate
  BY <1>4, Spending, Frames DEF Terminate, TypeOK, ProcessOK, dbVars, Disturbances
<1>5. CASE Exit \/ Crash
  <2>1. BoundsOK'
    BY <1>5, Spending, Frames DEF Exit, Crash, LoseMemory, TypeOK, boundVars, Disturbances
  <2>2. LoseMemory
    BY <1>5 DEF Exit, Crash
  <2>3. ProcessOK' /\ ControlOK'
    BY <2>2 DEF LoseMemory, ProcessOK, ControlOK
  <2>4. WorkerOK'
    BY <2>2 DEF LoseMemory, WorkerOK, WorkerPcs, EngineAssumption
  <2>5. HandlersOK'
    BY <2>2 DEF LoseMemory, HandlersOK, ClientPcs, EngineAssumption
  <2> QED
    BY <2>1, <2>2, <2>3, <2>4, <2>5, Frames DEF LoseMemory, TypeOK, dbVars
<1> QED
  BY <1>1, <1>2, <1>3, <1>4, <1>5 DEF Process, Boot

\* Every step of a handler preserves the type invariant.
LEMMA HandlerType ==
    ASSUME EngineAssumption, TypeOK, NEW c \in Clients, Handler(c)
    PROVE  TypeOK'
<1> USE Frames DEF TypeOK, dbVars, boundVars
<1>1. ASSUME Return(c) PROVE HandlersOK'
  BY <1>1 DEF Return, Goto, HandlersOK, ClientPcs, EngineAssumption
<1>2. ASSUME NEW r \in Runs, NEW label \in ClientPcs, Call(c, r, label),
             stamp' \in [Clients -> 0..MaxTime]
      PROVE  HandlersOK'
  BY <1>2 DEF Call, Goto, HandlersOK
<1>3. ASSUME NEW r \in Runs, Start(c, r) PROVE TypeOK'
  <2>1. PICK t \in now..MaxTime : now' = t /\ stamp' = [stamp EXCEPT ![c] = t]
    BY <1>3 DEF Start
  <2>2. BoundsOK' /\ stamp' \in [Clients -> 0..MaxTime]
    BY <1>3, <2>1 DEF Start, BoundsOK, HandlersOK, EngineAssumption
  <2>3. HandlersOK'
    BY <1>3, <2>2, <1>2 DEF Start, ClientPcs
  <2> QED
    BY <1>3, <2>2, <2>3 DEF Start, localVars
<1>4. ASSUME NEW r \in Runs, Retry(c, r) PROVE TypeOK'
  <2>1. HandlersOK'
    BY <1>4, <1>2 DEF Retry, ClientPcs, HandlersOK
  <2> QED
    BY <1>4, <2>1 DEF Retry
<1>5. ASSUME NEW r \in Runs, CancelRun(c, r) PROVE TypeOK'
  <2>1. HandlersOK'
    BY <1>5, <1>2 DEF CancelRun, ClientPcs, HandlersOK
  <2>2. RunRowsOK'
    BY <1>5 DEF CancelRun, RunRowsOK, RunStatuses, EngineAssumption
  <2>3. StepRowsOK'
    BY <1>5 DEF CancelRun, CancelledStep, StepRowsOK, StepStatuses
  <2> QED
    BY <1>5, <2>1, <2>2, <2>3 DEF CancelRun
<1>6. CASE CreateRun(c)
  <2>1. HandlersOK'
    BY <1>6 DEF CreateRun, Goto, HandlersOK, ClientPcs, EngineAssumption
  <2>2. RunRowsOK'
    BY <1>6 DEF CreateRun, RunRowsOK, RunStatuses, HandlersOK
  <2> QED
    BY <1>6, <2>1, <2>2 DEF CreateRun
<1>7. CASE ResetRunForRetry(c)
  <2>1. HandlersOK'
    BY <1>7 DEF ResetRunForRetry, Goto, HandlersOK, ClientPcs
  <2>2. target[c] \in Runs
    BY <1>7 DEF ResetRunForRetry, HandlersOK
  <2>3. RunRowsOK' /\ StepRowsOK'
    BY <1>7, <2>2, RequeueType DEF ResetRunForRetry
  <2> QED
    BY <1>7, <2>1, <2>3, Spending DEF ResetRunForRetry, Disturbances
<1>8. CASE GiveUp(c)
  BY <1>8, <1>1 DEF GiveUp
<1>9. CASE Signal(c)
  BY <1>9, <1>1 DEF Signal, ProcessOK
<1>10. CASE NotifyWorker(c)
  <2>1. ControlOK'
    BY <1>10 DEF NotifyWorker, Interrupts, ControlOK
  <2> QED
    BY <1>10, <2>1, <1>1 DEF NotifyWorker
<1> QED
  BY <1>3, <1>4, <1>5, <1>6, <1>7, <1>8, <1>9, <1>10 DEF Handler

\* Every step preserves the type invariant.
LEMMA TypeStep == ASSUME TypeOK, [Next]_vars PROVE TypeOK'
<1>1. CASE Worker \/ Faults
  BY <1>1, EngineAssumption, LoopType, ExecuteType DEF Worker, Faults
<1>2. CASE Process
  BY <1>2, EngineAssumption, ProcessType
<1>3. CASE \E c \in Clients : Handler(c)
  BY <1>3, EngineAssumption, HandlerType
<1>4. CASE UNCHANGED vars
  BY <1>4, Frames DEF vars, TypeOK, dbVars
<1> QED
  BY <1>1, <1>2, <1>3, <1>4 DEF Next

\* The domains of the tables, of the process, of the worker's locals and of the
\* handlers hold in every state: the worker holds a run wherever it uses one and an
\* index of the definition wherever it touches a step.
THEOREM TypeCorrect == Spec => []TypeOK
<1>1. Init => TypeOK
  BY InitType, EngineAssumption
<1>2. TypeOK /\ [Next]_vars => TypeOK'
  BY TypeStep
<1> QED
  BY <1>1, <1>2, PTL DEF Spec

(***************************************************************************)
(* The inductive invariant StoreInv.  A step disturbs the rows of at most  *)
(* one run, so its rows are looked at alone (OneRow); the worker's cursor  *)
(* depends on the rows of its own run only (CursorKept).                   *)
(***************************************************************************)

ExecutingPcs == {"claimed", "reload", "step", "skip"} \union OnStep

SameRow(r) == /\ status'[r] = status[r] /\ final'[r] = final[r]
              /\ stepStatus'[r] = stepStatus[r] /\ artifacts'[r] = artifacts[r]

\* The invariant of a run's rows depends on these rows alone.
LEMMA RowKept == ASSUME NEW r \in Runs, RowInv(r), SameRow(r) PROVE RowInv(r)'
  BY DEF RowInv, QueuedBlank, PrefixStored, FinalStored, CancelSettled, Completed, SameRow

\* A step that writes the rows of one run leaves the others' invariant alone.
LEMMA OneRow ==
    ASSUME \A r \in Runs : RowInv(r), NEW x \in Runs,
           \A r \in Runs \ {x} : SameRow(r), RowInv(x)'
    PROVE  \A r \in Runs : RowInv(r)'
  BY RowKept

\* A step that leaves the database alone leaves every row's invariant alone.
LEMMA NoRow ==
    ASSUME \A r \in Runs : RowInv(r), UNCHANGED dbVars
    PROVE  /\ \A r \in Runs : RowInv(r)'
           /\ \A r \in Runs : SameRow(r) /\ Completed(r)' = Completed(r)
<1>1. UNCHANGED <<status, final, stepStatus, artifacts>>
  BY DEF dbVars, runVars, stepVars
<1> QED
  BY <1>1, RowKept DEF SameRow, Completed

\* What the worker knows of its run survives a step that moves neither the worker nor
\* the run's results, and that may only cancel the run.
LEMMA CursorKept ==
    ASSUME HoldsRun, Cursor, UNCHANGED <<pc, cur, idx, fin>>,
           pc \in ExecutingPcs => /\ status'[cur] \in {status[cur], "cancelled"}
                               /\ final'[cur] = final[cur]
                               /\ Completed(cur)' = Completed(cur)
    PROVE  HoldsRun' /\ Cursor'
  BY DEF HoldsRun, Cursor, ExecutingPcs, OnStep

\* Outside an execution there is nothing for the worker to know.
LEMMA NotExecuting ==
    ASSUME pc' \in {"off", "idle", "claim", "release"}
    PROVE  HoldsRun' /\ Cursor'
  BY DEF HoldsRun, Cursor, OnStep

\* While the process serves, its steps keep it serving.
LEMMA Serving ==
    ASSUME ProcessInv, phase = "up", UNCHANGED <<phase, toRecover>>
    PROVE  ProcessInv'
  BY DEF ProcessInv

\* Only a serving process has a worker.
LEMMA WorkerServes ==
    ASSUME ProcessInv, pc # "off"
    PROVE  phase = "up"
  BY DEF ProcessInv

\* Requeueing a run keeps its results and blanks the rest.
LEMMA RequeueRow ==
    ASSUME TypeOK, NEW r \in Runs, RowInv(r), RequeueRun(r)
    PROVE  /\ RowInv(r)'
           /\ \A x \in Runs \ {r} : SameRow(x)
<1>1. /\ status'[r] = "pending" /\ final'[r] = 0
      /\ \A i \in Steps : /\ stepStatus'[r][i] = KeptStatus(stepStatus[r][i])
                          /\ artifacts'[r][i] = IF stepStatus[r][i] = "completed"
                                                THEN artifacts[r][i] ELSE 0
  BY DEF TypeOK, RunRowsOK, StepRowsOK, RequeueRun
<1>2. Completed(r)' = Completed(r)
  BY <1>1 DEF Completed, KeptStatus
<1>3. RowInv(r)'
  BY <1>1, <1>2 DEF RowInv, QueuedBlank, PrefixStored, FinalStored, CancelSettled, Completed
<1>4. ASSUME NEW x \in Runs \ {r} PROVE SameRow(x)
  BY DEF TypeOK, RunRowsOK, StepRowsOK, RequeueRun, SameRow
<1> QED
  BY <1>3, <1>4

\* Init establishes the invariant: no run, no worker.
LEMMA InitStore == EngineAssumption /\ Init => StoreInv
<1> SUFFICES ASSUME EngineAssumption, Init PROVE StoreInv
  OBVIOUS
<1>1. ASSUME NEW r \in Runs PROVE RowInv(r)
  BY DEF Init, RowInv, QueuedBlank, PrefixStored, FinalStored, CancelSettled, Completed
<1>2. ProcessInv /\ HoldsRun /\ Cursor
  BY DEF Init, ProcessInv, HoldsRun, Cursor, OnStep
<1> QED
  BY <1>1, <1>2 DEF StoreInv

\* The worker's loop and the steps of execute that only move the worker.
LEMMA MoveStore ==
    ASSUME EngineAssumption, TypeOK, StoreInv,
           \/ WakeUp \/ WorkerExit \/ NothingToClaim \/ ClaimInterrupted \/ ClaimFails
           \/ Publish \/ Reload \/ Release \/ SkipCompleted \/ MapInput \/ Execute
           \/ Backoff \/ StoreFails \/ SkipFails \/ Expire
           \/ Abandon /\ pc # "off"
    PROVE  StoreInv'
<1> USE DEF WorkerGoto, WorkerFrame, Abandon, StepsLeft, FirstSkipped, EnterFailRun
<1>1. /\ UNCHANGED <<dbVars, phase, toRecover>>
      /\ pc # "off"
  BY DEF WakeUp, WorkerExit, NothingToClaim, ClaimInterrupted, ClaimFails, ClaimLost,
         Publish, Reload, Release, SkipCompleted, MapInput, Execute, Backoff, StoreFails,
         SkipFails, Expire, processVars
<1>2. /\ \A r \in Runs : RowInv(r)'
      /\ \A r \in Runs : SameRow(r) /\ Completed(r)' = Completed(r)
  BY <1>1, NoRow DEF StoreInv
<1>3. ProcessInv'
  BY <1>1, WorkerServes, Serving DEF StoreInv
<1>4. HoldsRun' /\ Cursor'
  <2>1. CASE \/ WakeUp \/ WorkerExit \/ NothingToClaim \/ ClaimInterrupted \/ ClaimFails
             \/ Release \/ StoreFails \/ Abandon
    BY <2>1, NotExecuting DEF WakeUp, WorkerExit, NothingToClaim, ClaimInterrupted,
                              ClaimFails, ClaimLost, Release, StoreFails
  <2>2. CASE Publish
    <3>1. cur \in Runs
      BY <2>2 DEF Publish, TypeOK, WorkerOK
    <3> QED
      BY <2>2, <3>1, <1>2 DEF Publish, localVars, StoreInv, HoldsRun, Cursor, OnStep, SameRow
  <2>3. CASE Reload /\ ~Abandon
    <3>1. cur \in Runs
      BY <2>3 DEF Reload, TypeOK, WorkerOK
    <3> QED
      BY <2>3, <3>1, <1>2 DEF Reload, StoreInv, HoldsRun, Cursor, OnStep, SameRow
  <2>4. CASE SkipCompleted
    <3>1. /\ cur \in Runs /\ idx \in Steps /\ cur' = cur
          /\ idx \in Completed(cur) /\ artifacts[cur][idx] = 1
      BY <2>4 DEF SkipCompleted, AlreadyCompleted, TypeOK, WorkerOK, Steps, EngineAssumption,
                  StoreInv, RowInv, PrefixStored, Completed
    <3>2. /\ pc = "step" /\ pc' = "step" /\ idx' = idx + 1 /\ fin' = idx
          /\ 1..idx \subseteq Completed(cur)
      BY <2>4, <3>1 DEF SkipCompleted, CarriedArtifact, StoreInv, RowInv, PrefixStored
    <3> QED
      BY <3>1, <3>2, <1>2 DEF StoreInv, HoldsRun, Cursor, OnStep, SameRow, Steps
  <2>5. CASE (MapInput \/ Execute \/ Backoff) /\ ~Abandon
    <3>1. /\ cur \in Runs /\ cur' = cur /\ fin' = fin
          /\ pc \in OnStep /\ idx \in Steps
          /\ \/ pc' \in OnStep /\ idx' = idx
             \/ pc' = "skip" /\ idx' = idx + 1
      BY <2>5 DEF MapInput, Execute, Backoff, TypeOK, WorkerOK, OnStep
    <3> QED
      BY <3>1, <1>2 DEF StoreInv, HoldsRun, Cursor, OnStep, SameRow, Steps
  <2>6. CASE SkipFails
    <3>1. /\ cur \in Runs /\ cur' = cur /\ fin' = fin
          /\ pc = "skip" /\ pc' = "skip" /\ idx \in Steps /\ idx' = idx + 1
      BY <2>6 DEF SkipFails, TypeOK, WorkerOK, Steps, EngineAssumption
    <3>2. idx \notin Completed(cur)
      BY <3>1 DEF StoreInv, RowInv, PrefixStored, Cursor, Steps
    <3> QED
      BY <3>1, <3>2, <1>2 DEF StoreInv, HoldsRun, Cursor, OnStep, SameRow, Steps
  <2>7. CASE Expire
    <3>1. cur \in Runs /\ UNCHANGED <<pc, cur, idx, fin>>
      BY <2>7 DEF Expire, TypeOK, WorkerOK, localVars
    <3> QED
      BY <3>1, <1>2, CursorKept DEF StoreInv, SameRow
  <2> QED
    BY <2>1, <2>2, <2>3, <2>4, <2>5, <2>6, <2>7
<1> QED
  BY <1>2, <1>3, <1>4 DEF StoreInv

\* The claim takes a run whose final artifact is blank.
LEMMA ClaimStore ==
    ASSUME TypeOK, StoreInv, ClaimNextPendingRun
    PROVE  StoreInv'
<1>1. PICK r \in Oldest(Pending) : /\ status' = [status EXCEPT ![r] = "running"]
                                   /\ cur' = r
  BY DEF ClaimNextPendingRun
<1>2. /\ r \in Runs /\ status[r] = "pending" /\ status'[r] = "running"
      /\ final'[r] = 0 /\ pc' = "claimed"
      /\ UNCHANGED <<final, stepStatus, artifacts, phase, toRecover>>
      /\ pc # "off"
  BY <1>1 DEF Oldest, Pending, ClaimNextPendingRun, TypeOK, RunRowsOK, StoreInv, RowInv,
              QueuedBlank, stepVars, WorkerFrame
<1>3. RowInv(r)'
  BY <1>2 DEF StoreInv, RowInv, QueuedBlank, PrefixStored, FinalStored, CancelSettled, Completed
<1>4. \A x \in Runs \ {r} : SameRow(x)
  BY <1>1, <1>2 DEF SameRow, TypeOK, RunRowsOK
<1>5. ProcessInv'
  BY <1>2, WorkerServes, Serving DEF StoreInv
<1>6. HoldsRun' /\ Cursor'
  BY <1>1, <1>2 DEF HoldsRun, Cursor, OnStep
<1> QED
  BY <1>2, <1>3, <1>4, <1>5, <1>6, OneRow DEF StoreInv

\* Writing one step's row.
LEMMA StepRow ==
    ASSUME TypeOK, NEW r \in Runs, NEW i \in Steps, NEW s \in StepStatuses,
           stepStatus' = [stepStatus EXCEPT ![r][i] = s]
    PROVE  /\ stepStatus'[r][i] = s
           /\ \A j \in Steps \ {i} : stepStatus'[r][j] = stepStatus[r][j]
           /\ \A x \in Runs \ {r} : stepStatus'[x] = stepStatus[x]
  BY DEF TypeOK, StepRowsOK

\* A step row that is written without a result: it had none, and its run is not cancelled.
LEMMA UnfinishedRow ==
    ASSUME TypeOK, NEW r \in Runs, NEW i \in Steps,
           NEW s \in StepStatuses \ {"completed"},
           RowInv(r), status[r] \in {"running", "failed"}, i \notin Completed(r),
           stepStatus' = [stepStatus EXCEPT ![r][i] = s],
           UNCHANGED <<status, final, artifacts>>
    PROVE  /\ RowInv(r)'
           /\ \A x \in Runs \ {r} : SameRow(x)
           /\ Completed(r)' = Completed(r)
<1>1. Completed(r)' = Completed(r)
  BY StepRow DEF Completed
<1>2. RowInv(r)'
  BY <1>1 DEF RowInv, QueuedBlank, PrefixStored, FinalStored, CancelSettled
<1> QED
  BY <1>1, <1>2, StepRow DEF SameRow

\* The stores of execute and failRun.
LEMMA ExecuteStore ==
    ASSUME EngineAssumption, TypeOK, StoreInv,
           \/ BeginStep \/ BeginAttempt \/ CompleteStep \/ RecordFailure \/ SkipStep
           \/ FailRun \/ CompleteRun
    PROVE  StoreInv'
<1> USE DEF WorkerGoto, WorkerFrame, StepsLeft
<1>1. CASE Abandon
  BY <1>1, MoveStore DEF BeginStep, BeginAttempt, CompleteStep, RecordFailure, SkipStep,
                         FailRun, CompleteRun, RefusedAt, AllowedAt
<1>2. /\ cur \in Runs /\ cur' = cur /\ pc # "off"
      /\ UNCHANGED <<phase, toRecover>>
  BY DEF BeginStep, BeginAttempt, CompleteStep, RecordFailure, SkipStep, FailRun,
         CompleteRun, RefusedAt, AllowedAt, Abandon, TypeOK, WorkerOK
<1>3. ProcessInv'
  BY <1>2, WorkerServes, Serving DEF StoreInv
<1>4. RowInv(cur)
  BY <1>2 DEF StoreInv
<1>5. ASSUME NEW x \in Runs \ {cur},
             UNCHANGED <<status, final, stepStatus, artifacts>>
      PROVE  SameRow(x)
  BY <1>5 DEF SameRow
<1>6. CASE BeginStep /\ ~Abandon
  <2>1. /\ pc = "step" /\ pc' = "map" /\ idx \in Steps /\ idx' = idx /\ fin' = fin
        /\ idx \notin Completed(cur) /\ status[cur] = "running"
        /\ final'[cur] = fin /\ UNCHANGED <<status, stepStatus, artifacts>>
        /\ \A x \in Runs \ {cur} : final'[x] = final[x]
    BY <1>6, <1>2 DEF BeginStep, RefusedAt, AllowedAt, AlreadyCompleted, Writable, TypeOK,
                WorkerOK, RunRowsOK, StoreInv, HoldsRun, Completed, stepVars, Steps,
                EngineAssumption
  <2>2. fin # 0 => fin \in Completed(cur)
    BY <2>1 DEF StoreInv, Cursor, Steps
  <2>3. RowInv(cur)'
    <3>1. Completed(cur)' = Completed(cur)
      BY <1>2, <2>1 DEF Completed
    <3> QED
      BY <1>2, <1>4, <2>1, <2>2, <3>1 DEF RowInv, QueuedBlank, PrefixStored, FinalStored,
                                          CancelSettled
  <2>4. HoldsRun' /\ Cursor'
    BY <1>2, <2>1 DEF StoreInv, HoldsRun, Cursor, OnStep, Completed
  <2> QED
    BY <1>2, <1>3, <2>1, <2>3, <2>4, OneRow DEF StoreInv, SameRow
<1>7. CASE (BeginAttempt \/ RecordFailure) /\ ~Abandon
  <2>1. PICK s \in {"running", "failed"} : stepStatus' = [stepStatus EXCEPT ![cur][idx] = s]
    BY <1>7 DEF BeginAttempt, RecordFailure, RefusedAt
  <2>2. /\ pc \in OnStep /\ pc' \in OnStep /\ idx \in Steps /\ idx' = idx /\ fin' = fin
        /\ idx \notin Completed(cur) /\ status[cur] = "running"
        /\ UNCHANGED <<status, final, artifacts>>
    BY <1>7, <1>2 DEF BeginAttempt, RecordFailure, RefusedAt, AllowedAt, Writable, TypeOK,
                WorkerOK, StoreInv, HoldsRun, Cursor, runVars, OnStep
  <2>3. /\ RowInv(cur)' /\ \A x \in Runs \ {cur} : SameRow(x)
        /\ Completed(cur)' = Completed(cur)
    BY <1>2, <1>4, <2>1, <2>2, UnfinishedRow DEF StepStatuses
  <2>4. HoldsRun' /\ Cursor'
    BY <1>2, <2>2, <2>3 DEF StoreInv, HoldsRun, Cursor, OnStep
  <2> QED
    BY <1>2, <1>3, <2>3, <2>4, OneRow DEF StoreInv
<1>8. CASE CompleteStep /\ ~Abandon
  <2>1. /\ pc = "ok" /\ pc' = "step" /\ idx \in Steps /\ idx' = idx + 1 /\ fin' = idx
        /\ idx \notin Completed(cur) /\ status[cur] = "running"
        /\ 1 .. idx-1 \subseteq Completed(cur)
        /\ stepStatus' = [stepStatus EXCEPT ![cur][idx] = "completed"]
        /\ artifacts' = [artifacts EXCEPT ![cur][idx] = artifacts[cur][idx] + 1]
        /\ UNCHANGED <<status, final>>
    BY <1>8, <1>2 DEF CompleteStep, RefusedAt, AllowedAt, Writable, TypeOK,
                WorkerOK, StoreInv, HoldsRun, Cursor, runVars, OnStep
  <2>2. Completed(cur)' = Completed(cur) \union {idx}
    <3>1. /\ stepStatus'[cur][idx] = "completed"
          /\ \A j \in Steps \ {idx} : stepStatus'[cur][j] = stepStatus[cur][j]
      BY <1>2, <2>1 DEF TypeOK, StepRowsOK
    <3> QED
      BY <1>2, <2>1, <3>1 DEF Completed
  <2>3. /\ artifacts'[cur][idx] = 1
        /\ \A j \in Steps \ {idx} : artifacts'[cur][j] = artifacts[cur][j]
        /\ \A x \in Runs \ {cur} : artifacts'[x] = artifacts[x]
    BY <1>2, <1>4, <2>1 DEF TypeOK, StepRowsOK, RowInv, PrefixStored
  <2>4. PrefixStored(cur)'
    <3>1. ASSUME NEW i \in Completed(cur)' PROVE 1..i \subseteq Completed(cur)'
      <4>1. i \in Steps /\ (i \in Completed(cur) \/ i = idx)
        BY <2>1, <2>2 DEF Completed
      <4> QED
        BY <1>4, <2>1, <2>2, <4>1 DEF RowInv, PrefixStored, Steps
    <3>2. ASSUME NEW i \in Steps
          PROVE  artifacts'[cur][i] = IF i \in Completed(cur)' THEN 1 ELSE 0
      BY <1>4, <2>1, <2>2, <2>3 DEF RowInv, PrefixStored
    <3> QED
      BY <1>2, <3>1, <3>2 DEF PrefixStored
  <2>5. RowInv(cur)'
    <3>1. QueuedBlank(cur)' /\ CancelSettled(cur)'
      BY <1>2, <2>1 DEF QueuedBlank, CancelSettled
    <3>2. FinalStored(cur)'
      BY <1>2, <1>4, <2>1, <2>2 DEF RowInv, FinalStored
    <3> QED
      BY <2>4, <3>1, <3>2 DEF RowInv
  <2>6. \A x \in Runs \ {cur} : SameRow(x)
    BY <1>2, <2>1, <2>3, StepRow DEF SameRow, StepStatuses
  <2>7. HoldsRun' /\ Cursor'
    BY <1>2, <2>1, <2>2 DEF HoldsRun, Cursor, OnStep, Steps
  <2> QED
    BY <1>2, <1>3, <2>5, <2>6, <2>7, OneRow DEF StoreInv
<1>9. CASE SkipStep
  <2>1. /\ pc = "skip" /\ pc' = "skip" /\ idx \in Steps /\ idx' = idx + 1 /\ fin' = fin
        /\ UNCHANGED <<status, final, artifacts>>
    BY <1>9 DEF SkipStep, TypeOK, WorkerOK, Steps, EngineAssumption, runVars
  <2>2. idx \notin Completed(cur)
    BY <1>4, <2>1 DEF RowInv, PrefixStored, StoreInv, Cursor, Steps
  <2>3. /\ RowInv(cur)' /\ \A x \in Runs \ {cur} : SameRow(x)
        /\ Completed(cur)' = Completed(cur)
    <3>1. CASE Writable(cur)
      <4>1. /\ status[cur] = "running"
            /\ stepStatus' = [stepStatus EXCEPT ![cur][idx] = "skipped"]
        BY <1>9, <2>1, <3>1 DEF SkipStep, Writable, StoreInv, HoldsRun
      <4> QED
        BY <1>2, <1>4, <2>1, <2>2, <4>1, UnfinishedRow DEF StepStatuses
    <3>2. CASE ~Writable(cur)
      BY <1>2, <1>4, <1>9, <2>1, <3>2, <1>5, RowKept DEF SkipStep, SameRow, Completed
    <3> QED
      BY <3>1, <3>2
  <2>4. HoldsRun' /\ Cursor'
    BY <1>2, <2>1, <2>2, <2>3 DEF StoreInv, HoldsRun, Cursor, OnStep, Steps
  <2> QED
    BY <1>2, <1>3, <2>3, <2>4, OneRow DEF StoreInv
<1>10. CASE (FailRun \/ CompleteRun) /\ ~Abandon
  <2>1. /\ pc' = "release" /\ UNCHANGED <<stepStatus, artifacts>>
        /\ status'[cur] \in {"failed", "completed"} /\ final'[cur] = fin
        /\ \A x \in Runs \ {cur} : status'[x] = status[x] /\ final'[x] = final[x]
    BY <1>10, <1>2 DEF FailRun, CompleteRun, RefusedAt, TypeOK, RunRowsOK, stepVars
  <2>2. /\ fin # 0 => fin \in Completed(cur)
        /\ status'[cur] = "completed" => Completed(cur) = Steps /\ fin = NumSteps
    <3>1. CASE FailRun
      BY <1>2, <1>10, <3>1 DEF FailRun, TypeOK, RunRowsOK, StoreInv, Cursor
    <3>2. CASE CompleteRun
      <4>1. pc = "step" /\ idx = NumSteps + 1
        BY <3>2 DEF CompleteRun, TypeOK, WorkerOK, EngineAssumption
      <4> QED
        BY <4>1 DEF StoreInv, Cursor, Steps, Completed, EngineAssumption
    <3> QED
      BY <1>10, <3>1, <3>2
  <2>3. RowInv(cur)'
    <3>1. Completed(cur)' = Completed(cur)
      BY <1>2, <2>1 DEF Completed
    <3> QED
      BY <1>2, <1>4, <2>1, <2>2, <3>1 DEF RowInv, QueuedBlank, PrefixStored, FinalStored,
                                          CancelSettled
  <2> QED
    BY <1>2, <1>3, <2>1, <2>3, NotExecuting, OneRow DEF StoreInv, SameRow
<1> QED
  BY <1>1, <1>6, <1>7, <1>8, <1>9, <1>10

\* Start-up, recovery and the end of the process.
LEMMA ProcessStore ==
    ASSUME EngineAssumption, TypeOK, StoreInv, Process
    PROVE  StoreInv'
<1>1. CASE StartWorker \/ Serve \/ Terminate \/ Exit \/ Crash
  <2>1. UNCHANGED dbVars
    BY <1>1 DEF StartWorker, Serve, Terminate, Exit, Crash, LoseMemory
  <2>2. /\ \A r \in Runs : RowInv(r)'
        /\ \A r \in Runs : SameRow(r) /\ Completed(r)' = Completed(r)
    BY <2>1, NoRow DEF StoreInv
  <2>3. CASE StartWorker \/ Serve
    <3>1. ProcessInv'
      BY <2>1, <2>3 DEF StartWorker, Recoverable, CutOff, Serve, StoreInv, ProcessInv,
                        Interrupted, clientVars, dbVars, runVars
    <3>2. pc' \in {"off", "idle"}
      BY <2>3 DEF StartWorker, Serve, StoreInv, ProcessInv
    <3> QED
      BY <2>2, <3>1, <3>2, NotExecuting DEF StoreInv
  <2>4. CASE Terminate
    <3>1. ProcessInv'
      BY <2>4, Serving DEF Terminate, StoreInv
    <3>2. HoldsRun' /\ Cursor'
      <4>1. UNCHANGED <<pc, cur, idx, fin>>
        BY <2>4 DEF Terminate, localVars
      <4>2. pc \in ExecutingPcs => cur \in Runs
        BY DEF ExecutingPcs, OnStep, TypeOK, WorkerOK
      <4> QED
        BY <2>2, <4>1, <4>2, CursorKept DEF StoreInv, SameRow
    <3> QED
      BY <2>2, <3>1, <3>2 DEF StoreInv
  <2>5. CASE Exit \/ Crash
    <3>1. LoseMemory
      BY <2>5 DEF Exit, Crash
    <3>2. ProcessInv'
      BY <3>1 DEF LoseMemory, ProcessInv
    <3> QED
      BY <2>2, <3>1, <3>2, NotExecuting DEF LoseMemory, StoreInv
  <2> QED
    BY <1>1, <2>3, <2>4, <2>5
<1>2. ASSUME NEW r \in Runs, Recover(r) PROVE StoreInv'
  <2>1. /\ RowInv(r)' /\ \A x \in Runs \ {r} : SameRow(x)
    BY <1>2, RequeueRow DEF Recover, StoreInv
  <2>2. /\ pc = "off" /\ pc' = pc /\ phase = "recovering"
        /\ UNCHANGED <<phase, cpc>> /\ toRecover' = toRecover \ {r}
    BY <1>2 DEF Recover, StoreInv, ProcessInv, clientVars
  <2>3. ProcessInv'
    BY <2>1, <2>2 DEF StoreInv, ProcessInv, Interrupted, SameRow, TypeOK, ProcessOK
  <2> QED
    BY <2>1, <2>2, <2>3, OneRow, NotExecuting DEF StoreInv
<1> QED
  BY <1>1, <1>2 DEF Process, Boot

\* The handlers: a new run, a retry and a cancellation.
LEMMA HandlerStore ==
    ASSUME EngineAssumption, TypeOK, StoreInv, NEW c \in Clients, Handler(c)
    PROVE  StoreInv'
<1>1. /\ phase = "up" /\ UNCHANGED <<phase, toRecover, pc, cur, idx, fin>>
  <2>1. phase = "up"
    BY DEF Handler, Start, Retry, CancelRun, Call, CreateRun, ResetRunForRetry, GiveUp,
           Signal, NotifyWorker, StoreInv, ProcessInv
  <2> QED
    BY <2>1 DEF Handler, Start, Retry, CancelRun, CreateRun, ResetRunForRetry, GiveUp,
                Signal, NotifyWorker, processVars, localVars
<1>2. ProcessInv'
  BY <1>1, Serving DEF StoreInv
<1>3. pc \in ExecutingPcs => cur \in Runs /\ status[cur] \in {"running", "cancelled"}
  BY DEF ExecutingPcs, OnStep, TypeOK, WorkerOK, StoreInv, HoldsRun
<1>4. CASE UNCHANGED dbVars
  <2>1. /\ \A r \in Runs : RowInv(r)'
        /\ \A r \in Runs : SameRow(r) /\ Completed(r)' = Completed(r)
    BY <1>4, NoRow DEF StoreInv
  <2> QED
    BY <1>1, <1>2, <1>3, <2>1, CursorKept DEF StoreInv, SameRow
<1>5. ASSUME NEW r \in Runs, RowInv(r)', \A x \in Runs \ {r} : SameRow(x),
             \/ status[r] \notin {"running", "cancelled"}
             \/ /\ status'[r] = "cancelled" /\ final'[r] = final[r]
                /\ Completed(r)' = Completed(r)
      PROVE  StoreInv'
  <2>1. pc \in ExecutingPcs => /\ status'[cur] \in {status[cur], "cancelled"}
                               /\ final'[cur] = final[cur]
                               /\ Completed(cur)' = Completed(cur)
    <3>1. CASE pc \in ExecutingPcs /\ cur = r
      BY <1>1, <1>3, <1>5, <3>1 DEF Completed
    <3>2. CASE pc \in ExecutingPcs /\ cur # r
      <4>1. SameRow(cur)
        BY <1>3, <1>5, <3>2
      <4> QED
        BY <1>1, <4>1 DEF SameRow, Completed
    <3> QED
      BY <3>1, <3>2
  <2> QED
    BY <1>1, <1>2, <1>5, <2>1, CursorKept, OneRow DEF StoreInv
<1>6. CASE CreateRun(c) /\ ~UNCHANGED dbVars
  <2>1. PICK r \in Runs : /\ status[r] = "absent"
                         /\ status' = [status EXCEPT ![r] = "pending"]
                         /\ UNCHANGED <<final, stepStatus, artifacts>>
    BY <1>6 DEF CreateRun, TypeOK, HandlersOK, dbVars, runVars, stepVars
  <2>2. status'[r] = "pending" /\ Completed(r)' = Completed(r) /\ RowInv(r)
    BY <2>1 DEF TypeOK, RunRowsOK, Completed, StoreInv
  <2>3. RowInv(r)'
    BY <2>1, <2>2 DEF RowInv, QueuedBlank, PrefixStored, FinalStored, CancelSettled
  <2>4. \A x \in Runs \ {r} : SameRow(x)
    BY <2>1 DEF TypeOK, RunRowsOK, SameRow
  <2> QED
    BY <1>5, <2>1, <2>3, <2>4
<1>7. CASE ResetRunForRetry(c)
  <2>1. PICK r \in Runs : status[r] = "failed" /\ RequeueRun(r)
    BY <1>7 DEF ResetRunForRetry, Retryable, TypeOK, HandlersOK
  <2>2. RowInv(r)
    BY DEF StoreInv
  <2>3. /\ RowInv(r)' /\ \A x \in Runs \ {r} : SameRow(x)
    BY <2>1, <2>2, RequeueRow
  <2> QED
    BY <1>5, <2>1, <2>3
<1>8. ASSUME NEW r \in Runs, CancelRun(c, r) PROVE StoreInv'
  <2>1. /\ status[r] \in Cancellable /\ status'[r] = "cancelled" /\ UNCHANGED <<final, artifacts>>
        /\ \A i \in Steps : stepStatus'[r][i] = CancelledStep(stepStatus[r][i])
        /\ \A x \in Runs \ {r} : SameRow(x)
    BY <1>8 DEF CancelRun, TypeOK, RunRowsOK, StepRowsOK, SameRow
  <2>2. Completed(r)' = Completed(r)
    BY <2>1 DEF Completed, CancelledStep
  <2>3. RowInv(r)'
    BY <2>1, <2>2 DEF StoreInv, RowInv, QueuedBlank, PrefixStored, FinalStored, CancelSettled,
                      CancelledStep
  <2> QED
    BY <1>5, <2>1, <2>2, <2>3
<1>9. ASSUME NEW r \in Runs, Start(c, r) \/ Retry(c, r) PROVE UNCHANGED dbVars
  BY <1>9 DEF Start, Retry
<1>10. CASE GiveUp(c) \/ Signal(c) \/ NotifyWorker(c)
  BY <1>10, <1>4 DEF GiveUp, Signal, NotifyWorker
<1> QED
  BY <1>4, <1>6, <1>7, <1>8, <1>9, <1>10 DEF Handler

\* Every step preserves the consistency of the rows.
LEMMA StoreStep == ASSUME TypeOK, StoreInv, [Next]_vars PROVE StoreInv'
<1>1. CASE Worker \/ Faults
  BY <1>1, EngineAssumption, MoveStore, ClaimStore, ExecuteStore DEF Worker, Faults
<1>2. CASE Process
  BY <1>2, EngineAssumption, ProcessStore
<1>3. CASE \E c \in Clients : Handler(c)
  BY <1>3, EngineAssumption, HandlerStore
<1>4. CASE UNCHANGED vars
  <2>1. UNCHANGED dbVars /\ UNCHANGED <<phase, toRecover, pc, cur, idx, fin, cpc>>
    BY <1>4 DEF vars, processVars, localVars, clientVars
  <2>2. /\ \A r \in Runs : RowInv(r)'
        /\ \A r \in Runs : SameRow(r) /\ Completed(r)' = Completed(r)
    BY <2>1, NoRow DEF StoreInv
  <2>3. pc \in ExecutingPcs => cur \in Runs
    BY DEF ExecutingPcs, OnStep, TypeOK, WorkerOK
  <2>4. HoldsRun' /\ Cursor'
    BY <2>1, <2>2, <2>3, CursorKept DEF StoreInv, SameRow
  <2>5. ProcessInv'
    BY <2>1, <2>2 DEF StoreInv, ProcessInv, SameRow, TypeOK, ProcessOK
  <2> QED
    BY <2>2, <2>4, <2>5 DEF StoreInv
<1> QED
  BY <1>1, <1>2, <1>3, <1>4 DEF Next

\* The rows of a run are consistent in every state, whatever the interleaving of worker,
\* handlers, restarts and failing store calls, and the worker holds a run that is running
\* or just cancelled, with its cursor behind the stored results.
THEOREM StoreConsistent == Spec => []StoreInv
<1>1. Init => StoreInv
  BY InitStore, EngineAssumption
<1>2. TypeOK /\ StoreInv /\ [Next]_vars => StoreInv'
  BY StoreStep
<1> QED
  BY <1>1, <1>2, TypeCorrect, PTL DEF Spec

\* Results form a prefix of the definition, each with exactly one artifact.
THEOREM PrefixTheorem == Spec => []ResultsAreAPrefix
<1>1. StoreInv => ResultsAreAPrefix
  BY DEF StoreInv, RowInv, ResultsAreAPrefix
<1> QED
  BY <1>1, StoreConsistent, PTL

\* The final artifact exists, and a completed run has all of its results.
THEOREM FinalTheorem == Spec => []FinalArtifactIsStored
<1>1. StoreInv => FinalArtifactIsStored
  BY DEF StoreInv, RowInv, FinalArtifactIsStored
<1> QED
  BY <1>1, StoreConsistent, PTL

\* No step of a cancelled run is pending or running.
THEOREM CancelledTheorem == Spec => []CancelledRunIsSettled
<1>1. StoreInv => CancelledRunIsSettled
  BY DEF StoreInv, RowInv, CancelledRunIsSettled
<1> QED
  BY <1>1, StoreConsistent, PTL
=============================================================================
