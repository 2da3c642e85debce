----------------------- MODULE WorkflowEngine_control -----------------------
(***************************************************************************)
(* The worker and the handlers of WorkflowEngine, for every value of its   *)
(* constants: the proofs that a cancellation reaches the worker and no     *)
(* other run, that no wake-up is lost, that a run which says "running" is  *)
(* executed, that attempts are sequential and that a failed run is left    *)
(* ready for a retry.                                                      *)
(***************************************************************************)
EXTENDS WorkflowEngine_steps

(***************************************************************************)
(* The invariant of the handshake.  The control is published from Publish  *)
(* to Release and names the worker's run; a handler about to notify has    *)
(* cancelled its run, and cancelled runs stay so (Frozen).                 *)
(***************************************************************************)

PublishedPcs == {"reload", "step", "skip", "release"} \union OnStep

Published ==
    /\ active = IF pc \in PublishedPcs THEN cur ELSE NoRun
    /\ pc \in {"off", "idle", "claim"} => cur = NoRun

Notifying == \A c \in Clients : cpc[c] = "notify" => status[target[c]] = "cancelled"

ControlInv == Published /\ Notifying /\ CancelHitsItsRun /\ CancelReachesWorker /\ NoLostWakeUp

(***************************************************************************)
(* The invariant of the running runs.  Recovery lists every run that is    *)
(* still running, unless its list was cut off; the worker lets go of a run *)
(* that still says "running" only if it is being stopped, its deadline has *)
(* passed or a store call has failed.                                      *)
(***************************************************************************)

Unfailing == ~stop /\ spent["timeout"] = 0 /\ spent["fault"] = 0

RunningInv ==
    /\ expired => spent["timeout"] > 0
    /\ phase = "recovering" /\ spent["fault"] = 0 =>
          \A r \in Runs : status[r] = "running" => r \in toRecover
    /\ pc = "release" /\ Unfailing => status[cur] # "running"
    /\ RunningIsExecuted

(***************************************************************************)
(* The invariant of the attempts.  Every retry and every end of the        *)
(* process grants each step of a run its limit of attempts once more; a    *)
(* process that is being stopped records none.  A run that waits, and the  *)
(* steps the worker has still to try, have used no more than was granted   *)
(* before.                                                                 *)
(***************************************************************************)

Granted == spent["retry"] + spent["stop"] - (IF stop THEN 1 ELSE 0)

\* The attempts of n executions.
Cap(i, n) == MaxAttempts[i] * n

Waiting(r) == phase # "up" \/ status[r] \in {"absent", "pending"}

Trying == OnStep \ {"map"}

\* The worker has the run and has not tried the step yet, or is trying it.
Untried(r, i) ==
    /\ r = cur
    /\ \/ pc \in {"claimed", "reload"}
       \/ pc \in {"step", "map"} /\ i >= idx
       \/ pc \in Trying /\ i > idx

Tried(r, i) == r = cur /\ pc \in Trying /\ i = idx

\* The attempts of the current execution, at most.
Recent(r, i) == IF Waiting(r) \/ Untried(r, i) THEN 0
                ELSE IF Tried(r, i) THEN tries ELSE MaxAttempts[i]

TriesInv ==
    /\ stop => spent["stop"] > 0
    /\ pc = "map" => tries = 0
    /\ pc = "attempt" => tries < MaxAttempts[idx]
    /\ pc \in Trying => tries <= MaxAttempts[idx]

WithinBudget(r, i) == attempt[r][i] <= Cap(i, Granted) + Recent(r, i)

BudgetInv == TriesInv /\ \A r \in Runs, i \in Steps : WithinBudget(r, i)

(***************************************************************************)
(* The invariant of the failing run: the marks of its steps from the claim *)
(* on, and what failRun has done so far.                                   *)
(***************************************************************************)

\* No step of the run bears a mark, except those of T.
Unmarked(r, T) == \A i \in Steps \ T : stepStatus[r][i] \in {"pending", "completed"}

\* The steps behind k and before n are skipped, or their mark was lost.
SkippedUpTo(r, k, n) ==
    \A i \in Steps : k < i /\ i < n =>
        \/ stepStatus[r][i] = "skipped"
        \/ spent["fault"] > 0 /\ stepStatus[r][i] = "pending"

\* Step k has failed or its input was rejected; its followers are marked up to n.
FailedAt(r, k, n) ==
    /\ Completed(r) = 1 .. k-1
    /\ stepStatus[r][k] \in {"pending", "failed"}
    /\ SkippedUpTo(r, k, n)

\* The marks of a run that waits or has failed.
RowMarks(r) ==
    /\ status[r] \in {"absent", "pending"} => Unmarked(r, {})
    /\ status[r] = "failed" => \E k \in Steps : FailedAt(r, k, NumSteps + 1)

\* The marks of the run the worker executes.
WorkerMarks ==
    /\ pc \in {"claimed", "reload", "step"} /\ status[cur] = "running" => Unmarked(cur, {})
    /\ pc \in OnStep /\ status[cur] = "running" =>
          /\ Unmarked(cur, {idx})
          /\ pc = "map" => stepStatus[cur][idx] = "pending"
          /\ pc = "backoff" => stepStatus[cur][idx] = "failed"
    /\ pc = "skip" /\ status[cur] = "running" =>
          \E k \in Steps :
             /\ k < idx
             /\ FailedAt(cur, k, idx)
             /\ \A i \in Steps : idx <= i => stepStatus[cur][i] = "pending"

MarksInv == (\A r \in Runs : RowMarks(r)) /\ WorkerMarks

-----------------------------------------------------------------------------
(* What the steps do to the control and the handlers.                      *)

ExecuteStep ==
    \/ Reload \/ SkipCompleted \/ BeginStep \/ MapInput \/ BeginAttempt \/ Execute
    \/ CompleteStep \/ RecordFailure \/ Backoff \/ SkipStep \/ FailRun \/ CompleteRun
    \/ StoreFails \/ SkipFails \/ Expire

LoopStep ==
    \/ WakeUp \/ WorkerExit \/ ClaimNextPendingRun \/ NothingToClaim
    \/ ClaimInterrupted \/ ClaimFails \/ Publish \/ Release

\* A step of execute leaves everything but the rows of its run and its own position alone.
LEMMA ExecuteMoves ==
    ASSUME TypeOK, ExecuteStep
    PROVE  /\ pc \in PublishedPcs \ {"release"} /\ pc' \in PublishedPcs \ {"reload"}
           /\ UNCHANGED <<phase, toRecover, wake, stop, active, userCancelled, cur, cpc, target>>
           /\ pc = "reload" => /\ UNCHANGED dbVars
                               /\ pc' \in {"step", "release"}
                               /\ pc' = "step" => status[cur] = "running"
<1> USE DEF WorkerGoto, WorkerFrame, Abandon, RefusedAt, AllowedAt, EnterFailRun, PublishedPcs,
            OnStep, clientVars, controlVars
<1>1. CASE Reload \/ SkipCompleted \/ BeginStep \/ MapInput \/ BeginAttempt \/ Execute
  BY <1>1 DEF Reload, Executable, SkipCompleted, BeginStep, MapInput, BeginAttempt, Execute
<1>2. CASE CompleteStep \/ RecordFailure \/ Backoff \/ SkipStep \/ FailRun \/ CompleteRun
  BY <1>2 DEF CompleteStep, RecordFailure, Backoff, SkipStep, FailRun, CompleteRun
<1>3. CASE StoreFails \/ SkipFails \/ Expire
  BY <1>3 DEF StoreFails, SkipFails, Expire, processVars, localVars
<1> QED
  BY <1>1, <1>2, <1>3 DEF ExecuteStep

\* The steps of a handler leave the process and the worker alone.
LEMMA HandlerMoves ==
    ASSUME TypeOK, StoreInv, NEW c \in Clients, Handler(c)
    PROVE  /\ phase = "up"
           /\ UNCHANGED <<phase, toRecover, stop, active, expired, pc, cur, idx, fin>>
           /\ \A b \in Clients \ {c} : cpc'[b] = cpc[b] /\ target'[b] = target[b]
<1>1. CASE \E r \in Runs : Start(c, r) \/ Retry(c, r) \/ CancelRun(c, r)
  BY <1>1 DEF Start, Retry, CancelRun, Call, Goto, processVars, controlVars, localVars, TypeOK,
              HandlersOK
<1>2. CASE CreateRun(c) \/ ResetRunForRetry(c) \/ GiveUp(c)
  BY <1>2 DEF CreateRun, ResetRunForRetry, GiveUp, Return, Goto, processVars, controlVars,
              localVars, TypeOK, HandlersOK, StoreInv, ProcessInv
<1>3. CASE Signal(c) \/ NotifyWorker(c)
  BY <1>3 DEF Signal, NotifyWorker, Return, Goto, processVars, controlVars, localVars,
              TypeOK, HandlersOK, StoreInv, ProcessInv
<1> QED
  BY <1>1, <1>2, <1>3 DEF Handler

\* A cancelled run stays cancelled.
LEMMA CancelledStays ==
    ASSUME TypeOK, StoreInv, [Next]_vars, NEW r \in Runs, status[r] = "cancelled"
    PROVE  status'[r] = "cancelled"
  BY StepOfRow DEF Frozen, Effect, Worked, Moved, Recorded, Progressed

\* Only a handler cancels.
LEMMA OthersDoNotCancel ==
    ASSUME TypeOK, StoreInv, ExecuteStep \/ LoopStep \/ Process, NEW r \in Runs,
           status'[r] = "cancelled"
    PROVE  status[r] = "cancelled"
<1> USE DEF TypeOK, RunRowsOK, dbVars, runVars
<1>1. CASE LoopStep
  BY <1>1 DEF LoopStep, WakeUp, WorkerExit, ClaimNextPendingRun, NothingToClaim,
              ClaimInterrupted, ClaimFails, ClaimLost, Publish, Release
<1>2. CASE Process
  BY <1>2 DEF Process, Boot, StartWorker, Serve, Recover, RequeueRun, Terminate, Exit, Crash,
              LoseMemory
<1>3. CASE ExecuteStep
  BY <1>3 DEF ExecuteStep, Reload, SkipCompleted, BeginStep, MapInput, BeginAttempt, Execute,
              CompleteStep, RecordFailure, Backoff, SkipStep, FailRun, CompleteRun, StoreFails,
              SkipFails, Expire, Abandon, EnterFailRun, RefusedAt
<1> QED
  BY <1>1, <1>2, <1>3

-----------------------------------------------------------------------------
(* The handshake.                                                          *)

\* The published control names the worker's run.
LEMMA PublishedKept ==
    ASSUME EngineAssumption, TypeOK, StoreInv, Published, [Next]_vars
    PROVE  Published'
<1> USE DEF Published, PublishedPcs, OnStep
<1>1. CASE ExecuteStep
  BY <1>1, ExecuteMoves
<1>2. CASE LoopStep
  <2>1. CASE WakeUp \/ WorkerExit \/ NothingToClaim
    BY <2>1 DEF WakeUp, WorkerExit, NothingToClaim, controlVars, localVars
  <2>2. CASE ClaimNextPendingRun \/ Publish
    BY <2>2 DEF ClaimNextPendingRun, Publish, controlVars, localVars
  <2>3. CASE ClaimInterrupted \/ ClaimFails \/ Release
    BY <2>3 DEF ClaimInterrupted, ClaimFails, ClaimLost, Release, controlVars
  <2> QED
    BY <1>2, <2>1, <2>2, <2>3 DEF LoopStep
<1>3. CASE Process
  <2>1. CASE StartWorker \/ Serve \/ Terminate \/ \E r \in Runs : Recover(r)
    BY <2>1 DEF StartWorker, Serve, Terminate, Recover, controlVars, localVars, StoreInv,
                ProcessInv
  <2>2. CASE Exit \/ Crash
    BY <2>2 DEF Exit, Crash, LoseMemory
  <2> QED
    BY <1>3, <2>1, <2>2 DEF Process, Boot
<1>4. CASE \E c \in Clients : Handler(c)
  BY <1>4, HandlerMoves
<1>5. CASE UNCHANGED vars
  BY <1>5 DEF vars, controlVars, localVars
<1> QED
  BY <1>1, <1>2, <1>3, <1>4, <1>5 DEF Next, Worker, Faults, ExecuteStep, LoopStep

\* A handler that is about to notify has cancelled its run.
LEMMA NotifyingKept ==
    ASSUME EngineAssumption, TypeOK, StoreInv, Notifying, [Next]_vars
    PROVE  Notifying'
<1>1. CASE UNCHANGED <<cpc, target>>
  BY <1>1, CancelledStays DEF Notifying, TypeOK, HandlersOK
<1>2. CASE ExecuteStep
  BY <1>1, <1>2, ExecuteMoves
<1>3. CASE LoopStep
  BY <1>1, <1>3 DEF LoopStep, WakeUp, WorkerExit, ClaimNextPendingRun, NothingToClaim,
                    ClaimInterrupted, ClaimFails, ClaimLost, Publish, Release, WorkerFrame,
                    clientVars
<1>4. CASE Process
  <2>1. CASE StartWorker \/ Serve \/ Terminate \/ \E r \in Runs : Recover(r)
    BY <1>1, <2>1 DEF StartWorker, Serve, Terminate, Recover, clientVars
  <2>2. CASE Exit \/ Crash
    BY <2>2 DEF Exit, Crash, LoseMemory, Notifying
  <2> QED
    BY <1>4, <2>1, <2>2 DEF Process, Boot
<1>5. ASSUME NEW c \in Clients, Handler(c) PROVE Notifying'
  <2>1. \A b \in Clients \ {c} : cpc'[b] = "notify" => status'[target'[b]] = "cancelled"
    BY <1>5, HandlerMoves, CancelledStays DEF Notifying, TypeOK, HandlersOK
  <2>2. cpc'[c] = "notify" => status'[target'[c]] = "cancelled"
    <3>1. ASSUME NEW r \in Runs, CancelRun(c, r) PROVE status'[target'[c]] = "cancelled"
      BY <3>1 DEF CancelRun, Call, TypeOK, RunRowsOK, HandlersOK
    <3>2. ASSUME ~\E r \in Runs : CancelRun(c, r) PROVE cpc'[c] # "notify"
      BY <1>5, <3>2 DEF Handler, Start, Retry, Call, CreateRun, ResetRunForRetry, GiveUp,
                        Signal, NotifyWorker, Return, Goto, TypeOK, HandlersOK
    <3> QED
      BY <3>1, <3>2
  <2> QED
    BY <2>1, <2>2 DEF Notifying
<1>6. CASE UNCHANGED vars
  BY <1>1, <1>6 DEF vars, clientVars
<1> QED
  BY <1>2, <1>3, <1>4, <1>5, <1>6 DEF Next, Worker, Faults, ExecuteStep, LoopStep

\* An interrupt is of a run that is cancelled.
LEMMA InterruptKept ==
    ASSUME EngineAssumption, TypeOK, StoreInv, Published, Notifying, CancelHitsItsRun,
           [Next]_vars
    PROVE  CancelHitsItsRun'
<1>1. CASE UNCHANGED <<active, userCancelled>>
  BY <1>1, CancelledStays DEF CancelHitsItsRun
<1>2. CASE ~userCancelled'
  BY <1>2 DEF CancelHitsItsRun
<1>3. CASE ExecuteStep
  BY <1>1, <1>3, ExecuteMoves
<1>4. CASE LoopStep
  <2>1. CASE WakeUp \/ ClaimNextPendingRun \/ NothingToClaim \/ ClaimInterrupted \/ ClaimFails
    BY <1>1, <2>1 DEF WakeUp, ClaimNextPendingRun, NothingToClaim, ClaimInterrupted, ClaimFails,
                      ClaimLost, controlVars
  <2>2. CASE Publish \/ Release
    BY <1>2, <2>2 DEF Publish, Release
  <2>3. CASE WorkerExit
    <3>1. ~userCancelled
      BY <2>3, EngineAssumption DEF WorkerExit, Published, PublishedPcs, OnStep,
                                    CancelHitsItsRun, EngineAssumption
    <3> QED
      BY <1>2, <2>3, <3>1 DEF WorkerExit
  <2> QED
    BY <1>4, <2>1, <2>2, <2>3 DEF LoopStep
<1>5. CASE Process
  <2>1. CASE StartWorker \/ Serve \/ Terminate \/ \E r \in Runs : Recover(r)
    BY <1>1, <2>1 DEF StartWorker, Serve, Terminate, Recover, controlVars
  <2>2. CASE Exit \/ Crash
    BY <1>2, <2>2 DEF Exit, Crash, LoseMemory
  <2> QED
    BY <1>5, <2>1, <2>2 DEF Process, Boot
<1>6. ASSUME NEW c \in Clients, Handler(c) PROVE CancelHitsItsRun'
  <2>1. CASE NotifyWorker(c)
    <3>1. CASE active = target[c]
      <4>1. target[c] \in Runs /\ status[target[c]] = "cancelled"
        BY <2>1 DEF NotifyWorker, Notifying, TypeOK, HandlersOK
      <4>2. status'[target[c]] = "cancelled"
        BY <4>1, CancelledStays
      <4> QED
        BY <2>1, <3>1, <4>1, <4>2 DEF NotifyWorker, CancelHitsItsRun
    <3>2. CASE active # target[c]
      BY <1>1, <2>1, <3>2 DEF NotifyWorker, Interrupts, TypeOK, ControlOK
    <3> QED
      BY <3>1, <3>2
  <2>2. CASE ~NotifyWorker(c)
    BY <1>1, <1>6, <2>2 DEF Handler, Start, Retry, CancelRun, CreateRun, ResetRunForRetry,
                            GiveUp, Signal, controlVars
  <2> QED
    BY <2>1, <2>2
<1>7. CASE UNCHANGED vars
  BY <1>1, <1>7 DEF vars, controlVars
<1> QED
  BY <1>3, <1>4, <1>5, <1>6, <1>7 DEF Next, Worker, Faults, ExecuteStep, LoopStep

\* The worker executes a cancelled run only while its handler has yet to notify.
LEMMA ReachKept ==
    ASSUME EngineAssumption, TypeOK, StoreInv, Published, CancelReachesWorker, [Next]_vars
    PROVE  CancelReachesWorker'
<1> DEFINE Told(r) == \/ userCancelled
                      \/ \E c \in Clients : cpc[c] = "notify" /\ target[c] = r
<1> SUFFICES ASSUME NEW r \in Runs, status'[r] = "cancelled", cur' = r,
                    pc' \notin {"claimed", "reload", "release"}
             PROVE  Told(r)'
  BY DEF CancelReachesWorker
<1>1. pc' \in PublishedPcs \ {"reload", "release"} /\ active' = cur'
  BY PublishedKept, TypeStep, EngineAssumption
     DEF Published, PublishedPcs, OnStep, WorkerPcs, TypeOK, WorkerOK, EngineAssumption
<1>2. ASSUME status[r] = "cancelled", UNCHANGED <<pc, cur, userCancelled, cpc, target>>
      PROVE  Told(r)'
  BY <1>2 DEF CancelReachesWorker
<1>3. CASE ExecuteStep
  <2>1. /\ status[r] = "cancelled" /\ cur = r /\ pc \notin {"claimed", "release"}
        /\ UNCHANGED <<userCancelled, cpc, target>>
    BY <1>3, ExecuteMoves, OthersDoNotCancel DEF PublishedPcs, OnStep
  <2>2. pc # "reload"
    BY <1>1, <1>3, <2>1, ExecuteMoves DEF PublishedPcs, OnStep
  <2> QED
    BY <2>1, <2>2 DEF CancelReachesWorker
<1>4. CASE LoopStep
  BY <1>1, <1>4 DEF LoopStep, WakeUp, WorkerExit, ClaimNextPendingRun, NothingToClaim,
                    ClaimInterrupted, ClaimFails, ClaimLost, Publish, Release, PublishedPcs,
                    OnStep
<1>5. CASE Process
  <2>1. CASE Exit \/ Crash \/ Serve
    BY <1>1, <2>1 DEF Exit, Crash, LoseMemory, Serve, PublishedPcs, OnStep
  <2>2. CASE StartWorker \/ Terminate \/ \E x \in Runs : Recover(x)
    BY <1>2, <1>5, <2>2, OthersDoNotCancel DEF StartWorker, Terminate, Recover, controlVars,
       clientVars, localVars
  <2> QED
    BY <1>5, <2>1, <2>2 DEF Process, Boot
<1>6. ASSUME NEW c \in Clients, Handler(c) PROVE Told(r)'
  <2>1. cur = r /\ pc = pc' /\ active = r
    BY <1>1, <1>6, HandlerMoves
  <2>2. CASE \E x \in Runs : CancelRun(c, x)
    <3>1. PICK x \in Runs : CancelRun(c, x)
      BY <2>2
    <3>2. cpc'[c] = "notify" /\ target'[c] = x /\ userCancelled' = userCancelled
      BY <3>1 DEF CancelRun, Call, Goto, TypeOK, HandlersOK, controlVars
    <3>3. CASE x = r
      BY <3>2, <3>3
    <3>4. CASE x # r
      <4>1. status[r] = "cancelled" /\ cpc[c] = "idle"
        BY <3>1, <3>4 DEF CancelRun, Call, TypeOK, RunRowsOK
      <4>2. userCancelled \/ \E b \in Clients \ {c} : cpc[b] = "notify" /\ target[b] = r
        BY <2>1, <4>1 DEF CancelReachesWorker
      <4> QED
        BY <1>6, <3>2, <4>2, HandlerMoves
    <3> QED
      BY <3>3, <3>4
  <2>3. CASE ~\E x \in Runs : CancelRun(c, x)
    <3>1. status[r] = "cancelled"
      BY <1>6, <2>3 DEF Handler, Start, Retry, CreateRun, ResetRunForRetry, RequeueRun, GiveUp,
         Signal, NotifyWorker, dbVars, runVars, TypeOK, RunRowsOK, HandlersOK
    <3>2. userCancelled \/ \E b \in Clients : cpc[b] = "notify" /\ target[b] = r
      BY <2>1, <3>1 DEF CancelReachesWorker
    <3>3. userCancelled => userCancelled'
      BY <1>6, <2>3 DEF Handler, Start, Retry, CreateRun, ResetRunForRetry, GiveUp, Signal,
                        NotifyWorker, controlVars
    <3>4. cpc[c] = "notify" /\ target[c] = r => userCancelled'
      BY <1>6, <2>1, <2>3 DEF Handler, Start, Retry, Call, CreateRun, ResetRunForRetry, GiveUp,
                              Signal, NotifyWorker, Interrupts
    <3> QED
      BY <1>6, <3>2, <3>3, <3>4, HandlerMoves
  <2> QED
    BY <2>2, <2>3
<1>7. CASE UNCHANGED vars
  BY <1>2, <1>7 DEF vars, dbVars, runVars, controlVars, localVars, clientVars
<1> QED
  BY <1>3, <1>4, <1>5, <1>6, <1>7 DEF Next, Worker, Faults, ExecuteStep, LoopStep

\* Whoever makes a run pending while the worker sleeps is about to signal, or has.
LEMMA WakeUpKept ==
    ASSUME EngineAssumption, TypeOK, StoreInv, NoLostWakeUp, [Next]_vars
    PROVE  NoLostWakeUp'
<1> SUFFICES ASSUME phase' = "up", pc' = "idle", ~stop', Pending' # {}
             PROVE  (wake \/ \E c \in Clients : cpc[c] = "signal")'
  BY DEF NoLostWakeUp
<1>1. ASSUME Pending \subseteq Pending', Pending' \subseteq Pending,
             UNCHANGED <<phase, pc, stop, wake, cpc>>
      PROVE  wake' \/ \E c \in Clients : cpc'[c] = "signal"
  BY <1>1 DEF NoLostWakeUp
<1>2. CASE ExecuteStep
  BY <1>2, ExecuteMoves DEF PublishedPcs, OnStep
<1>3. CASE LoopStep
  <2>1. CASE WakeUp \/ WorkerExit \/ ClaimNextPendingRun \/ Publish \/ Release \/ ClaimFails
    BY <2>1 DEF WakeUp, WorkerExit, ClaimNextPendingRun, Publish, Release, ClaimFails
  <2>2. CASE NothingToClaim
    BY <2>2 DEF NothingToClaim, WorkerFrame, Pending, dbVars, runVars
  <2>3. CASE ClaimInterrupted
    BY <2>3 DEF ClaimInterrupted, ClaimLost, WorkerFrame
  <2> QED
    BY <1>3, <2>1, <2>2, <2>3 DEF LoopStep
<1>4. CASE Process
  BY <1>4 DEF Process, Boot, StartWorker, Serve, Recover, Terminate, Exit, Crash, LoseMemory
<1>5. ASSUME NEW c \in Clients, Handler(c)
      PROVE  wake' \/ \E b \in Clients : cpc'[b] = "signal"
  <2>1. CASE CreateRun(c) \/ ResetRunForRetry(c) \/ Signal(c)
    <3>1. CASE cpc'[c] = "signal" \/ wake'
      BY <3>1
    <3>2. CASE cpc'[c] # "signal" /\ ~wake'
      <4>1. CreateRun(c) /\ status' = status
        BY <2>1, <3>2 DEF CreateRun, ResetRunForRetry, Signal, Goto, TypeOK, HandlersOK
      <4>2. Pending' = Pending /\ wake' = wake /\ cpc[c] = "create"
        BY <4>1 DEF Pending, CreateRun, processVars
      <4> QED
        BY <1>5, <4>2, HandlerMoves DEF NoLostWakeUp
    <3> QED
      BY <3>1, <3>2
  <2>2. CASE ~(CreateRun(c) \/ ResetRunForRetry(c) \/ Signal(c))
    <3>1. Pending' \subseteq Pending /\ wake' = wake /\ cpc[c] # "signal"
      BY <1>5, <2>2 DEF Handler, Start, Retry, CancelRun, Call, GiveUp, NotifyWorker, Pending,
         TypeOK, RunRowsOK, dbVars, runVars, processVars
    <3> QED
      BY <1>5, <3>1, HandlerMoves DEF NoLostWakeUp
  <2> QED
    BY <2>1, <2>2
<1>6. CASE UNCHANGED vars
  BY <1>1, <1>6 DEF vars, dbVars, runVars, processVars, clientVars, Pending
<1> QED
  BY <1>2, <1>3, <1>4, <1>5, <1>6 DEF Next, Worker, Faults, ExecuteStep, LoopStep

\* The handshake of the worker with the handlers is right in every state.
THEOREM HandshakeTheorem == Spec => []ControlInv
<1>1. Init => ControlInv
  BY EngineAssumption DEF Init, ControlInv, Published, PublishedPcs, OnStep, Notifying,
     CancelHitsItsRun, CancelReachesWorker, NoLostWakeUp, EngineAssumption
<1>2. TypeOK /\ StoreInv /\ ControlInv /\ [Next]_vars => ControlInv'
  BY EngineAssumption, PublishedKept, NotifyingKept, InterruptKept, ReachKept, WakeUpKept
     DEF ControlInv
<1> QED
  BY <1>1, <1>2, TypeCorrect, StoreConsistent, PTL DEF Spec

\* A handler's interrupt hits the run it cancelled, never the one claimed after it.
THEOREM InterruptTheorem == Spec => []CancelHitsItsRun
<1>1. ControlInv => CancelHitsItsRun
  BY DEF ControlInv
<1> QED
  BY <1>1, HandshakeTheorem, PTL

\* A cancellation that races with the claim is seen by the worker or still to be told.
THEOREM ReachTheorem == Spec => []CancelReachesWorker
<1>1. ControlInv => CancelReachesWorker
  BY DEF ControlInv
<1> QED
  BY <1>1, HandshakeTheorem, PTL

\* The worker never sleeps on a pending run.
THEOREM WakeUpTheorem == Spec => []NoLostWakeUp
<1>1. ControlInv => NoLostWakeUp
  BY DEF ControlInv
<1> QED
  BY <1>1, HandshakeTheorem, PTL

-----------------------------------------------------------------------------
(* The running runs.                                                       *)

\* Counters of disturbances never go down.
LEMMA SpentGrows ==
    ASSUME TypeOK, [Next]_vars, NEW d \in Disturbances
    PROVE  spent'[d] \in Nat /\ spent[d] \in Nat /\ spent[d] <= spent'[d]
<1>1. spent \in [Disturbances -> Nat]
  BY DEF TypeOK, BoundsOK
<1>2. spent' = spent \/ \E e \in Disturbances : spent' = [spent EXCEPT ![e] = @ + 1]
  <2>1. CASE Worker
    BY <2>1 DEF Worker, WakeUp, WorkerExit, ClaimNextPendingRun, NothingToClaim,
       ClaimInterrupted, Publish, Reload, Release, SkipCompleted, BeginStep, MapInput,
       BeginAttempt, Execute, CompleteStep, RecordFailure, Backoff, SkipStep, FailRun,
       CompleteRun, Abandon, EnterFailRun, RefusedAt
  <2>2. CASE Faults
    BY <2>2 DEF Faults, ClaimFails, StoreFails, SkipFails, Expire, Spend, Disturbances
  <2>3. CASE Process
    BY <2>3 DEF Process, Boot, StartWorker, Serve, Recover, Terminate, Exit, Crash,
       Spend, Disturbances, boundVars
  <2>4. ASSUME NEW c \in Clients, Handler(c)
        PROVE  spent' = spent \/ \E e \in Disturbances : spent' = [spent EXCEPT ![e] = @ + 1]
    BY <2>4 DEF Handler, Start, Retry, CancelRun, CreateRun, ResetRunForRetry, GiveUp, Signal,
       NotifyWorker, Spend, Disturbances, boundVars
  <2>5. CASE UNCHANGED vars
    BY <2>5 DEF vars, boundVars
  <2> QED
    BY <2>1, <2>2, <2>3, <2>4, <2>5 DEF Next
<1> QED
  BY <1>1, <1>2

\* The worker lets go of a run that says "running" only when it is stopped, at the
\* deadline or after a failed call.
LEMMA LetsGo ==
    ASSUME TypeOK, ControlInv, expired => spent["timeout"] > 0, ExecuteStep,
           pc' = "release", status'[cur] = "running"
    PROVE  stop \/ spent["timeout"] > 0 \/ spent'["fault"] > 0
<1>1. CASE StoreFails
  BY <1>1 DEF StoreFails, Spend, TypeOK, BoundsOK, Disturbances
<1>2. CASE Abandon /\ ~Writable(cur)
  BY <1>2 DEF Abandon, Writable, dbVars, runVars
<1>3. CASE Abandon /\ CtxDone
  BY <1>3, ExecuteMoves DEF Abandon, CtxDone, ControlInv, CancelHitsItsRun, Published,
                            PublishedPcs, dbVars, runVars
<1>4. CASE FailRun \/ CompleteRun
  BY <1>2, <1>3, <1>4, ExecuteMoves
     DEF FailRun, CompleteRun, RefusedAt, TypeOK, WorkerOK, RunRowsOK
<1>5. CASE Reload
  BY <1>3, <1>5 DEF Reload, Executable, Abandon, dbVars, runVars, WorkerGoto
<1>6. CASE \/ SkipCompleted \/ BeginStep \/ MapInput \/ BeginAttempt \/ Execute \/ CompleteStep
           \/ RecordFailure \/ Backoff \/ SkipStep \/ SkipFails \/ Expire
  BY <1>2, <1>3, <1>6 DEF SkipCompleted, BeginStep, MapInput, BeginAttempt, Execute,
     CompleteStep, RecordFailure, Backoff, SkipStep, SkipFails, Expire, EnterFailRun, RefusedAt,
     WorkerGoto, TypeOK, WorkerOK
<1> QED
  BY <1>1, <1>4, <1>5, <1>6 DEF ExecuteStep

\* Only the claim makes a run running.
LEMMA OnlyClaimRuns ==
    ASSUME TypeOK, [Next]_vars, ~ClaimNextPendingRun, NEW r \in Runs, status'[r] = "running"
    PROVE  status[r] = "running"
<1> USE DEF TypeOK, RunRowsOK, dbVars, runVars
<1>1. CASE Worker
  BY <1>1 DEF Worker, WakeUp, WorkerExit, NothingToClaim, ClaimInterrupted, ClaimLost, Publish,
     Reload, Release, SkipCompleted, BeginStep, MapInput, BeginAttempt, Execute, CompleteStep,
     RecordFailure, Backoff, SkipStep, FailRun, CompleteRun, Abandon, EnterFailRun, RefusedAt
<1>2. CASE Faults
  BY <1>2 DEF Faults, ClaimFails, ClaimLost, StoreFails, SkipFails, Expire
<1>3. CASE Process
  BY <1>3 DEF Process, Boot, StartWorker, Serve, Recover, RequeueRun, Terminate, Exit, Crash,
     LoseMemory
<1>4. ASSUME NEW c \in Clients, Handler(c) PROVE status[r] = "running"
  BY <1>4 DEF Handler, Start, Retry, CancelRun, CreateRun, ResetRunForRetry, RequeueRun, GiveUp,
     Signal, NotifyWorker
<1>5. CASE UNCHANGED vars
  BY <1>5 DEF vars
<1> QED
  BY <1>1, <1>2, <1>3, <1>4, <1>5 DEF Next

\* Every step preserves RunningInv.
LEMMA RunningKept ==
    ASSUME EngineAssumption, TypeOK, StoreInv, ControlInv, RunningInv, [Next]_vars
    PROVE  RunningInv'
<1>1. Unfailing' /\ stop' = stop => Unfailing
  BY SpentGrows DEF Unfailing, Disturbances
<1>2. expired' => spent'["timeout"] > 0
  <2>1. expired' => expired \/ Expire
    <3>1. CASE Worker
      BY <3>1 DEF Worker, WakeUp, WorkerExit, ClaimNextPendingRun, NothingToClaim,
         ClaimInterrupted, ClaimLost, Publish, Reload, Release, SkipCompleted, BeginStep,
         MapInput, BeginAttempt, Execute, CompleteStep, RecordFailure, Backoff, SkipStep,
         FailRun, CompleteRun, Abandon, EnterFailRun, RefusedAt, WorkerGoto, controlVars
    <3>2. CASE Faults \/ Process
      BY <3>2 DEF Faults, ClaimFails, ClaimLost, StoreFails, SkipFails, WorkerGoto, Process,
         Boot, StartWorker, Serve, Recover, Terminate, Exit, Crash, LoseMemory, controlVars
    <3>3. CASE \E c \in Clients : Handler(c)
      BY <3>3, HandlerMoves
    <3>4. CASE UNCHANGED vars
      BY <3>4 DEF vars, controlVars
    <3> QED
      BY <3>1, <3>2, <3>3, <3>4 DEF Next
  <2>2. Expire => spent'["timeout"] > 0
    BY DEF Expire, Spend, TypeOK, BoundsOK, Disturbances
  <2>3. expired => spent'["timeout"] > 0
    BY SpentGrows DEF RunningInv, Disturbances
  <2> QED
    BY <2>1, <2>2, <2>3
<1>3. CASE ExecuteStep \/ LoopStep
  <2>1. phase = "up" /\ phase' = "up" /\ stop' = stop
    BY <1>3, ExecuteMoves, WorkerServes
       DEF LoopStep, WakeUp, WorkerExit, ClaimNextPendingRun, NothingToClaim, ClaimInterrupted,
           ClaimFails, ClaimLost, Publish, Release, WorkerFrame, StoreInv, ProcessInv,
           PublishedPcs, OnStep
  <2>2. ASSUME pc' = "release", Unfailing' PROVE status'[cur'] # "running"
    <3>1. CASE ExecuteStep
      <4>1. cur' = cur
        BY <3>1, ExecuteMoves
      <4> QED
        BY <1>1, <2>1, <2>2, <3>1, <4>1, LetsGo DEF Unfailing, RunningInv, TypeOK, BoundsOK,
           Disturbances
    <3>2. CASE LoopStep
      BY <2>2, <3>2 DEF LoopStep, WakeUp, WorkerExit, ClaimNextPendingRun, NothingToClaim,
         ClaimInterrupted, ClaimFails, ClaimLost, Publish, Release
    <3> QED
      BY <1>3, <3>1, <3>2
  <2>3. ASSUME Unfailing', NEW r \in Runs, status'[r] = "running" PROVE cur' = r
    <3>1. CASE ClaimNextPendingRun
      <4>1. cur = NoRun
        BY <3>1 DEF ClaimNextPendingRun, ControlInv, Published
      <4>2. status[r] # "running"
        BY <1>1, <2>1, <2>3, <4>1, EngineAssumption
           DEF RunningInv, RunningIsExecuted, Unfailing, EngineAssumption
      <4> QED
        BY <2>3, <3>1, <4>2 DEF ClaimNextPendingRun, TypeOK, RunRowsOK
    <3>2. CASE ~ClaimNextPendingRun
      <4>1. status[r] = "running"
        BY <2>3, <3>2, OnlyClaimRuns
      <4>2. cur = r
        BY <1>1, <2>1, <2>3, <4>1 DEF RunningInv, RunningIsExecuted, Unfailing
      <4>3. ~Release /\ ~ClaimInterrupted /\ ~ClaimFails
        <5>1. ~Release
          BY <1>1, <2>1, <2>3, <4>1, <4>2 DEF Release, RunningInv
        <5>2. ~ClaimInterrupted
          BY <2>1, <2>3 DEF ClaimInterrupted, Unfailing
        <5>3. ~ClaimFails
          BY <2>3 DEF ClaimFails, Spend, Unfailing, TypeOK, BoundsOK, Disturbances
        <5> QED
          BY <5>1, <5>2, <5>3
      <4>4. cur' = cur
        BY <1>3, <3>2, <4>3, ExecuteMoves DEF LoopStep, WakeUp, WorkerExit, NothingToClaim,
           Publish, localVars
      <4> QED
        BY <4>2, <4>4
    <3> QED
      BY <3>1, <3>2
  <2> QED
    BY <1>2, <2>1, <2>2, <2>3 DEF RunningInv, RunningIsExecuted, Unfailing
<1>4. CASE Process
  <2>1. CASE StartWorker
    <3>1. phase' = "recovering" /\ pc' = "off" /\ status' = status
      BY <2>1 DEF StartWorker, StoreInv, ProcessInv, dbVars, runVars
    <3>2. spent'["fault"] = 0 => toRecover' = Recoverable
      BY <2>1 DEF StartWorker, Spend, TypeOK, BoundsOK, Disturbances
    <3> QED
      BY <1>2, <3>1, <3>2 DEF RunningInv, RunningIsExecuted, Recoverable, Interrupted
  <2>2. ASSUME NEW x \in Runs, Recover(x) PROVE RunningInv'
    <3>1. /\ phase = "recovering" /\ phase' = "recovering" /\ pc' = "off"
          /\ status' = [status EXCEPT ![x] = "pending"] /\ toRecover' = toRecover \ {x}
      BY <2>2 DEF Recover, RequeueRun, StoreInv, ProcessInv
    <3>2. ASSUME spent'["fault"] = 0, NEW r \in Runs, status'[r] = "running"
          PROVE  r \in toRecover'
      BY <2>2, <3>1, <3>2 DEF Recover, boundVars, RunningInv, TypeOK, RunRowsOK
    <3> QED
      BY <1>2, <3>1, <3>2 DEF RunningInv, RunningIsExecuted
  <2>3. CASE Serve
    <3>1. /\ phase = "recovering" /\ toRecover = {} /\ phase' = "up" /\ pc' = "idle"
          /\ status' = status /\ spent' = spent
      BY <2>3 DEF Serve, dbVars, runVars, boundVars
    <3>2. spent'["fault"] = 0 => \A r \in Runs : status'[r] # "running"
      BY <3>1 DEF RunningInv
    <3> QED
      BY <1>2, <3>1, <3>2 DEF RunningInv, RunningIsExecuted
  <2>4. CASE Terminate
    BY <1>2, <2>4 DEF Terminate, RunningInv, RunningIsExecuted, Unfailing
  <2>5. CASE Exit \/ Crash
    BY <1>2, <2>5 DEF Exit, Crash, LoseMemory, RunningInv, RunningIsExecuted
  <2> QED
    BY <1>4, <2>1, <2>2, <2>3, <2>4, <2>5 DEF Process, Boot
<1>5. CASE (\E c \in Clients : Handler(c)) \/ UNCHANGED vars
  <2>1. /\ UNCHANGED <<phase, toRecover, stop, pc, cur>>
        /\ ~ClaimNextPendingRun
    BY <1>5, HandlerMoves DEF vars, processVars, localVars, ClaimNextPendingRun
  <2>2. \A r \in Runs : status'[r] = "running" => status[r] = "running"
    BY <2>1, OnlyClaimRuns
  <2>3. pc = "release" => cur \in Runs
    BY DEF TypeOK, WorkerOK
  <2>4. spent'["fault"] = 0 => spent["fault"] = 0
    BY SpentGrows DEF Disturbances
  <2> QED
    BY <1>1, <1>2, <2>1, <2>2, <2>3, <2>4 DEF RunningInv, RunningIsExecuted, Unfailing
<1> QED
  BY <1>3, <1>4, <1>5 DEF Next, Worker, Faults, ExecuteStep, LoopStep

\* While the process serves undisturbed, a run that says "running" is the one the worker
\* executes.
THEOREM RunningTheorem == Spec => []RunningIsExecuted
<1>1. Init => RunningInv
  BY DEF Init, RunningInv, RunningIsExecuted
<1>2. TypeOK /\ StoreInv /\ ControlInv /\ RunningInv /\ [Next]_vars => RunningInv'
  BY EngineAssumption, RunningKept
<1>3. RunningInv => RunningIsExecuted
  BY DEF RunningInv
<1> QED
  BY <1>1, <1>2, <1>3, TypeCorrect, StoreConsistent, HandshakeTheorem, PTL DEF Spec

-----------------------------------------------------------------------------
(* The attempts.                                                           *)

\* More executions, more attempts.
LEMMA CapGrows ==
    ASSUME NEW i \in Steps, NEW n \in Nat, NEW m \in Nat
    PROVE  /\ Cap(i, n) \in Nat /\ MaxAttempts[i] \in Nat \ {0}
           /\ Cap(i, n + 1) = Cap(i, n) + MaxAttempts[i]
           /\ n <= m => Cap(i, n) <= Cap(i, m)
<1>1. MaxAttempts[i] \in Nat \ {0}
  BY EngineAssumption DEF EngineAssumption
<1> DEFINE a == MaxAttempts[i]
<1> HIDE DEF a
<1>2. a \in Nat /\ a * n \in Nat /\ a * (n + 1) = a * n + a
  BY <1>1 DEF a
<1>3. ASSUME n <= m PROVE a * n <= a * m
  <2>1. PICK d \in Nat : m = n + d
    <3>1. m - n \in Nat /\ m = n + (m - n)
      BY <1>3
    <3> QED
      BY <3>1
  <2>2. a * d \in Nat /\ a * (n + d) = a * n + a * d
    BY <1>2
  <2> QED
    BY <1>2, <2>1, <2>2
<1> QED
  BY <1>1, <1>2, <1>3 DEF Cap, a

\* What is granted is a number, and grows with a retry and an end of the process.
LEMMA GrantedGrows ==
    ASSUME TypeOK, TriesInv
    PROVE  /\ Granted \in Nat
           /\ Exit \/ Crash \/ (\E c \in Clients : ResetRunForRetry(c)) =>
                 Granted' \in Nat /\ Granted + 1 <= Granted'
           /\ Terminate => Granted' = Granted
           /\ UNCHANGED stop /\ (UNCHANGED spent \/ Spend("fault") \/ Spend("timeout")) =>
                 Granted' = Granted
<1>1. /\ spent \in [Disturbances -> Nat] /\ stop \in BOOLEAN
      /\ "retry" \in Disturbances /\ "stop" \in Disturbances
  BY DEF TypeOK, BoundsOK, ProcessOK, Disturbances
<1>2. Granted \in Nat
  BY <1>1 DEF Granted, TriesInv
<1>3. ASSUME Exit \/ Crash PROVE Granted' \in Nat /\ Granted + 1 <= Granted'
  <2>1. spent'["retry"] = spent["retry"] /\ ~stop'
    BY <1>1, <1>3 DEF Exit, Crash, LoseMemory, Spend
  <2>2. spent'["stop"] = spent["stop"] + 1 \/ (stop /\ spent'["stop"] = spent["stop"])
    <3>1. Exit => stop /\ spent'["stop"] = spent["stop"]
      BY DEF Exit
    <3>2. Crash => spent'["stop"] = spent["stop"] + 1
      BY <1>1 DEF Crash, Spend
    <3> QED
      BY <1>3, <3>1, <3>2
  <2> QED
    BY <1>1, <2>1, <2>2 DEF Granted
<1>4. ASSUME NEW c \in Clients, ResetRunForRetry(c)
      PROVE  Granted' \in Nat /\ Granted + 1 <= Granted'
  <2>1. /\ spent'["retry"] = spent["retry"] + 1 /\ spent'["stop"] = spent["stop"]
        /\ stop' = stop
    BY <1>1, <1>4 DEF ResetRunForRetry, processVars, Spend
  <2> QED
    BY <1>1, <1>2, <2>1 DEF Granted
<1>5. Terminate => Granted' = Granted
  BY <1>1 DEF Terminate, Spend, Granted
<1>6. UNCHANGED stop /\ (UNCHANGED spent \/ Spend("fault") \/ Spend("timeout")) =>
         Granted' = Granted
  BY <1>1 DEF Spend, Granted
<1> QED
  BY <1>2, <1>3, <1>4, <1>5, <1>6

\* More is granted, and no attempt is recorded.
LEMMA Raised ==
    ASSUME TypeOK, TypeOK', TriesInv, TriesInv', NEW r \in Runs, NEW i \in Steps,
           WithinBudget(r, i), Granted \in Nat, Granted' \in Nat, Granted + 1 <= Granted',
           attempt'[r][i] = attempt[r][i]
    PROVE  WithinBudget(r, i)'
<1> DEFINE g == Granted
           h == Granted'
<1>1. /\ attempt[r][i] \in Nat /\ tries \in Nat /\ tries' \in Nat
      /\ i = idx /\ pc \in Trying => tries <= MaxAttempts[i]
  BY DEF TypeOK, StepRowsOK, WorkerOK, TriesInv
<1>2. /\ Cap(i, g) \in Nat /\ Cap(i, h) \in Nat /\ MaxAttempts[i] \in Nat
      /\ Cap(i, g) + MaxAttempts[i] <= Cap(i, h)
  <2>1. g \in Nat /\ h \in Nat /\ g + 1 \in Nat /\ g + 1 <= h
    OBVIOUS
  <2> HIDE DEF g, h
  <2>2. Cap(i, g + 1) <= Cap(i, h) /\ Cap(i, g + 1) = Cap(i, g) + MaxAttempts[i]
    BY <2>1, CapGrows
  <2> QED
    BY <2>1, <2>2, CapGrows
<1>3. Recent(r, i) <= MaxAttempts[i] /\ Recent(r, i) \in Nat
  BY <1>1, <1>2 DEF Recent, Tried
<1>4. Recent(r, i)' \in Nat
  BY <1>1, <1>2 DEF Recent
<1>5. attempt[r][i] <= Cap(i, g) + Recent(r, i)
  BY DEF WithinBudget
<1>6. Cap(i, h) = Cap(i, Granted)'
  BY DEF Cap
<1> HIDE DEF g, h
<1> QED
  BY <1>1, <1>2, <1>3, <1>4, <1>5, <1>6 DEF WithinBudget

\* Nothing is granted and no attempt recorded, and no step is untried that was tried.
LEMMA Spared ==
    ASSUME TypeOK, TypeOK', TriesInv, TriesInv', NEW r \in Runs, NEW i \in Steps,
           WithinBudget(r, i), Granted \in Nat, Granted' = Granted,
           attempt'[r][i] = attempt[r][i],
           Waiting(r)' \/ Untried(r, i)' => Waiting(r) \/ Untried(r, i),
           Tried(r, i)' => Waiting(r) \/ Untried(r, i) \/ (Tried(r, i) /\ tries' = tries)
    PROVE  WithinBudget(r, i)'
<1>1. /\ attempt[r][i] \in Nat /\ tries \in Nat /\ tries' \in Nat
      /\ i = idx /\ pc \in Trying => tries <= MaxAttempts[i]
  BY DEF TypeOK, StepRowsOK, WorkerOK, TriesInv
<1>2. Cap(i, Granted) \in Nat /\ MaxAttempts[i] \in Nat /\ Cap(i, Granted)' = Cap(i, Granted)
  BY CapGrows DEF Cap
<1>3. Recent(r, i) <= MaxAttempts[i] /\ Recent(r, i) \in Nat
  BY <1>1, <1>2 DEF Recent, Tried
<1>4. Recent(r, i)' \in Nat /\ Recent(r, i) <= Recent(r, i)'
  BY <1>1, <1>2, <1>3 DEF Recent
<1> QED
  BY <1>1, <1>2, <1>3, <1>4 DEF WithinBudget

\* The worker's count stays within the limit of the step.
LEMMA TriesKept ==
    ASSUME TypeOK, TypeOK', StoreInv, TriesInv, [Next]_vars
    PROVE  TriesInv'
<1>1. stop' => spent'["stop"] > 0
  <2>1. stop => spent'["stop"] > 0
    BY SpentGrows DEF TriesInv, Disturbances
  <2>2. CASE Terminate
    BY <2>2 DEF Terminate, Spend, TypeOK, BoundsOK, Disturbances
  <2>3. CASE Exit \/ Crash
    BY <2>3 DEF Exit, Crash, LoseMemory
  <2>4. CASE Boot \/ (\E c \in Clients : Handler(c)) \/ UNCHANGED vars
    BY <2>1, <2>4, HandlerMoves DEF Boot, StartWorker, Serve, Recover, vars, processVars
  <2>5. CASE ExecuteStep \/ LoopStep
    BY <2>1, <2>5, ExecuteMoves DEF LoopStep, WakeUp, WorkerExit, ClaimNextPendingRun,
       NothingToClaim, ClaimInterrupted, ClaimFails, ClaimLost, Publish, Release, WorkerFrame
  <2> QED
    BY <2>2, <2>3, <2>4, <2>5 DEF Next, Worker, Faults, Process, ExecuteStep, LoopStep
<1>2. CASE UNCHANGED <<pc, idx, tries>>
  BY <1>1, <1>2 DEF TriesInv
<1>3. CASE pc' \notin OnStep
  BY <1>1, <1>3 DEF TriesInv, Trying, OnStep
<1>4. CASE ExecuteStep /\ pc' \in OnStep
  <2>1. pc \in {"step", "map"} \union Trying
    BY <1>4 DEF ExecuteStep, Reload, SkipCompleted, BeginStep, MapInput, BeginAttempt, Execute,
       CompleteStep, RecordFailure, Backoff, SkipStep, FailRun, CompleteRun, StoreFails,
       SkipFails, Expire, Abandon, EnterFailRun, RefusedAt, AllowedAt, WorkerGoto, OnStep, Trying
  <2>2. idx' \in Steps /\ MaxAttempts[idx'] \in Nat \ {0} /\ tries \in Nat
    BY <1>4, EngineAssumption DEF TypeOK, WorkerOK, OnStep, EngineAssumption
  <2>3. CASE BeginStep
    BY <1>1, <1>4, <2>2, <2>3 DEF BeginStep, RefusedAt, Abandon, WorkerGoto, TriesInv, OnStep,
       Trying
  <2>4. CASE MapInput
    BY <1>1, <1>4, <2>2, <2>4 DEF MapInput, EnterFailRun, Abandon, WorkerGoto, TriesInv, OnStep,
       Trying
  <2>5. CASE BeginAttempt
    BY <1>1, <1>4, <2>2, <2>5 DEF BeginAttempt, RefusedAt, AllowedAt, Abandon, WorkerGoto,
       TriesInv, OnStep, Trying
  <2>6. CASE Execute \/ RecordFailure
    BY <1>1, <1>4, <2>2, <2>6 DEF Execute, RecordFailure, RefusedAt, AllowedAt, Abandon,
       WorkerGoto, TriesInv, OnStep, Trying
  <2>7. CASE Backoff
    BY <1>1, <1>4, <2>2, <2>7 DEF Backoff, AttemptsLeft, EnterFailRun, Abandon, WorkerGoto,
       TriesInv, OnStep, Trying
  <2>8. CASE Expire
    BY <1>2, <2>8 DEF Expire, localVars
  <2>9. CASE Reload \/ SkipCompleted \/ CompleteStep \/ SkipStep \/ FailRun \/ CompleteRun
             \/ StoreFails \/ SkipFails
    BY <1>4, <2>9 DEF Reload, SkipCompleted, CompleteStep, SkipStep, FailRun, CompleteRun,
       StoreFails, SkipFails, Abandon, RefusedAt, WorkerGoto, OnStep
  <2> QED
    BY <1>4, <2>3, <2>4, <2>5, <2>6, <2>7, <2>8, <2>9 DEF ExecuteStep
<1>5. CASE LoopStep
  BY <1>3, <1>5 DEF LoopStep, WakeUp, WorkerExit, ClaimNextPendingRun, NothingToClaim,
     ClaimInterrupted, ClaimFails, ClaimLost, Publish, Release, OnStep
<1>6. CASE Process
  BY <1>2, <1>3, <1>6 DEF Process, Boot, StartWorker, Serve, Recover, Terminate, Exit, Crash,
     LoseMemory, localVars, OnStep
<1>7. CASE \E c \in Clients : Handler(c)
  BY <1>2, <1>7 DEF Handler, Start, Retry, CancelRun, CreateRun, ResetRunForRetry, GiveUp,
     Signal, NotifyWorker, localVars
<1>8. CASE UNCHANGED vars
  BY <1>2, <1>8 DEF vars, localVars
<1> QED
  BY <1>3, <1>4, <1>5, <1>6, <1>7, <1>8 DEF Next, Worker, Faults, ExecuteStep, LoopStep

\* The worker lets no run wait again.
LEMMA WorkerStarts ==
    ASSUME TypeOK, StoreInv, ExecuteStep \/ LoopStep, NEW r \in Runs,
           status'[r] \in {"absent", "pending"}
    PROVE  status[r] \in {"absent", "pending"}
<1> USE DEF TypeOK, RunRowsOK, dbVars, runVars
<1>1. CASE LoopStep
  BY <1>1 DEF LoopStep, WakeUp, WorkerExit, ClaimNextPendingRun, NothingToClaim,
              ClaimInterrupted, ClaimFails, ClaimLost, Publish, Release
<1>2. CASE ExecuteStep
  BY <1>2 DEF ExecuteStep, Reload, SkipCompleted, BeginStep, MapInput, BeginAttempt, Execute,
              CompleteStep, RecordFailure, Backoff, SkipStep, FailRun, CompleteRun, StoreFails,
              SkipFails, Expire, Abandon, EnterFailRun, RefusedAt
<1> QED
  BY <1>1, <1>2

\* A step of execute spends no attempt unrecorded, and one where it records one.
LEMMA ExecuteBudget ==
    ASSUME TypeOK, TypeOK', StoreInv, BudgetInv, TriesInv', ExecuteStep,
           NEW r \in Runs, NEW i \in Steps
    PROVE  WithinBudget(r, i)'
<1>1. /\ UNCHANGED <<phase, stop, cur>> /\ phase = "up"
      /\ Waiting(r)' => Waiting(r)
  BY ExecuteMoves, WorkerServes, WorkerStarts DEF Waiting, StoreInv, PublishedPcs, OnStep
<1>2. Granted \in Nat /\ Granted' = Granted
  <2>1. UNCHANGED spent \/ Spend("fault") \/ Spend("timeout")
    BY DEF ExecuteStep, Reload, SkipCompleted, BeginStep, MapInput, BeginAttempt, Execute,
       CompleteStep, RecordFailure, Backoff, SkipStep, FailRun, CompleteRun, StoreFails,
       SkipFails, Expire, Abandon, EnterFailRun, RefusedAt
  <2> QED
    BY <1>1, <2>1, GrantedGrows DEF BudgetInv
<1>3. WithinBudget(r, i) /\ TriesInv
  BY DEF BudgetInv
<1>4. CASE BeginAttempt /\ ~Abandon
  <2>1. /\ pc = "attempt" /\ pc' = "exec" /\ idx' = idx /\ tries' = tries + 1
        /\ attempt' = [attempt EXCEPT ![cur][idx] = attempt[cur][idx] + 1]
        /\ status' = status /\ Writable(cur)
    BY <1>4 DEF BeginAttempt, RefusedAt, AllowedAt, WorkerGoto, runVars
  <2>2. cur \in Runs /\ idx \in Steps /\ status[cur] = "running"
    BY <2>1, CursorIsPrefix, EngineAssumption DEF OnStep, Writable
  <2>3. CASE r = cur /\ i = idx
    <3>1. /\ attempt[r][i] \in Nat /\ tries \in Nat
          /\ attempt'[r][i] = attempt[r][i] + 1
      BY <2>1, <2>2, <2>3 DEF TypeOK, StepRowsOK, WorkerOK
    <3>2. ~Waiting(r) /\ ~Waiting(r)' /\ ~Untried(r, i) /\ ~Untried(r, i)'
      BY <1>1, <2>1, <2>2, <2>3 DEF Waiting, Untried, Trying, OnStep, Steps
    <3>3. Tried(r, i) /\ Tried(r, i)'
      BY <1>1, <2>1, <2>3 DEF Tried, Trying, OnStep
    <3>4. Recent(r, i) = tries /\ Recent(r, i)' = tries + 1
      BY <2>1, <3>2, <3>3 DEF Recent
    <3>5. Cap(i, Granted) \in Nat /\ Cap(i, Granted)' = Cap(i, Granted)
      BY <1>2, CapGrows DEF Cap
    <3> QED
      BY <1>3, <3>1, <3>4, <3>5 DEF WithinBudget
  <2>4. CASE ~(r = cur /\ i = idx)
    <3>1. attempt'[r][i] = attempt[r][i]
      BY <2>1, <2>2, <2>4 DEF TypeOK, StepRowsOK
    <3>2. Untried(r, i)' => Untried(r, i)
      BY <1>1, <2>1 DEF Untried, Trying, OnStep
    <3>3. ~Tried(r, i)'
      BY <1>1, <2>1, <2>4 DEF Tried
    <3> QED
      BY <1>1, <1>2, <1>3, <3>1, <3>2, <3>3, Spared
  <2> QED
    BY <2>3, <2>4
<1>5. CASE ~(BeginAttempt /\ ~Abandon)
  <2>1. attempt' = attempt
    BY <1>5 DEF ExecuteStep, Reload, SkipCompleted, BeginStep, MapInput, BeginAttempt, Execute,
       CompleteStep, RecordFailure, Backoff, SkipStep, FailRun, CompleteRun, StoreFails,
       SkipFails, Expire, Abandon, EnterFailRun, RefusedAt, dbVars, stepVars
  <2>2. idx \in Int /\ i \in Int
    BY DEF TypeOK, WorkerOK, Steps
  <2>3. /\ Untried(r, i)' => Untried(r, i)
        /\ Tried(r, i)' => Untried(r, i) \/ (Tried(r, i) /\ tries' = tries)
    <3> USE DEF Untried, Tried, Trying, OnStep, WorkerGoto, Abandon, RefusedAt, AllowedAt
    <3>1. CASE Reload \/ Execute \/ RecordFailure
      BY <1>1, <2>2, <3>1 DEF Reload, Execute, RecordFailure, Steps
    <3>8. CASE SkipCompleted \/ CompleteStep
      BY <1>1, <2>2, <3>8 DEF SkipCompleted, CompleteStep
    <3>2. CASE BeginStep
      BY <1>1, <2>2, <3>2 DEF BeginStep
    <3>3. CASE MapInput
      <4>1. pc = "map" /\ (pc' = "attempt" => idx' = idx) /\ pc' \in {"attempt", "skip", "release"}
        BY <3>3 DEF MapInput, EnterFailRun
      <4> QED
        BY <1>1, <2>2, <4>1
    <3>4. CASE BeginAttempt
      BY <1>1, <1>5, <2>2, <3>4 DEF BeginAttempt
    <3>5. CASE Backoff
      BY <1>1, <2>2, <3>5 DEF Backoff, EnterFailRun
    <3>6. CASE SkipStep \/ FailRun \/ CompleteRun \/ StoreFails \/ SkipFails
      BY <1>1, <3>6 DEF SkipStep, FailRun, CompleteRun, StoreFails, SkipFails
    <3>7. CASE Expire
      BY <3>7 DEF Expire, localVars
    <3> QED
      BY <3>1, <3>2, <3>3, <3>4, <3>5, <3>6, <3>7, <3>8 DEF ExecuteStep
  <2> QED
    BY <1>1, <1>2, <1>3, <2>1, <2>3, Spared
<1> QED
  BY <1>4, <1>5

\* Every step preserves BudgetInv.
LEMMA BudgetKept ==
    ASSUME TypeOK, TypeOK', StoreInv, ControlInv, BudgetInv, [Next]_vars
    PROVE  BudgetInv'
<1>1. TriesInv /\ TriesInv'
  BY TriesKept DEF BudgetInv
<1>2. Granted \in Nat
  BY <1>1, GrantedGrows
<1> SUFFICES ASSUME NEW r \in Runs, NEW i \in Steps PROVE WithinBudget(r, i)'
  BY <1>1 DEF BudgetInv
<1>3. WithinBudget(r, i)
  BY DEF BudgetInv
<1>4. CASE ExecuteStep
  BY <1>1, <1>4, ExecuteBudget
<1>5. CASE LoopStep
  <2> USE DEF LoopStep, WakeUp, WorkerExit, ClaimNextPendingRun, NothingToClaim,
              ClaimInterrupted, ClaimFails, ClaimLost, Publish, Release, WorkerFrame
  <2>1. attempt' = attempt /\ UNCHANGED <<phase, stop>>
    BY <1>5 DEF dbVars, stepVars
  <2>2. UNCHANGED spent \/ Spend("fault")
    BY <1>5
  <2>3. Granted' = Granted
    BY <1>1, <2>1, <2>2, GrantedGrows
  <2>4. Waiting(r)' => Waiting(r)
    BY <1>5, <2>1, WorkerStarts DEF Waiting
  <2>5. Untried(r, i)' => Waiting(r) \/ Untried(r, i)
    BY <1>5 DEF Untried, Trying, OnStep, Waiting, Oldest, Pending, localVars
  <2>6. ~Tried(r, i)'
    BY <1>5 DEF Tried, Trying, OnStep
  <2> QED
    BY <1>1, <1>2, <1>3, <2>1, <2>3, <2>4, <2>5, <2>6, Spared
<1>6. CASE Exit \/ Crash
  <2>1. attempt' = attempt
    BY <1>6 DEF Exit, Crash, LoseMemory, dbVars, stepVars
  <2>2. Granted' \in Nat /\ Granted + 1 <= Granted'
    BY <1>1, <1>6, GrantedGrows
  <2> QED
    BY <1>1, <1>2, <1>3, <2>1, <2>2, Raised
<1>7. CASE Boot
  <2>1. attempt' = attempt /\ phase # "up" /\ stop' = stop
    BY <1>7 DEF Boot, StartWorker, Serve, Recover, RequeueRun, dbVars, stepVars
  <2>2. UNCHANGED spent \/ Spend("fault")
    BY <1>7 DEF Boot, StartWorker, Serve, Recover, boundVars
  <2>3. Granted' = Granted
    BY <1>1, <2>1, <2>2, GrantedGrows
  <2>4. Waiting(r)
    BY <2>1 DEF Waiting
  <2>5. attempt'[r][i] = attempt[r][i]
    BY <2>1
  <2> QED
    BY <1>1, <1>2, <1>3, <2>1, <2>3, <2>4, <2>5, Spared
<1>8. CASE Terminate
  <2>1. /\ Granted' = Granted
        /\ UNCHANGED <<attempt, status, phase, pc, cur, idx, tries>>
    BY <1>1, <1>8, GrantedGrows DEF Terminate, dbVars, runVars, stepVars, localVars
  <2> QED
    BY <1>1, <1>2, <1>3, <2>1, Spared DEF Waiting, Untried, Tried
<1>9. ASSUME NEW c \in Clients, Handler(c) PROVE WithinBudget(r, i)'
  <2>1. attempt' = attempt
    BY <1>9 DEF Handler, Start, Retry, CancelRun, CreateRun, ResetRunForRetry, RequeueRun,
       GiveUp, Signal, NotifyWorker, dbVars, stepVars
  <2>2. CASE ResetRunForRetry(c)
    <3>1. Granted' \in Nat /\ Granted + 1 <= Granted'
      BY <1>1, <2>2, GrantedGrows
    <3> QED
      BY <1>1, <1>2, <1>3, <2>1, <3>1, Raised
  <2>3. CASE ~ResetRunForRetry(c)
    <3>1. UNCHANGED <<stop, spent, phase, pc, cur, idx, tries>>
      BY <1>9, <2>3 DEF Handler, Start, Retry, CancelRun, CreateRun, GiveUp, Signal,
         NotifyWorker, processVars, localVars, boundVars
    <3>2. status'[r] \in {"absent", "pending"} => status[r] \in {"absent", "pending"}
      BY <1>9, <2>3 DEF Handler, Start, Retry, CancelRun, CreateRun, GiveUp, Signal,
         NotifyWorker, dbVars, runVars, TypeOK, RunRowsOK
    <3>3. Granted' = Granted
      BY <1>1, <3>1, GrantedGrows
    <3> QED
      BY <1>1, <1>2, <1>3, <2>1, <3>1, <3>2, <3>3, Spared DEF Waiting, Untried, Tried
  <2> QED
    BY <2>2, <2>3
<1>10. CASE UNCHANGED vars
  <2>1. UNCHANGED <<stop, spent, phase, pc, cur, idx, tries, attempt, status>>
    BY <1>10 DEF vars, dbVars, runVars, stepVars, processVars, localVars, boundVars
  <2>2. Granted' = Granted
    BY <1>1, <2>1, GrantedGrows
  <2> QED
    BY <1>1, <1>2, <1>3, <2>1, <2>2, Spared DEF Waiting, Untried, Tried
<1> QED
  BY <1>4, <1>5, <1>6, <1>7, <1>8, <1>9, <1>10
     DEF Next, Worker, Faults, Process, ExecuteStep, LoopStep

\* No run uses more attempts than were granted.
LEMMA BudgetInvariant == Spec => []BudgetInv
<1>1. Init => BudgetInv
  <2> SUFFICES ASSUME Init PROVE BudgetInv
    OBVIOUS
  <2>1. ~stop /\ pc = "off" /\ spent["retry"] = 0 /\ spent["stop"] = 0 /\ phase = "down"
    BY DEF Init, Disturbances
  <2>2. TriesInv
    BY <2>1 DEF TriesInv, Trying, OnStep
  <2>3. ASSUME NEW r \in Runs, NEW i \in Steps PROVE WithinBudget(r, i)
    <3>1. attempt[r][i] = 0 /\ Recent(r, i) = 0 /\ Granted = 0
      BY <2>1 DEF Init, Recent, Waiting, Granted
    <3>2. Cap(i, 0) \in Nat
      BY CapGrows
    <3> QED
      BY <3>1, <3>2 DEF WithinBudget
  <2> QED
    BY <2>2, <2>3 DEF BudgetInv
<1>2. TypeOK /\ TypeOK' /\ StoreInv /\ ControlInv /\ BudgetInv /\ [Next]_vars => BudgetInv'
  BY BudgetKept
<1> QED
  BY <1>1, <1>2, TypeCorrect, StoreConsistent, HandshakeTheorem, PTL DEF Spec

\* Attempts are recorded one by one, for the published run while it is running, on its
\* first step without a result, and within the limit of each execution.
THEOREM AttemptsTheorem == Spec => AttemptsAreSequential
<1> DEFINE Attempts ==
               \A r \in Runs, i \in Steps : attempt'[r][i] # attempt[r][i] =>
                  /\ attempt'[r][i] = attempt[r][i] + 1
                  /\ attempt'[r][i] <= MaxAttempts[i] * Executions
                  /\ status[r] = "running" /\ active = r
                  /\ Completed(r) = 1 .. i-1
<1>1. TypeOK /\ StoreInv /\ ControlInv /\ BudgetInv /\ [Next]_vars => [Attempts]_vars
  <2> SUFFICES ASSUME TypeOK, StoreInv, ControlInv, BudgetInv, [Next]_vars,
                      NEW r \in Runs, NEW i \in Steps, attempt'[r][i] # attempt[r][i]
               PROVE  /\ attempt'[r][i] = attempt[r][i] + 1
                      /\ attempt'[r][i] <= MaxAttempts[i] * Executions
                      /\ status[r] = "running" /\ active = r
                      /\ Completed(r) = 1 .. i-1
    OBVIOUS
  <2>1. Recorded(r)
    BY StepOfRow DEF Frozen, Effect, Worked, Moved, Progressed
  <2>2. pc = "attempt" => active = cur
    BY DEF ControlInv, Published, PublishedPcs, OnStep
  <2>3. attempt'[r][i] <= MaxAttempts[i] * Executions
    <3>1. pc = "attempt" /\ r = cur /\ Completed(r) = 1 .. i-1
      BY <2>1 DEF Recorded
    <3>2. idx \in Steps /\ Completed(r) = 1 .. idx-1
      BY <3>1, CursorIsPrefix, EngineAssumption DEF OnStep
    <3>3. i = idx
      BY <3>1, <3>2 DEF Steps
    <3>4. WithinBudget(r, i) /\ TriesInv /\ tries < MaxAttempts[i]
      BY <3>1, <3>3 DEF BudgetInv, TriesInv
    <3>5. Recent(r, i) <= tries /\ Recent(r, i) \in Nat /\ tries \in Nat
      BY <3>1, <3>3 DEF Recent, Tried, Trying, OnStep, TypeOK, WorkerOK
    <3>6. Granted \in Nat /\ Executions \in Nat /\ Granted + 1 <= Executions
      <4>1. Granted \in Nat
        BY <3>4, GrantedGrows
      <4>2. spent["retry"] \in Nat /\ spent["stop"] \in Nat
        BY DEF TypeOK, BoundsOK, Disturbances
      <4> QED
        BY <4>1, <4>2 DEF Granted, Executions
    <3>7. /\ Cap(i, Granted) + MaxAttempts[i] <= Cap(i, Executions)
          /\ Cap(i, Granted) \in Nat /\ Cap(i, Executions) \in Nat /\ MaxAttempts[i] \in Nat
      <4> DEFINE g == Granted
                 e == Executions
      <4>1. g \in Nat /\ e \in Nat /\ g + 1 \in Nat /\ g + 1 <= e
        BY <3>6
      <4> HIDE DEF g, e
      <4>2. Cap(i, g + 1) <= Cap(i, e) /\ Cap(i, g + 1) = Cap(i, g) + MaxAttempts[i]
        BY <4>1, CapGrows
      <4>3. Cap(i, g) \in Nat /\ Cap(i, e) \in Nat /\ MaxAttempts[i] \in Nat
        BY <4>1, CapGrows
      <4> QED
        BY <4>2, <4>3 DEF g, e
    <3>8. attempt[r][i] \in Nat /\ attempt'[r][i] = attempt[r][i] + 1
      BY <2>1 DEF Recorded, TypeOK, StepRowsOK
    <3>9. attempt'[r][i] <= Cap(i, Executions)
      BY <3>4, <3>5, <3>7, <3>8 DEF WithinBudget
    <3> QED
      BY <3>9 DEF Cap
  <2> QED
    BY <2>1, <2>2, <2>3 DEF Recorded
<1> QED
  BY <1>1, BudgetInvariant, TypeCorrect, StoreConsistent, HandshakeTheorem, PTL
     DEF Spec, AttemptsAreSequential

-----------------------------------------------------------------------------
(* The failing run.                                                        *)

SameMarks(r) == stepStatus'[r] = stepStatus[r]

\* The marks of a run depend on its steps alone, as lost marks stay possible.
LEMMA MarksKept ==
    ASSUME TypeOK, [Next]_vars, NEW r \in Runs, SameMarks(r)
    PROVE  /\ RowMarks(r) /\ status'[r] = status[r] => RowMarks(r)'
           /\ \A T : Unmarked(r, T) => Unmarked(r, T)'
           /\ \A k, n : FailedAt(r, k, n) => FailedAt(r, k, n)'
<1>1. spent["fault"] > 0 => spent'["fault"] > 0
  BY SpentGrows DEF Disturbances
<1>2. /\ \A T : Unmarked(r, T) => Unmarked(r, T)'
      /\ \A k, n : FailedAt(r, k, n) => FailedAt(r, k, n)'
  BY <1>1 DEF SameMarks, Unmarked, FailedAt, SkippedUpTo, Completed
<1> QED
  BY <1>2 DEF RowMarks

\* A requeued run bears no mark.
LEMMA RequeueUnmarks ==
    ASSUME TypeOK, NEW r \in Runs, RequeueRun(r)
    PROVE  RowMarks(r)' /\ \A x \in Runs \ {r} : SameMarks(x) /\ status'[x] = status[x]
<1>1. /\ status'[r] = "pending"
      /\ \A i \in Steps : stepStatus'[r][i] = KeptStatus(stepStatus[r][i])
      /\ \A x \in Runs \ {r} : SameMarks(x) /\ status'[x] = status[x]
  BY DEF TypeOK, RunRowsOK, StepRowsOK, RequeueRun, SameMarks
<1> QED
  BY <1>1 DEF RowMarks, Unmarked, KeptStatus

\* A step without writes to the marks and the statuses keeps what is said of the rows.
LEMMA NoMarks ==
    ASSUME TypeOK, [Next]_vars, \A r \in Runs : RowMarks(r), UNCHANGED <<status, stepStatus>>
    PROVE  \A r \in Runs : RowMarks(r)'
  BY MarksKept DEF SameMarks

\* failRun begins: the step has failed, its followers are pending.
LEMMA EnterMarks ==
    ASSUME EngineAssumption, TypeOK, StoreInv, WorkerMarks, [Next]_vars,
           pc \in {"map", "backoff"}, EnterFailRun
    PROVE  WorkerMarks'
<1>1. PICK r \in Runs, k \in Steps :
         /\ cur = r /\ cur' = r /\ idx = k /\ idx' = k + 1 /\ pc' = "skip"
         /\ status' = status /\ stepStatus' = stepStatus /\ Completed(r) = 1 .. k-1
  BY CursorIsPrefix DEF EnterFailRun, FirstSkipped, WorkerGoto, dbVars, runVars, stepVars, OnStep
<1>2. CASE status[r] # "running"
  BY <1>1, <1>2 DEF WorkerMarks, OnStep
<1>3. CASE status[r] = "running"
  <2>1. Unmarked(r, {k}) /\ stepStatus[r][k] \in {"pending", "failed"}
    BY <1>1, <1>3 DEF WorkerMarks, OnStep
  <2>2. ASSUME NEW i \in Steps, k + 1 <= i PROVE stepStatus[r][i] = "pending"
    <3>1. i \notin 1 .. k-1 /\ i # k
      BY <2>2 DEF Steps
    <3>2. i \notin Completed(r)
      BY <1>1, <3>1
    <3> QED
      BY <2>1, <3>1, <3>2 DEF Unmarked, Completed
  <2>3. SkippedUpTo(r, k, k + 1)
    BY DEF SkippedUpTo, Steps
  <2>4. FailedAt(r, k, k + 1)
    BY <1>1, <2>1, <2>3 DEF FailedAt
  <2>5. FailedAt(r, k, k + 1)' /\ k < idx'
    BY <1>1, <2>4, MarksKept DEF SameMarks, Steps
  <2>6. FailedAt(cur, k, idx)'
    BY <1>1, <2>5 DEF FailedAt, SkippedUpTo, Completed
  <2> QED
    BY <1>1, <2>2, <2>5, <2>6 DEF WorkerMarks, OnStep
<1> QED
  BY <1>2, <1>3

\* The steps of execute and failRun mark their run as MarksInv says.
LEMMA ExecuteMarks ==
    ASSUME EngineAssumption, TypeOK, StoreInv, WorkerMarks, [Next]_vars, ExecuteStep
    PROVE  WorkerMarks'
<1> USE DEF OnStep
<1>1. PICK r \in Runs : cur = r /\ cur' = r
  BY ExecuteMoves DEF PublishedPcs, TypeOK, WorkerOK
<1>2. status'[r] = "running" => status[r] = "running"
  <2>1. ~ClaimNextPendingRun
    BY ExecuteMoves DEF ClaimNextPendingRun, PublishedPcs
  <2> QED
    BY <2>1, OnlyClaimRuns
<1>3. CASE pc' = "release" \/ status'[r] # "running"
  BY <1>1, <1>3 DEF WorkerMarks
<1>4. CASE EnterFailRun /\ (MapInput \/ Backoff)
  BY <1>4, EnterMarks DEF MapInput, Backoff
<1>5. ASSUME Unmarked(r, {})', pc' = "step" PROVE WorkerMarks'
  BY <1>1, <1>5 DEF WorkerMarks, Unmarked
<1>6. ASSUME NEW k \in Steps, idx' = k, pc' \in OnStep, Unmarked(r, {k})',
             pc' = "map" => stepStatus'[r][k] = "pending",
             pc' = "backoff" => stepStatus'[r][k] = "failed"
      PROVE  WorkerMarks'
  BY <1>1, <1>6 DEF WorkerMarks, Unmarked
<1>7. ASSUME NEW k \in Steps, NEW n \in Nat, idx' = n, pc' = "skip", k < n, FailedAt(r, k, n)',
             \A i \in Steps : n <= i => stepStatus'[r][i] = "pending"
      PROVE  WorkerMarks'
  <2>1. FailedAt(cur, k, idx)'
    BY <1>1, <1>7 DEF FailedAt, SkippedUpTo, Completed
  <2> QED
    BY <1>1, <1>7, <2>1 DEF WorkerMarks
<1>8. ASSUME pc' # "release", status[r] = "running", ~Abandon,
             ~(EnterFailRun /\ (MapInput \/ Backoff))
      PROVE  WorkerMarks'
  <2>1. CASE Reload \/ SkipCompleted
    <3>1. SameMarks(r) /\ Unmarked(r, {}) /\ pc' = "step"
      BY <1>1, <1>8, <2>1 DEF Reload, SkipCompleted, WorkerGoto, WorkerMarks, SameMarks, dbVars,
                              stepVars
    <3> QED
      BY <1>5, <3>1, MarksKept
  <2>2. CASE BeginStep
    <3>1. PICK k \in Steps : idx = k /\ idx' = k /\ stepStatus[r][k] # "completed"
      BY <1>1, <1>8, <2>2 DEF BeginStep, RefusedAt, AllowedAt, AlreadyCompleted, StepsLeft, Steps,
                              TypeOK, WorkerOK, EngineAssumption
    <3>2. SameMarks(r) /\ Unmarked(r, {}) /\ pc' = "map" /\ stepStatus' = stepStatus
      BY <1>1, <1>8, <2>2 DEF BeginStep, RefusedAt, AllowedAt, WorkerGoto, WorkerMarks, SameMarks,
                              stepVars
    <3>3. Unmarked(r, {k}) /\ stepStatus[r][k] = "pending"
      BY <3>1, <3>2 DEF Unmarked
    <3> QED
      BY <1>6, <3>1, <3>2, <3>3, MarksKept
  <2>3. CASE MapInput \/ Execute \/ Backoff
    <3>1. PICK k \in Steps : idx = k /\ idx' = k
      BY <1>8, <2>3 DEF MapInput, Execute, Backoff, TypeOK, WorkerOK
    <3>2. SameMarks(r) /\ Unmarked(r, {k}) /\ pc' \in {"attempt", "ok", "err"}
      BY <1>1, <1>8, <2>3, <3>1 DEF MapInput, Execute, Backoff, WorkerGoto, WorkerMarks,
                                    SameMarks, dbVars, stepVars
    <3> QED
      BY <1>6, <3>1, <3>2, MarksKept
  <2>4. CASE BeginAttempt \/ RecordFailure \/ CompleteStep
    <3>1. PICK k \in Steps : idx = k
      BY <2>4 DEF BeginAttempt, RecordFailure, CompleteStep, RefusedAt, AllowedAt, TypeOK, WorkerOK
    <3>2. Unmarked(r, {k})
      BY <1>1, <1>8, <2>4, <3>1 DEF BeginAttempt, RecordFailure, CompleteStep, RefusedAt, AllowedAt,
                                    WorkerMarks
    <3>3. PICK s \in {"running", "failed", "completed"} :
             /\ stepStatus' = [stepStatus EXCEPT ![r][k] = s]
             /\ \/ s = "running" /\ pc' = "exec" /\ idx' = k
                \/ s = "failed" /\ pc' = "backoff" /\ idx' = k
                \/ s = "completed" /\ pc' = "step"
      BY <1>1, <1>8, <2>4, <3>1 DEF BeginAttempt, RecordFailure, CompleteStep, RefusedAt,
                                    WorkerGoto
    <3>4. /\ stepStatus'[r][k] = s
          /\ \A i \in Steps \ {k} : stepStatus'[r][i] = stepStatus[r][i]
      BY <3>3, StepRow DEF StepStatuses
    <3>5. Unmarked(r, {k})' /\ (s = "completed" => Unmarked(r, {})')
      BY <3>2, <3>4 DEF Unmarked
    <3> QED
      BY <1>5, <1>6, <3>3, <3>4, <3>5
  <2>5. CASE SkipStep \/ SkipFails
    <3>1. PICK n \in Steps : /\ idx = n /\ idx' = n + 1 /\ pc' = "skip"
                             /\ stepStatus[r][n] = "pending" /\ Writable(r)
      BY <1>1, <1>8, <2>5 DEF SkipStep, SkipFails, WorkerGoto, Writable, WorkerMarks, Steps,
                              StepsLeft, TypeOK, WorkerOK, EngineAssumption
    <3>2. PICK k \in Steps : /\ k < n /\ FailedAt(r, k, n)
                             /\ \A i \in Steps : n <= i => stepStatus[r][i] = "pending"
      BY <1>1, <1>8, <2>5, <3>1 DEF SkipStep, SkipFails, WorkerMarks
    <3>3. /\ \A i \in Steps \ {n} : stepStatus'[r][i] = stepStatus[r][i]
          /\ \/ stepStatus'[r][n] = "skipped"
             \/ stepStatus'[r][n] = "pending" /\ spent'["fault"] > 0
      <4>1. CASE SkipStep
        <5>1. stepStatus' = [stepStatus EXCEPT ![r][n] = "skipped"]
          BY <1>1, <3>1, <4>1 DEF SkipStep
        <5> QED
          BY <5>1, StepRow DEF StepStatuses
      <4>2. CASE SkipFails
        BY <3>1, <4>2 DEF SkipFails, Spend, dbVars, stepVars, TypeOK, BoundsOK, Disturbances
      <4> QED
        BY <2>5, <4>1, <4>2
    <3>4. spent["fault"] > 0 => spent'["fault"] > 0
      BY SpentGrows DEF Disturbances
    <3>5. Completed(r)' = Completed(r)
      BY <3>1, <3>3 DEF Completed
    <3>6. SkippedUpTo(r, k, n + 1)'
      <4>1. ASSUME NEW i \in Steps, k < i, i < n + 1
            PROVE  \/ stepStatus'[r][i] = "skipped"
                   \/ spent'["fault"] > 0 /\ stepStatus'[r][i] = "pending"
        <5>1. CASE i = n
          BY <3>3, <5>1
        <5>2. CASE i # n
          <6>1. i < n /\ i \in Steps \ {n}
            BY <3>1, <4>1, <5>2 DEF Steps
          <6> QED
            BY <3>2, <3>3, <3>4, <4>1, <6>1 DEF FailedAt, SkippedUpTo
        <5> QED
          BY <5>1, <5>2
      <4> QED
        BY <4>1 DEF SkippedUpTo
    <3>7. FailedAt(r, k, n + 1)'
      BY <3>2, <3>3, <3>5, <3>6 DEF FailedAt, Steps
    <3>8. \A i \in Steps : n + 1 <= i => stepStatus'[r][i] = "pending"
      BY <3>2, <3>3 DEF Steps
    <3>9. n + 1 \in Nat /\ k < n + 1
      BY <3>2 DEF Steps
    <3> QED
      BY <1>7, <3>1, <3>7, <3>8, <3>9
  <2>6. CASE Expire
    <3>1. /\ UNCHANGED <<pc, idx>> /\ SameMarks(r) /\ pc \in {"step"} \union OnStep
          /\ stepStatus' = stepStatus
      BY <2>6 DEF Expire, dbVars, stepVars, localVars, SameMarks
    <3>2. CASE pc = "step"
      BY <1>1, <1>5, <1>8, <3>1, <3>2, MarksKept DEF WorkerMarks
    <3>3. CASE pc \in OnStep
      <4>1. PICK k \in Steps : idx = k
        BY <3>3 DEF TypeOK, WorkerOK
      <4> QED
        BY <1>1, <1>6, <1>8, <3>1, <3>3, <4>1, MarksKept DEF WorkerMarks
    <3> QED
      BY <3>1, <3>2, <3>3
  <2>7. CASE FailRun \/ CompleteRun \/ StoreFails
    BY <1>8, <2>7 DEF FailRun, CompleteRun, StoreFails, RefusedAt, WorkerGoto
  <2> QED
    BY <2>1, <2>2, <2>3, <2>4, <2>5, <2>6, <2>7 DEF ExecuteStep
<1>9. Abandon => pc' = "release"
  BY DEF Abandon, WorkerGoto
<1> QED
  BY <1>2, <1>3, <1>4, <1>8, <1>9

\* The steps of execute and failRun: a run that fails is marked up to its last step.
LEMMA ExecuteRows ==
    ASSUME EngineAssumption, TypeOK, StoreInv, MarksInv, [Next]_vars, ExecuteStep
    PROVE  \A x \in Runs : RowMarks(x)'
<1>1. PICK r \in Runs : cur = r
  BY ExecuteMoves DEF PublishedPcs, OnStep, TypeOK, WorkerOK
<1>2. status[r] \in {"running", "cancelled"} \/ pc = "release"
  BY <1>1, ExecuteMoves DEF StoreInv, HoldsRun, PublishedPcs
<1>3. pc # "release"
  BY ExecuteMoves
<1>4. CASE FailRun /\ ~Abandon
  <2>1. /\ pc = "skip" /\ idx = NumSteps + 1 /\ status[r] = "running"
        /\ status' = [status EXCEPT ![r] = "failed"] /\ stepStatus' = stepStatus
    BY <1>1, <1>2, <1>4 DEF FailRun, StepsLeft, Writable, stepVars, TypeOK, WorkerOK, Steps,
                            EngineAssumption
  <2>2. PICK k \in Steps : FailedAt(r, k, NumSteps + 1)
    BY <1>1, <2>1 DEF MarksInv, WorkerMarks
  <2>3. status'[r] = "failed" /\ \A x \in Runs \ {r} : status'[x] = status[x]
    BY <2>1 DEF TypeOK, RunRowsOK
  <2>4. FailedAt(r, k, NumSteps + 1)'
    BY <2>1, <2>2, MarksKept DEF SameMarks, Steps
  <2>5. RowMarks(r)'
    BY <2>3, <2>4 DEF RowMarks
  <2>6. \A x \in Runs \ {r} : RowMarks(x)'
    BY <2>1, <2>3, MarksKept DEF MarksInv, SameMarks
  <2> QED
    BY <2>5, <2>6
<1>5. CASE ~(FailRun /\ ~Abandon)
  <2>1. /\ status'[r] \in {"running", "cancelled", "completed"}
        /\ \A x \in Runs \ {r} : status'[x] = status[x] /\ stepStatus'[x] = stepStatus[x]
    <3> USE DEF TypeOK, RunRowsOK, StepRowsOK, dbVars, runVars, stepVars, Abandon, RefusedAt,
                EnterFailRun
    <3>1. CASE Reload \/ SkipCompleted \/ BeginStep \/ MapInput \/ Execute \/ Backoff
      BY <1>1, <1>2, <1>3, <3>1
         DEF Reload, SkipCompleted, BeginStep, MapInput, Execute, Backoff
    <3>2. CASE BeginAttempt \/ CompleteStep \/ RecordFailure \/ SkipStep
      BY <1>1, <1>2, <1>3, <3>2 DEF BeginAttempt, CompleteStep, RecordFailure, SkipStep
    <3>3. CASE FailRun \/ CompleteRun \/ StoreFails \/ SkipFails \/ Expire
      BY <1>1, <1>2, <1>3, <1>5, <3>3 DEF FailRun, CompleteRun, StoreFails, SkipFails, Expire
    <3> QED
      BY <3>1, <3>2, <3>3 DEF ExecuteStep
  <2>2. RowMarks(r)'
    BY <2>1 DEF RowMarks
  <2>3. \A x \in Runs \ {r} : RowMarks(x)'
    BY <2>1, MarksKept DEF MarksInv, SameMarks
  <2> QED
    BY <2>2, <2>3
<1> QED
  BY <1>4, <1>5

\* The worker's loop: a claimed run bears no mark.
LEMMA LoopMarks ==
    ASSUME TypeOK, MarksInv, [Next]_vars, LoopStep
    PROVE  MarksInv'
<1>1. CASE ClaimNextPendingRun
  <2>1. PICK r \in Runs : /\ status[r] = "pending" /\ status' = [status EXCEPT ![r] = "running"]
                          /\ cur' = r /\ pc' = "claimed" /\ stepStatus' = stepStatus
    BY <1>1 DEF ClaimNextPendingRun, Oldest, Pending, stepVars
  <2>2. status'[r] = "running" /\ \A x \in Runs \ {r} : status'[x] = status[x]
    BY <2>1 DEF TypeOK, RunRowsOK
  <2>3. Unmarked(r, {})
    BY <2>1 DEF MarksInv, RowMarks
  <2>4. WorkerMarks'
    BY <2>1, <2>3 DEF WorkerMarks, Unmarked, OnStep
  <2>5. RowMarks(r)'
    BY <2>2 DEF RowMarks
  <2>6. \A x \in Runs \ {r} : RowMarks(x)'
    BY <2>1, <2>2, MarksKept DEF MarksInv, SameMarks
  <2> QED
    BY <2>4, <2>5, <2>6 DEF MarksInv
<1>2. CASE LoopStep /\ ~ClaimNextPendingRun
  <2>1. /\ UNCHANGED <<status, stepStatus>>
        /\ \/ pc' \in {"off", "idle", "claim"}
           \/ pc = "claimed" /\ pc' = "reload" /\ cur' = cur
    BY <1>2 DEF LoopStep, WakeUp, WorkerExit, NothingToClaim, ClaimInterrupted, ClaimFails,
                ClaimLost, Publish, Release, dbVars, runVars, stepVars, localVars
  <2>2. WorkerMarks'
    BY <2>1 DEF MarksInv, WorkerMarks, Unmarked, OnStep
  <2> QED
    BY <2>1, <2>2, NoMarks DEF MarksInv
<1> QED
  BY <1>1, <1>2

\* The process: recovery requeues, and a process that starts or ends has no worker.
LEMMA ProcessMarks ==
    ASSUME TypeOK, StoreInv, MarksInv, [Next]_vars, Process
    PROVE  MarksInv'
<1>1. CASE StartWorker \/ Serve \/ Exit \/ Crash
  <2>1. UNCHANGED <<status, stepStatus>> /\ pc' \in {"off", "idle"}
    BY <1>1 DEF StartWorker, Serve, Exit, Crash, LoseMemory, dbVars, runVars, stepVars, StoreInv,
                ProcessInv
  <2>2. WorkerMarks'
    BY <2>1 DEF WorkerMarks, OnStep
  <2> QED
    BY <2>1, <2>2, NoMarks DEF MarksInv
<1>2. CASE Terminate
  <2>1. UNCHANGED <<status, stepStatus, pc, cur, idx>>
    BY <1>2 DEF Terminate, dbVars, runVars, stepVars, localVars
  <2>2. spent["fault"] > 0 => spent'["fault"] > 0
    BY SpentGrows DEF Disturbances
  <2>3. WorkerMarks'
    BY <2>1, <2>2 DEF MarksInv, WorkerMarks, Unmarked, FailedAt, SkippedUpTo, Completed
  <2> QED
    BY <2>1, <2>3, NoMarks DEF MarksInv
<1>3. ASSUME NEW r \in Runs, Recover(r) PROVE MarksInv'
  <2>1. RequeueRun(r) /\ pc' = "off"
    BY <1>3 DEF Recover, StoreInv, ProcessInv
  <2>2. WorkerMarks'
    BY <2>1 DEF WorkerMarks, OnStep
  <2>3. RowMarks(r)' /\ \A x \in Runs \ {r} : SameMarks(x) /\ status'[x] = status[x]
    BY <2>1, RequeueUnmarks
  <2>4. \A x \in Runs \ {r} : RowMarks(x)'
    BY <2>3, MarksKept DEF MarksInv
  <2> QED
    BY <2>2, <2>3, <2>4 DEF MarksInv
<1> QED
  BY <1>1, <1>2, <1>3 DEF Process, Boot

\* The handlers: they mark no run that goes on running.
LEMMA HandlerMarks ==
    ASSUME TypeOK, StoreInv, MarksInv, [Next]_vars, NEW c \in Clients, Handler(c)
    PROVE  MarksInv'
<1>1. PICK r \in Runs : /\ \A x \in Runs \ {r} : SameMarks(x) /\ status'[x] = status[x]
                        /\ RowMarks(r)'
                        /\ status'[r] = "running" => SameMarks(r)
  <2>1. CASE UNCHANGED <<status, stepStatus>>
    <3>1. CASE \E r \in Runs : TRUE
      BY <2>1, <3>1, NoMarks DEF MarksInv, SameMarks
    <3>2. \E r \in Runs : TRUE
      BY DEF Handler, Start, Retry, CancelRun, CreateRun, ResetRunForRetry, GiveUp, Signal,
             NotifyWorker, TypeOK, HandlersOK
    <3> QED
      BY <3>1, <3>2
  <2>2. CASE CreateRun(c) /\ ~UNCHANGED <<status, stepStatus>>
    <3>1. PICK r \in Runs : /\ status[r] = "absent" /\ status' = [status EXCEPT ![r] = "pending"]
                            /\ stepStatus' = stepStatus
      BY <2>2 DEF CreateRun, stepVars, TypeOK, HandlersOK
    <3>2. status'[r] = "pending" /\ \A x \in Runs \ {r} : status'[x] = status[x]
      BY <3>1 DEF TypeOK, RunRowsOK
    <3>3. RowMarks(r)'
      BY <3>1, <3>2 DEF MarksInv, RowMarks, Unmarked
    <3> QED
      BY <3>1, <3>2, <3>3 DEF SameMarks
  <2>3. CASE ResetRunForRetry(c)
    <3>1. PICK r \in Runs : RequeueRun(r)
      BY <2>3 DEF ResetRunForRetry, TypeOK, HandlersOK
    <3>2. status'[r] = "pending"
      BY <3>1 DEF RequeueRun, TypeOK, RunRowsOK
    <3> QED
      BY <3>1, <3>2, RequeueUnmarks
  <2>4. ASSUME NEW r \in Runs, CancelRun(c, r)
        PROVE  /\ status'[r] = "cancelled"
               /\ \A x \in Runs \ {r} : SameMarks(x) /\ status'[x] = status[x]
    BY <2>4 DEF CancelRun, SameMarks, TypeOK, RunRowsOK, StepRowsOK
  <2>5. CASE \E r \in Runs : CancelRun(c, r)
    BY <2>4, <2>5 DEF RowMarks
  <2>6. ASSUME NEW r \in Runs, Start(c, r) \/ Retry(c, r) PROVE UNCHANGED <<status, stepStatus>>
    BY <2>6 DEF Start, Retry, dbVars, runVars, stepVars
  <2>7. CASE GiveUp(c) \/ Signal(c) \/ NotifyWorker(c)
    BY <2>1, <2>7 DEF GiveUp, Signal, NotifyWorker, dbVars, runVars, stepVars
  <2> QED
    BY <2>1, <2>2, <2>3, <2>5, <2>6, <2>7 DEF Handler
<1>2. \A x \in Runs : RowMarks(x)'
  BY <1>1, MarksKept DEF MarksInv
<1>3. UNCHANGED <<pc, cur, idx>>
  BY HandlerMoves
<1>4. WorkerMarks'
  <2>1. CASE pc \in {"off", "idle", "claim", "release"}
    BY <1>3, <2>1 DEF WorkerMarks, OnStep
  <2>2. CASE pc \notin {"off", "idle", "claim", "release"}
    <3>1. PICK q \in Runs : cur = q
      BY <2>2 DEF TypeOK, WorkerOK
    <3>2. CASE status'[q] # "running"
      BY <1>3, <3>1, <3>2 DEF WorkerMarks
    <3>3. CASE status'[q] = "running"
      <4>1. SameMarks(q)
        BY <1>1, <3>3
      <4>2. status[q] = "running"
        <5>1. ~ClaimNextPendingRun
          BY <2>2 DEF ClaimNextPendingRun
        <5> QED
          BY <3>3, <5>1, OnlyClaimRuns
      <4>3. spent["fault"] > 0 => spent'["fault"] > 0
        BY SpentGrows DEF Disturbances
      <4> QED
        BY <1>3, <3>1, <4>1, <4>2, <4>3
           DEF MarksInv, WorkerMarks, SameMarks, Unmarked, FailedAt, SkippedUpTo, Completed
    <3> QED
      BY <3>2, <3>3
  <2> QED
    BY <2>1, <2>2
<1> QED
  BY <1>2, <1>4 DEF MarksInv

\* The marks of a failed run say what FailedRunIsSettled promises.
LEMMA MarksSettle ==
    ASSUME EngineAssumption, MarksInv
    PROVE  FailedRunIsSettled
<1> SUFFICES ASSUME NEW r \in Runs, status[r] = "failed"
             PROVE  \E k \in Steps :
                       /\ Completed(r) = 1 .. k-1
                       /\ stepStatus[r][k] \in {"pending", "failed"}
                       /\ \A i \in k+1 .. NumSteps :
                             \/ stepStatus[r][i] = "skipped"
                             \/ spent["fault"] > 0 /\ stepStatus[r][i] = "pending"
  BY DEF FailedRunIsSettled
<1>1. PICK k \in Steps : FailedAt(r, k, NumSteps + 1)
  BY DEF MarksInv, RowMarks
<1>2. ASSUME NEW i \in k+1 .. NumSteps PROVE i \in Steps /\ k < i /\ i < NumSteps + 1
  BY EngineAssumption DEF EngineAssumption, Steps
<1> QED
  BY <1>1, <1>2 DEF FailedAt, SkippedUpTo

\* A failed run is left ready for a retry: results up to the step that failed, and the
\* steps behind it skipped, unless the store lost failRun's write.
THEOREM FailedTheorem == Spec => []FailedRunIsSettled
<1>1. Init => MarksInv
  <2> SUFFICES ASSUME Init PROVE MarksInv
    OBVIOUS
  <2>1. /\ \A r \in Runs : status[r] = "absent" /\ \A i \in Steps : stepStatus[r][i] = "pending"
        /\ pc = "off"
    BY DEF Init
  <2> QED
    BY <2>1 DEF MarksInv, RowMarks, WorkerMarks, Unmarked, OnStep
<1>2. TypeOK /\ StoreInv /\ MarksInv /\ [Next]_vars => MarksInv'
  <2> SUFFICES ASSUME TypeOK, StoreInv, MarksInv, [Next]_vars PROVE MarksInv'
    OBVIOUS
  <2>1. CASE ExecuteStep
    BY <2>1, ExecuteMarks, ExecuteRows, EngineAssumption DEF MarksInv
  <2>2. CASE LoopStep
    BY <2>2, LoopMarks
  <2>3. CASE Process
    BY <2>3, ProcessMarks
  <2>4. CASE \E c \in Clients : Handler(c)
    BY <2>4, HandlerMarks
  <2>5. CASE UNCHANGED vars
    <3>1. UNCHANGED <<status, stepStatus, pc, cur, idx, spent>>
      BY <2>5 DEF vars, dbVars, runVars, stepVars, localVars, boundVars
    <3> QED
      BY <3>1, NoMarks
         DEF MarksInv, WorkerMarks, Unmarked, FailedAt, SkippedUpTo, Completed
  <2> QED
    BY <2>1, <2>2, <2>3, <2>4, <2>5 DEF Next, Worker, Faults, ExecuteStep, LoopStep
<1>3. MarksInv => FailedRunIsSettled
  BY MarksSettle, EngineAssumption
<1> QED
  BY <1>1, <1>2, <1>3, TypeCorrect, StoreConsistent, PTL DEF Spec

=============================================================================
