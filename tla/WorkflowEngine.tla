--------------------------- MODULE WorkflowEngine ---------------------------
(***************************************************************************)
(* The workflow engine of the API process: the executor and its single     *)
(* background worker (backend/internal/workflow/executor.go), the rows it  *)
(* keeps in SQLite (backend/internal/storage/store.go), the HTTP handlers  *)
(* that start, retry and cancel runs while the worker executes, and the    *)
(* life of the process itself (backend/cmd/api/main.go): recovery at       *)
(* start-up, SIGTERM, crash.                                               *)
(*                                                                         *)
(* The store has one connection (SetMaxOpenConns(1)), so every statement   *)
(* and every transaction is one atomic step.  Everything between two store *)
(* calls, and between a store call and the executor's mutex, interleaves.  *)
(*                                                                         *)
(* A run is named by the request it was started for (request_id is         *)
(* UNIQUE), a step by its index in the definition, and an artifact by the  *)
(* index of the step that produced it.                                     *)
(***************************************************************************)
EXTENDS Integers, FiniteSets

CONSTANTS Runs,          \* normalized requests, each with at most one run
          Clients,       \* HTTP handler goroutines
          NoRun,         \* "no run": a nil control, an idle client's target
          NumSteps,      \* len(definition.Steps)
          MaxAttempts,   \* RetryPolicy.MaxAttempts of each step
          MaxTime,       \* bound: distinct created_at values
          Limits         \* bounds: how often each disturbance happens

Steps == 1..NumSteps

\* Disturbances the environment causes, each counted in "spent": the process is
\* stopped or killed, a failed run is retried, the deadline of the whole workflow
\* fires, a store call of the worker or of the recovery fails.
Disturbances == {"stop", "retry", "timeout", "fault"}

ASSUME EngineAssumption ==
    /\ NoRun \notin Runs
    /\ NumSteps \in Nat \ {0}
    /\ MaxAttempts \in [Steps -> Nat \ {0}]
    /\ MaxTime \in Nat
    /\ Limits \in [Disturbances -> Nat]

VARIABLES
    \* Table workflow_runs.
    status,        \* "absent" until the row is inserted
    current,       \* current_step_id: a step's index, 0 for ''
    final,         \* final_artifact_id: the index of the artifact's step, 0 for ''
    createdAt,
    \* Tables step_runs and artifacts.
    stepStatus, attempt,
    artifacts,     \* the number of artifact rows of the step
    \* The process and the executor.
    phase,         \* "down", "recovering" (inside StartWorker) or "up"
    toRecover,     \* the runs PrepareRecovery listed and has not reset yet
    started, wake,
    stop,          \* the application context is cancelled
    \* The worker's published control and its deadline.
    active,        \* executor.active: the run it names, NoRun for nil
    userCancelled, \* active.userCancelled; active.cancel() has been called
    expired,       \* the deadline of execute's runCtx has passed
    \* The worker goroutine and the locals of execute.
    pc, cur, idx, tries,
    fin,           \* run.FinalArtifactID of the worker's copy
    \* The HTTP handlers.
    cpc, target,
    stamp,         \* createdAt, taken before CreateRun
    \* Bounds.
    now, spent

runVars     == <<status, current, final, createdAt>>
stepVars    == <<stepStatus, attempt, artifacts>>
dbVars      == <<runVars, stepVars>>
processVars == <<phase, toRecover, started, wake, stop>>
controlVars == <<active, userCancelled, expired>>
localVars   == <<cur, idx, tries, fin>>
clientVars  == <<cpc, target, stamp>>
boundVars   == <<now, spent>>

vars == <<dbVars, processVars, controlVars, pc, localVars, clientVars, boundVars>>

-----------------------------------------------------------------------------
(* Domains and initial state: an empty database and no process.            *)

RunStatuses == {"absent", "pending", "running", "completed", "failed", "cancelled"}

StepStatuses == {"pending", "running", "completed", "failed", "skipped", "cancelled"}

WorkerPcs == {"off", "idle", "claim", "claimed", "reload", "step", "map", "attempt",
              "exec", "ok", "err", "backoff", "skip", "release"}

ClientPcs == {"idle", "create", "conflict", "reset", "signal", "notify"}

RunRowsOK ==
    /\ status \in [Runs -> RunStatuses]
    /\ current \in [Runs -> 0..NumSteps]
    /\ final \in [Runs -> 0..NumSteps]
    /\ createdAt \in [Runs -> 0..MaxTime]

StepRowsOK ==
    /\ stepStatus \in [Runs -> [Steps -> StepStatuses]]
    /\ attempt \in [Runs -> [Steps -> Nat]]
    /\ artifacts \in [Runs -> [Steps -> Nat]]

ProcessOK ==
    /\ phase \in {"down", "recovering", "up"}
    /\ toRecover \in SUBSET Runs
    /\ started \in BOOLEAN /\ wake \in BOOLEAN /\ stop \in BOOLEAN

ControlOK ==
    /\ active \in Runs \union {NoRun}
    /\ userCancelled \in BOOLEAN /\ expired \in BOOLEAN

WorkerOK ==
    /\ pc \in WorkerPcs
    /\ cur \in Runs \union {NoRun}
    /\ pc \notin {"off", "idle", "claim"} => cur \in Runs
    /\ idx \in 0..NumSteps+1
    /\ pc \in {"step", "skip"} => idx >= 1
    /\ pc \in {"map", "attempt", "exec", "ok", "err", "backoff"} => idx \in Steps
    /\ tries \in Nat
    /\ fin \in 0..NumSteps

HandlersOK ==
    /\ cpc \in [Clients -> ClientPcs]
    /\ target \in [Clients -> Runs \union {NoRun}]
    /\ \A c \in Clients : cpc[c] # "idle" => target[c] \in Runs
    /\ stamp \in [Clients -> 0..MaxTime]

BoundsOK ==
    /\ now \in 0..MaxTime
    /\ spent \in [Disturbances -> Nat]

\* The type invariant, and where the worker and the handlers hold a run and a step.
TypeOK == /\ RunRowsOK /\ StepRowsOK /\ ProcessOK /\ ControlOK
          /\ WorkerOK /\ HandlersOK /\ BoundsOK

Init ==
    /\ status = [r \in Runs |-> "absent"]
    /\ current = [r \in Runs |-> 0]
    /\ final = [r \in Runs |-> 0]
    /\ createdAt = [r \in Runs |-> 0]
    /\ stepStatus = [r \in Runs |-> [i \in Steps |-> "pending"]]
    /\ attempt = [r \in Runs |-> [i \in Steps |-> 0]]
    /\ artifacts = [r \in Runs |-> [i \in Steps |-> 0]]
    /\ phase = "down" /\ toRecover = {}
    /\ started = FALSE /\ wake = FALSE /\ stop = FALSE
    /\ active = NoRun /\ userCancelled = FALSE /\ expired = FALSE
    /\ pc = "off" /\ cur = NoRun /\ idx = 0 /\ tries = 0 /\ fin = 0
    /\ cpc = [c \in Clients |-> "idle"]
    /\ target = [c \in Clients |-> NoRun]
    /\ stamp = [c \in Clients |-> 0]
    /\ now = 0
    /\ spent = [d \in Disturbances |-> 0]

Spend(d) == /\ spent[d] < Limits[d]
            /\ spent' = [spent EXCEPT ![d] = @ + 1]

-----------------------------------------------------------------------------
(* The store.                                                              *)

\* Mutation: the guard of the writes is dropped.
Writable_Unguarded(r) == TRUE

\* The guard of UpdateRun, UpdateStep and CompleteStep: a write to a cancelled run
\* affects no row and is answered ErrRunCancelled.
Writable(r) == status[r] # "cancelled"

\* ORDER BY created_at; equal milliseconds leave the order open.
Oldest(S) == {r \in S : \A q \in S : createdAt[r] <= createdAt[q]}

\* Mutation: every step of a requeued run is reset.
KeptStatus_None(s) == "pending"

\* Of the steps of a requeued run only the completed ones keep status and artifact.
KeptStatus(s) == IF s = "completed" THEN s ELSE "pending"

\* The transaction ResetRunForRetry and PrepareRecovery share: the run is pending
\* again, its attempts and its completed steps stay.
RequeueRun(r) ==
    /\ status' = [status EXCEPT ![r] = "pending"]
    /\ current' = [current EXCEPT ![r] = 0]
    /\ final' = [final EXCEPT ![r] = 0]
    /\ stepStatus' = [stepStatus EXCEPT ![r] =
                         [i \in Steps |-> KeptStatus(stepStatus[r][i])]]
    /\ artifacts' = [artifacts EXCEPT ![r] =
                         [i \in Steps |-> IF stepStatus[r][i] = "completed"
                                          THEN artifacts[r][i] ELSE 0]]
    /\ UNCHANGED <<createdAt, attempt>>

-----------------------------------------------------------------------------
(* The life of the process.                                                *)

\* Mutation: recovery lists the pending runs only.
Interrupted_Pending == {"pending"}

\* The runs PrepareRecovery lists.
Interrupted == {"pending", "running"}

Recoverable == {r \in Runs : status[r] \in Interrupted}

\* The list up to a row that cannot be read, the oldest runs first.
CutOff(listed) ==
    /\ listed \subseteq Recoverable
    /\ \A r \in listed, q \in Recoverable \ listed : createdAt[r] <= createdAt[q]

\* StartWorker: the executor is marked started and PrepareRecovery lists the
\* interrupted runs.  It does not ask rows.Err: where the rows end with an error it goes
\* on with those it has.  No handler runs yet: main starts the server afterwards.
StartWorker ==
    /\ phase = "down"
    /\ phase' = "recovering"
    /\ started' = TRUE
    /\ \/ toRecover' = Recoverable /\ UNCHANGED spent
       \/ /\ \E listed \in SUBSET Runs : CutOff(listed) /\ toRecover' = listed
          /\ Spend("fault")
    /\ UNCHANGED <<dbVars, wake, stop, controlVars, pc, localVars, clientVars, now>>

\* PrepareRecovery resets the listed runs, one transaction each.
Recover(r) ==
    /\ phase = "recovering"
    /\ r \in Oldest(toRecover)
    /\ RequeueRun(r)
    /\ toRecover' = toRecover \ {r}
    /\ UNCHANGED <<phase, started, wake, stop, controlVars, pc, localVars, clientVars, boundVars>>

\* The worker goroutine is started and signalled, and the server listens.
Serve ==
    /\ phase = "recovering" /\ toRecover = {}
    /\ phase' = "up"
    /\ pc' = "idle"
    /\ wake' = TRUE
    /\ UNCHANGED <<dbVars, toRecover, started, stop, controlVars, localVars, clientVars, boundVars>>

\* SIGTERM cancels the context of the worker; the server still drains its requests.
Terminate ==
    /\ phase = "up" /\ ~stop
    /\ Spend("stop")
    /\ stop' = TRUE
    /\ UNCHANGED <<dbVars, phase, toRecover, started, wake, controlVars, pc, localVars,
                   clientVars, now>>

\* Nothing of the process survives but the database.
LoseMemory ==
    /\ phase' = "down" /\ toRecover' = {}
    /\ started' = FALSE /\ wake' = FALSE /\ stop' = FALSE
    /\ active' = NoRun /\ userCancelled' = FALSE /\ expired' = FALSE
    /\ pc' = "off" /\ cur' = NoRun /\ idx' = 0 /\ tries' = 0 /\ fin' = 0
    /\ cpc' = [c \in Clients |-> "idle"]
    /\ target' = [c \in Clients |-> NoRun]
    /\ stamp' = [c \in Clients |-> 0]
    /\ UNCHANGED <<dbVars, now>>

\* main returns after SIGTERM: once the worker has ended, or after 10 seconds with
\* requests and the worker still at work.
Exit == /\ stop
        /\ LoseMemory
        /\ UNCHANGED spent

Crash == /\ phase # "down"
         /\ Spend("stop")
         /\ LoseMemory

-----------------------------------------------------------------------------
(* The HTTP handlers: Executor.Start, Retry and Cancel.                    *)

Goto(c, label) == cpc' = [cpc EXCEPT ![c] = label]

\* The handler returns.
Return(c) == /\ Goto(c, "idle")
             /\ target' = [target EXCEPT ![c] = NoRun]
             /\ stamp' = [stamp EXCEPT ![c] = 0]

Call(c, r, label) == /\ phase = "up"
                     /\ cpc[c] = "idle"
                     /\ Goto(c, label)
                     /\ target' = [target EXCEPT ![c] = r]

\* Start up to the clock reading: FindRunByRequestID finds nothing and the executor
\* is running.  (A request that has a run is answered with it, and changes nothing.)
Start(c, r) ==
    /\ status[r] = "absent"
    /\ started
    /\ Call(c, r, "create")
    /\ \E t \in now..MaxTime :
          /\ now' = t
          /\ stamp' = [stamp EXCEPT ![c] = t]
    /\ UNCHANGED <<dbVars, processVars, controlVars, pc, localVars, spent>>

\* CreateRun inserts the run and its steps, or fails on the UNIQUE request_id.
CreateRun(c) ==
    /\ cpc[c] = "create"
    /\ IF status[target[c]] = "absent"
       THEN /\ status' = [status EXCEPT ![target[c]] = "pending"]
            /\ createdAt' = [createdAt EXCEPT ![target[c]] = stamp[c]]
            /\ Goto(c, "signal")
       ELSE /\ Goto(c, "conflict")
            /\ UNCHANGED <<status, createdAt>>
    /\ stamp' = [stamp EXCEPT ![c] = 0]
    /\ UNCHANGED <<current, final, stepVars, processVars, controlVars, pc, localVars,
                   target, boundVars>>

\* Retry finds the executor running.
Retry(c, r) ==
    /\ status[r] # "absent"
    /\ started
    /\ Call(c, r, "reset")
    /\ UNCHANGED <<dbVars, processVars, controlVars, pc, localVars, stamp, boundVars>>

\* Mutation: everything but a completed run is retryable.
Retryable_NotCompleted(s) == s # "completed"

Retryable(s) == s = "failed"

\* The reset, refused for any other status.
ResetRunForRetry(c) ==
    /\ cpc[c] = "reset"
    /\ Retryable(status[target[c]])
    /\ Spend("retry")
    /\ RequeueRun(target[c])
    /\ Goto(c, "signal")
    /\ UNCHANGED <<processVars, controlVars, pc, localVars, target, stamp, now>>

\* A call that is refused (ErrRunNotRetryable, the error of CreateRun) or whose
\* request is gone before its transaction commits.
GiveUp(c) ==
    /\ cpc[c] \in {"create", "reset", "conflict"}
    /\ Return(c)
    /\ UNCHANGED <<dbVars, processVars, controlVars, pc, localVars, boundVars>>

\* Mutation: Start and Retry do not signal.
Signal_Missing(c) ==
    /\ cpc[c] = "signal"
    /\ Return(c)
    /\ UNCHANGED <<dbVars, processVars, controlVars, pc, localVars, boundVars>>

\* executor.signal: a full wake channel already says what there is to say.
Signal(c) ==
    /\ cpc[c] = "signal"
    /\ wake' = TRUE
    /\ Return(c)
    /\ UNCHANGED <<dbVars, phase, toRecover, started, stop, controlVars, pc, localVars, boundVars>>

\* Mutation: a failed run can be cancelled.
Cancellable_Failed == {"pending", "running", "failed"}

Cancellable == {"pending", "running"}

\* Mutation: only the running step is cancelled.
CancelledStep_Running(s) == IF s = "running" THEN "cancelled" ELSE s

CancelledStep(s) == IF s \in {"pending", "running"} THEN "cancelled" ELSE s

\* Cancel commits the cancellation first ...
CancelRun(c, r) ==
    /\ status[r] \in Cancellable
    /\ Call(c, r, "notify")
    /\ status' = [status EXCEPT ![r] = "cancelled"]
    /\ current' = [current EXCEPT ![r] = 0]
    /\ stepStatus' = [stepStatus EXCEPT ![r] =
                         [i \in Steps |-> CancelledStep(stepStatus[r][i])]]
    /\ UNCHANGED <<final, createdAt, attempt, artifacts, processVars, controlVars, pc,
                   localVars, stamp, boundVars>>

\* Mutation: Cancel does not compare the run's id.
Interrupts_Any(r) == active # NoRun

Interrupts(r) == active = r

\* ... and then, under the mutex, interrupts the worker if it executes this run.
NotifyWorker(c) ==
    /\ cpc[c] = "notify"
    /\ userCancelled' = (userCancelled \/ Interrupts(target[c]))
    /\ Return(c)
    /\ UNCHANGED <<dbVars, processVars, active, expired, pc, localVars, boundVars>>

-----------------------------------------------------------------------------
(* The worker: the loop that claims runs.                                  *)

\* The worker's own variables change; the process, the handlers and the clock do not.
WorkerFrame == UNCHANGED <<phase, toRecover, stop, clientVars, now>>

\* The wake token is consumed.
WakeUp ==
    /\ pc = "idle" /\ wake
    /\ wake' = FALSE
    /\ pc' = "claim"
    /\ WorkerFrame /\ UNCHANGED <<dbVars, started, controlVars, localVars, spent>>

WorkerExit ==
    /\ pc = "idle" /\ stop
    /\ pc' = "off"
    /\ started' = FALSE
    /\ active' = NoRun
    /\ WorkerFrame
    /\ UNCHANGED <<dbVars, wake, userCancelled, expired, localVars, spent>>

Pending == {r \in Runs : status[r] = "pending"}

\* ClaimNextPendingRun: the oldest pending run becomes running.
ClaimNextPendingRun ==
    /\ pc = "claim" /\ ~stop
    /\ \E r \in Oldest(Pending) :
          /\ status' = [status EXCEPT ![r] = "running"]
          /\ cur' = r
    /\ pc' = "claimed"
    /\ WorkerFrame
    /\ UNCHANGED <<current, final, createdAt, stepVars, started, wake, controlVars, idx, tries,
                   fin, spent>>

\* Nothing is pending, or the context is done: back to the select.
NothingToClaim ==
    /\ pc = "claim"
    /\ stop \/ Pending = {}
    /\ pc' = "idle"
    /\ WorkerFrame /\ UNCHANGED <<dbVars, started, wake, controlVars, localVars, spent>>

ClaimLost == /\ pc' = "idle"
             /\ cur' = NoRun
             /\ WorkerFrame
             /\ UNCHANGED <<dbVars, started, controlVars, idx, tries, fin>>

\* Mutation: the worker does not signal itself after the pause.
ClaimFails_Silent == /\ pc \in {"claim", "claimed"} /\ ~stop
                     /\ Spend("fault")
                     /\ ClaimLost
                     /\ UNCHANGED wake

\* The claim fails, or the read of the run it has committed: after a pause the worker
\* signals itself.  A claimed run stays running.
ClaimFails == /\ pc \in {"claim", "claimed"} /\ ~stop
              /\ Spend("fault")
              /\ wake' = TRUE
              /\ ClaimLost

\* The worker is stopped between the claim and the read: the read fails.
ClaimInterrupted == /\ pc = "claimed" /\ stop
                    /\ ClaimLost
                    /\ UNCHANGED <<wake, spent>>

\* The control of the claimed run is published.
Publish ==
    /\ pc = "claimed" /\ ~stop
    /\ active' = cur /\ userCancelled' = FALSE
    /\ pc' = "reload"
    /\ WorkerFrame /\ UNCHANGED <<dbVars, started, wake, expired, localVars, spent>>

\* runCtx is done: the worker is being stopped, the user has cancelled this run, or the
\* deadline of the workflow has passed.  A store call made with it fails.
CtxDone == stop \/ userCancelled \/ expired

WorkerGoto(label) ==
    /\ pc' = label
    /\ WorkerFrame
    /\ UNCHANGED <<started, wake, controlVars, cur>>

\* execute returns; what it has stored stays as it is.
Abandon == /\ WorkerGoto("release")
           /\ UNCHANGED <<dbVars, idx, tries, fin, spent>>

\* Mutation: the claimed run is executed without looking at it again.
Executable_Always(r) == TRUE

Executable(r) == status[r] = "running"

\* Reload after publishing the control; execute only a run that is still running.
Reload ==
    /\ pc = "reload"
    /\ IF CtxDone \/ ~Executable(cur)
       THEN Abandon
       ELSE /\ WorkerGoto("step")
            /\ idx' = 1 /\ fin' = final[cur]
            /\ UNCHANGED <<dbVars, tries, spent>>

\* The control is withdrawn and the loop goes on.
Release ==
    /\ pc = "release"
    /\ active' = NoRun /\ userCancelled' = FALSE /\ expired' = FALSE
    /\ pc' = "claim"
    /\ cur' = NoRun /\ idx' = 0 /\ tries' = 0 /\ fin' = 0
    /\ WorkerFrame /\ UNCHANGED <<dbVars, started, wake, spent>>

-----------------------------------------------------------------------------
(* The worker: execute and failRun, one action per store call.             *)

\* A store call made with runCtx: it fails when the context is done, and is refused
\* when the run is cancelled; in both cases execute returns.
RefusedAt(label) == /\ pc = label
                    /\ CtxDone \/ ~Writable(cur)
                    /\ Abandon

AllowedAt(label) == /\ pc = label
                    /\ ~CtxDone
                    /\ Writable(cur)

StepsLeft == idx <= NumSteps

\* Mutation: steps completed earlier are executed again.
AlreadyCompleted_Never == FALSE

AlreadyCompleted == stepStatus[cur][idx] = "completed"

\* Mutation: the artifacts of earlier executions are forgotten.
CarriedArtifact_Forgotten == fin

CarriedArtifact == IF artifacts[cur][idx] > 0 THEN idx ELSE fin

\* A completed step is skipped over; its artifact becomes the final one so far.
SkipCompleted ==
    /\ pc = "step" /\ StepsLeft
    /\ AlreadyCompleted
    /\ WorkerGoto("step")
    /\ idx' = idx + 1
    /\ fin' = CarriedArtifact
    /\ UNCHANGED <<dbVars, tries, spent>>

\* UpdateRun names the step about to run.
BeginStep ==
    /\ pc = "step" /\ StepsLeft
    /\ ~AlreadyCompleted
    /\ \/ RefusedAt("step")
       \/ /\ AllowedAt("step")
          /\ WorkerGoto("map")
          /\ current' = [current EXCEPT ![cur] = idx]
          /\ final' = [final EXCEPT ![cur] = fin]
          /\ tries' = 0
          /\ UNCHANGED <<status, createdAt, stepVars, idx, fin, spent>>

\* Mutation: failRun skips from the failed step itself.
FirstSkipped_Failed == idx

FirstSkipped == idx + 1

\* failRun(index): on to the steps after the failed one.
EnterFailRun == /\ WorkerGoto("skip")
                /\ idx' = FirstSkipped
                /\ UNCHANGED <<dbVars, tries, fin, spent>>

\* mapInput and ValidateInput reject the input, accept it, or are not reached because
\* the event row of the UpdateRun before was not written.
MapInput ==
    /\ pc = "map"
    /\ \/ EnterFailRun
       \/ WorkerGoto("attempt") /\ UNCHANGED <<dbVars, idx, tries, fin, spent>>
       \/ CtxDone /\ Abandon

\* UpdateStep: the step is running, one attempt more.
BeginAttempt ==
    \/ RefusedAt("attempt")
    \/ /\ AllowedAt("attempt")
       /\ WorkerGoto("exec")
       /\ stepStatus' = [stepStatus EXCEPT ![cur][idx] = "running"]
       /\ attempt' = [attempt EXCEPT ![cur][idx] = @ + 1]
       /\ tries' = tries + 1
       /\ UNCHANGED <<runVars, artifacts, idx, fin, spent>>

\* The capability returns: with a result, with an error (a step's timeout is one), or
\* after runCtx was done.  In that case the store call that follows fails at the latest.
Execute ==
    /\ pc = "exec"
    /\ IF CtxDone
       THEN Abandon
       ELSE /\ \/ WorkerGoto("ok")
               \/ WorkerGoto("err")
            /\ UNCHANGED <<dbVars, idx, tries, fin, spent>>

\* CompleteStep: the step's result and its artifact, in one transaction.
CompleteStep ==
    \/ RefusedAt("ok")
    \/ /\ AllowedAt("ok")
       /\ WorkerGoto("step")
       /\ stepStatus' = [stepStatus EXCEPT ![cur][idx] = "completed"]
       /\ artifacts' = [artifacts EXCEPT ![cur][idx] = @ + 1]
       /\ idx' = idx + 1 /\ fin' = idx
       /\ UNCHANGED <<runVars, attempt, tries, spent>>

\* UpdateStep: the attempt failed.
RecordFailure ==
    \/ RefusedAt("err")
    \/ /\ AllowedAt("err")
       /\ WorkerGoto("backoff")
       /\ stepStatus' = [stepStatus EXCEPT ![cur][idx] = "failed"]
       /\ UNCHANGED <<runVars, attempt, artifacts, idx, tries, fin, spent>>

AttemptsLeft == tries < MaxAttempts[idx]

\* Another attempt after the pause, or failRun.  A deadline that passes after the last
\* attempt was recorded still fails the run; a user's cancel or a shutdown does not.
\* (A context done before the event row of RecordFailure is written ends execute there.)
Backoff ==
    /\ pc = "backoff"
    /\ \/ /\ AttemptsLeft /\ ~CtxDone
          /\ WorkerGoto("attempt")
          /\ UNCHANGED <<dbVars, idx, tries, fin, spent>>
       \/ /\ ~AttemptsLeft /\ ~stop /\ ~userCancelled
          /\ EnterFailRun
       \/ CtxDone /\ Abandon

\* failRun marks the steps behind the failed one, outside the context; the errors are
\* ignored.
SkipStep ==
    /\ pc = "skip" /\ StepsLeft
    /\ WorkerGoto("skip")
    /\ IF Writable(cur)
       THEN stepStatus' = [stepStatus EXCEPT ![cur][idx] = "skipped"]
       ELSE UNCHANGED stepStatus
    /\ idx' = idx + 1
    /\ UNCHANGED <<runVars, attempt, artifacts, tries, fin, spent>>

FailRun ==
    /\ pc = "skip" /\ ~StepsLeft
    /\ IF Writable(cur)
       THEN /\ WorkerGoto("release")
            /\ status' = [status EXCEPT ![cur] = "failed"]
            /\ final' = [final EXCEPT ![cur] = fin]
            /\ UNCHANGED <<current, createdAt, stepVars, idx, tries, fin, spent>>
       ELSE Abandon

\* Every step is completed: so is the run.
CompleteRun ==
    /\ pc = "step" /\ ~StepsLeft
    /\ \/ RefusedAt("step")
       \/ /\ AllowedAt("step")
          /\ WorkerGoto("release")
          /\ status' = [status EXCEPT ![cur] = "completed"]
          /\ current' = [current EXCEPT ![cur] = 0]
          /\ final' = [final EXCEPT ![cur] = fin]
          /\ UNCHANGED <<createdAt, stepVars, idx, tries, fin, spent>>

\* A statement fails: execute returns, whatever it was about to store.  In the states
\* just after an UpdateRun or UpdateStep this is its event row that fails.
StoreFails ==
    /\ \/ pc \in {"reload", "step", "map", "attempt", "exec", "ok", "err", "backoff"}
       \/ pc = "skip" /\ ~StepsLeft
    /\ Spend("fault")
    /\ WorkerGoto("release")
    /\ UNCHANGED <<dbVars, idx, tries, fin>>

\* failRun ignores the error: this step is not marked.
SkipFails ==
    /\ pc = "skip" /\ StepsLeft
    /\ Spend("fault")
    /\ WorkerGoto("skip")
    /\ idx' = idx + 1
    /\ UNCHANGED <<dbVars, tries, fin>>

\* The deadline of the workflow passes while execute is at work.
Expire ==
    /\ pc \in {"step", "map", "attempt", "exec", "ok", "err", "backoff"}
    /\ ~expired
    /\ Spend("timeout")
    /\ expired' = TRUE
    /\ UNCHANGED <<dbVars, processVars, active, userCancelled, pc, localVars, clientVars, now>>

-----------------------------------------------------------------------------

Worker ==
    \/ WakeUp \/ WorkerExit \/ ClaimNextPendingRun \/ NothingToClaim
    \/ ClaimInterrupted \/ Publish
    \/ Reload \/ Release \/ SkipCompleted \/ BeginStep \/ MapInput \/ BeginAttempt
    \/ Execute \/ CompleteStep \/ RecordFailure \/ Backoff \/ SkipStep \/ FailRun
    \/ CompleteRun

Faults == ClaimFails \/ StoreFails \/ SkipFails \/ Expire

Handler(c) ==
    \/ \E r \in Runs : Start(c, r) \/ Retry(c, r) \/ CancelRun(c, r)
    \/ CreateRun(c) \/ ResetRunForRetry(c) \/ GiveUp(c) \/ Signal(c) \/ NotifyWorker(c)

Boot == StartWorker \/ Serve \/ \E r \in Runs : Recover(r)

Process == Boot \/ Terminate \/ Exit \/ Crash

Next == Worker \/ Faults \/ Process \/ \E c \in Clients : Handler(c)

Spec == Init /\ [][Next]_vars

\* The goroutines of the process are scheduled, a capability returns (its context has
\* a timeout), a handler finishes what it has committed, and main ends within its
\* shutdown limit; somebody starts the API again.  Nothing makes a client call, a
\* stop, a retry or a fault happen.
Fairness ==
    /\ WF_vars(Worker)
    /\ WF_vars(Boot)
    /\ WF_vars(Exit)
    /\ \A c \in Clients : WF_vars(Signal(c)) /\ WF_vars(NotifyWorker(c))

FairSpec == Spec /\ Fairness

-----------------------------------------------------------------------------
(* Safety: what the database says, in every state.                         *)

Completed(r) == {i \in Steps : stepStatus[r][i] = "completed"}

PrefixStored(r) ==
    \A i \in Steps :
        /\ i \in Completed(r) => 1..i \subseteq Completed(r)
        /\ artifacts[r][i] = IF i \in Completed(r) THEN 1 ELSE 0

\* The steps with a stored result are a prefix of the definition (a step is executed
\* after the ones it depends on, across retries and recoveries), and each has exactly
\* one artifact, the other steps none: neither a late result nor a recovery duplicates
\* or orphans one.
ResultsAreAPrefix == \A r \in Runs : PrefixStored(r)

FinalStored(r) ==
    /\ final[r] # 0 => final[r] \in Completed(r)
    /\ status[r] = "completed" => Completed(r) = Steps /\ final[r] = NumSteps

\* A run's final artifact is one of its artifacts; a completed run has all its results
\* and its final artifact is the last step's (the dashboard's result), although the
\* worker carries the artifact in a local copy that it reloads on every claim.
FinalArtifactIsStored == \A r \in Runs : FinalStored(r)

\* A failed run is left ready for a retry: results up to the step that failed, which
\* has failed or had its input rejected, and the steps behind it skipped (still
\* pending, if the store lost failRun's write); no step is left running.
FailedRunIsSettled ==
    \A r \in Runs : status[r] = "failed" =>
        \E k \in Steps :
            /\ Completed(r) = 1 .. k-1
            /\ stepStatus[r][k] \in {"pending", "failed"}
            /\ \A i \in k+1 .. NumSteps :
                  \/ stepStatus[r][i] = "skipped"
                  \/ spent["fault"] > 0 /\ stepStatus[r][i] = "pending"

CancelSettled(r) ==
    status[r] = "cancelled" =>
        \A i \in Steps : stepStatus[r][i] \notin {"pending", "running"}

\* A cancelled run has no step pending or running, however late the worker reports.
CancelledRunIsSettled == \A r \in Runs : CancelSettled(r)

-----------------------------------------------------------------------------
(* Safety: the worker and the handlers.                                    *)

\* The single worker executes one run at a time, and a run that says "running" while
\* the process serves is the one it executes: only the workflow deadline or a failing
\* store may leave another run behind.
RunningIsExecuted ==
    phase = "up" /\ ~stop /\ spent["timeout"] = 0 /\ spent["fault"] = 0 =>
        \A r \in Runs : status[r] = "running" => cur = r

\* The worker never sleeps on a pending run: its wake channel is full, or a handler
\* that has committed is about to fill it.
NoLostWakeUp ==
    phase = "up" /\ pc = "idle" /\ ~stop /\ Pending # {} =>
        wake \/ \E c \in Clients : cpc[c] = "signal"

\* A cancellation that races with the claim is seen by one side: the worker executes a
\* cancelled run only until the handler that cancelled it gets the mutex.
CancelReachesWorker ==
    \A r \in Runs :
        status[r] = "cancelled" /\ cur = r /\ pc \notin {"claimed", "reload", "release"} =>
            userCancelled \/ \E c \in Clients : cpc[c] = "notify" /\ target[c] = r

\* A handler's interrupt hits the run it cancelled, not the one claimed after it.
CancelHitsItsRun == userCancelled => active \in Runs /\ status[active] = "cancelled"

-----------------------------------------------------------------------------
(* The inductive invariant: the rows, and what the worker knows of its run. *)

QueuedBlank(r) == status[r] \in {"absent", "pending"} => final[r] = 0

RowInv(r) == QueuedBlank(r) /\ PrefixStored(r) /\ FinalStored(r) /\ CancelSettled(r)

\* Only a serving process has a worker and handlers, and recovery lists only runs that
\* nobody else can touch meanwhile.
ProcessInv ==
    /\ phase # "up" => pc = "off" /\ \A c \in Clients : cpc[c] = "idle"
    /\ phase # "recovering" => toRecover = {}
    /\ \A r \in toRecover : status[r] \in Interrupted

OnStep == {"map", "attempt", "exec", "ok", "err", "backoff"}

\* The run the worker holds is running, unless it has just been cancelled.
HoldsRun == pc \in {"claimed", "reload", "step", "skip"} \union OnStep =>
               status[cur] \in {"running", "cancelled"}

\* The steps before the worker's index have a result, the last of them is the artifact
\* it carries, and the step it works on has none; failRun is past the failed step.
Cursor ==
    /\ pc \in {"claimed", "reload"} => final[cur] = 0
    /\ pc \in {"step"} \union OnStep => 1 .. idx-1 \subseteq Completed(cur) /\ fin = idx - 1
    /\ pc \in OnStep => idx \notin Completed(cur)
    /\ pc = "skip" => /\ idx - 1 \in Steps \ Completed(cur)
                      /\ fin # 0 => fin \in Completed(cur)

\* The rows of every run are consistent with each other, and with what the worker is
\* about to write, in every state.
StoreInv == (\A r \in Runs : RowInv(r)) /\ ProcessInv /\ HoldsRun /\ Cursor

-----------------------------------------------------------------------------
(* Safety: what a step may never do.                                       *)

\* A cancelled or completed run is final: no late write of the worker, no retry, no
\* recovery touches the run, its steps or its artifacts again.
TerminalIsFrozen ==
    [][\A r \in Runs : status[r] \in {"cancelled", "completed"} =>
          /\ status'[r] = status[r] /\ current'[r] = current[r] /\ final'[r] = final[r]
          /\ stepStatus'[r] = stepStatus[r] /\ attempt'[r] = attempt[r]
          /\ artifacts'[r] = artifacts[r]]_vars

\* The executions a run may have had: its first, and one more for each retry and each end
\* of the process.
Executions == 1 + spent["retry"] + spent["stop"]

\* An attempt is recorded, one at a time, only for the run whose control is published
\* and while the run is running, on the first step without a result.  Attempts add up over
\* retries and restarts, but no execution makes more of them than the step's limit.
AttemptsAreSequential ==
    [][\A r \in Runs, i \in Steps : attempt'[r][i] # attempt[r][i] =>
          /\ attempt'[r][i] = attempt[r][i] + 1
          /\ attempt'[r][i] <= MaxAttempts[i] * Executions
          /\ status[r] = "running" /\ active = r
          /\ Completed(r) = 1 .. i-1]_vars

\* RunStatus.CanTransitionTo (waiting_approval is never stored); a new row is pending.
CanTransitionTo(s, t) ==
    t \in CASE s = "absent"  -> {"pending"}
            [] s = "pending" -> {"running", "cancelled"}
            [] s = "running" -> {"completed", "failed", "cancelled"}
            [] s = "failed"  -> {"pending"}
            [] OTHER         -> {}

Transition(r) == status'[r] # status[r] => CanTransitionTo(status[r], status'[r])

\* While the process serves, every status change of a run is one of the table, although
\* the worker's guard only excludes cancelled runs.
ServingFollowsTable == [][phase = "up" => \A r \in Runs : Transition(r)]_vars

\* The promise about each run's life: the engine implements RunLifecycle.
Lifecycle == INSTANCE RunLifecycle WITH done <- [r \in Runs |-> Completed(r)]

RefinesLifecycle == Lifecycle!Spec

-----------------------------------------------------------------------------
(* Liveness.                                                               *)

Settled(r) == status[r] \in {"completed", "failed", "cancelled"}

\* Nobody works on the run, although it says so.
LeftRunning(r) == status[r] = "running" /\ spent["fault"] + spent["timeout"] > 0

\* Every submitted run reaches a terminal status, over restarts and failing claims, or
\* is left running by a store call that failed: its own error, the list of a recovery
\* that was cut off, or the workflow deadline, which ends the context of the call that
\* would record it.
RunsSettle == \A r \in Runs : status[r] = "pending" ~> Settled(r) \/ LeftRunning(r)

Exhausted == spent["fault"] = Limits["fault"] /\ spent["timeout"] = Limits["timeout"]

\* A run left running, however that came about (also by a recovery that did not list it),
\* settles after the next start: recovery lists it, and the worker is told.
RestartSettles ==
    \A r \in Runs : phase = "down" /\ status[r] = "running" /\ Exhausted ~> Settled(r)

=============================================================================
