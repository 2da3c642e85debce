-------------------------- MODULE RunPolling_proofs --------------------------
(***************************************************************************)
(* What a dashboard sees of the workflow engine, for every value of the    *)
(* constants: the proofs that the answers of GetRun, put together from     *)
(* three statements, hold together, and that the dashboard stops asking    *)
(* only when it shows what the run has become, or has missed a retry.      *)
(***************************************************************************)
EXTENDS RunPolling, WorkflowEngine_control

(***************************************************************************)
(* The invariant of what is read.  A result is never lost, and a cancelled *)
(* or completed run stays so: what a statement of GetRun has read bounds   *)
(* what the later ones will find.                                          *)
(***************************************************************************)

\* The row that was read is still covered by what is stored.
RowHolds(s) ==
    /\ s.final # 0 => s.final \in Completed(Watched)
    /\ s.status = "completed" => Completed(Watched) = Steps /\ s.final = NumSteps
    /\ s.status = "cancelled" => status[Watched] = "cancelled"

\* So are the row and the steps.
StepsHold(s) ==
    /\ s.done \subseteq Completed(Watched)
    /\ s.final # 0 => s.final \in Completed(Watched)
    /\ s.status = "completed" => s.done = Steps /\ s.final = NumSteps
    /\ s.status = "cancelled" => s.open = {}

ReadOf(x) ==
    /\ Stage(x) = "steps" => RowHolds(request[x].snapshot)
    /\ Stage(x) = "artifacts" => StepsHold(request[x].snapshot)
    /\ Stage(x) = "answer" => Consistent(request[x].snapshot)

ReadInv == \A x \in Requests : ReadOf(x)

(***************************************************************************)
(* The invariant of what is shown.  A failed run changes only by a retry;  *)
(* there is one operation at a time, and a poll that a retry overtakes is  *)
(* marked as old.                                                          *)
(***************************************************************************)

\* A status that no step but a retry changes is still the run's.
Fresh(s) == s \in {"completed", "failed", "cancelled"} => status[Watched] = s

HasRow(x) == Stage(x) \in {"steps", "artifacts", "answer"}

ShownInv ==
    /\ \A b, c \in Clients : Stage(b) # "none" /\ Stage(c) # "none" => b = c
    /\ \A c \in Clients : /\ cpc[c] = "reset" => request[c].op = "retry"
                          /\ HasRow(c) => Fresh(request[c].snapshot.status)
    /\ HasRow(Poller) => Fresh(request[Poller].snapshot.status) \/ request[Poller].old
    /\ Fresh(shown) \/ misled \/ \E c \in Clients : RetryCommitted(c)

-----------------------------------------------------------------------------
(* The engine's part of a step.                                            *)

\* A step of the polling model is a step of the engine or leaves it alone.
LEMMA EngineStep == ASSUME [PollNext]_pollVars PROVE [Next]_vars
<1>1. ASSUME NEW c \in Clients, Operation(c) PROVE Handler(c)
  BY <1>1, PollingAssumption DEF PollingAssumption, Operation, StartRun, RetryRun, Cancel,
     Insert, Reset, Refused, Respond, Handler
<1>2. CASE Background \/ Disconnect
  BY <1>2 DEF Background, Disconnect, Next, Process
<1>3. CASE \/ Poll \/ Refetch
           \/ \E x \in Requests : ReadNext(x) \/ Answer(x) \/ ReadFails(x)
  BY <1>3 DEF Poll, Refetch, ReadNext, Answer, ReadFails
<1>4. CASE UNCHANGED pollVars
  BY <1>4 DEF pollVars
<1> QED
  BY <1>1, <1>2, <1>3, <1>4 DEF PollNext, Next

\* So the polling model implements the engine, and has its invariants.
LEMMA EngineSpec == PollSpec => Spec
<1>1. PollInit => Init
  BY DEF PollInit
<1>2. [PollNext]_pollVars => [Next]_vars
  BY EngineStep
<1> QED
  BY <1>1, <1>2, PTL DEF PollSpec, Spec

\* In particular its types and the consistency of its rows.
LEMMA EngineInv == PollSpec => [](TypeOK /\ StoreInv)
  BY EngineSpec, TypeCorrect, StoreConsistent, PTL

\* A result that is stored is never lost.
LEMMA ResultsGrow ==
    ASSUME TypeOK, StoreInv, [Next]_vars, NEW r \in Runs
    PROVE  Completed(r) \subseteq Completed(r)'
<1>1. CASE Frozen(r)
  BY <1>1 DEF Frozen, Completed
<1>2. CASE Progressed(r)
  <2>1. PICK i \in Steps : Completed(r) = 1 .. i-1 /\ Completed(r)' = 1 .. i
    BY <1>2 DEF Progressed
  <2>2. \A j \in 1 .. i-1 : j \in 1 .. i
    BY DEF Steps
  <2> QED
    BY <2>1, <2>2
<1>3. CASE SameResults(r)
  BY <1>3 DEF SameResults
<1> QED
  BY <1>1, <1>2, <1>3, StepOfRow DEF Effect, Worked, Moved, Recorded

\* A failed run stays so until a handler resets it.
LEMMA FailedStays ==
    ASSUME TypeOK, StoreInv, [Next]_vars, NEW r \in Runs, status[r] = "failed",
           \A c \in Clients : ~ResetRunForRetry(c)
    PROVE  status'[r] = "failed"
<1> USE DEF TypeOK, RunRowsOK, dbVars, runVars
<1>1. CASE ExecuteStep
  <2>1. cur \in Runs /\ cur # r
    <3>1. pc \in {"claimed", "reload", "step", "skip"} \union OnStep
      BY <1>1, ExecuteMoves DEF PublishedPcs
    <3> QED
      BY <3>1 DEF StoreInv, HoldsRun, WorkerOK, OnStep
  <2> QED
    BY <1>1, <2>1 DEF ExecuteStep, Reload, SkipCompleted, BeginStep, MapInput, BeginAttempt,
       Execute, CompleteStep, RecordFailure, Backoff, SkipStep, FailRun, CompleteRun, StoreFails,
       SkipFails, Expire, Abandon, EnterFailRun, RefusedAt
<1>2. CASE LoopStep
  BY <1>2 DEF LoopStep, WakeUp, WorkerExit, ClaimNextPendingRun, Oldest, Pending, NothingToClaim,
     ClaimInterrupted, ClaimFails, ClaimLost, Publish, Release
<1>3. CASE Process
  BY <1>3 DEF Process, Boot, StartWorker, Serve, Recover, Oldest, RequeueRun, Terminate, Exit,
     Crash, LoseMemory, StoreInv, ProcessInv, Interrupted
<1>4. ASSUME NEW c \in Clients, Handler(c) PROVE status'[r] = "failed"
  BY <1>4 DEF Handler, Start, Retry, CancelRun, Cancellable, CreateRun, GiveUp, Signal,
     NotifyWorker
<1>5. CASE UNCHANGED vars
  BY <1>5 DEF vars
<1> QED
  BY <1>1, <1>2, <1>3, <1>4, <1>5 DEF Next, Worker, Faults, ExecuteStep, LoopStep

\* A completed run stays so, and so do its steps.
LEMMA CompletedStays ==
    ASSUME TypeOK, StoreInv, [Next]_vars, NEW r \in Runs, status[r] = "completed"
    PROVE  status'[r] = "completed"
  BY StepOfRow DEF Frozen, Effect, Worked, Moved, Recorded, Progressed

\* The worker, the faults and the start of the process leave the handlers alone.
LEMMA BackgroundMoves ==
    ASSUME TypeOK, Background
    PROVE  UNCHANGED <<cpc, request, shown, misled>> /\ \A c \in Clients : ~ResetRunForRetry(c)
<1>1. UNCHANGED <<cpc, target>>
  <2> USE DEF WorkerFrame, WorkerGoto, clientVars, Abandon, EnterFailRun, RefusedAt
  <2>1. CASE Worker
    BY <2>1 DEF Worker, WakeUp, WorkerExit, ClaimNextPendingRun, NothingToClaim,
       ClaimInterrupted, ClaimLost, Publish, Reload, Release, SkipCompleted, BeginStep, MapInput,
       BeginAttempt, Execute, CompleteStep, RecordFailure, Backoff, SkipStep, FailRun, CompleteRun
  <2>2. CASE Faults
    BY <2>2 DEF Faults, ClaimFails, ClaimLost, StoreFails, SkipFails, Expire
  <2>3. CASE Boot \/ Terminate
    BY <2>3 DEF Boot, StartWorker, Serve, Recover, Terminate
  <2> QED
    BY <2>1, <2>2, <2>3 DEF Background
<1>2. ASSUME NEW c \in Clients, ResetRunForRetry(c) PROVE FALSE
  <2>1. cpc[c] = "reset" /\ cpc' = [cpc EXCEPT ![c] = "signal"]
    BY <1>2 DEF ResetRunForRetry, Goto
  <2>2. cpc'[c] = "signal"
    BY <2>1 DEF TypeOK, HandlersOK
  <2> QED
    BY <1>1, <2>1, <2>2
<1> QED
  BY <1>1, <1>2 DEF Background, viewVars

\* An operation moves its own handler and request only; a retry marks the poller's.
LEMMA OperationMoves ==
    ASSUME TypeOK, ViewOK, NEW c \in Clients, Operation(c)
    PROVE  /\ \A b \in Clients \ {c} : cpc'[b] = cpc[b] /\ request'[b] = request[b]
           /\ ~Reset(c) => request'[Poller] = request[Poller]
           /\ UNCHANGED <<shown, misled>>
<1> Poller \notin Clients /\ c \in Requests /\ Poller \in Requests
  BY PollingAssumption DEF PollingAssumption, Requests
<1> USE DEF TypeOK, HandlersOK, ViewOK, Requests, Return, Goto, viewVars
<1>1. CASE StartRun(c) \/ RetryRun(c) \/ Cancel(c)
  BY <1>1 DEF StartRun, RetryRun, Cancel, Start, Retry, CancelRun, Call, Operate
<1>2. CASE Insert(c)
  BY <1>2 DEF Insert, CreateRun
<1>3. CASE Reset(c)
  BY <1>3 DEF Reset, ResetRunForRetry
<1>4. CASE Refused(c)
  BY <1>4 DEF Refused, GiveUp
<1>5. CASE Respond(c)
  BY <1>5 DEF Respond, Signal, NotifyWorker, BeginGetRun
<1> QED
  BY <1>1, <1>2, <1>3, <1>4, <1>5 DEF Operation

\* A statement of GetRun fills in its part of one snapshot.
LEMMA ReadMoves ==
    ASSUME ViewOK, NEW x \in Requests, ReadNext(x)
    PROVE  /\ \A y \in Requests \ {x} : request'[y] = request[y]
           /\ \/ /\ Stage(x) = "row"
                 /\ request'[x] = [request[x] EXCEPT !.stage = "steps",
                     !.snapshot = [@ EXCEPT !.status = status[Watched],
                                            !.final = final[Watched]]]
              \/ /\ Stage(x) = "steps"
                 /\ request'[x] = [request[x] EXCEPT !.stage = "artifacts",
                     !.snapshot = [@ EXCEPT !.done = Completed(Watched),
                                            !.open = Open(Watched)]]
              \/ /\ Stage(x) = "artifacts"
                 /\ request'[x] = [request[x] EXCEPT !.stage = "answer",
                     !.snapshot = [@ EXCEPT !.stored = Stored(Watched)]]
           /\ UNCHANGED <<vars, shown, misled>>
<1>1. PICK k \in 1..3 :
          /\ Stage(x) = GetRunOrder[k]
          /\ request' = [request EXCEPT ![x].stage = GetRunOrder[k + 1],
                                        ![x].snapshot = Filled(Stage(x), @)]
  BY DEF ReadNext
<1>2. \A y \in Requests \ {x} : request'[y] = request[y]
  BY <1>1 DEF ViewOK
<1>3. request'[x] = [request[x] EXCEPT !.stage = GetRunOrder[k + 1],
                                       !.snapshot = Filled(Stage(x), @)]
  BY <1>1 DEF ViewOK
<1>4. /\ GetRunOrder[1] = "row" /\ GetRunOrder[2] = "steps"
      /\ GetRunOrder[3] = "artifacts" /\ GetRunOrder[4] = "answer"
  BY DEF GetRunOrder
<1>5. request[x] \in [op : {"get", "start", "retry", "cancel"}, stage : Stages,
                      old : BOOLEAN, snapshot : Snapshots]
  BY DEF ViewOK
<1>6. CASE k = 1
  <2>1. GetRunOrder[k] = "row" /\ GetRunOrder[k + 1] = "steps"
    BY <1>4, <1>6
  <2>2. Stage(x) = "row"
    BY <1>1, <2>1
  <2>3. request'[x] = [request[x] EXCEPT !.stage = "steps",
                                         !.snapshot = Filled("row", request[x].snapshot)]
    BY <1>3, <2>1, <2>2
  <2> QED
    BY <1>2, <1>5, <2>2, <2>3 DEF Filled, ReadNext, Snapshots
<1>7. CASE k = 2
  <2>1. GetRunOrder[k] = "steps" /\ GetRunOrder[k + 1] = "artifacts"
    BY <1>4, <1>7
  <2>2. Stage(x) = "steps"
    BY <1>1, <2>1
  <2>3. request'[x] = [request[x] EXCEPT !.stage = "artifacts",
                                         !.snapshot = Filled("steps", request[x].snapshot)]
    BY <1>3, <2>1, <2>2
  <2> QED
    BY <1>2, <1>5, <2>2, <2>3 DEF Filled, ReadNext, Snapshots
<1>8. CASE k = 3
  <2>1. GetRunOrder[k] = "artifacts" /\ GetRunOrder[k + 1] = "answer"
    BY <1>4, <1>8
  <2>2. Stage(x) = "artifacts"
    BY <1>1, <2>1
  <2>3. request'[x] = [request[x] EXCEPT !.stage = "answer",
                                         !.snapshot = Filled("artifacts", request[x].snapshot)]
    BY <1>3, <2>1, <2>2
  <2> QED
    BY <1>2, <1>5, <2>2, <2>3 DEF Filled, ReadNext, Snapshots
<1> QED
  BY <1>6, <1>7, <1>8

-----------------------------------------------------------------------------
(* The types of what is requested, read and shown.                         *)

OneRequest == [op : {"get", "start", "retry", "cancel"}, stage : Stages,
               old : BOOLEAN, snapshot : Snapshots]

\* A new request is well formed.
LEMMA RequestTyped ==
    ASSUME NEW op \in {"get", "start", "retry", "cancel"}, NEW stage \in Stages,
           NEW s \in RunStatuses
    PROVE  Request(op, stage, Blank(s)) \in OneRequest
<1>1. Blank(s) \in Snapshots
  <2>1. 0 \in 0..NumSteps
    BY EngineAssumption DEF EngineAssumption
  <2> QED
    BY <2>1 DEF Blank, Snapshots
<1> QED
  BY <1>1 DEF Request, OneRequest

\* Only the handler's own fields matter to the type of a step of its operation.
LEMMA OperationTyped ==
    ASSUME TypeOK, ViewOK, NEW c \in Clients, Operation(c)
    PROVE  /\ request' \in [Requests -> OneRequest]
           /\ request'[Poller].op = "get" /\ Stage(Poller)' # "sent"
           /\ cpc'[c] # "idle" <=> Stage(c)' = "sent"
<1> c \in Requests /\ Poller \in Requests /\ Poller # c
  BY PollingAssumption DEF PollingAssumption, Requests
<1> "absent" \in RunStatuses /\ "pending" \in RunStatuses
  BY DEF RunStatuses
<1>1. request \in [Requests -> OneRequest]
  BY DEF ViewOK, OneRequest
<1>2. /\ request[Poller].op = "get" /\ Stage(Poller) # "sent"
      /\ cpc[c] # "idle" <=> Stage(c) = "sent"
  BY DEF ViewOK
<1> USE DEF Return, Goto, viewVars, Stage
<1>3. CASE \E op \in {"start", "retry", "cancel"} :
              /\ request' = [request EXCEPT ![c] = Request(op, "sent", Blank("absent"))]
              /\ cpc'[c] # "idle"
  <2>1. PICK op \in {"start", "retry", "cancel"} :
              /\ request' = [request EXCEPT ![c] = Request(op, "sent", Blank("absent"))]
              /\ cpc'[c] # "idle"
    BY <1>3
  <2>2. Request(op, "sent", Blank("absent")) \in OneRequest
    BY RequestTyped DEF Stages
  <2> QED
    BY <1>1, <1>2, <2>1, <2>2 DEF Request
<1>4. CASE Insert(c)
  <2>1. cpc[c] = "create" /\ cpc'[c] \in {"signal", "conflict"}
    BY <1>4 DEF Insert, CreateRun, TypeOK, HandlersOK
  <2> QED
    BY <1>1, <1>2, <1>4, <2>1 DEF Insert
<1>5. CASE Reset(c)
  <2>1. cpc[c] = "reset" /\ cpc'[c] = "signal"
    BY <1>5 DEF Reset, ResetRunForRetry, TypeOK, HandlersOK
  <2>2. PICK o \in BOOLEAN : request' = [request EXCEPT ![Poller].old = o]
    <3>1. (Stage(Poller) \in {"steps", "artifacts", "answer"}) \in BOOLEAN
      OBVIOUS
    <3> QED
      BY <1>5, <3>1, Zenon DEF Reset
  <2> QED
    BY <1>1, <1>2, <2>1, <2>2 DEF OneRequest
<1>6. CASE Refused(c)
  <2>1. cpc'[c] = "idle" /\ request' = [request EXCEPT ![c] = NoRequest]
    BY <1>6 DEF Refused, GiveUp, TypeOK, HandlersOK
  <2>2. NoRequest \in OneRequest /\ NoRequest.stage = "none"
    BY RequestTyped DEF NoRequest, Stages, Request
  <2> QED
    BY <1>1, <1>2, <2>1, <2>2
<1>7. CASE Respond(c)
  <2>1. cpc'[c] = "idle"
    BY <1>7 DEF Respond, Signal, NotifyWorker, TypeOK, HandlersOK
  <2>2. CASE request[c].op = "start"
    <3>1. request' = [request EXCEPT ![c].stage = "answer", ![c].snapshot = Blank("pending")]
      BY <1>7, <2>2 DEF Respond
    <3>2. Blank("pending") \in Snapshots
      BY RequestTyped DEF OneRequest, Request, Stages
    <3> QED
      BY <1>1, <1>2, <2>1, <3>1, <3>2 DEF OneRequest, Stages
  <2>3. CASE request[c].op # "start"
    <3>1. request' = [request EXCEPT ![c] = Request(request[c].op, "row", Blank("absent"))]
      BY <1>7, <2>3 DEF Respond, BeginGetRun, GetRunOrder
    <3>2. request[c].op \in {"get", "start", "retry", "cancel"}
      BY <1>1 DEF OneRequest
    <3>3. Request(request[c].op, "row", Blank("absent")) \in OneRequest
      BY <3>2, RequestTyped DEF Stages
    <3> QED
      BY <1>1, <1>2, <2>1, <3>1, <3>3 DEF Request
  <2> QED
    BY <2>2, <2>3
<1>8. CASE StartRun(c) \/ RetryRun(c) \/ Cancel(c)
  BY <1>3, <1>8 DEF StartRun, RetryRun, Cancel, Start, Retry, CancelRun, Call, Operate, TypeOK,
     HandlersOK
<1> QED
  BY <1>4, <1>5, <1>6, <1>7, <1>8 DEF Operation

\* Every step leaves the requests well formed, and a handler at work "sent".
LEMMA ViewStep ==
    ASSUME TypeOK, ViewOK, [PollNext]_pollVars
    PROVE  ViewOK'
<1> USE DEF Stage
<1>1. request \in [Requests -> OneRequest]
  BY DEF ViewOK, OneRequest
<1>2. ASSUME /\ request' \in [Requests -> OneRequest]
             /\ shown' \in RunStatuses
             /\ request'[Poller].op = "get" /\ request'[Poller].stage # "sent"
             /\ \A c \in Clients : cpc'[c] # "idle" <=> request'[c].stage = "sent"
             /\ misled' \in BOOLEAN
      PROVE  ViewOK'
  BY <1>2 DEF ViewOK, OneRequest
<1>3. Poller \in Requests /\ Poller \notin Clients /\ Clients \subseteq Requests
  BY PollingAssumption DEF PollingAssumption, Requests
<1>4. "absent" \in RunStatuses
  BY DEF RunStatuses
<1>5. NoRequest \in OneRequest /\ NoRequest.stage = "none" /\ NoRequest.op = "get"
  BY <1>4, RequestTyped DEF NoRequest, Stages, Request
<1>6. CASE Background
  BY <1>1, <1>6, BackgroundMoves DEF ViewOK
<1>7. CASE Disconnect
  <2>1. cpc' = [c \in Clients |-> "idle"]
    BY <1>7 DEF Disconnect, Exit, Crash, LoseMemory
  <2> QED
    <3>1. request' = [x \in Requests |-> NoRequest] /\ shown' \in RunStatuses
      BY <1>7 DEF Disconnect, ViewOK
    <3>2. misled' \in BOOLEAN
      BY <1>7, Zenon DEF Disconnect
    <3> QED
      BY <1>2, <1>3, <1>5, <2>1, <3>1, <3>2
<1>8. CASE Poll \/ Refetch
  <2>1. UNCHANGED <<cpc, shown, misled>>
        /\ request' = [request EXCEPT ![Poller] = Request("get", "row", Blank("absent"))]
    BY <1>8 DEF Poll, Refetch, BeginGetRun, GetRunOrder, vars, clientVars
  <2>2. Request("get", "row", Blank("absent")) \in OneRequest
    BY <1>4, RequestTyped DEF Stages
  <2> QED
    BY <1>1, <1>2, <1>3, <2>1, <2>2 DEF ViewOK, Request
<1>9. ASSUME NEW c \in Clients, Operation(c) PROVE ViewOK'
  <2>1. /\ request' \in [Requests -> OneRequest]
        /\ request'[Poller].op = "get" /\ request'[Poller].stage # "sent"
        /\ cpc'[c] # "idle" <=> request'[c].stage = "sent"
    BY <1>9, OperationTyped
  <2> QED
    BY <1>9, <2>1, OperationMoves DEF ViewOK, OneRequest
<1>10. ASSUME NEW x \in Requests, ReadNext(x) PROVE ViewOK'
  <2>1. /\ \A y \in Requests \ {x} : request'[y] = request[y]
        /\ UNCHANGED <<cpc, shown, misled>>
        /\ request'[x].op = request[x].op
        /\ request[x].stage # "sent" /\ request'[x].stage # "sent"
    BY <1>1, <1>10, ReadMoves DEF vars, clientVars, OneRequest
  <2>2. request' \in [Requests -> OneRequest]
    <3>1. Completed(Watched) \subseteq Steps /\ Open(Watched) \subseteq Steps
          /\ Stored(Watched) \subseteq Steps
      BY DEF Completed, Open, Stored
    <3>2. status[Watched] \in RunStatuses /\ final[Watched] \in 0..NumSteps
      BY PollingAssumption DEF PollingAssumption, TypeOK, RunRowsOK
    <3>3. request'[x] \in OneRequest
      <4> DEFINE q == request[x]
      <4>1. q \in OneRequest
        BY <1>1
      <4> HIDE DEF q
      <4>0. q.snapshot \in Snapshots
        BY <4>1 DEF OneRequest
      <4>2. ASSUME NEW s \in RunStatuses, NEW f \in 0..NumSteps,
                   request'[x] = [q EXCEPT !.stage = "steps",
                                           !.snapshot = [@ EXCEPT !.status = s, !.final = f]]
            PROVE  request'[x] \in OneRequest
        <5>1. [q.snapshot EXCEPT !.status = s, !.final = f] \in Snapshots
          BY <4>0, <4>2 DEF Snapshots
        <5> QED
          BY <4>1, <4>2, <5>1 DEF OneRequest, Stages
      <4>3. ASSUME NEW d \in SUBSET Steps, NEW o \in SUBSET Steps,
                   request'[x] = [q EXCEPT !.stage = "artifacts",
                                           !.snapshot = [@ EXCEPT !.done = d, !.open = o]]
            PROVE  request'[x] \in OneRequest
        <5>1. [q.snapshot EXCEPT !.done = d, !.open = o] \in Snapshots
          BY <4>0, <4>3 DEF Snapshots
        <5> QED
          BY <4>1, <4>3, <5>1 DEF OneRequest, Stages
      <4>4. ASSUME NEW a \in SUBSET Steps,
                   request'[x] = [q EXCEPT !.stage = "answer",
                                           !.snapshot = [@ EXCEPT !.stored = a]]
            PROVE  request'[x] \in OneRequest
        <5>1. [q.snapshot EXCEPT !.stored = a] \in Snapshots
          BY <4>0, <4>4 DEF Snapshots
        <5> QED
          BY <4>1, <4>4, <5>1 DEF OneRequest, Stages
      <4> QED
        BY <1>10, <3>1, <3>2, <4>2, <4>3, <4>4, ReadMoves DEF q
    <3>4. request' = [y \in Requests |-> request'[y]]
      BY <1>1, <1>10 DEF ReadNext
    <3> QED
      BY <1>1, <2>1, <3>3, <3>4
  <2> QED
    BY <1>2, <1>3, <2>1, <2>2 DEF ViewOK
<1>11. ASSUME NEW x \in Requests, Answer(x) \/ ReadFails(x) PROVE ViewOK'
  <2>1. /\ request' = [request EXCEPT ![x] = NoRequest]
        /\ UNCHANGED cpc
        /\ request[x].stage # "sent"
    BY <1>11 DEF Answer, ReadFails, vars, clientVars
  <2>2. shown' \in RunStatuses /\ misled' \in BOOLEAN
    <3>1. request[x].old \in BOOLEAN /\ request[x].snapshot.status \in RunStatuses
      BY <1>1 DEF OneRequest, Snapshots
    <3>2. (misled \/ (x # Poller /\ RetryCommitted(x))) \in BOOLEAN
      OBVIOUS
    <3>3. shown \in RunStatuses
      BY DEF ViewOK
    <3> QED
      BY <1>11, <3>1, <3>2, <3>3, Zenon DEF Answer, ReadFails
  <2> QED
    BY <1>1, <1>2, <1>3, <1>5, <2>1, <2>2 DEF ViewOK
<1>12. CASE UNCHANGED pollVars
  BY <1>1, <1>12 DEF pollVars, viewVars, vars, clientVars, ViewOK
<1> QED
  BY <1>6, <1>7, <1>8, <1>9, <1>10, <1>11, <1>12 DEF PollNext

\* In every state the requests and what they have read are well formed, the poller never
\* runs an operation, and a button's request is "sent" as long as its handler is at work.
THEOREM ViewTheorem == PollSpec => []ViewOK
<1>1. PollInit => ViewOK
  <2> SUFFICES ASSUME PollInit PROVE ViewOK
    OBVIOUS
  <2>1. "absent" \in RunStatuses
    BY DEF RunStatuses
  <2>2. NoRequest \in OneRequest /\ NoRequest.stage = "none" /\ NoRequest.op = "get"
    BY <2>1, RequestTyped DEF NoRequest, Stages, Request
  <2> QED
    BY <2>1, <2>2, PollingAssumption DEF PollInit, Init, ViewOK, OneRequest, Requests, Stage
<1>2. TypeOK /\ ViewOK /\ [PollNext]_pollVars => ViewOK'
  BY ViewStep
<1> QED
  BY <1>1, <1>2, EngineInv, PTL DEF PollSpec

-----------------------------------------------------------------------------
(* What is read.                                                           *)

\* What a step of an operation leaves of its own request.
LEMMA OperationStage ==
    ASSUME TypeOK, ViewOK, NEW c \in Clients, Operation(c)
    PROVE  \/ Stage(c)' \in {"none", "sent", "row"}
           \/ request'[c].op = "start" /\ Stage(c)' = "answer"
              /\ request'[c].snapshot = Blank("pending")
<1> USE PollingAssumption DEF PollingAssumption, TypeOK, HandlersOK, ViewOK, Requests, Stage
<1>1. CASE StartRun(c) \/ RetryRun(c) \/ Cancel(c)
  BY <1>1 DEF StartRun, RetryRun, Cancel, Operate, Request
<1>2. CASE Insert(c)
  <2>1. request[c].stage = "sent" /\ request' = request
    BY <1>2 DEF Insert, CreateRun, viewVars
  <2> QED
    BY <2>1
<1>3. CASE Reset(c)
  <2>1. request[c].stage = "sent" /\ request'[c] = request[c]
    BY <1>3 DEF Reset, ResetRunForRetry
  <2> QED
    BY <2>1
<1>4. CASE Refused(c)
  BY <1>4 DEF Refused, NoRequest, Request
<1>5. CASE Respond(c)
  BY <1>5 DEF Respond, BeginGetRun, GetRunOrder, Request
<1> QED
  BY <1>1, <1>2, <1>3, <1>4, <1>5 DEF Operation

\* What is stored of the watched run covers what has been read of it.
LEMMA WatchedHolds ==
    ASSUME TypeOK, StoreInv
    PROVE  /\ Completed(Watched) \subseteq Stored(Watched)
           /\ final[Watched] # 0 => final[Watched] \in Completed(Watched)
           /\ status[Watched] = "completed" => /\ Completed(Watched) = Steps
                                               /\ final[Watched] = NumSteps
           /\ status[Watched] = "cancelled" => Open(Watched) = {}
<1> Watched \in Runs
  BY PollingAssumption DEF PollingAssumption
<1>1. PrefixStored(Watched) /\ FinalStored(Watched) /\ CancelSettled(Watched)
  BY DEF StoreInv, RowInv
<1>2. \A i \in Steps : i \in Completed(Watched) => artifacts[Watched][i] = 1
  BY <1>1 DEF PrefixStored
<1>3. Completed(Watched) \subseteq Stored(Watched)
  BY <1>2 DEF Completed, Stored
<1>4. status[Watched] = "cancelled" => Open(Watched) = {}
  BY <1>1 DEF CancelSettled, Open
<1> QED
  BY <1>1, <1>3, <1>4 DEF FinalStored

\* A step that leaves a request alone leaves what it has read covered.
LEMMA ReadKept ==
    ASSUME TypeOK, StoreInv, ReadInv, [Next]_vars, NEW x \in Requests,
           request'[x].stage = request[x].stage, request'[x].snapshot = request[x].snapshot
    PROVE  ReadOf(x)'
<1> Watched \in Runs
  BY PollingAssumption DEF PollingAssumption
<1>1. Completed(Watched) \subseteq Completed(Watched)' /\ Completed(Watched)' \subseteq Steps
  BY ResultsGrow DEF Completed
<1>2. status[Watched] = "cancelled" => status'[Watched] = "cancelled"
  BY CancelledStays
<1>3. ReadOf(x)
  BY DEF ReadInv
<1>4. ASSUME NEW s, RowHolds(s) PROVE
          /\ s.final # 0 => s.final \in Completed(Watched)'
          /\ s.status = "completed" => Completed(Watched)' = Steps /\ s.final = NumSteps
          /\ s.status = "cancelled" => status'[Watched] = "cancelled"
  BY <1>1, <1>2, <1>4 DEF RowHolds
<1>5. ASSUME NEW s, StepsHold(s) PROVE
          /\ s.done \subseteq Completed(Watched)'
          /\ s.final # 0 => s.final \in Completed(Watched)'
          /\ s.status = "completed" => s.done = Steps /\ s.final = NumSteps
          /\ s.status = "cancelled" => s.open = {}
  BY <1>1, <1>5 DEF StepsHold
<1>6. request'[x].stage = "steps" => RowHolds(request[x].snapshot)'
  BY <1>3, <1>4 DEF ReadOf, Stage, RowHolds
<1>7. request'[x].stage = "artifacts" => StepsHold(request[x].snapshot)'
  BY <1>3, <1>5 DEF ReadOf, Stage, StepsHold
<1>8. request'[x].stage = "answer" => Consistent(request[x].snapshot)'
  BY <1>3 DEF ReadOf, Stage, Consistent
<1> QED
  BY <1>6, <1>7, <1>8 DEF ReadOf, Stage

\* Each statement of GetRun finds what the earlier ones have read still covered.
LEMMA ReadStep ==
    ASSUME TypeOK, StoreInv, ViewOK, ReadInv, [PollNext]_pollVars
    PROVE  ReadInv'
<1> [Next]_vars
  BY EngineStep
<1>1. Poller \in Requests /\ Poller \notin Clients /\ Requests = Clients \union {Poller}
  BY PollingAssumption DEF PollingAssumption, Requests
<1>2. \A x \in Requests : request'[x].stage \in {"none", "row", "sent"} => ReadOf(x)'
  BY DEF ReadOf, Stage
<1>3. NoRequest.stage = "none"
  BY DEF NoRequest, Request
<1>4. CASE Background \/ UNCHANGED pollVars
  BY <1>4, BackgroundMoves, ReadKept DEF ReadInv, pollVars, viewVars
<1>5. CASE Disconnect
  BY <1>2, <1>3, <1>5 DEF Disconnect, ReadInv
<1>6. CASE Poll \/ Refetch
  <2>1. request' = [request EXCEPT ![Poller] = Request("get", "row", Blank("absent"))]
    BY <1>6 DEF Poll, Refetch, BeginGetRun, GetRunOrder
  <2>2. request'[Poller].stage = "row" /\ \A c \in Clients : request'[c] = request[c]
    BY <1>1, <2>1 DEF ViewOK, Request
  <2> QED
    BY <1>1, <1>2, <2>2, ReadKept DEF ReadInv
<1>7. ASSUME NEW c \in Clients, Operation(c) PROVE ReadInv'
  <2>1. \A b \in Clients \ {c} : ReadOf(b)'
    BY <1>1, <1>7, OperationMoves, ReadKept
  <2>2. ReadOf(Poller)'
    <3>1. CASE Reset(c)
      BY <1>1, <3>1, ReadKept DEF Reset, ViewOK
    <3> QED
      BY <1>1, <1>7, <3>1, OperationMoves, ReadKept
  <2>3. ReadOf(c)'
    <3>1. CASE request'[c].stage = "answer" /\ request'[c].snapshot = Blank("pending")
      <4>1. Consistent(Blank("pending"))
        BY DEF Consistent, Blank
      <4> QED
        BY <3>1, <4>1 DEF ReadOf, Stage, Consistent
    <3> QED
      BY <1>1, <1>2, <1>7, <3>1, OperationStage DEF Stage
  <2> QED
    BY <1>1, <2>1, <2>2, <2>3 DEF ReadInv
<1>8. ASSUME NEW x \in Requests, ReadNext(x) PROVE ReadInv'
  <2>1. \A y \in Requests \ {x} : ReadOf(y)'
    BY <1>8, ReadMoves, ReadKept
  <2>2. request[x] \in OneRequest /\ ReadOf(x)
    BY DEF ViewOK, OneRequest, ReadInv
  <2>3. UNCHANGED <<status, final, stepStatus, artifacts>>
    BY <1>8, ReadMoves DEF vars, dbVars, runVars, stepVars
  <2>4. ReadOf(x)'
    <3>1. CASE Stage(x) = "row"
      <4>1. /\ request'[x].stage = "steps"
            /\ request'[x].snapshot.status = status[Watched]
            /\ request'[x].snapshot.final = final[Watched]
        <5>1. request'[x] = [request[x] EXCEPT !.stage = "steps",
                     !.snapshot = [@ EXCEPT !.status = status[Watched],
                                            !.final = final[Watched]]]
          BY <1>8, <3>1, ReadMoves
        <5> DEFINE q == request[x]
                   row == [q.snapshot EXCEPT !.status = status[Watched], !.final = final[Watched]]
        <5>2. q \in OneRequest /\ q.snapshot \in Snapshots
          BY <2>2 DEF OneRequest
        <5>3. row.status = status[Watched] /\ row.final = final[Watched]
          BY <5>2 DEF Snapshots
        <5>4. request'[x] = [q EXCEPT !.stage = "steps", !.snapshot = row]
          BY <5>1
        <5> HIDE DEF q, row
        <5> QED
          BY <5>2, <5>3, <5>4 DEF OneRequest
      <4>2. RowHolds(request[x].snapshot)'
        BY <2>3, <4>1, WatchedHolds DEF RowHolds, Completed
      <4> QED
        BY <4>1, <4>2 DEF ReadOf, Stage
    <3>2. CASE Stage(x) = "steps"
      <4>1. /\ request'[x].stage = "artifacts"
            /\ request'[x].snapshot.status = request[x].snapshot.status
            /\ request'[x].snapshot.final = request[x].snapshot.final
            /\ request'[x].snapshot.done = Completed(Watched)
            /\ request'[x].snapshot.open = Open(Watched)
        <5>1. request'[x] = [request[x] EXCEPT !.stage = "artifacts",
                     !.snapshot = [@ EXCEPT !.done = Completed(Watched),
                                            !.open = Open(Watched)]]
          BY <1>8, <3>2, ReadMoves
        <5> DEFINE q == request[x]
                   d == Completed(Watched)
                   o == Open(Watched)
        <5>2. q \in OneRequest /\ request'[x] = [q EXCEPT !.stage = "artifacts",
                                         !.snapshot = [@ EXCEPT !.done = d, !.open = o]]
          BY <2>2, <5>1
        <5>3. q.snapshot \in Snapshots /\ d \in SUBSET Steps /\ o \in SUBSET Steps
          BY <2>2 DEF OneRequest, Completed, Open
        <5> HIDE DEF q, d, o
        <5>4. request'[x].snapshot = [q.snapshot EXCEPT !.done = d, !.open = o]
          BY <5>2 DEF OneRequest
        <5>5. request'[x].stage = "artifacts"
          BY <5>2 DEF OneRequest
        <5>6. /\ request'[x].stage = "artifacts"
              /\ request'[x].snapshot.status = q.snapshot.status
              /\ request'[x].snapshot.final = q.snapshot.final
              /\ request'[x].snapshot.done = d
              /\ request'[x].snapshot.open = o
          BY <5>3, <5>4, <5>5 DEF Snapshots
        <5> QED
          BY <5>6 DEF q, d, o
      <4>2. RowHolds(request[x].snapshot)
        BY <2>2, <3>2 DEF ReadOf
      <4>3. StepsHold(request[x].snapshot)'
        BY <2>3, <4>1, <4>2, WatchedHolds DEF RowHolds, StepsHold, Completed
      <4> QED
        BY <4>1, <4>3 DEF ReadOf, Stage
    <3>3. CASE Stage(x) = "artifacts"
      <4>1. /\ request'[x].stage = "answer"
            /\ request'[x].snapshot.status = request[x].snapshot.status
            /\ request'[x].snapshot.final = request[x].snapshot.final
            /\ request'[x].snapshot.done = request[x].snapshot.done
            /\ request'[x].snapshot.open = request[x].snapshot.open
            /\ request'[x].snapshot.stored = Stored(Watched)
        <5>1. request'[x] = [request[x] EXCEPT !.stage = "answer",
                     !.snapshot = [@ EXCEPT !.stored = Stored(Watched)]]
          BY <1>8, <3>3, ReadMoves
        <5> QED
          BY <2>2, <5>1 DEF OneRequest, Snapshots
      <4>2. StepsHold(request[x].snapshot)
        BY <2>2, <3>3 DEF ReadOf
      <4>3. Consistent(request[x].snapshot)'
        BY <4>1, <4>2, WatchedHolds DEF StepsHold, Consistent
      <4> QED
        BY <4>1, <4>3 DEF ReadOf, Stage
    <3> QED
      BY <1>8, <3>1, <3>2, <3>3, ReadMoves
  <2> QED
    BY <2>1, <2>4 DEF ReadInv
<1>9. ASSUME NEW x \in Requests, Answer(x) \/ ReadFails(x) PROVE ReadInv'
  <2>1. request' = [request EXCEPT ![x] = NoRequest]
    BY <1>9 DEF Answer, ReadFails
  <2>2. request'[x].stage = "none" /\ \A y \in Requests \ {x} : request'[y] = request[y]
    BY <1>3, <2>1 DEF ViewOK
  <2> QED
    BY <1>2, <2>2, ReadKept DEF ReadInv
<1> QED
  BY <1>4, <1>5, <1>6, <1>7, <1>8, <1>9 DEF PollNext

\* Whatever the worker and the handlers write between the three statements of GetRun,
\* the answer holds together: no request ever returns a completed run without its
\* results, a completed step without its artifact, or a cancelled run with a step at
\* work.
THEOREM AnswersTheorem == PollSpec => []AnswersAreConsistent
<1>1. PollInit => ReadInv
  BY DEF PollInit, ReadInv, ReadOf, Stage, NoRequest, Request
<1>2. TypeOK /\ StoreInv /\ ViewOK /\ ReadInv /\ [PollNext]_pollVars => ReadInv'
  BY ReadStep
<1>3. ReadInv => AnswersAreConsistent
  BY DEF ReadInv, ReadOf, AnswersAreConsistent
<1> QED
  BY <1>1, <1>2, <1>3, EngineInv, ViewTheorem, PTL DEF PollSpec

-----------------------------------------------------------------------------
(* What is shown.                                                          *)

\* A run is reset by a retry only, which marks what the poller has read.
LEMMA OnlyReset ==
    ASSUME TypeOK, [PollNext]_pollVars, NEW b \in Clients, ResetRunForRetry(b)
    PROVE  Reset(b)
<1>1. cpc[b] = "reset" /\ cpc'[b] = "signal" /\ \A c \in Clients \ {b} : cpc'[c] = cpc[c]
  BY DEF ResetRunForRetry, Goto, TypeOK, HandlersOK
<1>2. CASE Background
  BY <1>1, <1>2, BackgroundMoves
<1>3. CASE Disconnect
  BY <1>1, <1>3 DEF Disconnect, Exit, Crash, LoseMemory
<1>4. CASE \/ Poll \/ Refetch \/ UNCHANGED pollVars
           \/ \E x \in Requests : ReadNext(x) \/ Answer(x) \/ ReadFails(x)
  BY <1>1, <1>4 DEF Poll, Refetch, ReadNext, Answer, ReadFails, pollVars, vars, clientVars
<1>5. ASSUME NEW c \in Clients, Operation(c) PROVE Reset(b)
  <2> USE DEF TypeOK, HandlersOK, Return, Goto
  <2>1. ~(StartRun(c) \/ RetryRun(c) \/ Cancel(c))
    BY <1>1 DEF StartRun, RetryRun, Cancel, Start, Retry, CancelRun, Call
  <2>2. ~Insert(c) /\ ~Refused(c) /\ ~Respond(c)
    BY <1>1 DEF Insert, CreateRun, Refused, GiveUp, Respond, Signal, NotifyWorker
  <2>3. Reset(c)
    BY <1>5, <2>1, <2>2 DEF Operation
  <2>4. c = b
    BY <1>1, <2>3 DEF Reset, ResetRunForRetry
  <2> QED
    BY <2>3, <2>4
<1> QED
  BY <1>2, <1>3, <1>4, <1>5 DEF PollNext

\* Without a retry a terminal status stays what it is.
LEMMA FreshStays ==
    ASSUME TypeOK, StoreInv, [PollNext]_pollVars, \A c \in Clients : ~Reset(c), NEW s, Fresh(s)
    PROVE  Fresh(s)'
<1> Watched \in Runs
  BY PollingAssumption DEF PollingAssumption
<1>1. [Next]_vars /\ \A c \in Clients : ~ResetRunForRetry(c)
  BY EngineStep, OnlyReset
<1>2. /\ status[Watched] = "completed" => status'[Watched] = "completed"
      /\ status[Watched] = "failed" => status'[Watched] = "failed"
      /\ status[Watched] = "cancelled" => status'[Watched] = "cancelled"
  BY <1>1, CompletedStays, FailedStays, CancelledStays
<1> QED
  BY <1>2 DEF Fresh

\* The handlers' part of an operation that is offered or goes on.
LEMMA ShownByOperation ==
    ASSUME TypeOK, StoreInv, ViewOK, ShownInv, [PollNext]_pollVars,
           NEW c \in Clients, Operation(c), ~Reset(c)
    PROVE  ShownInv'
<1> USE DEF Stage
<1>1. Poller \in Requests /\ Poller \notin Clients /\ c \in Requests /\ Clients \subseteq Requests
  BY PollingAssumption DEF PollingAssumption, Requests
<1>2. \A b \in Clients : ~Reset(b)
  <2>1. ASSUME NEW b \in Clients, Reset(b) PROVE b = c
    BY <2>1, OperationMoves DEF Reset, ResetRunForRetry, Goto, TypeOK, HandlersOK
  <2> QED
    BY <2>1
<1>3. /\ \A b \in Clients \ {c} : cpc'[b] = cpc[b] /\ request'[b] = request[b]
      /\ request'[Poller] = request[Poller]
      /\ UNCHANGED <<shown, misled>>
  BY OperationMoves
<1>4. /\ cpc'[c] = "reset" => request'[c].op = "retry"
      /\ request[c].stage = "none" => \A b \in Clients : request[b].stage = "none"
      /\ RetryCommitted(c) => RetryCommitted(c)'
  <2> USE DEF TypeOK, HandlersOK, ViewOK, Return, Goto, RetryCommitted
  <2>1. CASE StartRun(c) \/ RetryRun(c) \/ Cancel(c)
    <3>1. \A b \in Clients : request[b].stage = "none"
      BY <2>1 DEF StartRun, RetryRun, Cancel, Operate
    <3>2. ~RetryCommitted(c)
      BY <3>1
    <3>3. cpc'[c] = "reset" => request'[c].op = "retry"
      BY <1>1, <2>1 DEF StartRun, RetryRun, Cancel, Start, Retry, CancelRun, Call, Operate,
         Request
    <3> QED
      BY <3>1, <3>2, <3>3
  <2>2. CASE Insert(c)
    <3>1. cpc[c] = "create" /\ cpc'[c] \in {"signal", "conflict"} /\ request' = request
      BY <2>2 DEF Insert, CreateRun, viewVars
    <3> QED
      BY <3>1
  <2>3. CASE Refused(c)
    <3>1. cpc[c] \in {"create", "reset", "conflict"} /\ cpc'[c] = "idle"
      BY <2>3 DEF Refused, GiveUp
    <3> QED
      BY <3>1
  <2>4. CASE Respond(c)
    <3>1. cpc[c] \in {"signal", "notify"} /\ cpc'[c] = "idle"
      BY <2>4 DEF Respond, Signal, NotifyWorker
    <3>2. request[c].op = "retry" => request'[c].op = "retry" /\ request'[c].stage = "row"
      BY <1>1, <2>4 DEF Respond, BeginGetRun, GetRunOrder, Request
    <3> QED
      BY <3>1, <3>2
  <2> QED
    BY <2>1, <2>2, <2>3, <2>4 DEF Operation
<1>5. /\ request'[c].stage \notin {"none", "sent", "row"} =>
             request'[c].snapshot.status = "pending"
      /\ Fresh("pending")'
  <2>1. Blank("pending").status = "pending"
    BY DEF Blank
  <2> QED
    BY <2>1, OperationStage DEF Fresh
<1>6. \A b1, b2 \in Clients : request'[b1].stage # "none" /\ request'[b2].stage # "none" => b1 = b2
  <2>1. \A b1, b2 \in Clients : request[b1].stage # "none" /\ request[b2].stage # "none" => b1 = b2
    BY DEF ShownInv
  <2> QED
    BY <1>3, <1>4, <2>1
<1>7. ASSUME NEW b \in Clients PROVE
          /\ cpc'[b] = "reset" => request'[b].op = "retry"
          /\ HasRow(b)' => Fresh(request[b].snapshot.status)'
  <2>1. CASE b = c
    BY <1>4, <1>5, <2>1 DEF HasRow
  <2>2. CASE b # c
    BY <1>2, <1>3, <2>2, FreshStays DEF HasRow, ShownInv
  <2> QED
    BY <2>1, <2>2
<1>8. HasRow(Poller)' => Fresh(request[Poller].snapshot.status)' \/ request'[Poller].old
  BY <1>2, <1>3, FreshStays DEF HasRow, ShownInv
<1>9. Fresh(shown)' \/ misled' \/ \E b \in Clients : RetryCommitted(b)'
  <2>1. CASE Fresh(shown)
    BY <1>2, <1>3, <2>1, FreshStays
  <2>2. ASSUME NEW b \in Clients, RetryCommitted(b) PROVE RetryCommitted(b)'
    BY <1>3, <1>4, <2>2 DEF RetryCommitted
  <2> QED
    BY <1>3, <2>1, <2>2 DEF ShownInv
<1> QED
  BY <1>6, <1>7, <1>8, <1>9 DEF ShownInv

\* A retry is under way until its answer has arrived: what is shown may be behind.
LEMMA ShownByReset ==
    ASSUME TypeOK, ViewOK, ShownInv, NEW c \in Clients, Reset(c)
    PROVE  ShownInv'
<1> USE DEF Stage
<1>1. Poller \in Requests /\ Poller \notin Clients /\ c \in Requests /\ Clients \subseteq Requests
  BY PollingAssumption DEF PollingAssumption, Requests
<1>2. /\ cpc[c] = "reset" /\ cpc'[c] = "signal" /\ \A b \in Clients \ {c} : cpc'[b] = cpc[b]
      /\ \A b \in Clients : request'[b] = request[b]
      /\ request'[Poller].stage = request[Poller].stage
      /\ HasRow(Poller) => request'[Poller].old
  BY <1>1 DEF Reset, ResetRunForRetry, Goto, TypeOK, HandlersOK, ViewOK, HasRow
<1>3. request[c].stage = "sent" /\ \A b \in Clients : request[b].stage # "none" => b = c
  BY <1>2 DEF ViewOK, ShownInv
<1>4. RetryCommitted(c)'
  BY <1>2 DEF ShownInv, RetryCommitted
<1>5. \A b \in Clients : ~HasRow(b)' /\ (cpc'[b] = "reset" => request'[b].op = "retry")
  BY <1>2, <1>3 DEF HasRow, ShownInv
<1>6. HasRow(Poller)' => request'[Poller].old
  BY <1>2 DEF HasRow
<1>7. \A b1, b2 \in Clients : request'[b1].stage # "none" /\ request'[b2].stage # "none" => b1 = b2
  BY <1>2, <1>3
<1> QED
  BY <1>4, <1>5, <1>6, <1>7 DEF ShownInv

\* A statement of GetRun reads a row that is the run's; an answer shows what was read.
LEMMA ShownByRequest ==
    ASSUME ViewOK, ShownInv, NEW x \in Requests, ReadNext(x) \/ Answer(x) \/ ReadFails(x)
    PROVE  ShownInv'
<1> USE DEF Stage
<1>1. Poller \in Requests /\ Poller \notin Clients /\ Requests = Clients \union {Poller}
  BY PollingAssumption DEF PollingAssumption, Requests
<1>2. UNCHANGED <<cpc, status>>
  BY DEF ReadNext, Answer, ReadFails, vars, clientVars, dbVars, runVars
<1>3. \A y \in Requests \ {x} : request'[y] = request[y]
  BY DEF ReadNext, Answer, ReadFails, ViewOK
<1>4. \A s : Fresh(s)' <=> Fresh(s)
  BY <1>2 DEF Fresh
<1>5. \A b \in Clients \ {x} : RetryCommitted(b) => RetryCommitted(b)'
  BY <1>1, <1>2, <1>3 DEF RetryCommitted
<1>6. CASE ReadNext(x)
  <2>1. request[x] \in OneRequest
    BY DEF ViewOK, OneRequest
  <2>2. /\ request[x].stage \in {"row", "steps", "artifacts"}
        /\ request'[x].stage \in {"steps", "artifacts", "answer"}
        /\ request'[x].op = request[x].op
        /\ request'[x].old = request[x].old
        /\ UNCHANGED <<shown, misled>>
    <3> DEFINE q == request[x]
               r == request'[x]
    <3>1. /\ UNCHANGED <<shown, misled>>
          /\ \/ q.stage = "row" /\ \E s : r = [q EXCEPT !.stage = "steps", !.snapshot = s]
             \/ q.stage = "steps" /\ \E s : r = [q EXCEPT !.stage = "artifacts", !.snapshot = s]
             \/ q.stage = "artifacts" /\ \E s : r = [q EXCEPT !.stage = "answer", !.snapshot = s]
      BY <1>6, ReadMoves
    <3>2. q \in OneRequest
      BY <2>1
    <3> HIDE DEF q, r
    <3>3. /\ q.stage \in {"row", "steps", "artifacts"}
          /\ r.stage \in {"steps", "artifacts", "answer"}
          /\ r.op = q.op /\ r.old = q.old
      BY <3>1, <3>2 DEF OneRequest
    <3> QED
      BY <3>1, <3>3 DEF q, r
  <2>3. Fresh(request'[x].snapshot.status) \/ (HasRow(x) /\
            request'[x].snapshot.status = request[x].snapshot.status)
    <3> DEFINE q == request[x]
    <3>1. q.snapshot \in Snapshots
      BY <2>1 DEF OneRequest
    <3>2. CASE Stage(x) = "row"
      <4>1. request'[x].snapshot.status = status[Watched]
        <5>1. request'[x] = [request[x] EXCEPT !.stage = "steps",
                     !.snapshot = [@ EXCEPT !.status = status[Watched],
                                            !.final = final[Watched]]]
          BY <1>6, <3>2, ReadMoves
        <5> QED
          BY <2>1, <5>1 DEF OneRequest, Snapshots
      <4> QED
        BY <4>1 DEF Fresh
    <3>3. CASE Stage(x) = "steps"
      <4>1. request'[x] = [request[x] EXCEPT !.stage = "artifacts",
                     !.snapshot = [@ EXCEPT !.done = Completed(Watched),
                                            !.open = Open(Watched)]]
        BY <1>6, <3>3, ReadMoves
      <4>2. request'[x].snapshot = [request[x].snapshot EXCEPT !.done = Completed(Watched),
                                                              !.open = Open(Watched)]
        BY <2>1, <4>1 DEF OneRequest
      <4> QED
        BY <3>1, <3>3, <4>2 DEF HasRow, Snapshots
    <3>4. CASE Stage(x) = "artifacts"
      <4>1. request'[x] = [request[x] EXCEPT !.stage = "answer",
                     !.snapshot = [@ EXCEPT !.stored = Stored(Watched)]]
        BY <1>6, <3>4, ReadMoves
      <4> QED
        BY <2>1, <3>4, <4>1 DEF HasRow, OneRequest, Snapshots
    <3> QED
      BY <2>2, <3>2, <3>3, <3>4
  <2>4. RetryCommitted(x) => RetryCommitted(x)'
    BY <1>2, <2>2 DEF RetryCommitted
  <2>5. Fresh(shown)' \/ misled' \/ \E c \in Clients : RetryCommitted(c)'
    BY <1>4, <1>5, <2>2, <2>4 DEF ShownInv
  <2>6. \A b, c \in Clients : request'[b].stage # "none" /\ request'[c].stage # "none" => b = c
    BY <1>1, <1>3, <2>2 DEF ShownInv
  <2>7. \A c \in Clients : /\ cpc'[c] = "reset" => request'[c].op = "retry"
                           /\ HasRow(c)' => Fresh(request[c].snapshot.status)'
    <3>1. ASSUME NEW c \in Clients, c # x
          PROVE  /\ cpc'[c] = "reset" => request'[c].op = "retry"
                 /\ HasRow(c)' => Fresh(request[c].snapshot.status)'
      BY <1>1, <1>2, <1>3, <3>1 DEF HasRow, Fresh, ShownInv
    <3>2. ASSUME x \in Clients
          PROVE  /\ cpc'[x] = "reset" => request'[x].op = "retry"
                 /\ HasRow(x)' => Fresh(request[x].snapshot.status)'
      BY <1>2, <2>2, <2>3, <3>2 DEF Fresh, ShownInv
    <3> QED
      BY <3>1, <3>2
  <2>8. HasRow(Poller)' => Fresh(request[Poller].snapshot.status)' \/ request'[Poller].old
    <3>1. CASE x = Poller
      BY <1>2, <2>2, <2>3, <3>1 DEF Fresh, ShownInv
    <3>2. CASE x # Poller
      BY <1>1, <1>2, <1>3, <3>2 DEF HasRow, Fresh, ShownInv
    <3> QED
      BY <3>1, <3>2
  <2> QED
    BY <2>5, <2>6, <2>7, <2>8 DEF ShownInv
<1>7. CASE Answer(x) \/ ReadFails(x)
  <2>1. request'[x] = NoRequest /\ NoRequest.stage = "none"
    BY <1>7 DEF Answer, ReadFails, ViewOK, NoRequest, Request
  <2>2. cpc[x] = "idle" \/ x = Poller
    BY <1>1, <1>7 DEF Answer, ReadFails, ViewOK
  <2>3. \A b, c \in Clients : request'[b].stage # "none" /\ request'[c].stage # "none" => b = c
    BY <1>1, <1>3, <2>1 DEF ShownInv
  <2>4. ASSUME NEW c \in Clients
        PROVE  /\ cpc'[c] = "reset" => request'[c].op = "retry"
               /\ HasRow(c)' => Fresh(request[c].snapshot.status)'
    <3>1. CASE c = x
      BY <1>1, <1>2, <2>1, <2>2, <3>1 DEF HasRow
    <3>2. CASE c # x
      BY <1>1, <1>2, <1>3, <3>2 DEF HasRow, Fresh, ShownInv
    <3> QED
      BY <3>1, <3>2
  <2>5. HasRow(Poller)' => Fresh(request[Poller].snapshot.status)' \/ request'[Poller].old
    <3>1. CASE x = Poller
      BY <2>1, <3>1 DEF HasRow
    <3>2. CASE x # Poller
      BY <1>1, <1>2, <1>3, <3>2 DEF HasRow, Fresh, ShownInv
    <3> QED
      BY <3>1, <3>2
  <2>6. Fresh(shown)' \/ misled' \/ \E c \in Clients : RetryCommitted(c)'
    <3>1. CASE Answer(x)
      <4>1. shown' = request[x].snapshot.status /\ misled' = request[x].old /\ HasRow(x)
        BY <3>1 DEF Answer, HasRow
      <4>2. Fresh(request[x].snapshot.status) \/ request[x].old
        BY <1>1, <4>1 DEF ShownInv
      <4> QED
        BY <1>2, <4>1, <4>2 DEF Fresh
    <3>2. CASE ReadFails(x)
      <4>1. UNCHANGED shown /\ (misled \/ (x # Poller /\ RetryCommitted(x)) => misled')
        BY <3>2 DEF ReadFails
      <4> QED
        BY <1>1, <1>4, <1>5, <4>1 DEF ShownInv
    <3> QED
      BY <1>7, <3>1, <3>2
  <2> QED
    BY <2>3, <2>4, <2>5, <2>6 DEF ShownInv
<1> QED
  BY <1>6, <1>7

\* Every step leaves what is shown true, or on record as behind a retry.
LEMMA ShownStep ==
    ASSUME TypeOK, StoreInv, ViewOK, ShownInv, [PollNext]_pollVars
    PROVE  ShownInv'
<1> USE DEF Stage
<1>1. Poller \in Requests /\ Poller \notin Clients /\ Clients \subseteq Requests
  BY PollingAssumption DEF PollingAssumption, Requests
<1>2. CASE Background \/ UNCHANGED pollVars
  <2>1. UNCHANGED <<cpc, request, shown, misled>> /\ \A c \in Clients : ~Reset(c)
    <3>1. CASE Background
      BY <3>1, BackgroundMoves DEF Reset
    <3>2. CASE UNCHANGED pollVars
      <4>1. UNCHANGED <<cpc, request, shown, misled>>
        BY <3>2 DEF pollVars, viewVars, vars, clientVars
      <4>2. ASSUME NEW c \in Clients, Reset(c) PROVE cpc'[c] # cpc[c]
        BY <4>2 DEF Reset, ResetRunForRetry, Goto, TypeOK, HandlersOK
      <4> QED
        BY <4>1, <4>2
    <3> QED
      BY <1>2, <3>1, <3>2
  <2>2. ASSUME NEW s, Fresh(s) PROVE Fresh(s)'
    BY <2>1, <2>2, FreshStays
  <2>3. \A b, c \in Clients : request'[b].stage # "none" /\ request'[c].stage # "none" => b = c
    BY <2>1 DEF ShownInv
  <2>4. \A c \in Clients : /\ cpc'[c] = "reset" => request'[c].op = "retry"
                           /\ HasRow(c)' => Fresh(request[c].snapshot.status)'
    BY <2>1, <2>2 DEF HasRow, ShownInv
  <2>5. HasRow(Poller)' => Fresh(request[Poller].snapshot.status)' \/ request'[Poller].old
    BY <2>1, <2>2 DEF HasRow, ShownInv
  <2>6. Fresh(shown)' \/ misled' \/ \E c \in Clients : RetryCommitted(c)'
    BY <2>1, <2>2 DEF RetryCommitted, ShownInv
  <2> QED
    BY <2>3, <2>4, <2>5, <2>6 DEF ShownInv
<1>3. CASE Disconnect
  <2>1. cpc' = [c \in Clients |-> "idle"] /\ UNCHANGED <<status, shown>>
    BY <1>3 DEF Disconnect, Exit, Crash, LoseMemory, dbVars, runVars
  <2>2. \A x \in Requests : request'[x].stage = "none"
    BY <1>3 DEF Disconnect, NoRequest, Request
  <2>3. misled \/ (\E c \in Clients : RetryCommitted(c)) => misled'
    BY <1>3 DEF Disconnect
  <2>4. Fresh(shown)' \/ misled'
    BY <2>1, <2>3 DEF ShownInv, Fresh
  <2> QED
    BY <1>1, <2>1, <2>2, <2>4 DEF ShownInv, HasRow
<1>4. CASE Poll \/ Refetch
  <2>1. /\ request' = [request EXCEPT ![Poller] = Request("get", "row", Blank("absent"))]
        /\ UNCHANGED <<cpc, status, shown, misled>>
    BY <1>4 DEF Poll, Refetch, BeginGetRun, GetRunOrder, vars, clientVars, dbVars, runVars
  <2>2. ~HasRow(Poller)' /\ \A c \in Clients : request'[c] = request[c]
    BY <1>1, <2>1 DEF ViewOK, HasRow, Request
  <2>3. \A c \in Clients : /\ cpc'[c] = "reset" => request'[c].op = "retry"
                           /\ HasRow(c)' => Fresh(request[c].snapshot.status)'
    BY <2>1, <2>2 DEF ShownInv, HasRow, Fresh
  <2>4. Fresh(shown)' \/ misled' \/ \E c \in Clients : RetryCommitted(c)'
    BY <2>1, <2>2 DEF ShownInv, Fresh, RetryCommitted
  <2>5. \A b, c \in Clients : request'[b].stage # "none" /\ request'[c].stage # "none" => b = c
    BY <2>2 DEF ShownInv
  <2> QED
    BY <2>2, <2>3, <2>4, <2>5 DEF ShownInv
<1>5. ASSUME NEW c \in Clients, Operation(c) PROVE ShownInv'
  BY <1>5, ShownByOperation, ShownByReset
<1>6. ASSUME NEW x \in Requests, ReadNext(x) \/ Answer(x) \/ ReadFails(x) PROVE ShownInv'
  BY <1>6, ShownByRequest
<1> QED
  BY <1>2, <1>3, <1>4, <1>5, <1>6 DEF PollNext

\* When nothing is asked any more and no interval is set, the dashboard shows what the
\* run has become; only a retry whose answer was lost, or overtaken by an older poll's,
\* leaves it behind.
THEOREM TruthTheorem == PollSpec => []StopsOnTheTruth
<1>1. PollInit => ShownInv
  <2> SUFFICES ASSUME PollInit PROVE ShownInv
    OBVIOUS
  <2>1. \A x \in Requests : Stage(x) = "none"
    BY DEF PollInit, Stage, NoRequest, Request
  <2> QED
    BY <2>1 DEF PollInit, Init, ShownInv, HasRow, Fresh, Requests
<1>2. TypeOK /\ StoreInv /\ ViewOK /\ ShownInv /\ [PollNext]_pollVars => ShownInv'
  BY ShownStep
<1>3. ViewOK /\ ShownInv => StopsOnTheTruth
  <2> SUFFICES ASSUME ViewOK, ShownInv, \A x \in Requests : Stage(x) = "none", shown \notin Live
               PROVE  shown \in {"absent", status[Watched]} \/ misled
    BY DEF StopsOnTheTruth
  <2>1. \A c \in Clients : ~RetryCommitted(c)
    BY DEF RetryCommitted, ViewOK, Requests
  <2>2. Fresh(shown) \/ misled
    BY <2>1 DEF ShownInv
  <2> QED
    BY <2>2 DEF Fresh, ViewOK, RunStatuses, Live
<1> QED
  BY <1>1, <1>2, <1>3, EngineInv, ViewTheorem, PTL DEF PollSpec

=============================================================================
