----------------------------- MODULE RunPolling -----------------------------
(***************************************************************************)
(* The workflow engine as a dashboard sees it: the GET requests, the       *)
(* answers of the operations a user starts, and the browser that polls     *)
(* (frontend/src/features/workflows/WorkflowDashboard.tsx).                *)
(*                                                                         *)
(* Store.GetRun reads a run, its steps and its artifacts with three        *)
(* statements and no transaction (backend/internal/storage/store.go): the  *)
(* worker and the handlers of WorkflowEngine write between them.  The      *)
(* dashboard shows the last answer that arrived, whichever request it      *)
(* belongs to, and asks again only while that says pending or running.     *)
(***************************************************************************)
EXTENDS WorkflowEngine

CONSTANTS Watched,       \* the run the dashboard has selected
          Poller         \* the dashboard's GET request, one at a time

ASSUME PollingAssumption ==
    /\ Watched \in Runs
    /\ Poller \notin Clients

VARIABLES
    request,    \* the request of the poller and of each handler, with what it has read
    shown,      \* the status the dashboard shows
    misled      \* history: what is shown is older than a retry, whose answer was lost
                \* or came before an older poll's

viewVars == <<request, shown, misled>>

pollVars == <<vars, viewVars>>

Requests == Clients \union {Poller}

\* A request is "sent" until its operation has committed and signalled; then come the
\* three statements of GetRun and the answer.
Stages == {"none", "sent", "row", "steps", "artifacts", "answer"}

\* A run as a request returns it: of its steps, the completed ones, those still at work
\* or to come, and those with an artifact.
Snapshots == [status : RunStatuses, final : 0..NumSteps,
              done : SUBSET Steps, open : SUBSET Steps, stored : SUBSET Steps]

Blank(s) == [status |-> s, final |-> 0, done |-> {}, open |-> Steps, stored |-> {}]

\* "old" says that a retry has changed the run since its row was read.
Request(op, stage, snapshot) ==
    [op |-> op, stage |-> stage, old |-> FALSE, snapshot |-> snapshot]

NoRequest == Request("get", "none", Blank("absent"))

Stage(x) == request[x].stage

\* The type invariant of the dashboard and its requests; a button is released when its
\* handler is done.
ViewOK ==
    /\ request \in [Requests -> [op : {"get", "start", "retry", "cancel"}, stage : Stages,
                                 old : BOOLEAN, snapshot : Snapshots]]
    /\ shown \in RunStatuses
    /\ request[Poller].op = "get" /\ Stage(Poller) # "sent"
    /\ \A c \in Clients : cpc[c] # "idle" <=> Stage(c) = "sent"
    /\ misled \in BOOLEAN

PollInit == /\ Init
            /\ request = [x \in Requests |-> NoRequest]
            /\ shown = "absent"
            /\ misled = FALSE

-----------------------------------------------------------------------------
(* GetRun: three statements, then the answer.                              *)

\* Mutation: the row is read last.
GetRunOrder_RowLast == <<"steps", "artifacts", "row", "answer">>

GetRunOrder == <<"row", "steps", "artifacts", "answer">>

BeginGetRun(x, op) ==
    request' = [request EXCEPT ![x] = Request(op, GetRunOrder[1], Blank("absent"))]

Open(r) == {i \in Steps : stepStatus[r][i] \in {"pending", "running"}}

Stored(r) == {i \in Steps : artifacts[r][i] > 0}

\* What the statement of a stage adds to a snapshot.
Filled(stage, snapshot) ==
    CASE stage = "row"       -> [snapshot EXCEPT !.status = status[Watched],
                                                 !.final = final[Watched]]
      [] stage = "steps"     -> [snapshot EXCEPT !.done = Completed(Watched),
                                                 !.open = Open(Watched)]
      [] stage = "artifacts" -> [snapshot EXCEPT !.stored = Stored(Watched)]

ReadNext(x) ==
    /\ \E k \in 1..3 :
          /\ Stage(x) = GetRunOrder[k]
          /\ request' = [request EXCEPT ![x].stage = GetRunOrder[k + 1],
                                        ![x].snapshot = Filled(Stage(x), @)]
    /\ UNCHANGED <<vars, shown, misled>>

-----------------------------------------------------------------------------
(* The dashboard.                                                          *)

\* Mutation: the dashboard polls while the run is running.
Live_Running == {"running"}

\* The statuses that set the refetch interval.
Live == {"pending", "running"}

\* The interval has passed.  While the process is down the request fails, which leaves
\* what is shown and the interval as they are.
Poll ==
    /\ Stage(Poller) = "none"
    /\ shown \in Live
    /\ phase = "up"
    /\ BeginGetRun(Poller, "get")
    /\ UNCHANGED <<vars, shown, misled>>

\* The run is selected from the list, or the window gets the focus: the query is fetched
\* whatever is shown.  (While a live run is shown, this is a poll before its time.)
Refetch ==
    /\ Stage(Poller) = "none"
    /\ shown \notin Live
    /\ status[Watched] # "absent"
    /\ phase = "up"
    /\ BeginGetRun(Poller, "get")
    /\ UNCHANGED <<vars, shown, misled>>

\* An answer arrives and is what the dashboard shows.
Answer(x) ==
    /\ Stage(x) = "answer"
    /\ shown' = request[x].snapshot.status
    /\ misled' = request[x].old
    /\ request' = [request EXCEPT ![x] = NoRequest]
    /\ UNCHANGED vars

RetryCommitted(c) == /\ request[c].op = "retry"
                     /\ cpc[c] = "signal" \/ Stage(c) \notin {"none", "sent"}

\* A statement of GetRun fails.
ReadFails(x) ==
    /\ Stage(x) \in {"row", "steps", "artifacts"}
    /\ misled' = (misled \/ (x # Poller /\ RetryCommitted(x)))
    /\ request' = [request EXCEPT ![x] = NoRequest]
    /\ UNCHANGED <<vars, shown>>

-----------------------------------------------------------------------------
(* The operations a user starts, and the engine.                           *)

\* The buttons: one operation at a time, of the run that is shown.
Offered(op) == CASE op = "start"  -> shown = "absent"
                 [] op = "retry"  -> shown = "failed"
                 [] op = "cancel" -> shown \in Live

Operate(c, op) ==
    /\ \A b \in Clients : Stage(b) = "none"
    /\ Offered(op)
    /\ request' = [request EXCEPT ![c] = Request(op, "sent", Blank("absent"))]
    /\ UNCHANGED <<shown, misled>>

StartRun(c) == Start(c, Watched) /\ Operate(c, "start")
RetryRun(c) == Retry(c, Watched) /\ Operate(c, "retry")
Cancel(c) == CancelRun(c, Watched) /\ Operate(c, "cancel")

Insert(c) == CreateRun(c) /\ UNCHANGED viewVars

\* A poll that has read the run's row is older than this retry.
Reset(c) ==
    /\ ResetRunForRetry(c)
    /\ request' = [request EXCEPT ![Poller].old =
                      Stage(Poller) \in {"steps", "artifacts", "answer"}]
    /\ UNCHANGED <<shown, misled>>

\* Mutation: a refused operation stays pending.
Refused_Pending(c) == GiveUp(c) /\ UNCHANGED viewVars

\* The operation is refused: the dashboard shows the message and the run as it was.
Refused(c) ==
    /\ GiveUp(c)
    /\ request' = [request EXCEPT ![c] = NoRequest]
    /\ UNCHANGED <<shown, misled>>

\* Start answers with the run it has built, Retry and Cancel read it again.
Respond(c) ==
    /\ Signal(c) \/ NotifyWorker(c)
    /\ IF request[c].op = "start"
       THEN request' = [request EXCEPT ![c].stage = "answer", ![c].snapshot = Blank("pending")]
       ELSE BeginGetRun(c, request[c].op)
    /\ UNCHANGED <<shown, misled>>

\* No answer comes from a process that is gone.
Disconnect ==
    /\ Exit \/ Crash
    /\ misled' = (misled \/ \E c \in Clients : RetryCommitted(c))
    /\ request' = [x \in Requests |-> NoRequest]
    /\ UNCHANGED shown

Background == (Worker \/ Faults \/ Boot \/ Terminate) /\ UNCHANGED viewVars

-----------------------------------------------------------------------------

Operation(c) == \/ StartRun(c) \/ RetryRun(c) \/ Cancel(c)
                \/ Insert(c) \/ Reset(c) \/ Refused(c) \/ Respond(c)

PollNext ==
    \/ Background \/ Disconnect \/ Poll \/ Refetch
    \/ \E c \in Clients : Operation(c)
    \/ \E x \in Requests : ReadNext(x) \/ Answer(x) \/ ReadFails(x)

PollSpec == PollInit /\ [][PollNext]_pollVars

-----------------------------------------------------------------------------
(* Properties.                                                             *)

Consistent(s) ==
    /\ s.done \subseteq s.stored
    /\ s.final # 0 => s.final \in s.stored
    /\ s.status = "completed" => s.done = Steps /\ s.final = NumSteps
    /\ s.status = "cancelled" => s.open = {}

\* Whatever is written between the statements of GetRun, what a request answers holds
\* together: a step that is completed has its artifact, the final artifact is among the
\* artifacts, a completed run has all its results, a cancelled one nothing at work.
AnswersAreConsistent ==
    \A x \in Requests : Stage(x) = "answer" => Consistent(request[x].snapshot)

\* The dashboard stops asking only when it shows what the run has become, unless the
\* answer to a retry was lost or an older poll's answer arrived after it: it then shows
\* "failed", sets no interval, and stays so until the window gets the focus.
StopsOnTheTruth ==
    (\A x \in Requests : Stage(x) = "none") /\ shown \notin Live
        => shown \in {"absent", status[Watched]} \/ misled
=============================================================================
