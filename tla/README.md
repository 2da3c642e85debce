# Verification of go-dashboard

This directory holds TLA+ models of the go-dashboard backend, the TLC
configurations that check them on small instances, and TLAPS proofs of theorems
that hold for every instance. `PROJECT.json` is the machine-readable index:
which definition models which lines, what each run checks, and which change of
the code each property would notice.

Paths below are relative to `src/backend/` unless they start with `docs/` or
`frontend/`.

## 1. Inventory of the system

The program is a local orchestration service. The dashboard or a Slack event
submits a *request*; the request becomes a *run* of a versioned workflow, stored
in SQLite before anything executes; one background worker executes the steps of
the runs one after another, each step by a *capability* that usually calls a
language model; results are stored as *artifacts* and shown on the dashboard.

| Component | State | Operations that change it | Interacts with |
|---|---|---|---|
| Executor and worker (`internal/workflow/executor.go`) | `started`, the wake channel (capacity 1), `active` (the run being executed, its cancel function and `userCancelled`), the worker's local copy of the run | `StartWorker`, `Start`, `Retry`, `Cancel`, `signal`, `worker`, `execute`, `failRun`, `Shutdown` | run store, capabilities, HTTP handlers (mutex, channel, contexts) |
| Run store (`internal/storage/store.go`) | tables `workflow_runs`, `step_runs`, `artifacts`, `execution_events`, `workflow_definitions` | `CreateRun`, `UpdateRun`, `UpdateStep`, `CompleteStep`, `ClaimNextPendingRun`, `ResetRunForRetry`, `CancelRun`, `PrepareRecovery`, `SaveDefinition` | one SQLite connection |
| Process (`cmd/api/main.go`) | is it up, is it stopping | start-up and recovery, serve, SIGTERM, drain, exit | all |
| Workflow handlers (`internal/httpapi/workflow_handler.go`) | one goroutine per request | start, retry, cancel, list, get | orchestration service, executor |
| Definitions (`internal/workflow/domain.go`, `registry.go`, `manual.go`) | a registry filled at start-up | `Validate`, `Register`, `Resolve`; status tables | executor, selector |
| Orchestration (`internal/orchestration/service.go`) | none | `Select`, then the engine's `Start` | registry, executor |
| Slack service (`internal/slack/service.go`) | none of its own | `HandleEvent`, `Refresh`, `Analyze`, `BuildContext` | Slack store, Slack API, orchestration |
| Slack store (`internal/storage/slack_store.go`) | tables `slack_events`, `slack_threads`, `slack_messages`, `slack_attachments`, `extracted_documents` | claim, complete and release an event; ensure a thread; apply messages and attachments; set the sync status; link a run | the same SQLite connection |
| Slack API client (`internal/slack/client.go`) | none | paginated `FetchThread`, retry after 429 | Slack |
| Slack handler (`internal/httpapi/slack_handler.go`) | none | verify the signature, events, refresh, analyze, views | Slack service |
| Capabilities, model router, summary service, LLM client | registries filled at start-up | `Execute`: one or more HTTP requests to the model | executor |
| Dashboard (`frontend/src`) | React state, polling timers | poll runs and threads, submit, retry, cancel | HTTP API |

What is hard here, and where: the worker, the handlers and the shutdown
interleave between any two store calls; a cancellation races with the claim and
with a late result; recovery must repair whatever state a crash leaves; the
attempts of a step are counted over retries and restarts; deadlines end contexts
in the middle of a sequence of writes; Slack delivers events late, twice, out of
order and concurrently with a full synchronization. `PROJECT.json`, "hazards",
lists each at its line with the properties that cover it.

What makes the components correct:

- *engine*: a run follows its status table; stored results form a prefix of the
  definition and are never lost, executed again or duplicated; cancelled and
  completed runs are frozen; no wake-up and no cancellation is lost; every
  submitted run settles;
- *Slack ingestion*: an event is processed by one handler at a time and applied
  once; the context version grows with every material change and only then; what
  is analysed is a state the thread was in, and the newest version is eventually
  requested;
- *dashboard*: an answer is a state the run could be in, and polling stops only on
  what the run has become;
- *attachments*: a message shows the files that were last applied to it, and the
  version counts what changes;
- *definitions, selection, models*: only the selected workflow runs; what a step puts
  out, the next ones accept; errors say what happened; the deadline leaves every
  attempt its time.

## 2. Modules and plan

| Module | Subject | Extends or refers to |
|---|---|---|
| `RunLifecycle` | what the engine promises about one run | |
| `WorkflowEngine` | executor, run store, handlers, process | implements `RunLifecycle` |
| `WorkflowEngine_proofs` | proofs about the rows, in every state | `WorkflowEngine` |
| `WorkflowEngine_steps` | proofs about steps: frozen runs, the status table, the refinement | `WorkflowEngine_proofs` |
| `WorkflowEngine_control` | proofs about the worker and the handlers: wake-ups, cancellations, attempts, what is running, what has failed | `WorkflowEngine_steps` |
| `RunPolling` | `GetRun` as three queries, and the dashboard that polls | extends `WorkflowEngine` |
| `RunPolling_proofs` | its proofs | `RunPolling`, `WorkflowEngine_control` |
| `ThreadLog` | what the ingestion promises about one Slack thread | |
| `SlackIngest` | events, claims, synchronization, analysis requests | implements `ThreadLog` |
| `SlackIngest_proofs` | its proofs, of the refinement too | `SlackIngest` |
| `ThreadSync` | paginated fetch, rate limits, messages with attachments | |
| `ThreadSync_proofs` | its proofs | `ThreadSync` |
| `SlackContext`, `SlackContext_proofs` | `BuildContext` and its proofs | |
| `ManualSummary` | a run as data and time: selection, inputs and outputs, models, errors, deadline | |
| `ManualSummary_proofs` | its proofs | `ManualSummary` |

The modules whose names begin with `MC` hold the definitions with which the
configurations instantiate them.

Every type invariant, safety property and action property that a passing run checks
is proved, and so are both refinements. What the plan has left, in this order:

1. An abstract specification of `GetRun`. An answer is no state the run was in (a row
   may be read as pending, and the steps when one is completed), so it would be three
   reads at moments of their own, in order. So far `AnswersAreConsistent` says of an
   answer what the dashboard relies on.
2. Of the code: the Slack view of the dashboard, and `classify_text`, once a workflow
   uses it.

## 3. The workflow engine

`WorkflowEngine` models the executor, the rows it keeps, the handlers that act on
runs and the process around them.

**State.** `status`, `current`, `final`, `createdAt` are columns of
`workflow_runs`; `stepStatus` and `attempt` of `step_runs`; `artifacts` counts the
artifact rows of a step. `started`, `wake`, `active`, `userCancelled` are fields of
`Executor` and `runControl`; `stop` is the application context, `expired` the
deadline of `execute`. `pc`, `cur`, `idx`, `tries`, `fin` are the worker's position
and locals; `cpc`, `target`, `stamp` those of the handlers. A run is named by its
request id, which is UNIQUE; steps are named by their index; an artifact by the
step that produced it.

**Atomicity.** The store has one connection (`SetMaxOpenConns(1)`), so a statement
or a transaction is one step of the model. Everything between two of them
interleaves with the handlers, with SIGTERM and with a crash. `execute` is one
action per store call: `BeginStep` (UpdateRun), `MapInput`, `BeginAttempt`
(UpdateStep), `Execute` (the capability), `CompleteStep` or `RecordFailure`,
`Backoff`, `SkipStep`/`FailRun` (failRun), `CompleteRun`. `Cancel` is two actions,
`CancelRun` (the commit) and `NotifyWorker` (under the mutex); `Start` and `Retry`
are a check, a transaction and a `Signal`. The worker reads the step rows where
the code reads its copy of them: nobody but the worker writes them while it holds
the run, except `CancelRun`, which changes no completed step and after which every
write of the worker is refused.

**Failures.** A store call made with a context that is done fails (`RefusedAt`); a
store call may fail by itself (`StoreFails`, `SkipFails`, `ClaimFails`), also
between the two statements of `UpdateRun` and `UpdateStep`, where the row is
written and only the event row is missing. `Crash` may happen in every state of
the process, `Terminate` and `Exit` model SIGTERM and the end of `main`, with or
without the worker having stopped in time. Start-up (`StartWorker`, `Recover`,
`Serve`) lists the interrupted runs, or those before a row that could not be read
(`CutOff`), resets them one transaction at a time, and may crash between them.

**Abstracted.** Contents of requests, inputs and outputs; error codes; model names;
timestamps other than the order of `created_at`. `waiting_approval` is stored by no
code and is left out. A client that is gone before its transaction commits is
`GiveUp`.

**Abstract specification.** `RunLifecycle` says what the engine promises about a
run: a status and the set of steps with a result, which grows one step at a time
in order and is never lost; `completed` needs every result; `cancelled` and
`completed` are final. `RefinesLifecycle` checks that the engine implements it,
with `done` mapped to the completed steps.

### Runs

| Run | Instance | What it shows |
|---|---|---|
| `one` | 1 run of 2 steps (2 and 1 attempts), 2 handlers, at most one each of stop/crash, retry, workflow deadline, failing store call | the consistency of the rows, in every state and over every step, attempts within the limit of each execution, and the refinement of `RunLifecycle` |
| `two` | 2 runs of 1 step, 2 handlers, one stop, one retry, two `created_at` values | races between runs: wake-ups, claims, interrupts |
| `live` | 2 runs of 1 step, 1 handler, a stop, a workflow deadline and a failing store call; fairness | every submitted run settles, or is left running by the deadline or a failing call (a recovery list that was cut off among them); and then settles after the next start |
| `poll` | 1 run of 2 steps, 1 handler, a poller, a stop or crash, a retry, reads that fail at any point | answers hold together; the dashboard stops on the truth (next section) |

**Why the bounds are enough.** The worker handles one run at a time, so the cases
of one run need one run; what two runs add is the race for the worker and the
misdirected interrupt, which `two` has. Two steps give a first, a last and a
failing step with and without successors, and a prefix that survives a retry; a
step with two attempts and one with one gives every case of the attempt loop. Two
handlers give every pair of concurrent operations, including two starts of one
request. A disturbance of each kind may fall between any two steps of the others.
`Limits`, `MaxTime` are the only bounds, and both are in guards (`Spend`, `Start`).
Symmetry (`two`) permutes runs and handlers, which no action tells apart; runs that
check liveness use none.

**Fairness.** The goroutines of a live process are scheduled (`Worker`), start-up
makes progress and somebody starts the service again (`Boot`), `main` returns
within its shutdown limit (`Exit`), a handler finishes the in-memory part of what
it has committed (`Signal`, `NotifyWorker`). A capability returns because its
context has a timeout. Nothing makes a client call, a stop, a retry or a fault
happen. `RestartSettles` speaks of a process that is down with no fault and no
deadline left to spend: otherwise the next execution may leave the run running
again.

### The dashboard

`RunPolling` extends the engine with what is read of it. `request` is the request of
the dashboard's poller, and of each handler, with the part of the run it has read:
`GetRun` reads the row, the steps and the artifacts with three statements and no
transaction (`ReadNext`), and the worker and the handlers write between them. `shown`
is the status the dashboard shows. `Poll` is the interval, set while that status is
live; `Refetch` the selection of a run or the focus of the window; `Answer` an answer
arriving, of a poll or of an operation, whichever comes first. The operations are
those of the engine behind the buttons of `RunDetails.tsx`, one at a time; `Refused`
is an error answer; `Disconnect` a process that goes, with its connections.

`AnswersAreConsistent` holds because of the order of the three reads: the row first,
so that what it says was written before the steps and artifacts are read. With the
row read last a completed run would be answered without its results.
`StopsOnTheTruth` has one exception, which the history variable `misled` marks: the
answer to a retry is lost, or a poll that was sent before the retry answers after it.
The dashboard then shows "failed", for which it sets no interval, while the run is
executed, until the window gets the focus (section 7): what is shown is older than
a retry.

## 4. Slack ingestion

`SlackIngest` models one thread: Slack, which posts, edits and deletes messages and
delivers an event for each change; the handlers, which process events
(`HandleEvent`), refreshes and analyses; the rows they share; and the requests
they submit to the engine. Threads share no row, so one is enough.

**State.** `remote` and `sent` are Slack: the current contents, and the events that
are delivered until they are acknowledged, in any order and as often as it takes.
`sync`, `version`, `requested` are `sync_status`, `context_version` and
`requested_analysis_version` of `slack_threads`; `local` is `slack_messages`; `claim`
is `slack_events`, with the age of a claim as a status of its own (`stale`).
`submitted` is the runs of the thread, by what their requests carry; the engine
keeps one per request id, and so per version. `pc`, `event`, `changed`, `batch`,
`ver` are a handler's position and locals. `history` records the thread's content at
each version, `spent` the
disturbances; the code has neither.

**Actions.** One per call to the store, the Slack API or the engine:
`Receive` (ClaimSlackEvent), `Locate`, `EnsureThread`, `StartSync`, `Fetch`, `Store`
(the fetched messages, one transaction), `ApplyEvent` (the event's own message),
`Check` (the condition for an analysis, read after the transaction), `Load` and
`List` (the two reads of Analyze), `Lookup` and `Create` (Executor.Start), `Link`,
`Acknowledge`, `Release`. A handler that serves a refresh or an analysis runs the
same actions without an event. `Fail` is any of these calls failing, or its client
being gone; after an error the deferred release runs, which may fail as well.
`Crash` loses the handlers and keeps the rows. `Abandoned` and `Slow` are five
minutes passing, without and with a handler at work.

**Abstracted.** A message's content is the number of its text: a hash tells texts
apart, and author and attachments change with it. The pages of a fetch are one
snapshot; pages, texts and attachments are the subject of `ThreadSync`. Events of other
types are claimed and completed without touching a thread. What is submitted is
every active message here; which of them a bounded context holds is the subject
of `SlackContext`.

**Abstract specification.** `ThreadLog` is a thread without handlers: a log of contents
with one entry per material change; requests, at most one per version, each with
what is visible of an entry of the log that is not older than its version; the
version the thread row points to, which has a request; and the acknowledged events,
whose content is in the log. `ImplementsThreadLog` maps the log to `history`, the rest to
the rows. So nothing is acknowledged before it is stored, no request mixes two
states of the thread, and no link points to a run that was never submitted, however
deliveries, crashes and failures interleave.

| Run | Instance | What it shows |
|---|---|---|
| `slack_pair` | 2 handlers, a parent with 2 texts, a reply that is deleted without naming its thread; no call fails | requests carry the content of one version; when all is quiet the current content has been requested |
| `slack_faults` | 2 handlers, a message that is deleted; one crash, failing call, slow handler and manual call | claims are exclusive, and `SlackIngest` implements `ThreadLog` |
| `slack_live` | 1 handler, a message that is edited and deleted, a crash and a failing call; fairness | every event is acknowledged |
| `slack_undelete`, `slack_lost` | small instances | where the code departs from its documents, see section 7 |

**Why the bounds are enough.** The shared rows are one thread row, one row per
message and one per event; every hazard is a pair of handlers between whose calls
something else happens. A message with two texts and a deletion has an older and
a newer event to be confused, and two messages an analysis that a change of the
other one overtakes. `NumTexts`, `Removable` and `Limits` bound what Slack and the
environment do, in the guards of `SlackChange` and through `Spend`. `Limits["empty"]`
is needed because of a cycle: the posting and the deletion of a thread's only
message, handled at the same time, can both find nothing to analyse, both fail,
and both be delivered and applied again, with two new versions each time. In
`slack_live`, with one handler, the limit is never reached. Handlers may really stop when
everything is acknowledged, so these runs do not check for deadlock. Symmetry
permutes handlers in the safety runs only.

**Fairness.** Calls return, since the Slack client and the requests have timeouts;
time passes; Slack delivers an event until it is acknowledged. The last is more than
Slack promises (it retries three times), so liveness here says that nothing in
the service's rows can block an event, not that three retries suffice.

### The bounded context

`SlackContext` models `BuildContext`: which messages of a thread a context holds and
how much of each, within `MaxContextMessages` and `MaxContextChars`. A thread is a
sequence, oldest first; of a message only lengths matter, its header's and its
trimmed text's, 0 if it is deleted or blank. The function has no concurrency, but it
is modelled as a loop, one action per iteration, so that what it does with threads
of any length can be proved by induction over the steps: `Filter` (active messages,
`ErrEmptyContext`), `SelectParent`, `ConsiderReply` (one iteration, from the latest
reply back), `Finish`. `budget`, `selected` are its locals, `left` the replies the loop
has not come to.

What could be wrong here is the arithmetic: headers and separators count as well,
the parent is given half of the budget only if replies compete with it, a text is
cut to the characters that remain, and a reply without room is passed over while
the loop goes on. So the properties are about the result: it fits both limits
(`ContextFits`), keeps the parent (`ParentRetained`), leaves nothing out that has room
(`NothingLeftOut`), prefers later replies unless an author's id is longer
(`LatestAreSelected`), and cuts the oldest selected reply only (`OnlyOldestIsCut`).

`slack_context` checks all threads of up to 4 messages, with and without a parent, for
two header lengths, texts that are absent, short and long, 1 to 4 messages and three
budgets: with 12 to 16 characters some threads fit, some are cut and some have
replies passed over, at an even and an odd half and with nothing left exactly.
`ContextAssumption` is what the model takes from elsewhere: timestamps are unique, so
a thread has one parent at most, and half of the budget holds a header and a
letter, as the configuration's minimum of 1000 characters ensures. Not modelled:
the defaults for limits below 1, which the configuration excludes, the order by
timestamp (a thread is given in it) and the final text.

### Pages and attachments

`ThreadSync` models the data of a thread: the fetch page by page, and the transaction
that stores messages and their files. `remote` and `sent` are Slack; `messages`,
`attachments`, `version`, `last`, `parent`, `sync`, `synced` are the tables; `cursor`,
`tries`, `batch` are the locals of `FetchThread`. `FetchPage`, `RateLimited` (429, three
tries a page) and `SyncFails` end in `Store` or in nothing but a status, whose write may
fail as well and is ignored then (`FetchFails`); messages are posted, edited and deleted
between the pages. `ApplySlackMessages` is a fold over its inputs
(`ApplyInput`): insert or overwrite the message, compare its files with the rows, add,
update, restore and remove. It is used by `Store` and by `ApplyEvent`, which may come
late, again, and while a fetch is under way. Events are applied only after a first
synchronization, as in `HandleEvent`. What a page holds is said by `IsPage`: the next
messages in their order, as many as fit or all there are. `SyncAssumption` says that
"no row" (`NoRow`) is none of the rows.

What is hard here: the row of an attachment is keyed by workspace and file, so a file
that two messages carry has one row, which moves to the message that was applied
last (section 7); and whether anything changed is worked out from comparisons of
which one can easily be forgotten. `MessagesShowWhatWasApplied` compares what is shown
with what was last applied, `VersionCountsChanges` the version with what is shown (a file
that two messages share changes what both show, and the version counts that too; only
where one synchronization lists it twice, so that its row moves there and back, may the
version grow with nothing to show for it),
`SyncMissesOnlyDeletions` the thread after a quiet synchronization with Slack.

`files` has a parent and two replies, a file of the second reply, which is alone on the
second page, and one that the parent and the first reply may share, two values of a
file's metadata and one text per message (what may change
of a message besides its files is its deletion; `SlackIngest` has edits), pages of two.
The second reply shares nothing: losing the second page would show, and so would an
event about it that changes nothing and is counted.
`MaxChanges` bounds what users do, `MaxVersion` the version: without it a shared file
makes the version grow for ever.

## 5. A manual summary, as data and time

`ManualSummary` follows one run of the one workflow there is. `Start` is the selection
and what the service checks; `Claim`, `SkipCompleted`, `BeginStep`, `BeginAttempt`,
`CallModel`/`RefuseContent`/`Compose`, `CompleteStep`, `RecordFailure`, `WaitBackoff`,
`FailRun` and `CompleteRun` are `execute`, with what it hands on: `outputs`, the error
codes of rows and run, the attempts. `Answers` are the classes of answers a model
server can give: no connection, a status, a body that does not decode, has an error,
is empty, is not the JSON asked for, is blank, or is good; and the deadline of the
call may pass before the headers or within the body. `Generate`, `Summarized`,
`Category`, `EndpointCode` are what the client, the summary service, the executor and
the summary endpoint make of them, in the order of their tests. `elapsed` is time since
`execute` began, in units of the backoff; `inStore` how much of it store calls took.
`Restart` comes back with other models, anywhere; `Retry` follows a failure.

Interleavings, cancellation and the single store calls of recovery are left to
`WorkflowEngine`: the two modules look at one function from two sides, and agree in
its control.

The run `summary` takes every request (its type, an explicit choice of a registered,
disabled or unserved workflow, content that is normal, blank or too long), two models,
every class of answer at once or at the last moment, store calls that take no time or
all of the margin, a restart and a retry. Times between the two only end in states
with less elapsed. What it shows: only the selected workflow is executed; a run fails
because of a model or of content that is too long, and never because one step
refuses what another put out; the dashboard result consists of its own run's artifacts
and names their models, also if these changed between two steps; error codes are
those of the last attempt, and name the cause that the summary endpoint would name;
the deadline of the workflow never takes time from an attempt.

`TypeOK` of this module, of `RunPolling` (`ViewOK`), `ThreadSync` and `SlackIngest` are
the type invariants the runs check; those of `WorkflowEngine` and `SlackContext` are
proved and not repeated as runs. All are proved (section 6).

## 6. Proofs

`WorkflowEngine_proofs` proves, from `EngineAssumption` only (the step count is
positive, every step has at least one attempt, `NoRun` is not a run):

- `TypeCorrect`: `TypeOK` is an invariant;
- `StoreConsistent`: `StoreInv` is an invariant;
- `PrefixTheorem`, `FinalTheorem`, `CancelledTheorem`: the three safety properties
  of the rows, for any number of runs, handlers, steps, attempts, stops, retries,
  deadlines and store failures.

`StoreInv` is the inductive invariant. The row properties alone are not inductive:
`CompleteStep` extends the prefix only because the worker's index is right after
it, and `CompleteRun` stores the last artifact only because the carried one is the
artifact of the step before the index. So `StoreInv` adds `Cursor` (what the worker's
index and carried artifact say of its run's rows, from the claim to `failRun`),
`HoldsRun` (the run it holds is running or has just been cancelled), `ProcessInv`
(recovery runs alone and lists only runs that are still interrupted) and
`QueuedBlank` (a queued run has no final artifact, as the requeueing transaction
clears it). The proof goes action by action; the lemmas `OneRow`, `NoRow` and
`CursorKept` say that an action that writes one run's rows, or none, keeps the
others, and `RequeueRow` is shared by `ResetRunForRetry` and `Recover`.

`WorkflowEngine_steps` is about steps. One lemma, `StepEffect`, says that a step writes
the rows of at most one run, and in which of six ways (`Effect`): `execute` works on
it (an attempt is recorded, a result stored in order, the run completed or failed),
it is created, claimed, cancelled, retried or recovered. From it and `StoreInv` follow

- `FrozenTheorem`: no step touches a cancelled or completed run again;
- `TableTheorem`: while the process serves, every change of a status is in the table
  of `CanTransitionTo`, although the statements of the store check less;
- `RefinementTheorem`: the engine implements `RunLifecycle`. `StatusOf` and `DoneOf`
  are the refinement mapping, `AbstractMove` and `AbstractStep` map each effect to a
  step of one run's life or to a stutter.

`WorkflowEngine_control` is about the worker and the handlers. Its three invariants
each need what another part of the program knows:

- `ControlInv` (`InterruptTheorem`, `ReachTheorem`, `WakeUpTheorem`): the control is
  published from `Publish` to `Release` and names the worker's run (`Published`), and a
  handler about to interrupt has cancelled its run (`Notifying`). That it stays
  cancelled until the interrupt is delivered, so that the interrupt cannot hit a
  run that was retried and claimed in between, is `StepEffect` again.
- `RunningInv` (`RunningTheorem`): recovery lists every run that still says "running",
  unless the list was cut off, and the worker lets go of such a run only if it is being
  stopped, the deadline has passed or a store call failed.
- `MarksInv` (`FailedTheorem`): the marks of a run's steps, from the claim to the end of
  `failRun`: which step failed, and how far its followers have been skipped. The mark
  of a skipped step may be missing only after a store failure.

`AttemptsTheorem`, an action property, combines `Published` with `StepEffect`: attempts are
recorded one at a time, for the published run, on its first step without a result. That
no execution makes more of them than the step's limit needs `BudgetInv`: the recorded
attempts are at most the step's limit times the executions granted to the run, the
first and one more for each retry and each end of the process (`Executions`). While a
run waits for an execution (`Waiting`), and on steps the worker has still to come to
(`Untried`), the last one is unused; on the step being tried, the worker's counter
`tries` bounds what it has used (`Tried`).

`RunPolling_proofs` proves, also from `PollingAssumption`, that a step of the polling
model is one of the engine or leaves it alone (`EngineStep`), and so takes over the
engine's theorems. `AnswersTheorem` rests on `ReadInv`: what the first statements of
`GetRun` have read bounds what the later ones find, because results are never lost
(`ResultsGrow`) and final runs frozen. `TruthTheorem` rests on `ShownInv`: a final or
failed status that was read is still the run's, unless a retry has been committed
since, whose answer is under way, has been overtaken (`old`) or is lost (`misled`).
`ViewTheorem` is the type invariant.

`SlackIngest_proofs` proves, from `IngestAssumption`:

- `TypeCorrect`, with `HistoryOK`: every version in the history is a content of the
  thread;
- `ExclusiveTheorem` from `ClaimInv`: while a handler is at work on an event, its claim
  says so, unless a handler has been slow;
- `RequestsTheorem` and `LogTheorem` from `LogInv`: what a handler holds between the two
  reads of `Analyze`, and what is submitted, is visible content of a version not older
  than the one it names, and a linked version has its request. `LogTheorem` is the
  refinement: every step maps to a change, a submission, a link or an
  acknowledgement of `ThreadLog`, or to a stutter;
- `QuietTheorem` from `QuietInv`: while no call failed, the current content has been
  submitted or some handler is still going to (`Responsible`). It is what a step that
  changes the thread hands over to its handler and a handler gives up only with
  its submission.

`SlackContext_proofs` proves, from `ContextAssumption`, that `ContextInv` is an invariant
and with it `ParentTheorem`, `NothingLeftOutTheorem`, `LatestTheorem`, `CutTheorem` and
`NeverEmptyTheorem`, for threads of any length, texts of any size and any limits.
`ContextInv` adds to the properties what the loop keeps: it goes backwards and comes
to every reply once (`Backwards`); a reply that was passed over has no room, and
never will, since the budget only shrinks (`PassedOver`); a reply that was cut took
all that was left, so nothing follows it (`CutIsLast`); nothing is selected before
the parent, which therefore finds the whole budget (`Start`). `Selecting` is the
lemma about one selection that `SelectParent` and `ConsiderReply` share.

`FitsTheorem` (`ContextFits`) is about a sum over the selected messages, a fold over a
set, that is, a function defined by recursion over the finite sets. The induction
that this needs is made of facts without operator parameters: among the finite sets
that would contradict a claim there is one of which no part does
(`FS_StrictSubsetOrderingWellFounded` and `WFMin`, in the lemma `SmallestSet`), and
taking one member from it gives the contradiction. In this way `SumsExist` proves that
there is such a function and `SumsAgree` that any two have the same values; `TotalStep`
follows, one more message adds its length, and with it the invariant that budget and
total make up the limit (`Accounts`).

`ThreadSync_proofs` proves, from `SyncAssumption`, all that the run checks of `ThreadSync`,
for threads of any length, any files and any sharing of them, pages of any size and
batches of any length. It has three parts:

- *the fold*: `FoldsExist`, `FoldsAgree` and `OneByOne` show, by smallest sets as above,
  that a transaction begins with the tables and goes on input by input; `UpTo` is
  induction over the places of a batch;
- *a transaction*: `InputShows`, `InputKeeps` and `InputChanges` say what one input does to
  what is shown (its message shows its content, messages that show none of its files
  show what they did, and it counts as a change only if something is
  written that differs); they rest on `FilesApplied` and `FilesChanged` about the rows
  of the files. `ProgressStep` and `Transaction` carry this over to a batch in order
  (`Progress`): what its inputs say is applied and nothing else, and unless it lists a file
  twice (`MovesAFile`), what an input changed is still to be seen at the end. That the order
  matters
  is why `TypeOK` says that a fetch collects each message at most once;
- *the synchronization*: `SyncInv` is the inductive invariant, `SyncInvariant` its theorem.
  `BatchInv` has the batch in order and up to the cursor, `PostedInv` says that what
  was applied, sent or fetched was posted, `QuietInv` that as long as nothing happens
  in Slack the batch holds all that is listed up to the cursor, and a finished one all.

From these follow `TypesAndOrder`, `ShowsWhatWasApplied`, `VersionTheorem` and `QuietSync`.

`ManualSummary_proofs` begins with `DeadlineTheorem`, from `TimeAssumption`: the deadline
`4 * timeout + 15 s` passes only if store calls took up the margin, for every timeout
and whatever time models and store take. The invariant `TimeInv` bounds `elapsed` by
the store's time, what the attempts and backoffs of the earlier steps may have taken
(`Before`) and what those of the current one may (`Within`); each action moves the
worker and the bound together.

Its second part proves the other properties of the module, from `TimeAssumption`
and `ResultAssumption` ("no output" is no part and no dashboard), for all lists of
models and definitions, all times and any number of restarts and retries.
`SelectedTheorem` stands by itself. The others follow from `DataInv`, which is inductive
together with `TimeInv`:

- `RowsInv`: steps are completed in order; what a completed one put out is a part of its
  own, not blank, or the dashboard of the two; only a failed one shows a code;
- `WorkInv`: the steps before the worker's have completed, those behind it wait, and its
  own has the status that fits the position. With `RowsInv` it makes the inputs of a
  step fit (`InputsFit`), so that `BeginStep` refuses nothing: `OnlyModelsFail` is no
  invariant of the rows alone;
- `ResultInv`: the result about to be stored is a part of this step, or its error is that
  of what the attempt met (`ErrorOfAttempt`), as long as the deadline leaves time to
  record it;
- `FailureInv`: a failed run has one failed step, and their code is that of the last
  attempt, which a retry or a restart with other models does not rewrite.

From these follow `TypeTheorem`, `DashboardTheorem`, `ErrorsTheorem`, `ModelsTheorem` and,
with the lemmas `Answered` and `CauseOf` about the error of each class of answer,
`CauseTheorem`.

The invariants were checked by TLC on the runs' instances before they were proved. The
proofs found three things in the models: two `CASE` expressions of `ManualSummary` had
overlapping arms, whose order TLC takes and the logic does not; that "no output"
differs from every output (`ResultAssumption`), and "no row" from every row
(`SyncAssumption`), had been left to the model values.

Only model-checked: liveness (`RunsSettle`, `RestartSettles`, `EventsAreAcknowledged`),
which needs ENABLED and is out of the prover's reach.

## 7. Where the code departs from its documents

Two of these are runs that TLC ends with a counterexample:

- `slack_undelete`: `ApplySlackMessages` keeps what was applied last. An event
  delivered late, or messages fetched before a deletion and stored after it,
  bring a deleted message back into the context.
- `slack_lost`: only the handler that stores a change analyses it. After a failure in
  between, the redelivered event finds nothing changed and is acknowledged.

The others follow from the models, where the actions named can be stepped through,
and have no run of their own:

- `docs/architecture.md:50` promises that replaying a request returns its run.
  `Executor.Start` looks the request up and inserts it in two store calls (`Start`,
  `CreateRun`); of two concurrent calls the second fails on the UNIQUE `request_id` and
  is answered with an error (`GiveUp`).
- `RunStatus.CanTransitionTo` has no way from `running` to `pending`, which is what
  `PrepareRecovery` does. While the process serves, the table is followed
  (`ServingFollowsTable`).
- The deadline of a workflow ends the context that the store is called with, too:
  the run stays `running`, neither failed nor requeued, until the process restarts.
  `RunsSettle` and `RunningIsExecuted` therefore except it, as they do a store call that
  fails after the claim, and `RestartSettles` says what becomes of it. The comment in
  `execute` (executor.go:296) speaks of a shutdown
  only. `DeadlineTheorem` says that only slow store calls bring it about.
- `PrepareRecovery` does not ask `rows.Err` after its loop: with a list that an error cut
  off, the process serves, and a run it passed over stays `running` until the next start
  (`CutOff`), where the repository's `README.md:148` has interrupted work requeued when the
  API starts. The same two properties except it, and `RestartSettles` covers it.
- `ReleaseSlackEvent` deletes a claim whoever holds it. A handler that fails after its
  claim was taken over (`Slow`, `Receive`, `Release`) frees the claim of its successor,
  and the event can be handled twice at the same time (`docs/architecture.md:42`);
  `ClaimIsExclusive` speaks of claims that no handler has been slow with.
- `Analyze` reads the version and the messages in two statements (`Load`, `List`): a
  request of one version may carry the messages of the next (`docs/architecture.md:38`).
  `ThreadLog` therefore allows a request content that is newer than its version.
- A refresh adds and updates, and never deletes: it does not make up for a deletion
  event that was missed (`README.md:127` says it reconciles). `SyncMissesOnlyDeletions`
  says that this is all it misses.
- A file that several messages of a workspace carry has one row. Each time one of
  them is applied again the row moves to it, the other message loses the file, and
  the context version grows although nothing changed in Slack
  (`docs/architecture.md:40` associates a file with "their exact message and thread").
- The answer to a retry may be lost or overtaken by an older poll; the dashboard then
  shows "failed" and does not poll (`StopsOnTheTruth`).
- A deadline that passes while the body of a model's answer is read is reported as an
  invalid response, not as a timeout (`CauseIsTold`).
- `normalizeEvent` takes the subtype that Slack gives a posted file, `file_share`, for an
  unsupported event: such a message comes in with the next synchronization only.

## 8. Not modelled

- Configuration: parsing of environment variables into the constants of these modules.
- Prompts, request decoding, HTTP plumbing, the catalog and health views, `ListModels`,
  the lists of runs and threads: no state, or reads on which nothing depends.
- Signature verification of Slack requests: a pure function of its inputs.
- `execution_events`: written and read by no code; only its failing insert matters and
  is modelled. `workflow_definitions`: written once at start-up. At this commit every
  definition has one version, so a stored run never meets a newer one.
- `CreateArtifact`, `CreateExtractedDocument` and the file statuses are
  called by no code of the service; `classify_text` is a step of no workflow.
- The Slack view, the forms and the layout of the dashboard.
