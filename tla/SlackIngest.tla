---------------------------- MODULE SlackIngest ----------------------------
(***************************************************************************)
(* Slack text ingestion for one thread: the events Slack delivers, the     *)
(* handler goroutines that claim and process them or serve a manual        *)
(* refresh or analysis (backend/internal/slack/service.go), the rows they  *)
(* share (backend/internal/storage/slack_store.go), and the requests they  *)
(* hand to the workflow engine (Executor.Start in                          *)
(* backend/internal/workflow/executor.go).                                 *)
(*                                                                         *)
(* Threads share no row but the events', so one thread is enough.  The     *)
(* store has one connection: a statement or a transaction is one step, and *)
(* handlers interleave between them.  The content of a message is the      *)
(* number of its text, in the order Slack saw them; an input of            *)
(* ApplySlackMessages is a pair <<message, content>>, and an event is the  *)
(* input it carries.                                                       *)
(***************************************************************************)
EXTENDS Integers, Sequences

CONSTANTS Messages,   \* the messages of the thread
          NumTexts,   \* bound: the texts each message may have over time
          Removable,  \* messages that may be deleted
          Bare,       \* messages whose deletion event does not name the thread
          Handlers,   \* HTTP handler goroutines
          Deleted,    \* the content of a deleted message
          NoEvent,    \* the event of a handler that serves a manual call
          Limits      \* bounds: how often each disturbance happens

Absent == 0

Texts(m) == 1..NumTexts[m]

Contents(m) == Texts(m) \union (IF m \in Removable THEN {Deleted} ELSE {})

Events == UNION {{m} \X Contents(m) : m \in Messages}

\* Disturbances, each counted in "spent": the process dies, a store or API call of a
\* handler fails (or its client is gone), a handler takes over five minutes, a user
\* asks for a refresh or an analysis, an analysis finds nothing to analyse.  The last is
\* counted because it can go on for ever: when all messages of a thread are deleted while
\* their earlier events are processed, each failed event is delivered and applied again.
Disturbances == {"crash", "fault", "slow", "manual", "empty"}

ASSUME IngestAssumption ==
    /\ NumTexts \in [Messages -> Nat \ {0}]
    /\ Removable \subseteq Messages
    /\ Bare \subseteq Removable
    /\ Deleted \notin Nat
    /\ NoEvent \notin Events
    /\ Limits \in [Disturbances -> Nat]

VARIABLES
    \* Slack.
    remote,      \* the current content of each message, Absent before it is posted
    sent,        \* the events there are to deliver
    \* Table slack_threads.
    sync,        \* sync_status, "absent" until the row is inserted
    version,     \* context_version
    requested,   \* requested_analysis_version
    \* Table slack_messages.
    local,       \* the stored content of each message, Absent without a row
    \* Table slack_events.
    claim,       \* "stale" is a "processing" row claimed over five minutes ago
    \* The engine.
    submitted,   \* the requests that have a run: the version and the inputs they carry
    \* The handlers.
    pc, event,
    changed,     \* a material change was stored
    batch,       \* the inputs a handler holds: what it fetched, or what it listed
    ver,         \* the context version of the thread Analyze has read
    \* History and bounds.
    history,     \* history[v + 1] is the content of the thread at version v
    spent

slackVars   == <<remote, sent>>
threadVars  == <<sync, version, requested, local, history>>
handlerVars == <<pc, event, changed, batch, ver>>

vars == <<slackVars, threadVars, claim, submitted, handlerVars, spent>>

-----------------------------------------------------------------------------
SyncStatuses == {"absent", "syncing", "synchronized", "dirty", "failed"}

Pcs == {"idle", "locate", "ensure", "sync", "fetch", "failed", "store", "apply", "check",
        "load", "list", "lookup", "create", "link", "ack", "release"}

\* The messages of a content map that are neither missing nor deleted, as inputs.
Visible(content) == {<<m, content[m]>> : m \in {n \in Messages : content[n] \in Texts(n)}}

ThreadOK ==
    /\ sync \in SyncStatuses
    /\ version \in Nat
    /\ requested \in 0..version
    /\ DOMAIN local = Messages
    /\ \A m \in Messages : local[m] \in Contents(m) \union {Absent}

HandlersOK ==
    /\ pc \in [Handlers -> Pcs]
    /\ event \in [Handlers -> Events \union {NoEvent}]
    /\ changed \in [Handlers -> BOOLEAN]
    /\ batch \in [Handlers -> SUBSET Events]
    /\ ver \in [Handlers -> 0..version]
    /\ \A h \in Handlers : pc[h] \in {"locate", "apply", "ack", "release"} => event[h] # NoEvent

\* The type invariant; a thread is never analysed ahead of its version, and the history
\* has one entry for each version.
TypeOK ==
    /\ sent \subseteq Events
    /\ ThreadOK
    /\ claim \in [Events -> {"none", "processing", "stale", "processed"}]
    /\ HandlersOK
    /\ Len(history) = version + 1 /\ history[version + 1] = local
    /\ spent \in [Disturbances -> Nat]

Init ==
    /\ remote = [m \in Messages |-> Absent] /\ sent = {}
    /\ sync = "absent" /\ version = 0 /\ requested = 0
    /\ local = [m \in Messages |-> Absent]
    /\ claim = [e \in Events |-> "none"]
    /\ submitted = {}
    /\ pc = [h \in Handlers |-> "idle"]
    /\ event = [h \in Handlers |-> NoEvent]
    /\ changed = [h \in Handlers |-> FALSE]
    /\ batch = [h \in Handlers |-> {}]
    /\ ver = [h \in Handlers |-> 0]
    /\ history = <<local>>
    /\ spent = [d \in Disturbances |-> 0]

Spend(d) == /\ spent[d] < Limits[d]
            /\ spent' = [spent EXCEPT ![d] = @ + 1]

-----------------------------------------------------------------------------
(* Slack: a message is posted, edited or deleted, and an event says so.    *)

SlackChange(m, x) ==
    /\ x \in Contents(m)
    /\ IF x = Deleted THEN remote[m] \in Texts(m)
                      ELSE remote[m] = x - 1
    /\ remote' = [remote EXCEPT ![m] = x]
    /\ sent' = sent \union {<<m, x>>}
    /\ UNCHANGED <<threadVars, claim, submitted, handlerVars, spent>>

-----------------------------------------------------------------------------
(* Handlers: control.                                                      *)

Goto(h, label) == pc' = [pc EXCEPT ![h] = label]

\* The handler answers its client.
Return(h) ==
    /\ Goto(h, "idle")
    /\ event' = [event EXCEPT ![h] = NoEvent]
    /\ changed' = [changed EXCEPT ![h] = FALSE]
    /\ batch' = [batch EXCEPT ![h] = {}]
    /\ ver' = [ver EXCEPT ![h] = 0]

\* An error: the deferred call of HandleEvent releases the event first.
Unwind(h) == IF event[h] = NoEvent
             THEN Return(h)
             ELSE /\ Goto(h, "release")
                  /\ UNCHANGED <<event, changed, batch, ver>>

Advance(h, label) == /\ Goto(h, label)
                     /\ UNCHANGED event

\* The service call ends without an error: an event is acknowledged first.
Finish(h) == IF event[h] = NoEvent
             THEN Return(h)
             ELSE /\ Advance(h, "ack")
                  /\ UNCHANGED <<changed, batch, ver>>

-----------------------------------------------------------------------------
(* HandleEvent.                                                            *)

\* Mutation: an event in progress is claimed again at once.
Claimable_Always(e) == claim[e] # "processed"

\* ClaimSlackEvent inserts the row, or takes over one claimed over five minutes ago;
\* a processed event is acknowledged and one in progress refused, without an effect.
Claimable(e) == claim[e] \in {"none", "stale"}

Receive(h, e) ==
    /\ pc[h] = "idle"
    /\ e \in sent
    /\ Claimable(e)
    /\ claim' = [claim EXCEPT ![e] = "processing"]
    /\ Goto(h, "locate")
    /\ event' = [event EXCEPT ![h] = e]
    /\ UNCHANGED <<slackVars, threadVars, submitted, changed, batch, ver, spent>>

\* Mutation: the message of a deletion is looked up among those that are not deleted.
Unlocatable_Active(e) == e[2] = Deleted /\ e[1] \in Bare /\ local[e[1]] \notin Texts(e[1])

\* A deletion that names no thread is looked up by its message, and refused if that is
\* unknown.  A thread that is new or not synchronized is synchronized first.
Unlocatable(e) == e[2] = Deleted /\ e[1] \in Bare /\ local[e[1]] = Absent

Locate(h) ==
    /\ pc[h] = "locate"
    /\ IF Unlocatable(event[h])
       THEN Unwind(h)
       ELSE /\ Advance(h, CASE sync = "absent"               -> "ensure"
                            [] sync \in {"syncing", "failed"} -> "sync"
                            [] OTHER                          -> "apply")
            /\ UNCHANGED <<changed, batch, ver>>
    /\ UNCHANGED <<slackVars, threadVars, claim, submitted, spent>>

EnsureThread(h) ==
    /\ pc[h] = "ensure"
    /\ sync' = IF sync = "absent" THEN "syncing" ELSE sync
    /\ Advance(h, "sync")
    /\ UNCHANGED <<slackVars, version, requested, local, history, claim, submitted, changed,
                   batch, ver, spent>>

\* ApplySlackMessages: the contents the inputs leave in the table ...
Upsert(inputs) ==
    [m \in Messages |-> IF \E x \in Contents(m) : <<m, x>> \in inputs
                        THEN CHOOSE x \in Contents(m) : <<m, x>> \in inputs
                        ELSE local[m]]

Material(inputs) == Upsert(inputs) # local

\* ... and the transaction: one version more for a material change, whatever the number
\* of messages.
ApplySlackMessages(h, inputs, target) ==
    /\ local' = Upsert(inputs)
    /\ changed' = [changed EXCEPT ![h] = @ \/ Material(inputs)]
    /\ IF Material(inputs)
       THEN version' = version + 1 /\ history' = Append(history, local')
       ELSE UNCHANGED <<version, history>>
    /\ sync' = CASE target = "synchronized" -> "synchronized"
                 [] target = "dirty" /\ Material(inputs) -> "dirty"
                 [] OTHER -> sync
    /\ UNCHANGED requested

\* The event's own message, also after a synchronization.
ApplyEvent(h) ==
    /\ pc[h] = "apply"
    /\ ApplySlackMessages(h, {event[h]}, "dirty")
    /\ Advance(h, "check")
    /\ UNCHANGED <<slackVars, claim, submitted, batch, ver, spent>>

\* A change that no analysis has been requested for is analysed; the thread is read again
\* after the transaction.
Check(h) ==
    /\ pc[h] = "check"
    /\ IF changed[h] /\ version > requested
       THEN Advance(h, "load") /\ UNCHANGED <<changed, batch, ver>>
       ELSE Finish(h)
    /\ UNCHANGED <<slackVars, threadVars, claim, submitted, spent>>

\* CompleteSlackEvent; without a row there is nothing to update.
Acknowledge(h) ==
    /\ pc[h] = "ack"
    /\ claim' = [claim EXCEPT ![event[h]] = IF @ = "none" THEN "none" ELSE "processed"]
    /\ Return(h)
    /\ UNCHANGED <<slackVars, threadVars, submitted, spent>>

\* ReleaseSlackEvent deletes the row of an event in progress, whoever has claimed it.
Released(c) == IF c \in {"processing", "stale"} THEN "none" ELSE c

Release(h) ==
    /\ pc[h] = "release"
    /\ claim' = [claim EXCEPT ![event[h]] = Released(@)]
    /\ Return(h)
    /\ UNCHANGED <<slackVars, threadVars, submitted, spent>>

-----------------------------------------------------------------------------
(* Refresh, and the synchronization it shares with HandleEvent.            *)

Refresh(h) ==
    /\ pc[h] = "idle"
    /\ sync # "absent"
    /\ Spend("manual")
    /\ Goto(h, "sync")
    /\ UNCHANGED <<slackVars, threadVars, claim, submitted, event, changed, batch, ver>>

StartSync(h) ==
    /\ pc[h] = "sync"
    /\ sync' = "syncing"
    /\ Advance(h, "fetch")
    /\ UNCHANGED <<slackVars, version, requested, local, history, claim, submitted, changed,
                   batch, ver, spent>>

\* conversations.replies returns the messages that are not deleted.
Fetch(h) ==
    /\ pc[h] = "fetch"
    /\ batch' = [batch EXCEPT ![h] = Visible(remote)]
    /\ Advance(h, "store")
    /\ UNCHANGED <<slackVars, threadVars, claim, submitted, changed, ver, spent>>

\* Mutation: the message of an event is taken to be among those that were fetched.
Store_Only(h) ==
    /\ pc[h] = "store"
    /\ ApplySlackMessages(h, batch[h], "synchronized")
    /\ Advance(h, "check")
    /\ batch' = [batch EXCEPT ![h] = {}]
    /\ UNCHANGED <<slackVars, claim, submitted, ver, spent>>

\* An event's own message comes after those that were fetched.
Store(h) ==
    /\ pc[h] = "store"
    /\ ApplySlackMessages(h, batch[h], "synchronized")
    /\ Advance(h, IF event[h] = NoEvent THEN "check" ELSE "apply")
    /\ batch' = [batch EXCEPT ![h] = {}]
    /\ UNCHANGED <<slackVars, claim, submitted, ver, spent>>

MarkFailed(h) ==
    /\ pc[h] = "failed"
    /\ sync' = "failed"
    /\ Unwind(h)
    /\ UNCHANGED <<slackVars, version, requested, local, history, claim, submitted, spent>>

-----------------------------------------------------------------------------
(* Analyze: the thread row, its messages, the engine, the thread row.      *)

Analyze(h) ==
    /\ pc[h] = "idle"
    /\ sync # "absent"
    /\ Spend("manual")
    /\ Goto(h, "load")
    /\ UNCHANGED <<slackVars, threadVars, claim, submitted, event, changed, batch, ver>>

Load(h) ==
    /\ pc[h] = "load"
    /\ ver' = [ver EXCEPT ![h] = version]
    /\ Advance(h, "list")
    /\ UNCHANGED <<slackVars, threadVars, claim, submitted, changed, batch, spent>>

\* ListSlackMessages, and BuildContext on its result: nothing to analyse is an error.
List(h) ==
    /\ pc[h] = "list"
    /\ IF Visible(local) = {}
       THEN Spend("empty") /\ Unwind(h)
       ELSE /\ batch' = [batch EXCEPT ![h] = Visible(local)]
            /\ Advance(h, "lookup")
            /\ UNCHANGED <<changed, ver, spent>>
    /\ UNCHANGED <<slackVars, threadVars, claim, submitted>>

\* The request id is a function of the thread and the version.
HasRun(v) == \E s \in submitted : s.version = v

\* Executor.Start answers with the run the request has ...
Lookup(h) ==
    /\ pc[h] = "lookup"
    /\ Advance(h, IF HasRun(ver[h]) THEN "link" ELSE "create")
    /\ UNCHANGED <<slackVars, threadVars, claim, submitted, changed, batch, ver, spent>>

\* Mutation: the request carries the version of the thread when it is submitted.
Create_Current(h) ==
    /\ pc[h] = "create"
    /\ IF HasRun(ver[h])
       THEN Unwind(h) /\ UNCHANGED submitted
       ELSE /\ submitted' = submitted \union {[version |-> version, inputs |-> batch[h]]}
            /\ Advance(h, "link")
            /\ UNCHANGED <<changed, batch, ver>>
    /\ UNCHANGED <<slackVars, threadVars, claim, spent>>

\* ... or creates one, which fails if another handler has created it meanwhile.
Create(h) ==
    /\ pc[h] = "create"
    /\ IF HasRun(ver[h])
       THEN Unwind(h) /\ UNCHANGED submitted
       ELSE /\ submitted' = submitted \union {[version |-> ver[h], inputs |-> batch[h]]}
            /\ Advance(h, "link")
            /\ UNCHANGED <<changed, batch, ver>>
    /\ UNCHANGED <<slackVars, threadVars, claim, spent>>

\* Mutations: the thread is marked as analysed up to its current version, or past the
\* one that was.
Link_Current(h) ==
    /\ pc[h] = "link"
    /\ requested' = version
    /\ Finish(h)
    /\ UNCHANGED <<slackVars, sync, version, local, history, claim, submitted, spent>>

Link_Next(h) ==
    /\ pc[h] = "link"
    /\ requested' = ver[h] + 1
    /\ Finish(h)
    /\ UNCHANGED <<slackVars, sync, version, local, history, claim, submitted, spent>>

\* LinkSlackWorkflowRun.
Link(h) ==
    /\ pc[h] = "link"
    /\ requested' = ver[h]
    /\ Finish(h)
    /\ UNCHANGED <<slackVars, sync, version, local, history, claim, submitted, spent>>

-----------------------------------------------------------------------------
(* Disturbances.                                                           *)

\* A call of a handler to the store, the Slack API or the engine fails.  A fetch that
\* fails is recorded, unless the client is gone too; an event that cannot be released
\* stays claimed.
Fail(h) ==
    /\ pc[h] # "idle"
    /\ Spend("fault")
    /\ \/ pc[h] = "fetch" /\ Advance(h, "failed") /\ UNCHANGED <<changed, batch, ver>>
       \/ pc[h] = "release" /\ Return(h)
       \/ pc[h] # "release" /\ Unwind(h)
    /\ UNCHANGED <<slackVars, threadVars, claim, submitted>>

Crash ==
    /\ Spend("crash")
    /\ pc' = [h \in Handlers |-> "idle"]
    /\ event' = [h \in Handlers |-> NoEvent]
    /\ changed' = [h \in Handlers |-> FALSE]
    /\ batch' = [h \in Handlers |-> {}]
    /\ ver' = [h \in Handlers |-> 0]
    /\ UNCHANGED <<slackVars, threadVars, claim, submitted>>

Workers(e) == {h \in Handlers : event[h] = e}

\* Five minutes pass since an event was claimed: nobody processes it any more ...
Abandoned(e) ==
    /\ claim[e] = "processing"
    /\ Workers(e) = {}
    /\ claim' = [claim EXCEPT ![e] = "stale"]
    /\ UNCHANGED <<slackVars, threadVars, submitted, handlerVars, spent>>

\* ... or its handler is slow (rate limits, a large thread).
Slow(e) ==
    /\ claim[e] = "processing"
    /\ Workers(e) # {}
    /\ Spend("slow")
    /\ claim' = [claim EXCEPT ![e] = "stale"]
    /\ UNCHANGED <<slackVars, threadVars, submitted, handlerVars>>

-----------------------------------------------------------------------------

Step(h) ==
    \/ Locate(h) \/ EnsureThread(h) \/ StartSync(h) \/ Fetch(h) \/ Store(h) \/ MarkFailed(h)
    \/ ApplyEvent(h) \/ Check(h) \/ Load(h) \/ List(h) \/ Lookup(h) \/ Create(h) \/ Link(h)
    \/ Acknowledge(h) \/ Release(h)

Next ==
    \/ \E m \in Messages : \E x \in Contents(m) : SlackChange(m, x)
    \/ \E h \in Handlers :
          Step(h) \/ Refresh(h) \/ Analyze(h) \/ Fail(h) \/ \E e \in Events : Receive(h, e)
    \/ \E e \in Events : Abandoned(e) \/ Slow(e)
    \/ Crash

Spec == Init /\ [][Next]_vars

\* Handlers are scheduled and their calls time out; time passes; Slack delivers an event
\* again until it is acknowledged, and a free handler is never far (SF: the number of
\* handlers is a bound of the model only).
Fairness ==
    /\ \A h \in Handlers : WF_vars(Step(h))
    /\ \A e \in Events : /\ WF_vars(Abandoned(e))
                         /\ SF_vars(\E h \in Handlers : Receive(h, e))

FairSpec == Spec /\ Fairness

-----------------------------------------------------------------------------
(* Properties.                                                             *)

Idle == \A h \in Handlers : pc[h] = "idle"

Undisturbed(ds) == \A d \in ds : spent[d] = 0

\* What a request carries is the context of one version, of its own or of a later one
\* that was stored while Analyze ran: never a mixture, and nothing that was not stored.
RequestsAreCurrent ==
    \A s \in submitted :
        \E v \in s.version..version : s.inputs = Visible(history[v + 1])

\* When no call failed and the handlers have finished, the current context has been
\* submitted, however they interleaved: Check may only trust requested_analysis_version
\* if a change that is not its own is analysed by the handler that stored it.
QuietThreadIsRequested ==
    Idle /\ Undisturbed({"fault", "crash"}) /\ Visible(local) # {}
        => [version |-> version, inputs |-> Visible(local)] \in submitted

\* Two handlers process the same event only after one took longer than five minutes.
ClaimIsExclusive ==
    Undisturbed({"slow"})
        => \A h1, h2 \in Handlers : event[h1] = event[h2] /\ event[h1] # NoEvent => h1 = h2

\* The promise about a thread: the service and its store implement ThreadLog.  Versions are
\* the entries of a log, a version has at most one request, with visible content that is
\* not older than it, the version that is linked has one, and an acknowledged event was
\* stored and stays acknowledged.
Log == INSTANCE ThreadLog WITH
    Values       <- {Absent, Deleted} \union UNION {Texts(m) : m \in Messages},
    Hidden       <- {Absent, Deleted},
    log          <- history,
    requests     <- submitted,
    analysed     <- requested,
    acknowledged <- {e \in Events : claim[e] = "processed"}

ImplementsThreadLog == Log!Spec

\* Every event is acknowledged in the end: no failure, crash or slow handler leaves it
\* claimed, and no thread is left in a state in which its events fail for ever.
EventsAreAcknowledged ==
    \A e \in Events : e \in sent ~> claim[e] = "processed"

-----------------------------------------------------------------------------
(* What the documents say and the code does not do.                        *)

\* docs/slack-text-ingestion.md: deleted messages are excluded from the context.
DeletedStaysDeleted ==
    \A m \in Removable :
        Idle /\ claim[<<m, Deleted>>] = "processed" => local[m] = Deleted

\* docs/slack-text-ingestion.md: the current context is submitted to the workflow.
ChangesAreAnalysed ==
    Idle /\ (\A e \in sent : claim[e] = "processed") /\ version > 0 /\ Visible(local) # {}
        => \E s \in submitted : s.inputs = Visible(local)
=============================================================================
