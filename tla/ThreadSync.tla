----------------------------- MODULE ThreadSync -----------------------------
(***************************************************************************)
(* One Slack thread with its files: the paginated fetch of a               *)
(* synchronization (FetchThread in backend/internal/slack/client.go), and  *)
(* the transaction that stores messages and attachments and decides        *)
(* whether the context version grows (ApplySlackMessages and               *)
(* applySlackAttachments in backend/internal/storage/slack_store.go).      *)
(*                                                                         *)
(* SlackIngest has the claims, the analysis and the concurrency of the     *)
(* handlers; here the content of a message is a text and the metadata of   *)
(* its files.  The table of attachments is keyed by workspace and file,    *)
(* whichever message carries the file.  Messages are named by their        *)
(* timestamps: 1 is the parent.                                            *)
(***************************************************************************)
EXTENDS Integers, Sequences, FiniteSets, SequencesExt

CONSTANTS NumMessages,  \* the messages of the thread
          Files,        \* Slack files
          Carriers,     \* the messages that may carry a file
          NumTexts,     \* bound: texts a message may have
          Metadata,     \* names, types and sizes a file may have
          PageSize,     \* messages on a page of conversations.replies
          NoRow,        \* the value of a key that has no row
          MaxVersion,   \* bound on context_version
          MaxChanges    \* bound on what Slack's users do

Messages == 1..NumMessages

MaxTries == 3   \* requests for a page that is rate limited

ASSUME SyncAssumption ==
    /\ NumMessages \in Nat \ {0}
    /\ Carriers \in [Files -> SUBSET Messages]
    /\ NumTexts \in Nat \ {0}
    /\ PageSize \in Nat \ {0}
    /\ MaxVersion \in Nat /\ MaxChanges \in Nat
    /\ NoRow \notin [deleted : BOOLEAN, text : 0..NumTexts]
    /\ NoRow \notin [message : Messages, meta : Metadata, removed : BOOLEAN]
    /\ \A S \in SUBSET Files :
          NoRow \notin [deleted : BOOLEAN, text : 0..NumTexts, files : [S -> Metadata]]

Carried(m) == {f \in Files : m \in Carriers[f]}

FileLists(m) == UNION {[S -> Metadata] : S \in SUBSET Carried(m)}

Content(deleted, text, files) == [deleted |-> deleted, text |-> text, files |-> files]

Posts(m) == {Content(FALSE, t, files) : t \in 1..NumTexts, files \in FileLists(m)}

\* What a deletion says of a message: no file is left.
Deletion == Content(TRUE, 0, [f \in {} |-> 0])

\* A message input: the message, and its content.
Inputs == UNION {{m} \X (Posts(m) \union {Deletion}) : m \in Messages}

VARIABLES
    \* Slack.
    remote,       \* the content of each message, NoRow before it is posted
    sent,         \* the events, as the inputs they carry
    \* Tables slack_messages, slack_attachments and slack_threads.
    messages,     \* the text and is_deleted of each message
    attachments,  \* the message, metadata and is_removed of each file
    version,      \* context_version
    last, parent, \* last_message_ts and parent_message_id, 0 for ''
    sync,         \* sync_status
    synced,       \* last_synced_at is set
    \* The synchronization in progress.
    pc,           \* "idle", "page" or "store"
    cursor,       \* the last message of the pages fetched so far
    tries,        \* requests for the current page
    batch,        \* the inputs collected
    \* History and bounds.
    applied,      \* the content that was last applied to each message
    steady,       \* nothing has changed in Slack since the fetch began
    changes

slackVars == <<remote, sent, changes>>
rowVars   == <<messages, attachments, version, last, parent>>
fetchVars == <<pc, cursor, tries, batch>>

vars == <<slackVars, rowVars, sync, synced, fetchVars, applied, steady>>

Init ==
    /\ remote = [m \in Messages |-> NoRow] /\ sent = {} /\ changes = 0
    /\ messages = [m \in Messages |-> NoRow]
    /\ attachments = [f \in Files |-> NoRow]
    /\ version = 0 /\ last = 0 /\ parent = 0
    /\ sync = "syncing" /\ synced = FALSE
    /\ pc = "idle" /\ cursor = 0 /\ tries = 0 /\ batch = <<>>
    /\ applied = [m \in Messages |-> NoRow]
    /\ steady = FALSE

-----------------------------------------------------------------------------
(* Slack: messages are posted, edited, given and deprived of files, and    *)
(* deleted; an event says so.                                              *)

SlackChange(m, content) ==
    /\ changes < MaxChanges
    /\ remote[m] # content
    /\ IF content = Deletion THEN remote[m] # NoRow ELSE remote[m] # Deletion
    /\ remote' = [remote EXCEPT ![m] = content]
    /\ sent' = sent \union {<<m, content>>}
    /\ changes' = changes + 1
    /\ steady' = FALSE
    /\ UNCHANGED <<rowVars, sync, synced, fetchVars, applied>>

-----------------------------------------------------------------------------
(* FetchThread: one request per page, a rate limited one up to three       *)
(* times; any other failure ends the fetch.                                *)

Idle == pc' = "idle" /\ cursor' = 0 /\ tries' = 0 /\ batch' = <<>>

BeginFetch ==
    /\ pc = "idle"
    /\ sync' = "syncing"
    /\ pc' = "page"
    /\ steady' = TRUE
    /\ UNCHANGED <<slackVars, rowVars, synced, cursor, tries, batch, applied>>

\* The messages conversations.replies still has to list: a deleted one is not listed.
Listed(after) == {m \in after+1 .. NumMessages : remote[m] \notin {NoRow, Deletion}}

\* A page has the next messages in their order: it is full, or the last one.
IsPage(page, after) ==
    /\ \A j, k \in DOMAIN page : j < k => page[j] < page[k]
    /\ \A m \in Listed(after) \ Range(page), k \in DOMAIN page : page[k] < m
    /\ Len(page) = PageSize \/ Range(page) = Listed(after)

InputsOf(page) == [k \in DOMAIN page |-> <<page[k], remote[page[k]]>>]

\* A page arrives; the messages listed after it are on the next one.
FetchPage ==
    /\ pc = "page"
    /\ \E page \in BoundedSeq(Listed(cursor), PageSize) :
          /\ IsPage(page, cursor)
          /\ batch' = batch \o InputsOf(page)
          /\ cursor' = IF page = <<>> THEN cursor ELSE Last(page)
    /\ pc' = IF Listed(cursor') = {} THEN "store" ELSE "page"
    /\ tries' = 0
    /\ UNCHANGED <<slackVars, rowVars, sync, synced, applied, steady>>

\* Mutation: a page that stays rate limited ends the thread.
RateLimited_Truncates ==
    /\ pc = "page"
    /\ IF tries + 1 < MaxTries
       THEN tries' = tries + 1 /\ UNCHANGED <<pc, cursor, batch, sync>>
       ELSE pc' = "store" /\ UNCHANGED <<cursor, tries, batch, sync>>
    /\ UNCHANGED <<slackVars, rowVars, synced, applied, steady>>

\* FetchThread has failed: nothing of the batch is stored.  That the write of the status
\* fails too is ignored.
FetchFails == Idle /\ sync' \in {sync, "failed"}

\* 429: the same request again, after the time Slack asks for; then it is an error.
RateLimited ==
    /\ pc = "page"
    /\ IF tries + 1 < MaxTries
       THEN tries' = tries + 1 /\ UNCHANGED <<pc, cursor, batch, sync>>
       ELSE FetchFails
    /\ UNCHANGED <<slackVars, rowVars, synced, applied, steady>>

\* A request fails, or the transaction, whose failure leaves the status as it is.
SyncFails ==
    /\ \/ pc = "page" /\ FetchFails
       \/ pc = "store" /\ Idle /\ UNCHANGED sync
    /\ UNCHANGED <<slackVars, rowVars, synced, applied, steady>>

-----------------------------------------------------------------------------
(* ApplySlackMessages: a fold over the inputs.                             *)

Row(message, meta) == [message |-> message, meta |-> meta, removed |-> FALSE]

\* The files whose row names the message.
Existing(atts, m) == {f \in Files : atts[f] # NoRow /\ atts[f].message = m}

\* Mutation: a removed file that is back is not a change.
Differs_NotRestored(row, m, meta) == row = NoRow \/ row.message # m \/ row.meta # meta

Differs(row, m, meta) == row # Row(m, meta)

\* Mutation: removals are not looked for.
Dropped_None(atts, m, files) == {}

\* The files the message had and has no more.
Dropped(atts, m, files) ==
    {f \in Existing(atts, m) \ DOMAIN files : ~atts[f].removed}

AttachmentsChange(atts, m, files) ==
    \/ \E f \in DOMAIN files : Differs(atts[f], m, files[f])
    \/ Dropped(atts, m, files) # {}

\* The message of a file is the one that was applied last.
ApplyAttachments(atts, m, files) ==
    [f \in Files |-> CASE f \in DOMAIN files           -> Row(m, files[f])
                       [] f \in Dropped(atts, m, files) -> [atts[f] EXCEPT !.removed = TRUE]
                       [] OTHER                         -> atts[f]]

MessageRow(content) == [deleted |-> content.deleted, text |-> content.text]

\* Mutation: the last input is taken to be the newest.
Newest_LastInput(ts, m) == m

Newest(ts, m) == IF m > ts THEN m ELSE ts

\* One input: its message is inserted or overwritten, then its attachments.
ApplyInput(tables, input) ==
    LET m == input[1]
        content == input[2]
    IN [messages    |-> [tables.messages EXCEPT ![m] = MessageRow(content)],
        attachments |-> ApplyAttachments(tables.attachments, m, content.files),
        changed     |-> \/ tables.changed
                        \/ tables.messages[m] # MessageRow(content)
                        \/ AttachmentsChange(tables.attachments, m, content.files),
        last        |-> Newest(tables.last, m),
        parent      |-> IF m = 1 THEN 1 ELSE tables.parent,
        applied     |-> [tables.applied EXCEPT ![m] = content]]

Tables == [messages |-> messages, attachments |-> attachments, changed |-> FALSE,
           last |-> last, parent |-> parent, applied |-> applied]

\* The transaction: a version for a change, whatever the number of inputs.
ApplySlackMessages(inputs, target) ==
    LET after == FoldLeft(ApplyInput, Tables, inputs)
    IN /\ after.changed => version < MaxVersion
       /\ messages' = after.messages
       /\ attachments' = after.attachments
       /\ version' = IF after.changed THEN version + 1 ELSE version
       /\ last' = after.last
       /\ parent' = after.parent
       /\ sync' = CASE target = "synchronized" -> "synchronized"
                    [] target = "dirty" /\ after.changed -> "dirty"
                    [] OTHER -> sync
       /\ applied' = after.applied

\* The messages that were fetched are stored, and last_synced_at is set.
Store ==
    /\ pc = "store"
    /\ ApplySlackMessages(batch, "synchronized")
    /\ synced' = TRUE
    /\ Idle
    /\ UNCHANGED <<slackVars, steady>>

\* The input of an event is applied, by a handler that has synchronized the thread or
\* found it synchronized: late, again (its delivery failed after the commit), or while
\* another handler fetches.
ApplyEvent(input) ==
    /\ synced
    /\ ApplySlackMessages(<<input>>, "dirty")
    /\ UNCHANGED <<slackVars, synced, fetchVars, steady>>

-----------------------------------------------------------------------------

Next ==
    \/ \E m \in Messages : \E content \in Posts(m) \union {Deletion} : SlackChange(m, content)
    \/ BeginFetch \/ FetchPage \/ RateLimited \/ SyncFails \/ Store
    \/ \E input \in sent : ApplyEvent(input)

Spec == Init /\ [][Next]_vars

-----------------------------------------------------------------------------
(* Properties.                                                             *)

Tabled(m) == messages[m] # NoRow

\* What the dashboard and the context see of a message.
Shown(m) ==
    IF ~Tabled(m) THEN NoRow
    ELSE Content(messages[m].deleted, messages[m].text,
                 [f \in {g \in Existing(attachments, m) : ~attachments[g].removed} |->
                     attachments[f].meta])

\* The type invariant, what the thread row says of its messages, and that a fetch collects
\* each message at most once and in order, over its pages and their repeated requests.
TypeOK ==
    /\ sent \subseteq Inputs
    /\ \A m \in Messages : remote[m] \in Posts(m) \union {NoRow, Deletion}
    /\ \A f \in Files : attachments[f] = NoRow \/ attachments[f].message \in Carriers[f]
    /\ version \in 0..MaxVersion
    /\ last = Max({m \in Messages : Tabled(m)} \union {0})
    /\ parent = IF Tabled(1) THEN 1 ELSE 0
    /\ sync \in {"synchronized", "dirty", "syncing", "failed"} /\ synced \in BOOLEAN
    /\ pc \in {"idle", "page", "store"} /\ tries \in 0 .. MaxTries-1
    /\ cursor \in 0..NumMessages
    /\ batch \in Seq(Inputs)
    /\ \A j, k \in DOMAIN batch : j < k => batch[j][1] < batch[k][1]

Exclusive(m) == \A f \in Carried(m) : Carriers[f] = {m}

\* A message shows what was last applied to it, its text and exactly its files, whatever
\* was removed, restored or deleted before; a file that several messages carry has one
\* row, so this is said of messages that share none.
MessagesShowWhatWasApplied ==
    \A m \in Messages : Exclusive(m) =>
        Shown(m) = applied[m]

\* Two messages of a batch list one file: the loop moves its row to the one and then on.
MovesAFile(inputs) ==
    \E j, k \in DOMAIN inputs :
        j < k /\ DOMAIN inputs[j][2].files \intersect DOMAIN inputs[k][2].files # {}

\* The context version grows by one when what is shown of the thread changes, and not
\* otherwise, whichever messages share a file: only a synchronization that finds one with
\* two messages may count a change where the row ends where it was.
VersionCountsChanges ==
    [][IF \E m \in Messages : Shown(m)' # Shown(m)
       THEN version' = version + 1
       ELSE \/ version' = version
            \/ /\ version' = version + 1
               /\ pc = "store" /\ pc' = "idle" /\ MovesAFile(batch)]_vars

\* A synchronization during which nothing happens in Slack leaves the thread as it is in
\* Slack, but for one thing: a message deleted there, whose deletion was not applied last,
\* is still shown.
SyncMissesOnlyDeletions ==
    [][pc = "store" /\ sync' = "synchronized" /\ steady =>
          \A m \in Messages :
              Exclusive(m) /\ remote[m] # Deletion => Shown(m)' = remote[m]]_vars
=============================================================================
