------------------------- MODULE SlackIngest_proofs -------------------------
(***************************************************************************)
(* The Slack ingestion of a thread, for any number of handlers, messages   *)
(* and texts and any number of failures: the proofs that its rows are well *)
(* typed, that a claim is exclusive unless a handler is slow, that a       *)
(* request carries one version of the thread, that the current context is  *)
(* submitted when nothing failed, and that SlackIngest implements          *)
(* ThreadLog.                                                              *)
(***************************************************************************)
EXTENDS SlackIngest, SequenceTheorems, TLAPS

HandlerStep(h) ==
    Step(h) \/ Refresh(h) \/ Analyze(h) \/ Fail(h) \/ \E e \in Events : Receive(h, e)

Clock == \E e \in Events : Abandoned(e) \/ Slow(e)

Slack == \E m \in Messages : \E x \in Contents(m) : SlackChange(m, x)

\* What a row of the thread's table may hold.
Stored(m) == Contents(m) \union {Absent}

ThreadValues == {Absent, Deleted} \union UNION {Texts(m) : m \in Messages}

\* Every entry of the history is a content of the thread's messages.
HistoryOK ==
    /\ history \in Seq([Messages -> ThreadValues])
    /\ \A w \in DOMAIN history, m \in Messages : history[w][m] \in Stored(m)

TypeInv == TypeOK /\ HistoryOK

-----------------------------------------------------------------------------
(* Types.                                                                  *)

\* What a message may hold is a value, and a message with it is an event.
LEMMA Values ==
    /\ \A m \in Messages : Stored(m) \subseteq ThreadValues
    /\ \A m \in Messages : \A x \in Contents(m) : <<m, x>> \in Events
    /\ \A m \in Messages : Texts(m) \subseteq Contents(m) /\ Texts(m) \subseteq Nat \ {0}
<1>1. \A m \in Messages : Texts(m) \subseteq Contents(m) /\ Texts(m) \subseteq Nat \ {0}
  BY IngestAssumption DEF Texts, Contents, IngestAssumption
<1>2. \A m \in Messages : Stored(m) \subseteq ThreadValues
  BY DEF Stored, ThreadValues, Contents
<1>3. ASSUME NEW m \in Messages, NEW x \in Contents(m) PROVE <<m, x>> \in Events
  BY DEF Events
<1> QED
  BY <1>1, <1>2, <1>3

\* What is visible is a set of events.
LEMMA VisibleEvents == ASSUME NEW f PROVE Visible(f) \in SUBSET Events
  BY Values DEF Visible

\* ApplySlackMessages leaves contents in the table.
LEMMA UpsertType ==
    ASSUME ThreadOK, NEW inputs
    PROVE  /\ Upsert(inputs) \in [Messages -> ThreadValues]
           /\ \A m \in Messages : Upsert(inputs)[m] \in Stored(m)
<1>1. ASSUME NEW m \in Messages PROVE Upsert(inputs)[m] \in Stored(m)
  <2>1. CASE \E x \in Contents(m) : <<m, x>> \in inputs
    <3>1. Upsert(inputs)[m] = CHOOSE x \in Contents(m) : <<m, x>> \in inputs
      BY <2>1, Zenon DEF Upsert
    <3>2. (CHOOSE x \in Contents(m) : <<m, x>> \in inputs) \in Contents(m)
      BY <2>1, Zenon
    <3> QED
      BY <3>1, <3>2 DEF Stored
  <2>2. CASE ~\E x \in Contents(m) : <<m, x>> \in inputs
    BY <2>2 DEF Upsert, ThreadOK, Stored
  <2> QED
    BY <2>1, <2>2
<1>2. Upsert(inputs) = [m \in Messages |-> Upsert(inputs)[m]]
  BY Zenon DEF Upsert
<1> QED
  BY <1>1, <1>2, Values

\* Storing messages keeps the thread and its history well typed.
LEMMA ApplyType ==
    ASSUME TypeInv, NEW h \in Handlers, NEW inputs, NEW target,
           ApplySlackMessages(h, inputs, target)
    PROVE  /\ ThreadOK' /\ HistoryOK'
           /\ Len(history)' = version' + 1 /\ (history[version + 1] = local)'
           /\ version' \in Nat /\ version <= version'
           /\ changed' \in [Handlers -> BOOLEAN]
<1> USE DEF TypeInv, TypeOK, ThreadOK
<1>1. /\ local' \in [Messages -> ThreadValues]
      /\ \A m \in Messages : local'[m] \in Stored(m)
  BY UpsertType DEF ApplySlackMessages
<1>2. CASE Material(inputs)
  <2>1. /\ version' = version + 1 /\ history' = Append(history, local')
        /\ requested' = requested
    BY <1>2 DEF ApplySlackMessages
  <2>2. /\ history' \in Seq([Messages -> ThreadValues])
        /\ Len(history') = version + 2 /\ history'[version + 2] = local'
        /\ \A w \in 1 .. version + 1 : history'[w] = history[w]
    BY <1>1, <2>1 DEF HistoryOK
  <2>3. HistoryOK'
    BY <1>1, <2>2 DEF HistoryOK
  <2>4. ThreadOK'
    BY <1>1, <2>1 DEF ApplySlackMessages, SyncStatuses, Stored
  <2> QED
    BY <2>1, <2>2, <2>3, <2>4 DEF ApplySlackMessages, HandlersOK
<1>3. CASE ~Material(inputs)
  <2>1. /\ UNCHANGED <<version, history, requested>> /\ local' = local
    BY <1>3 DEF ApplySlackMessages, Material
  <2>2. ThreadOK'
    BY <1>1, <2>1 DEF ApplySlackMessages, SyncStatuses, Stored
  <2> QED
    BY <2>1, <2>2 DEF ApplySlackMessages, HandlersOK, HistoryOK
<1> QED
  BY <1>2, <1>3

\* The program counter and the event of a handler, as its actions write them.
LEMMA HandlersType ==
    ASSUME TypeOK, NEW h \in Handlers, NEW label \in Pcs,
           pc' = [pc EXCEPT ![h] = label], event' = event,
           label \in {"locate", "apply", "ack", "release"} => event[h] # NoEvent,
           changed' \in [Handlers -> BOOLEAN], batch' \in [Handlers -> SUBSET Events],
           version' \in Nat, ver' \in [Handlers -> 0..version']
    PROVE  HandlersOK'
  BY DEF TypeOK, HandlersOK

\* A handler that returns holds nothing.
LEMMA ReturnType ==
    ASSUME TypeOK, NEW h \in Handlers, Return(h), UNCHANGED version
    PROVE  HandlersOK'
  BY DEF TypeOK, HandlersOK, ThreadOK, Return, Goto, Pcs

\* A handler that returns an error keeps its event, for the release, or holds nothing.
LEMMA UnwindType ==
    ASSUME TypeOK, NEW h \in Handlers, Unwind(h), UNCHANGED version
    PROVE  HandlersOK'
<1>1. CASE event[h] = NoEvent
  BY <1>1, ReturnType DEF Unwind
<1>2. CASE event[h] # NoEvent
  BY <1>2, HandlersType DEF Unwind, Goto, Pcs, TypeOK, HandlersOK, ThreadOK
<1> QED
  BY <1>1, <1>2

\* A handler that is done goes on to acknowledge its event, or holds nothing.
LEMMA FinishType ==
    ASSUME TypeOK, NEW h \in Handlers, Finish(h), UNCHANGED version
    PROVE  HandlersOK'
<1>1. CASE event[h] = NoEvent
  BY <1>1, ReturnType DEF Finish
<1>2. CASE event[h] # NoEvent
  BY <1>2, HandlersType DEF Finish, Advance, Goto, Pcs, TypeOK, HandlersOK, ThreadOK
<1> QED
  BY <1>1, <1>2

\* Spending keeps the budgets.
LEMMA Spending ==
    ASSUME TypeOK, NEW d \in Disturbances, Spend(d)
    PROVE  /\ spent' \in [Disturbances -> Nat]
           /\ \A x \in Disturbances : spent[x] <= spent'[x]
           /\ spent'[d] > 0
  BY DEF TypeOK, Spend

\* The steps of a handler that store messages.
LEMMA StoreType ==
    ASSUME TypeInv, NEW h \in Handlers, Store(h) \/ ApplyEvent(h)
    PROVE  TypeInv'
<1>1. PICK inputs, target : ApplySlackMessages(h, inputs, target)
  BY DEF Store, ApplyEvent
<1>2. /\ ThreadOK' /\ HistoryOK' /\ Len(history)' = version' + 1
      /\ (history[version + 1] = local)' /\ version' \in Nat /\ version <= version'
      /\ changed' \in [Handlers -> BOOLEAN]
  BY <1>1, ApplyType
<1>3. ver' \in [Handlers -> 0..version']
  BY <1>2 DEF Store, ApplyEvent, TypeInv, TypeOK, HandlersOK, ThreadOK
<1>4. HandlersOK'
  <2>1. CASE ApplyEvent(h)
    BY <1>2, <1>3, <2>1, HandlersType
       DEF ApplyEvent, Advance, Goto, Pcs, TypeInv, TypeOK, HandlersOK
  <2>2. CASE Store(h)
    <3>1. batch' \in [Handlers -> SUBSET Events]
      BY <2>2 DEF Store, TypeInv, TypeOK, HandlersOK
    <3> QED
      BY <1>2, <1>3, <2>2, <3>1, HandlersType DEF Store, Advance, Goto, Pcs, TypeInv
  <2> QED
    BY <2>1, <2>2
<1> QED
  BY <1>2, <1>4 DEF Store, ApplyEvent, TypeInv, TypeOK, slackVars

\* The steps of a handler that read.
LEMMA ReadType ==
    ASSUME TypeInv, NEW h \in Handlers, Fetch(h) \/ Check(h) \/ Load(h) \/ List(h) \/ Lookup(h)
    PROVE  TypeInv'
<1> USE DEF TypeInv, TypeOK
<1>1. ThreadOK' /\ HistoryOK'
  BY DEF Fetch, Check, Load, List, Lookup, threadVars, ThreadOK, HistoryOK
<1>2. spent' \in [Disturbances -> Nat]
  BY Spending DEF Fetch, Check, Load, List, Lookup, Disturbances
<1>3. HandlersOK'
  <2>1. CASE Fetch(h)
    <3>1. batch' \in [Handlers -> SUBSET Events]
      BY <2>1, VisibleEvents DEF Fetch, HandlersOK
    <3> QED
      BY <2>1, <3>1, HandlersType DEF Fetch, Advance, Goto, Pcs, HandlersOK, threadVars, ThreadOK
  <2>2. CASE Load(h)
    <3>1. ver' \in [Handlers -> 0..version']
      BY <2>2 DEF Load, HandlersOK, ThreadOK, threadVars
    <3> QED
      BY <2>2, <3>1, HandlersType DEF Load, Advance, Goto, Pcs, HandlersOK, threadVars, ThreadOK
  <2>3. CASE List(h)
    <3>1. CASE Visible(local) = {}
      BY <2>3, <3>1, UnwindType DEF List, threadVars
    <3>2. CASE Visible(local) # {}
      <4>1. batch' \in [Handlers -> SUBSET Events]
        <5>1. batch' = [batch EXCEPT ![h] = Visible(local)]
          BY <2>3, <3>2 DEF List
        <5>2. Visible(local) \in SUBSET Events /\ batch \in [Handlers -> SUBSET Events]
          BY VisibleEvents DEF HandlersOK
        <5> QED
          BY <5>1, <5>2
      <4> QED
        BY <2>3, <3>2, <4>1, HandlersType
           DEF List, Advance, Goto, Pcs, HandlersOK, threadVars, ThreadOK
    <3> QED
      BY <3>1, <3>2
  <2>4. CASE Lookup(h)
    BY <2>4, HandlersType DEF Lookup, Advance, Goto, Pcs, HandlersOK, threadVars, ThreadOK
  <2>5. CASE Check(h)
    <3>1. CASE changed[h] /\ version > requested
      BY <2>5, <3>1, HandlersType
         DEF Check, Advance, Goto, Pcs, HandlersOK, threadVars, ThreadOK
    <3>2. CASE ~(changed[h] /\ version > requested)
      BY <2>5, <3>2, FinishType DEF Check, threadVars
    <3> QED
      BY <3>1, <3>2
  <2> QED
    BY <2>1, <2>2, <2>3, <2>4, <2>5
<1> QED
  BY <1>1, <1>2, <1>3 DEF Fetch, Check, Load, List, Lookup, slackVars, threadVars

\* The steps of a handler that write to the thread, the engine or the event.
LEMMA WriteType ==
    ASSUME TypeInv, NEW h \in Handlers,
           \/ EnsureThread(h) \/ StartSync(h) \/ MarkFailed(h) \/ Create(h) \/ Link(h)
           \/ Acknowledge(h) \/ Release(h)
    PROVE  TypeInv'
<1> USE DEF TypeInv, TypeOK
<1>1. ThreadOK' /\ HistoryOK' /\ UNCHANGED <<version, local, history, sent, spent>>
  BY DEF EnsureThread, StartSync, MarkFailed, Create, Link, Acknowledge, Release, threadVars,
         slackVars, ThreadOK, HistoryOK, SyncStatuses, HandlersOK
<1>2. claim' \in [Events -> {"none", "processing", "stale", "processed"}]
  BY DEF EnsureThread, StartSync, MarkFailed, Create, Link, Acknowledge, Release, Released,
         HandlersOK
<1>3. HandlersOK'
  <2>1. CASE EnsureThread(h) \/ StartSync(h)
    BY <2>1, HandlersType DEF EnsureThread, StartSync, Advance, Goto, Pcs, HandlersOK, ThreadOK
  <2>2. CASE MarkFailed(h)
    BY <2>2, UnwindType DEF MarkFailed
  <2>3. CASE Create(h)
    <3>1. CASE HasRun(ver[h])
      BY <2>3, <3>1, UnwindType DEF Create, threadVars
    <3>2. CASE ~HasRun(ver[h])
      BY <2>3, <3>2, HandlersType
         DEF Create, Advance, Goto, Pcs, HandlersOK, threadVars, ThreadOK
    <3> QED
      BY <3>1, <3>2
  <2>4. CASE Link(h)
    BY <2>4, FinishType DEF Link
  <2>5. CASE Acknowledge(h) \/ Release(h)
    BY <2>5, ReturnType DEF Acknowledge, Release, threadVars
  <2> QED
    BY <2>1, <2>2, <2>3, <2>4, <2>5
<1> QED
  BY <1>1, <1>2, <1>3

\* The steps that begin the work of a handler, or end it early.
LEMMA BeginType ==
    ASSUME TypeInv, NEW h \in Handlers,
           \/ Refresh(h) \/ Analyze(h) \/ Locate(h) \/ Fail(h)
           \/ \E e \in Events : Receive(h, e)
    PROVE  TypeInv'
<1> USE DEF TypeInv, TypeOK
<1>1. ThreadOK' /\ HistoryOK' /\ UNCHANGED <<version, local, history, sent>>
  BY DEF Refresh, Analyze, Locate, Fail, Receive, threadVars, slackVars, ThreadOK, HistoryOK
<1>2. /\ claim' \in [Events -> {"none", "processing", "stale", "processed"}]
      /\ spent' \in [Disturbances -> Nat]
  BY Spending DEF Refresh, Analyze, Locate, Fail, Receive, Disturbances
<1>3. HandlersOK'
  <2>1. CASE Refresh(h) \/ Analyze(h)
    <3>1. PICK label \in {"sync", "load"} : pc' = [pc EXCEPT ![h] = label]
      BY <2>1 DEF Refresh, Analyze, Goto
    <3>2. UNCHANGED <<event, changed, batch, ver, version>>
      BY <2>1 DEF Refresh, Analyze, threadVars
    <3> QED
      BY <3>1, <3>2, HandlersType DEF Pcs, HandlersOK, ThreadOK
  <2>2. CASE Locate(h)
    <3>1. CASE Unlocatable(event[h])
      BY <2>2, <3>1, UnwindType DEF Locate, threadVars
    <3>2. CASE ~Unlocatable(event[h])
      <4>1. PICK label \in {"ensure", "sync", "apply"} : Advance(h, label)
        BY <2>2, <3>2 DEF Locate
      <4> QED
        BY <2>2, <3>2, <4>1, HandlersType
           DEF Locate, Advance, Goto, Pcs, HandlersOK, threadVars, ThreadOK
    <3> QED
      BY <3>1, <3>2
  <2>3. CASE Fail(h)
    <3>1. CASE Unwind(h)
      BY <2>3, <3>1, UnwindType DEF Fail, threadVars
    <3>2. CASE Return(h)
      BY <2>3, <3>2, ReturnType DEF Fail, threadVars
    <3>3. CASE Advance(h, "failed") /\ UNCHANGED <<changed, batch, ver>>
      BY <2>3, <3>3, HandlersType
         DEF Fail, Advance, Goto, Pcs, HandlersOK, threadVars, ThreadOK
    <3> QED
      BY <2>3, <3>1, <3>2, <3>3 DEF Fail
  <2>4. ASSUME NEW e \in Events, Receive(h, e) PROVE HandlersOK'
    <3>1. e # NoEvent
      BY IngestAssumption DEF IngestAssumption
    <3> QED
      BY <2>4, <3>1 DEF Receive, Goto, Pcs, HandlersOK, threadVars, ThreadOK
  <2> QED
    BY <2>1, <2>2, <2>3, <2>4
<1> QED
  BY <1>1, <1>2, <1>3

\* Every step keeps the types.
LEMMA TypeStep == ASSUME TypeInv, [Next]_vars PROVE TypeInv'
<1>1. ASSUME NEW h \in Handlers, HandlerStep(h) PROVE TypeInv'
  BY <1>1, StoreType, ReadType, WriteType, BeginType DEF HandlerStep, Step
<1>2. CASE Slack
  BY <1>2, Values DEF Slack, SlackChange, TypeInv, TypeOK, ThreadOK, HandlersOK, HistoryOK,
                      threadVars, handlerVars
<1>3. CASE Clock
  <2>1. spent' \in [Disturbances -> Nat]
    BY <1>3, Spending DEF Clock, Abandoned, Slow, TypeInv, TypeOK, Disturbances
  <2> QED
    <3>1. /\ UNCHANGED <<threadVars, handlerVars, slackVars, submitted>>
          /\ \E e \in Events : claim' = [claim EXCEPT ![e] = "stale"]
      BY <1>3 DEF Clock, Abandoned, Slow
    <3>2. claim' \in [Events -> {"none", "processing", "stale", "processed"}]
      BY <3>1 DEF TypeInv, TypeOK
    <3>3. ThreadOK' /\ HandlersOK' /\ HistoryOK'
      BY <3>1 DEF TypeInv, TypeOK, ThreadOK, HandlersOK, HistoryOK, threadVars, handlerVars,
                  slackVars
    <3> QED
      BY <2>1, <3>1, <3>2, <3>3 DEF TypeInv, TypeOK, threadVars, slackVars, handlerVars
<1>4. CASE Crash
  <2>1. spent' \in [Disturbances -> Nat]
    BY <1>4, Spending DEF Crash, TypeInv, Disturbances
  <2>2. HandlersOK'
    BY <1>4 DEF Crash, TypeInv, TypeOK, ThreadOK, HandlersOK, Pcs, threadVars
  <2> QED
    BY <1>4, <2>1, <2>2 DEF Crash, TypeInv, TypeOK, ThreadOK, HistoryOK, threadVars, slackVars
<1>5. CASE UNCHANGED vars
  BY <1>5 DEF vars, TypeInv, TypeOK, ThreadOK, HandlersOK, HistoryOK, threadVars, handlerVars,
              slackVars
<1> QED
  BY <1>1, <1>2, <1>3, <1>4, <1>5 DEF Next, HandlerStep, Clock, Slack

\* Initially the thread is empty, and so is its only version.
LEMMA InitType == Init => TypeInv
<1> SUFFICES ASSUME Init PROVE TypeInv
  OBVIOUS
<1>1. local \in [Messages -> ThreadValues] /\ \A m \in Messages : local[m] \in Stored(m)
  BY DEF Init, ThreadValues, Stored
<1>2. history = <<local>> /\ history \in Seq([Messages -> ThreadValues]) /\ Len(history) = 1
  BY <1>1 DEF Init
<1>3. HistoryOK
  BY <1>1, <1>2 DEF HistoryOK
<1>4. ThreadOK
  BY <1>1 DEF Init, ThreadOK, SyncStatuses, Stored
<1>5. HandlersOK
  BY DEF Init, HandlersOK, Pcs
<1> QED
  BY <1>2, <1>3, <1>4, <1>5 DEF Init, TypeInv, TypeOK

\* The rows of the thread and what the handlers hold are well typed, and the history ends
\* with the stored messages.
THEOREM TypeCorrect == Spec => []TypeOK
<1>1. TypeInv => TypeOK
  BY DEF TypeInv
<1>2. TypeInv /\ [Next]_vars => TypeInv'
  BY TypeStep
<1> QED
  BY <1>1, <1>2, InitType, PTL DEF Spec

-----------------------------------------------------------------------------
(* The claim of an event.                                                  *)

\* While no handler was slow, the row of an event says "processing" as long as somebody
\* processes it: it is not claimed again, and nobody else releases or completes it.
ClaimInv ==
    /\ ClaimIsExclusive
    /\ Undisturbed({"slow"}) =>
          \A h \in Handlers : event[h] # NoEvent => claim[event[h]] = "processing"

\* Only Receive gives a handler an event; one that had another loses it.
LEMMA EventMoves ==
    ASSUME TypeInv, NEW h \in Handlers, HandlerStep(h), ~\E e \in Events : Receive(h, e)
    PROVE  /\ \A k \in Handlers \ {h} : event'[k] = event[k]
           /\ event'[h] = event[h] \/ event'[h] = NoEvent
<1> USE DEF Return, Unwind, Finish, Advance, TypeInv, TypeOK, HandlersOK
<1>1. CASE Step(h)
  BY <1>1 DEF Step, Locate, EnsureThread, StartSync, Fetch, Store, MarkFailed, ApplyEvent, Check,
              Load, List, Lookup, Create, Link, Acknowledge, Release
<1>2. CASE Refresh(h) \/ Analyze(h) \/ Fail(h)
  BY <1>2 DEF Refresh, Analyze, Fail
<1> QED
  BY <1>1, <1>2 DEF HandlerStep

\* A handler writes the row of its own event only, and returns with it.
LEMMA ClaimMoves ==
    ASSUME TypeInv, NEW h \in Handlers, HandlerStep(h), ~\E e \in Events : Receive(h, e)
    PROVE  /\ \A e \in Events : claim'[e] # claim[e] => event[h] = e /\ event'[h] = NoEvent
           /\ \A e \in Events : claim[e] = "processed" => claim'[e] = "processed"
           /\ UNCHANGED <<remote, sent>>
<1>1. CASE Acknowledge(h) \/ Release(h)
  BY <1>1 DEF Acknowledge, Release, Released, Return, TypeInv, TypeOK, HandlersOK, slackVars
<1>2. CASE Step(h) /\ ~(Acknowledge(h) \/ Release(h))
  <2>1. UNCHANGED <<claim, remote, sent>>
    BY <1>2 DEF Step, Locate, EnsureThread, StartSync, Fetch, Store, MarkFailed, ApplyEvent,
                Check, Load, List, Lookup, Create, Link, slackVars
  <2> QED
    BY <2>1
<1>3. CASE Refresh(h) \/ Analyze(h) \/ Fail(h)
  <2>1. UNCHANGED <<claim, remote, sent>>
    BY <1>3 DEF Refresh, Analyze, Fail, slackVars
  <2> QED
    BY <2>1
<1> QED
  BY <1>1, <1>2, <1>3 DEF HandlerStep

\* No step takes a disturbance back.
LEMMA SpentGrows ==
    ASSUME TypeInv, [Next]_vars, NEW d \in Disturbances
    PROVE  spent[d] \in Nat /\ spent'[d] \in Nat /\ spent[d] <= spent'[d]
<1>1. spent' = spent \/ \E x \in Disturbances : Spend(x)
  <2>1. ASSUME NEW h \in Handlers, HandlerStep(h) PROVE spent' = spent \/ \E x \in Disturbances : Spend(x)
    BY <2>1 DEF HandlerStep, Step, Locate, EnsureThread, StartSync, Fetch, Store, MarkFailed,
                ApplyEvent, Check, Load, List, Lookup, Create, Link, Acknowledge, Release,
                Refresh, Analyze, Fail, Receive, Disturbances
  <2>2. CASE Slack \/ Clock \/ Crash
    BY <2>2 DEF Slack, SlackChange, Clock, Abandoned, Slow, Crash, Disturbances
  <2>3. CASE UNCHANGED vars
    BY <2>3 DEF vars
  <2> QED
    BY <2>1, <2>2, <2>3 DEF Next, HandlerStep, Clock, Slack
<1> QED
  BY <1>1, Spending DEF TypeInv, TypeOK

\* Every step keeps the claims.
LEMMA ClaimKept == ASSUME TypeInv, ClaimInv, [Next]_vars PROVE ClaimInv'
<1> SUFFICES ASSUME Undisturbed({"slow"})'
             PROVE  /\ \A h1, h2 \in Handlers :
                          event'[h1] = event'[h2] /\ event'[h1] # NoEvent => h1 = h2
                    /\ \A h \in Handlers :
                          event'[h] # NoEvent => claim'[event'[h]] = "processing"
  BY DEF ClaimInv, ClaimIsExclusive
<1>1. spent["slow"] = 0 /\ spent'["slow"] = 0
  BY SpentGrows DEF Undisturbed, Disturbances
<1>2. /\ \A h1, h2 \in Handlers : event[h1] = event[h2] /\ event[h1] # NoEvent => h1 = h2
      /\ \A h \in Handlers : event[h] # NoEvent => claim[event[h]] = "processing"
  BY <1>1 DEF ClaimInv, ClaimIsExclusive, Undisturbed
<1>3. ASSUME NEW h \in Handlers, NEW e \in Events, Receive(h, e)
      PROVE  /\ \A h1, h2 \in Handlers :
                   event'[h1] = event'[h2] /\ event'[h1] # NoEvent => h1 = h2
             /\ \A k \in Handlers : event'[k] # NoEvent => claim'[event'[k]] = "processing"
  <2>1. /\ event'[h] = e /\ \A k \in Handlers \ {h} : event'[k] = event[k]
        /\ claim'[e] = "processing" /\ \A x \in Events \ {e} : claim'[x] = claim[x]
        /\ claim[e] # "processing"
    BY <1>3 DEF Receive, Claimable, TypeInv, TypeOK, HandlersOK
  <2>2. \A k \in Handlers : event[k] # e
    BY <1>2, <2>1, IngestAssumption DEF IngestAssumption
  <2>3. ASSUME NEW k \in Handlers, event'[k] # NoEvent
        PROVE  claim'[event'[k]] = "processing"
    <3>1. CASE k = h
      BY <2>1, <3>1
    <3>2. CASE k # h
      <4>1. event'[k] = event[k] /\ event[k] \in Events \ {e}
        BY <2>1, <2>2, <2>3, <3>2 DEF TypeInv, TypeOK, HandlersOK
      <4> QED
        BY <1>2, <2>1, <2>3, <4>1
    <3> QED
      BY <3>1, <3>2
  <2> QED
    BY <1>2, <2>1, <2>2, <2>3
<1>4. ASSUME NEW h \in Handlers, HandlerStep(h), ~\E e \in Events : Receive(h, e)
      PROVE  /\ \A h1, h2 \in Handlers :
                   event'[h1] = event'[h2] /\ event'[h1] # NoEvent => h1 = h2
             /\ \A k \in Handlers : event'[k] # NoEvent => claim'[event'[k]] = "processing"
  <2>1. /\ \A k \in Handlers \ {h} : event'[k] = event[k]
        /\ event'[h] = event[h] \/ event'[h] = NoEvent
    BY <1>4, EventMoves
  <2>2. ASSUME NEW k \in Handlers, event'[k] # NoEvent
        PROVE  event[k] = event'[k] /\ event[k] \in Events /\ claim'[event[k]] = "processing"
    <3>1. event[k] = event'[k] /\ event[k] \in Events
      BY <2>1, <2>2 DEF TypeInv, TypeOK, HandlersOK
    <3>2. claim'[event[k]] = claim[event[k]]
      BY <1>2, <1>4, <2>1, <2>2, <3>1, ClaimMoves
    <3> QED
      BY <1>2, <2>2, <3>1, <3>2
  <2> QED
    BY <1>2, <2>2
<1>5. CASE Clock
  <2>1. event' = event
    BY <1>5 DEF Clock, Abandoned, Slow, handlerVars
  <2>2. PICK e \in Events : Abandoned(e)
    BY <1>1, <1>5 DEF Clock, Slow, Spend, TypeInv, TypeOK, Disturbances
  <2>3. ASSUME NEW h \in Handlers, event[h] # NoEvent PROVE claim'[event[h]] = claim[event[h]]
    <3>1. event[h] # e /\ event[h] \in Events
      BY <2>2, <2>3 DEF Abandoned, Workers, TypeInv, TypeOK, HandlersOK
    <3> QED
      BY <2>2, <3>1 DEF Abandoned, TypeInv, TypeOK
  <2> QED
    BY <1>2, <2>1, <2>3
<1>6. CASE Crash
  BY <1>6 DEF Crash
<1>7. CASE Slack \/ UNCHANGED vars
  BY <1>2, <1>7 DEF Slack, SlackChange, vars, handlerVars
<1> QED
  BY <1>3, <1>4, <1>5, <1>6, <1>7 DEF Next, HandlerStep, Clock, Slack

\* Two handlers process the same event only after one took longer than five minutes.
THEOREM ExclusiveTheorem == Spec => []ClaimIsExclusive
<1>1. Init => ClaimInv
  BY DEF Init, ClaimInv, ClaimIsExclusive
<1>2. TypeInv /\ ClaimInv /\ [Next]_vars => TypeInv' /\ ClaimInv'
  BY TypeStep, ClaimKept
<1>3. ClaimInv => ClaimIsExclusive
  BY DEF ClaimInv
<1> QED
  BY <1>1, <1>2, <1>3, InitType, PTL DEF Spec

-----------------------------------------------------------------------------
(* The log of contents and the requests.                                   *)

\* The inputs are what is visible of an entry of the history that is not older than v.
Carries(inputs, v) == /\ inputs # {}
                      /\ \E w \in v..version : inputs = Visible(history[w + 1])

\* The content of the event was stored once.
InLog(e) == \E w \in DOMAIN history : history[w][e[1]] = e[2]

\* What a handler holds was in the log, and what it is about to link was submitted.
Held(h) ==
    /\ pc[h] = "idle" => event[h] = NoEvent
    /\ pc[h] \in {"lookup", "create"} => Carries(batch[h], ver[h])
    /\ pc[h] = "link" => HasRun(ver[h])
    /\ pc[h] \in {"check", "load", "list", "lookup", "create", "link", "ack"}
         => event[h] = NoEvent \/ InLog(event[h])

\* Every request carries a version, every linked version has a request.
LogInv ==
    /\ submitted \subseteq [version : Nat, inputs : SUBSET Events]
    /\ \A s \in submitted : Carries(s.inputs, s.version)
    /\ requested # 0 => HasRun(requested)
    /\ \A h \in Handlers : Held(h)

\* The thread's current context, as a request.
Current == [version |-> version, inputs |-> Visible(local)]

\* A handler that will submit the current context, unless it changes again.
Responsible(h) ==
    \/ pc[h] \in {"apply", "check"} /\ changed[h]
    \/ pc[h] = "load"
    \/ pc[h] = "list" /\ ver[h] = version
    \/ pc[h] \in {"lookup", "create"} /\ ver[h] = version /\ batch[h] = Visible(local)

\* When no call failed, the current context has been submitted or a handler is about to.
QuietInv ==
    /\ \A h \in Handlers : changed[h] => version # 0
    /\ Undisturbed({"fault", "crash"}) /\ Visible(local) # {}
         => Current \in submitted \/ \E h \in Handlers : Responsible(h)

\* A step that stores messages appends one entry to the history, or changes nothing.
LEMMA ApplyEffect ==
    ASSUME TypeInv, NEW h \in Handlers, NEW inputs, NEW target,
           ApplySlackMessages(h, inputs, target)
    PROVE  \/ /\ version' = version + 1 /\ history' = Append(history, local')
              /\ local' = Upsert(inputs) /\ local' # local /\ changed'[h]
           \/ /\ UNCHANGED <<version, history, local>>
              /\ changed[h] => changed'[h]
  BY DEF ApplySlackMessages, Material, TypeInv, TypeOK, HandlersOK

\* The entries of the history and the requests stay.
LEMMA ThreadGrows ==
    ASSUME TypeInv, [Next]_vars
    PROVE  /\ version \in Nat /\ version' \in Nat /\ version <= version'
           /\ \A w \in 0..version : history'[w + 1] = history[w + 1]
           /\ submitted \subseteq submitted'
<1>1. version \in Nat /\ Len(history) = version + 1 /\ history \in Seq([Messages -> ThreadValues])
  BY DEF TypeInv, TypeOK, ThreadOK, HistoryOK
<1>2. \/ UNCHANGED <<version, history>>
      \/ \E f : version' = version + 1 /\ history' = Append(history, f)
  <2>1. ASSUME NEW h \in Handlers, Store(h) \/ ApplyEvent(h)
        PROVE  \/ UNCHANGED <<version, history>>
               \/ \E f : version' = version + 1 /\ history' = Append(history, f)
    BY <2>1, ApplyEffect DEF Store, ApplyEvent
  <2>2. ASSUME NEW h \in Handlers, HandlerStep(h), ~Store(h), ~ApplyEvent(h)
        PROVE UNCHANGED <<version, history>>
    BY <2>2 DEF HandlerStep, Step, Locate, EnsureThread, StartSync, Fetch, MarkFailed,
                Check, Load, List, Lookup, Create, Link, Acknowledge, Release,
                Refresh, Analyze, Fail, Receive, threadVars
  <2>3. CASE Slack \/ Clock \/ Crash \/ UNCHANGED vars
    BY <2>3 DEF Slack, SlackChange, Clock, Abandoned, Slow, Crash, vars, threadVars
  <2> QED
    BY <2>1, <2>2, <2>3 DEF Next, HandlerStep, Clock, Slack
<1>3. submitted \subseteq submitted'
  <2>1. ASSUME NEW h \in Handlers, HandlerStep(h) PROVE submitted \subseteq submitted'
    BY <2>1 DEF HandlerStep, Step, Locate, EnsureThread, StartSync, Fetch, Store, MarkFailed,
                ApplyEvent, Check, Load, List, Lookup, Create, Link, Acknowledge, Release,
                Refresh, Analyze, Fail, Receive
  <2>2. CASE Slack \/ Clock \/ Crash \/ UNCHANGED vars
    BY <2>2 DEF Slack, SlackChange, Clock, Abandoned, Slow, Crash, vars
  <2> QED
    BY <2>1, <2>2 DEF Next, HandlerStep, Clock, Slack
<1>4. ASSUME NEW f, version' = version + 1, history' = Append(history, f), NEW w \in 0..version
      PROVE  history'[w + 1] = history[w + 1]
  <2>1. w + 1 \in 1..Len(history)
    BY <1>1
  <2> QED
    BY <1>1, <1>4, <2>1
<1> QED
  BY <1>1, <1>2, <1>3, <1>4

\* What was said of the log and the requests stays true.
LEMMA LogKept ==
    ASSUME TypeInv, [Next]_vars
    PROVE  /\ \A v \in Nat : \A inputs : Carries(inputs, v) => Carries(inputs, v)'
           /\ \A v : HasRun(v) => HasRun(v)'
           /\ \A e : InLog(e) => InLog(e)'
<1>1. ASSUME NEW v \in Nat, NEW inputs, Carries(inputs, v) PROVE Carries(inputs, v)'
  <2>1. PICK w \in v..version : inputs = Visible(history[w + 1])
    BY <1>1 DEF Carries
  <2>2. w \in v..version' /\ history'[w + 1] = history[w + 1]
    BY <2>1, ThreadGrows
  <2> QED
    BY <1>1, <2>1, <2>2 DEF Carries
<1>2. \A v : HasRun(v) => HasRun(v)'
  BY ThreadGrows DEF HasRun
<1>3. ASSUME NEW e, InLog(e) PROVE InLog(e)'
  <2>1. PICK w \in DOMAIN history : history[w][e[1]] = e[2]
    BY <1>3 DEF InLog
  <2>2. w - 1 \in 0..version /\ w = (w - 1) + 1
    BY <2>1 DEF TypeInv, TypeOK, HistoryOK, ThreadOK
  <2>3. history'[w] = history[w]
    BY <2>2, ThreadGrows
  <2>4. w \in DOMAIN history'
    BY <2>2, ThreadGrows, TypeStep DEF TypeInv, TypeOK, HistoryOK
  <2> QED
    BY <2>1, <2>3, <2>4 DEF InLog
<1> QED
  BY <1>1, <1>2, <1>3

\* What a handler step does to the other handlers.
LEMMA Others ==
    ASSUME TypeInv, NEW h \in Handlers, HandlerStep(h)
    PROVE  \A k \in Handlers \ {h} :
              /\ pc'[k] = pc[k] /\ event'[k] = event[k] /\ changed'[k] = changed[k]
              /\ batch'[k] = batch[k] /\ ver'[k] = ver[k]
<1> USE DEF Return, Unwind, Finish, Advance, Goto, TypeInv, TypeOK, HandlersOK
<1>1. CASE Locate(h) \/ EnsureThread(h) \/ StartSync(h) \/ Fetch(h) \/ MarkFailed(h) \/ Check(h)
  BY <1>1 DEF Locate, EnsureThread, StartSync, Fetch, MarkFailed, Check
<1>2. CASE Store(h) \/ ApplyEvent(h)
  BY <1>2 DEF Store, ApplyEvent, ApplySlackMessages
<1>3. CASE Load(h) \/ List(h) \/ Lookup(h) \/ Create(h) \/ Link(h) \/ Acknowledge(h) \/ Release(h)
  BY <1>3 DEF Load, List, Lookup, Create, Link, Acknowledge, Release
<1>4. CASE Refresh(h) \/ Analyze(h) \/ Fail(h) \/ \E e \in Events : Receive(h, e)
  BY <1>4 DEF Refresh, Analyze, Fail, Receive
<1> QED
  BY <1>1, <1>2, <1>3, <1>4 DEF HandlerStep, Step

\* Where a handler goes that holds nothing of the log.
Elsewhere == {"locate", "ensure", "sync", "fetch", "failed", "store", "apply", "release"}

\* The steps of a handler after which it holds nothing of the log, and those to "check".
LEMMA Leaves ==
    ASSUME TypeInv, NEW h \in Handlers, HandlerStep(h)
    PROVE  \/ pc'[h] \in Elsewhere
           \/ pc'[h] = "idle" /\ event'[h] = NoEvent
           \/ pc'[h] = "check" /\ Store(h) /\ event'[h] = NoEvent
           \/ pc'[h] = "check" /\ ApplyEvent(h)
           \/ pc'[h] = "load" /\ pc[h] = "idle" /\ UNCHANGED event
           \/ Load(h) \/ List(h) \/ Lookup(h) \/ Create(h) \/ Link(h) \/ Check(h)
<1> USE DEF Return, Unwind, Finish, Advance, Goto, TypeInv, TypeOK, HandlersOK, Elsewhere
<1>1. CASE Locate(h) \/ EnsureThread(h) \/ StartSync(h) \/ Fetch(h) \/ MarkFailed(h)
  BY <1>1 DEF Locate, EnsureThread, StartSync, Fetch, MarkFailed
<1>2. CASE Store(h) \/ ApplyEvent(h) \/ Acknowledge(h) \/ Release(h)
  BY <1>2 DEF Store, ApplyEvent, Acknowledge, Release
<1>3. CASE Check(h)
  BY <1>3 DEF Check
<1>4. CASE Load(h) \/ List(h) \/ Lookup(h) \/ Create(h) \/ Link(h)
  BY <1>4 DEF Load, List, Lookup, Create, Link
<1>5. CASE Refresh(h) \/ Analyze(h) \/ Fail(h) \/ \E e \in Events : Receive(h, e)
  BY <1>5 DEF Refresh, Analyze, Fail, Receive
<1> QED
  BY <1>1, <1>2, <1>3, <1>4, <1>5 DEF HandlerStep, Step

\* The message of an event is stored with the event's content.
LEMMA UpsertOne ==
    ASSUME ThreadOK, NEW e \in Events
    PROVE  e[1] \in Messages /\ Upsert({e})[e[1]] = e[2]
<1>1. PICK m \in Messages : e \in {m} \X Contents(m)
  BY DEF Events
<1>2. e[1] = m /\ e[2] \in Contents(m) /\ e = <<m, e[2]>>
  BY <1>1
<1>3. (CHOOSE x \in Contents(m) : <<m, x>> \in {e}) = e[2]
  <2>1. \A x : <<m, x>> \in {e} <=> x = e[2]
    BY <1>2
  <2>2. \E x \in Contents(m) : <<m, x>> \in {e}
    BY <1>2, <2>1
  <2>3. (CHOOSE x \in Contents(m) : <<m, x>> \in {e}) \in {x \in Contents(m) : <<m, x>> \in {e}}
    BY <2>2, Zenon
  <2> QED
    BY <2>1, <2>3
<1>4. \E x \in Contents(m) : <<m, x>> \in {e}
  BY <1>2
<1>5. Upsert({e})[m] = CHOOSE x \in Contents(m) : <<m, x>> \in {e}
  BY <1>4, Zenon DEF Upsert
<1> QED
  BY <1>2, <1>3, <1>5

\* A handler's own step keeps what is said of it.
LEMMA HeldSelf ==
    ASSUME TypeInv, LogInv, [Next]_vars, NEW h \in Handlers, HandlerStep(h)
    PROVE  Held(h)'
<1> DEFINE Told(e) == e = NoEvent \/ InLog(e)
<1>1. CASE pc'[h] \in Elsewhere
  BY <1>1 DEF Held, Elsewhere
<1>2. CASE pc'[h] = "idle" /\ event'[h] = NoEvent
  BY <1>2 DEF Held
<1>3. Held(h)
  BY DEF LogInv
<1>4. PICK e, b, v : e = event[h] /\ b = batch[h] /\ v = ver[h]
  OBVIOUS
<1>5. v \in Nat /\ v \in 0..version /\ version \in Nat
  BY <1>4 DEF TypeInv, TypeOK, ThreadOK, HandlersOK
<1>6. Told(e) => Told(e)'
  BY LogKept
<1>7. ASSUME pc'[h] \in {"check", "load", "list", "ack"}, event'[h] = e, Told(e)'
      PROVE  Held(h)'
  BY <1>7 DEF Held, InLog
<1>8. ASSUME pc'[h] \in {"lookup", "create"}, event'[h] = e, Told(e)', NEW i,
             batch'[h] = i, ver'[h] = v, Carries(i, v)'
      PROVE  Held(h)'
  BY <1>8 DEF Held, InLog, Carries
<1>9. ASSUME pc'[h] = "link", event'[h] = e, Told(e)', ver'[h] = v, HasRun(v)'
      PROVE  Held(h)'
  BY <1>9 DEF Held, InLog, HasRun
<1>10. CASE pc'[h] = "check" /\ Store(h) /\ event'[h] = NoEvent
  BY <1>10 DEF Held
<1>11. CASE pc'[h] = "check" /\ ApplyEvent(h)
  <2>1. /\ event'[h] = e /\ e \in Events /\ local' = Upsert({e})
    BY <1>4, <1>11 DEF ApplyEvent, ApplySlackMessages, Advance, TypeInv, TypeOK, HandlersOK
  <2>2. TypeInv'
    BY TypeStep
  <2>3. history'[version' + 1][e[1]] = e[2]
    BY <2>1, <2>2, UpsertOne DEF TypeInv, TypeOK
  <2>4. version' + 1 \in DOMAIN history'
    <3>1. history' \in Seq([Messages -> ThreadValues])
      BY <2>2 DEF TypeInv, HistoryOK
    <3>2. version' \in Nat
      BY <2>2 DEF TypeInv, TypeOK, ThreadOK
    <3>3. DOMAIN history' = 1 .. version' + 1
      BY <2>2, <3>1, LenProperties DEF TypeInv, TypeOK
    <3>4. \A n \in Nat : n + 1 \in 1 .. n + 1
      OBVIOUS
    <3> QED
      BY <3>2, <3>3, <3>4, Zenon
  <2>5. Told(e)'
    BY <2>3, <2>4 DEF InLog
  <2> QED
    BY <1>7, <1>11, <2>1, <2>5
<1>12. CASE pc'[h] = "load" /\ pc[h] = "idle" /\ UNCHANGED event
  BY <1>3, <1>12 DEF Held
<1>13. CASE Check(h) /\ pc'[h] \in {"load", "ack"}
  BY <1>3, <1>4, <1>6, <1>7, <1>13
     DEF Check, Finish, Return, Advance, Goto, Held, TypeInv, TypeOK, HandlersOK
<1>14. CASE Load(h)
  BY <1>3, <1>4, <1>6, <1>7, <1>14 DEF Load, Advance, Goto, Held, TypeInv, TypeOK, HandlersOK
<1>15. CASE List(h) /\ pc'[h] = "lookup"
  <2>1. /\ Visible(local) # {} /\ pc[h] = "list" /\ event'[h] = e
        /\ batch'[h] = Visible(local) /\ ver'[h] = v
        /\ UNCHANGED <<version, local, history>>
    BY <1>4, <1>15 DEF List, Unwind, Return, Advance, Goto, TypeInv, TypeOK, HandlersOK,
                       threadVars
  <2>2. local = history[version + 1]
    BY DEF TypeInv, TypeOK
  <2>3. Carries(Visible(local), v)
    BY <1>5, <2>1, <2>2 DEF Carries
  <2>4. PICK i : i = Visible(local)
    OBVIOUS
  <2>5. Carries(i, v)'
    BY <1>5, <2>3, <2>4, LogKept
  <2> QED
    BY <1>3, <1>4, <1>6, <1>8, <1>15, <2>1, <2>4, <2>5 DEF Held
<1>16. CASE Lookup(h)
  <2>1. /\ pc[h] = "lookup" /\ event'[h] = e /\ batch'[h] = b /\ ver'[h] = v
        /\ \/ pc'[h] = "link" /\ HasRun(v)
           \/ pc'[h] = "create"
    BY <1>4, <1>16 DEF Lookup, Advance, Goto, TypeInv, TypeOK, HandlersOK
  <2>2. Carries(b, v)' /\ Told(e)'
    BY <1>3, <1>4, <1>5, <1>6, <2>1, LogKept DEF Held
  <2> QED
    BY <1>8, <1>9, <2>1, <2>2, LogKept
<1>17. CASE Create(h) /\ pc'[h] = "link"
  <2>1. /\ pc[h] = "create" /\ event'[h] = e /\ ver'[h] = v
        /\ submitted' = submitted \union {[version |-> v, inputs |-> b]}
    BY <1>4, <1>17 DEF Create, Unwind, Return, Advance, Goto, TypeInv, TypeOK, HandlersOK
  <2>2. HasRun(v)'
    <3>1. [version |-> v, inputs |-> b] \in submitted'
      BY <2>1
    <3>2. [version |-> v, inputs |-> b].version = v
      OBVIOUS
    <3> QED
      BY <3>1, <3>2 DEF HasRun
  <2> QED
    BY <1>3, <1>4, <1>6, <1>9, <1>17, <2>1, <2>2 DEF Held
<1>18. CASE Link(h) /\ pc'[h] = "ack"
  BY <1>3, <1>4, <1>6, <1>7, <1>18
     DEF Link, Finish, Return, Advance, Goto, Held, TypeInv, TypeOK, HandlersOK
<1> QED
  <2> USE DEF Elsewhere, Check, Finish, Load, List, Lookup, Create, Link, Return, Unwind, Advance,
              Goto, TypeInv, TypeOK, HandlersOK
  <2>1. CASE Check(h) \/ Load(h)
    BY <1>1, <1>2, <1>13, <1>14, <2>1
  <2>2. CASE List(h) \/ Lookup(h)
    BY <1>1, <1>2, <1>15, <1>16, <2>2
  <2>3. CASE Create(h) \/ Link(h)
    BY <1>1, <1>2, <1>17, <1>18, <2>3
  <2> QED
    BY <1>1, <1>2, <1>10, <1>11, <1>12, <2>1, <2>2, <2>3, Leaves

\* A handler that did nothing keeps what is said of it.
LEMMA HeldKept ==
    ASSUME TypeInv, [Next]_vars, NEW k \in Handlers, Held(k),
           pc'[k] = pc[k], event'[k] = event[k], batch'[k] = batch[k], ver'[k] = ver[k]
    PROVE  Held(k)'
<1>1. PICK e, b, v : e = event[k] /\ b = batch[k] /\ v = ver[k]
  OBVIOUS
<1>2. v \in Nat
  BY <1>1 DEF TypeInv, TypeOK, ThreadOK, HandlersOK
<1>3. /\ Carries(b, v) => Carries(b, v)'
      /\ HasRun(v) => HasRun(v)'
      /\ InLog(e) => InLog(e)'
  BY <1>2, LogKept
<1> QED
  BY <1>1, <1>3 DEF Held, Carries, HasRun, InLog

\* Every request of a step is one that Create made of what its handler held.
LEMMA NewRequest ==
    ASSUME TypeInv, [Next]_vars, submitted' # submitted
    PROVE  \E h \in Handlers :
              /\ Create(h) /\ pc[h] = "create" /\ ~HasRun(ver[h])
              /\ submitted' = submitted \union {[version |-> ver[h], inputs |-> batch[h]]}
<1>1. ASSUME NEW h \in Handlers, HandlerStep(h) PROVE Create(h) /\ ~HasRun(ver[h])
  BY <1>1 DEF HandlerStep, Step, Locate, EnsureThread, StartSync, Fetch, Store, MarkFailed,
              ApplyEvent, Check, Load, List, Lookup, Create, Link, Acknowledge, Release,
              Refresh, Analyze, Fail, Receive
<1>2. CASE Slack \/ Clock \/ Crash \/ UNCHANGED vars
  BY <1>2 DEF Slack, SlackChange, Clock, Abandoned, Slow, Crash, vars
<1> QED
  BY <1>1, <1>2 DEF Next, HandlerStep, Clock, Slack, Create

\* Only Link changes the version that is marked as analysed.
LEMMA NewLink ==
    ASSUME TypeInv, [Next]_vars, requested' # requested
    PROVE  \E h \in Handlers : Link(h) /\ pc[h] = "link" /\ requested' = ver[h]
<1>1. ASSUME NEW h \in Handlers, HandlerStep(h) PROVE Link(h)
  BY <1>1 DEF HandlerStep, Step, Locate, EnsureThread, StartSync, Fetch, Store, MarkFailed,
              ApplyEvent, ApplySlackMessages, Check, Load, List, Lookup, Create, Acknowledge,
              Release, Refresh, Analyze, Fail, Receive, threadVars
<1>2. CASE Slack \/ Clock \/ Crash \/ UNCHANGED vars
  BY <1>2 DEF Slack, SlackChange, Clock, Abandoned, Slow, Crash, vars, threadVars
<1> QED
  BY <1>1, <1>2 DEF Next, HandlerStep, Clock, Slack, Link

\* Every step keeps LogInv.
LEMMA LogStep == ASSUME TypeInv, LogInv, [Next]_vars PROVE LogInv'
<1>1. submitted' \subseteq [version : Nat, inputs : SUBSET Events]
  <2>1. CASE submitted' # submitted
    <3>1. PICK h \in Handlers :
             submitted' = submitted \union {[version |-> ver[h], inputs |-> batch[h]]}
      BY <2>1, NewRequest
    <3>2. ver[h] \in Nat /\ batch[h] \in SUBSET Events
      BY DEF TypeInv, TypeOK, ThreadOK, HandlersOK
    <3> QED
      BY <3>1, <3>2 DEF LogInv
  <2> QED
    BY <2>1 DEF LogInv
<1>2. ASSUME NEW s \in submitted' PROVE Carries(s.inputs, s.version)'
  <2>1. CASE s \in submitted
    <3>1. s.version \in Nat /\ Carries(s.inputs, s.version)
      BY <2>1 DEF LogInv
    <3> QED
      BY <3>1, LogKept
  <2>2. CASE s \notin submitted
    <3>1. PICK h \in Handlers :
             /\ pc[h] = "create"
             /\ submitted' = submitted \union {[version |-> ver[h], inputs |-> batch[h]]}
      BY <2>2, NewRequest
    <3>2. s.version = ver[h] /\ s.inputs = batch[h]
      BY <2>2, <3>1
    <3>3. ver[h] \in Nat /\ Carries(batch[h], ver[h])
      BY <3>1 DEF LogInv, Held, TypeInv, TypeOK, ThreadOK, HandlersOK
    <3>4. s.version \in Nat /\ Carries(s.inputs, s.version)
      BY <3>2, <3>3
    <3> QED
      BY <3>4, LogKept
  <2> QED
    BY <2>1, <2>2
<1>3. requested' # 0 => HasRun(requested)'
  <2>1. PICK v : v = requested'
    OBVIOUS
  <2>2. v # 0 => HasRun(v)
    BY <2>1, NewLink DEF LogInv, Held
  <2> QED
    BY <2>1, <2>2, LogKept DEF HasRun
<1>4. \A h \in Handlers : Held(h)'
  <2>1. ASSUME NEW h \in Handlers, HandlerStep(h) PROVE \A k \in Handlers : Held(k)'
    BY <2>1, HeldSelf, HeldKept, Others DEF LogInv
  <2>2. CASE Slack \/ Clock \/ UNCHANGED vars
    <3>1. UNCHANGED <<pc, event, batch, ver>>
      BY <2>2 DEF Slack, SlackChange, Clock, Abandoned, Slow, vars, handlerVars
    <3> QED
      BY <3>1, HeldKept DEF LogInv
  <2>3. CASE Crash
    BY <2>3 DEF Crash, Held
  <2> QED
    BY <2>1, <2>2, <2>3 DEF Next, HandlerStep, Clock, Slack
<1> QED
  BY <1>1, <1>2, <1>3, <1>4 DEF LogInv

\* Initially nothing is submitted.
LEMMA InitLog == Init => LogInv
  BY DEF Init, LogInv, Held

\* The log of the thread and its requests are as LogInv says.
LEMMA LogCorrect == Spec => [](TypeInv /\ LogInv)
<1>1. TypeInv /\ LogInv /\ [Next]_vars => TypeInv' /\ LogInv'
  BY TypeStep, LogStep
<1> QED
  BY <1>1, InitType, InitLog, PTL DEF Spec

\* A request carries the context of one stored version, its own or a later one.
THEOREM RequestsTheorem == Spec => []RequestsAreCurrent
<1>1. LogInv => RequestsAreCurrent
  BY DEF LogInv, Carries, RequestsAreCurrent
<1> QED
  BY <1>1, LogCorrect, PTL

-----------------------------------------------------------------------------
(* The current context is submitted.                                       *)

\* A request for the current version carries the current context.
LEMMA CurrentRun == ASSUME TypeInv, LogInv, HasRun(version) PROVE Current \in submitted
<1>1. PICK s \in submitted : s.version = version
  BY DEF HasRun
<1>2. s \in [version : Nat, inputs : SUBSET Events] /\ Carries(s.inputs, version)
  BY <1>1 DEF LogInv
<1>3. version \in Nat /\ history[version + 1] = local
  BY DEF TypeInv, TypeOK, ThreadOK
<1>4. s.inputs = Visible(local)
  BY <1>2, <1>3 DEF Carries
<1> QED
  BY <1>1, <1>2, <1>4 DEF Current

\* The messages of the thread change when a handler stores some: it is responsible then.
LEMMA ChangeMoves ==
    ASSUME TypeInv, [Next]_vars, ~UNCHANGED <<version, local>>
    PROVE  \E h \in Handlers : Responsible(h)'
<1>1. PICK h \in Handlers : Store(h) \/ ApplyEvent(h)
  <2>1. ASSUME NEW h \in Handlers, HandlerStep(h), ~Store(h), ~ApplyEvent(h) PROVE FALSE
    BY <2>1 DEF HandlerStep, Step, Locate, EnsureThread, StartSync, Fetch, MarkFailed, Check,
                Load, List, Lookup, Create, Link, Acknowledge, Release, Refresh, Analyze, Fail,
                Receive, threadVars
  <2>2. ~(Slack \/ Clock \/ Crash \/ UNCHANGED vars)
    BY DEF Slack, SlackChange, Clock, Abandoned, Slow, Crash, vars, threadVars
  <2> QED
    BY <2>1, <2>2 DEF Next, HandlerStep, Clock, Slack
<1>2. changed'[h]
  BY <1>1, ApplyEffect DEF Store, ApplyEvent
<1>3. pc'[h] \in {"apply", "check"}
  BY <1>1 DEF Store, ApplyEvent, Advance, Goto, TypeInv, TypeOK, HandlersOK
<1> QED
  BY <1>2, <1>3 DEF Responsible

\* A responsible handler goes on to submit the context, unless a call fails.
LEMMA ResponsibleSelf ==
    ASSUME TypeInv, LogInv, [Next]_vars, NEW h \in Handlers, HandlerStep(h), ~Fail(h),
           Responsible(h), changed[h] => version # 0,
           UNCHANGED <<version, local>>, Visible(local) # {}
    PROVE  Current' \in submitted' \/ Responsible(h)'
<1> USE DEF Advance, Goto, TypeInv, TypeOK, HandlersOK
<1>1. Current' = Current /\ (Current \in submitted => Current \in submitted')
  BY ThreadGrows DEF Current
<1>2. HasRun(version) => Current \in submitted'
  BY <1>1, CurrentRun
<1>3. CASE ApplyEvent(h)
  BY <1>3, ApplyEffect DEF ApplyEvent, Responsible
<1>4. CASE Check(h)
  <2>1. changed[h]
    BY <1>4 DEF Check, Responsible
  <2>2. CASE version > requested
    BY <1>4, <2>1, <2>2 DEF Check, Responsible
  <2>3. CASE ~(version > requested)
    <3>1. requested = version /\ version # 0
      BY <2>1, <2>3 DEF ThreadOK
    <3> QED
      BY <1>1, <1>2, <3>1 DEF LogInv
  <2> QED
    BY <2>2, <2>3
<1>5. CASE Load(h) \/ List(h)
  BY <1>5 DEF Load, List, Responsible, threadVars
<1>6. CASE Lookup(h)
  <2>1. pc[h] = "lookup" /\ ver[h] = version /\ batch[h] = Visible(local)
    BY <1>6 DEF Lookup, Responsible
  <2>2. CASE HasRun(ver[h])
    BY <1>1, <1>2, <2>1, <2>2
  <2>3. CASE ~HasRun(ver[h])
    BY <1>6, <2>1, <2>3 DEF Lookup, Responsible
  <2> QED
    BY <2>2, <2>3
<1>7. CASE Create(h)
  <2>1. pc[h] = "create" /\ ver[h] = version /\ batch[h] = Visible(local)
    BY <1>7 DEF Create, Responsible
  <2>2. CASE HasRun(ver[h])
    BY <1>1, <1>2, <2>1, <2>2
  <2>3. CASE ~HasRun(ver[h])
    BY <1>1, <1>7, <2>1, <2>3 DEF Create, Current
  <2> QED
    BY <2>2, <2>3
<1>8. pc[h] \in {"apply", "check", "load", "list", "lookup", "create"}
  BY DEF Responsible
<1> QED
  BY <1>3, <1>4, <1>5, <1>6, <1>7, <1>8
     DEF HandlerStep, Step, Locate, EnsureThread, StartSync, Fetch, Store, MarkFailed, Link,
         Acknowledge, Release, Refresh, Analyze, Receive

\* Every step keeps QuietInv.
LEMMA QuietStep == ASSUME TypeInv, LogInv, QuietInv, [Next]_vars PROVE QuietInv'
<1>1. ASSUME NEW h \in Handlers, changed'[h] PROVE version' # 0
  <2>1. version \in Nat /\ version' \in Nat /\ version <= version'
    BY ThreadGrows
  <2>2. CASE changed[h]
    BY <2>1, <2>2 DEF QuietInv
  <2>3. ASSUME ~changed[h], NEW k \in Handlers, HandlerStep(k) PROVE version' # 0
    <3>1. k = h
      BY <1>1, <2>3, Others
    <3>2. CASE Store(h) \/ ApplyEvent(h)
      BY <1>1, <2>1, <2>3, <3>2
         DEF Store, ApplyEvent, ApplySlackMessages, TypeInv, TypeOK, HandlersOK
    <3>3. CASE ~(Store(h) \/ ApplyEvent(h))
      BY <1>1, <2>3, <3>1, <3>3
         DEF HandlerStep, Step, Locate, EnsureThread, StartSync, Fetch, MarkFailed, Check, Load,
             List, Lookup, Create, Link, Acknowledge, Release, Refresh, Analyze, Fail, Receive,
             Return, Unwind, Finish, Advance, TypeInv, TypeOK, HandlersOK
    <3> QED
      BY <3>2, <3>3
  <2>4. CASE Slack \/ Clock \/ Crash \/ UNCHANGED vars
    BY <1>1, <2>2, <2>4 DEF Slack, SlackChange, Clock, Abandoned, Slow, Crash, vars, handlerVars
  <2> QED
    BY <2>2, <2>3, <2>4 DEF Next, HandlerStep, Clock, Slack
<1>2. ASSUME Undisturbed({"fault", "crash"})', Visible(local') # {}
      PROVE  Current' \in submitted' \/ \E h \in Handlers : Responsible(h)'
  <2>1. /\ spent["fault"] = 0 /\ spent'["fault"] = 0 /\ ~Crash
        /\ \A h \in Handlers : ~Fail(h)
    <3>1. spent["fault"] = 0 /\ spent'["fault"] = 0 /\ spent'["crash"] = 0
      BY <1>2, SpentGrows DEF Undisturbed, Disturbances
    <3> QED
      BY <3>1, Spending DEF Crash, Fail, TypeInv, Disturbances
  <2>2. Undisturbed({"fault", "crash"})
    BY <1>2, SpentGrows DEF Undisturbed, Disturbances
  <2>3. CASE UNCHANGED <<version, local>> /\ Current \in submitted
    BY <2>3, ThreadGrows DEF Current
  <2>4. CASE UNCHANGED <<version, local>> /\ Current \notin submitted
    <3>1. Visible(local) # {}
      BY <1>2, <2>4
    <3>2. PICK r \in Handlers : Responsible(r)
      BY <2>2, <2>4, <3>1 DEF QuietInv
    <3>3. ASSUME pc'[r] = pc[r], changed'[r] = changed[r], batch'[r] = batch[r],
                 ver'[r] = ver[r]
          PROVE  Responsible(r)'
      BY <2>4, <3>2, <3>3 DEF Responsible
    <3>4. ASSUME NEW h \in Handlers, HandlerStep(h)
          PROVE  Current' \in submitted' \/ \E k \in Handlers : Responsible(k)'
      <4>1. CASE h = r
        BY <2>1, <2>4, <3>1, <3>2, <3>4, <4>1, ResponsibleSelf DEF QuietInv
      <4>2. CASE h # r
        BY <3>3, <3>4, <4>2, Others
      <4> QED
        BY <4>1, <4>2
    <3>5. CASE Slack \/ Clock \/ UNCHANGED vars
      <4>1. UNCHANGED <<pc, changed, batch, ver>>
        BY <3>5 DEF Slack, SlackChange, Clock, Abandoned, Slow, vars, handlerVars
      <4> QED
        BY <3>3, <4>1
    <3> QED
      BY <2>1, <3>4, <3>5 DEF Next, HandlerStep, Clock, Slack
  <2>5. CASE ~UNCHANGED <<version, local>>
    BY <2>5, ChangeMoves
  <2> QED
    BY <2>3, <2>4, <2>5
<1> QED
  BY <1>1, <1>2 DEF QuietInv

\* When no call failed and the handlers have finished, the current context is submitted.
THEOREM QuietTheorem == Spec => []QuietThreadIsRequested
<1>1. Init => QuietInv
  <2>1. Init => Visible(local) = {}
    BY Values DEF Init, Visible, Absent
  <2> QED
    BY <2>1 DEF Init, QuietInv
<1>2. TypeInv /\ LogInv /\ QuietInv /\ [Next]_vars => QuietInv'
  BY QuietStep
<1>3. QuietInv => QuietThreadIsRequested
  BY DEF QuietInv, QuietThreadIsRequested, Current, Idle, Responsible
<1> QED
  BY <1>1, <1>2, <1>3, LogCorrect, PTL DEF Spec

-----------------------------------------------------------------------------
(* The refinement of ThreadLog.                                            *)

Acknowledged == {e \in Events : claim[e] = "processed"}

\* What the log shows of an entry is what is visible of it.
LEMMA ShownIsVisible ==
    ASSUME TypeInv, NEW w \in DOMAIN history
    PROVE  Log!Shown(history[w]) = Visible(history[w])
<1>1. ASSUME NEW m \in Messages
      PROVE  history[w][m] \notin {Absent, Deleted} <=> history[w][m] \in Texts(m)
  <2>1. history[w][m] \in Stored(m)
    BY DEF TypeInv, HistoryOK
  <2>2. Absent \notin Texts(m) /\ Deleted \notin Texts(m)
    BY Values, IngestAssumption DEF IngestAssumption, Absent
  <2> QED
    BY <2>1, <2>2 DEF Stored, Contents
<1> QED
  BY <1>1 DEF Log!Shown, Visible

\* Messages that are stored are a new entry of the log, or change nothing.
LEMMA AbstractChange ==
    ASSUME TypeInv, TypeInv', NEW h \in Handlers, Store(h) \/ ApplyEvent(h)
    PROVE  [Log!Change]_(Log!vars)
<1>1. UNCHANGED <<submitted, requested>> /\ Acknowledged' = Acknowledged
  BY DEF Store, ApplyEvent, ApplySlackMessages, Acknowledged
<1>2. CASE UNCHANGED history
  BY <1>1, <1>2 DEF Log!vars, Acknowledged
<1>3. CASE ~UNCHANGED history
  <2>1. PICK inputs : /\ history' = Append(history, local') /\ local' # local
                      /\ local' = Upsert(inputs)
    BY <1>3, ApplyEffect DEF Store, ApplyEvent
  <2>2. local' \in [Messages -> ThreadValues]
    BY <2>1, UpsertType DEF TypeInv, TypeOK
  <2>3. history[Len(history)] = local
    BY DEF TypeInv, TypeOK
  <2>4. \E content \in [Messages -> ThreadValues] \ {history[Len(history)]} :
           history' = Append(history, content)
    BY <2>1, <2>2, <2>3
  <2> QED
    BY <1>1, <2>4 DEF Log!Change, Acknowledged, ThreadValues
<1> QED
  BY <1>2, <1>3

\* A request that is created is a submission.
LEMMA AbstractSubmit ==
    ASSUME TypeInv, LogInv, NEW h \in Handlers, Create(h)
    PROVE  [Log!Next]_(Log!vars)
<1>1. UNCHANGED <<history, requested>> /\ Acknowledged' = Acknowledged
  BY DEF Create, threadVars, Acknowledged
<1>2. CASE HasRun(ver[h])
  BY <1>1, <1>2 DEF Create, Log!vars, Acknowledged
<1>3. CASE ~HasRun(ver[h])
  <2>1. PICK v, b : v = ver[h] /\ b = batch[h]
    OBVIOUS
  <2>2. /\ v \in 0..version /\ version \in Nat /\ Len(history) = version + 1
        /\ history \in Seq([Messages -> ThreadValues])
    BY <2>1 DEF TypeInv, TypeOK, ThreadOK, HandlersOK, HistoryOK
  <2>3. Carries(b, v) /\ submitted' = submitted \union {[version |-> v, inputs |-> b]}
    BY <1>3, <2>1 DEF Create, LogInv, Held
  <2>4. PICK u \in v..version : b = Visible(history[u + 1])
    BY <2>3 DEF Carries
  <2>5. u + 1 \in v + 1 .. Len(history) /\ u + 1 \in DOMAIN history /\ v \in 0 .. Len(history) - 1
    BY <2>2, <2>4
  <2>6. Log!Shown(history[u + 1]) = b
    BY <2>4, <2>5, ShownIsVisible
  <2>7. Log!Submit(v)
    BY <1>1, <1>3, <2>1, <2>3, <2>5, <2>6 DEF Log!Submit, HasRun, Carries, Acknowledged
  <2> QED
    BY <2>5, <2>7 DEF Log!Next
<1> QED
  BY <1>2, <1>3

\* An event that is acknowledged was stored.
LEMMA AbstractAcknowledge ==
    ASSUME TypeInv, LogInv, NEW h \in Handlers, Acknowledge(h)
    PROVE  [Log!Next]_(Log!vars)
<1>1. PICK e : e = event[h]
  OBVIOUS
<1>2. /\ UNCHANGED <<history, submitted, requested>> /\ e \in Events /\ InLog(e)
      /\ claim' = [claim EXCEPT ![e] = IF @ = "none" THEN "none" ELSE "processed"]
  BY <1>1 DEF Acknowledge, threadVars, TypeInv, TypeOK, HandlersOK, LogInv, Held
<1>3. CASE claim[e] = "none"
  BY <1>2, <1>3 DEF Log!vars, TypeInv, TypeOK
<1>4. CASE claim[e] # "none"
  <2>1. Acknowledged' = Acknowledged \union {e}
    BY <1>2, <1>4 DEF Acknowledged, TypeInv, TypeOK
  <2>2. e \in Messages \X ThreadValues
    <3>1. PICK m \in Messages : e \in {m} \X Contents(m)
      BY <1>2 DEF Events
    <3> QED
      BY <3>1, Values DEF Stored
  <2>3. \E w \in DOMAIN history : history[w][e[1]] = e[2]
    BY <1>2 DEF InLog
  <2>4. Log!Acknowledge(e)
    BY <1>2, <2>1, <2>3 DEF Log!Acknowledge, Acknowledged
  <2> QED
    BY <2>2, <2>4 DEF Log!Next, ThreadValues
<1> QED
  BY <1>3, <1>4

\* Every other step leaves the thread's log alone.
LEMMA AbstractStutter ==
    ASSUME TypeInv, [Next]_vars,
           ~\E h \in Handlers : \/ Store(h) \/ ApplyEvent(h) \/ Create(h) \/ Link(h)
                                \/ Acknowledge(h)
    PROVE  UNCHANGED <<history, submitted, requested>> /\ Acknowledged' = Acknowledged
<1>1. ASSUME NEW h \in Handlers, HandlerStep(h)
      PROVE  UNCHANGED <<history, submitted, requested>> /\ Acknowledged' = Acknowledged
  <2>1. UNCHANGED <<history, submitted, requested>>
    BY <1>1 DEF HandlerStep, Step, Locate, EnsureThread, StartSync, Fetch, MarkFailed, Check,
                Load, List, Lookup, Release, Refresh, Analyze, Fail, Receive, threadVars
  <2>2. CASE Release(h) \/ \E e \in Events : Receive(h, e)
    BY <2>1, <2>2 DEF Release, Released, Receive, Claimable, Acknowledged, TypeInv, TypeOK
  <2>3. CASE ~(Release(h) \/ \E e \in Events : Receive(h, e))
    <3>1. claim' = claim
      BY <1>1, <2>3 DEF HandlerStep, Step, Locate, EnsureThread, StartSync, Fetch, MarkFailed,
                        Check, Load, List, Lookup, Refresh, Analyze, Fail
    <3> QED
      BY <2>1, <3>1 DEF Acknowledged
  <2> QED
    BY <2>2, <2>3
<1>2. CASE Clock
  BY <1>2 DEF Clock, Abandoned, Slow, Acknowledged, threadVars, TypeInv, TypeOK
<1>3. CASE Slack \/ Crash \/ UNCHANGED vars
  <2>1. UNCHANGED <<history, submitted, requested, claim>>
    BY <1>3 DEF Slack, SlackChange, Crash, vars, threadVars
  <2> QED
    BY <2>1 DEF Acknowledged
<1> QED
  BY <1>1, <1>2, <1>3 DEF Next, HandlerStep, Clock, Slack

\* The service and its store implement ThreadLog: the log of a thread only grows, a version
\* is submitted once, with what is visible of it or of a later one, and an event is
\* acknowledged for good and after it was stored.
THEOREM LogTheorem == Spec => ImplementsThreadLog
<1>1. Init => Log!Init
  <2> SUFFICES ASSUME Init PROVE Log!Init
    OBVIOUS
  <2>1. local \in [Messages -> {Absent, Deleted}] /\ history = <<local>>
    BY DEF Init
  <2>2. submitted = {} /\ requested = 0 /\ {e \in Events : claim[e] = "processed"} = {}
    BY DEF Init
  <2> QED
    BY <2>1, <2>2 DEF Log!Init
<1>2. TypeInv /\ TypeInv' /\ LogInv /\ [Next]_vars => [Log!Next]_(Log!vars)
  <2> SUFFICES ASSUME TypeInv, TypeInv', LogInv, [Next]_vars PROVE [Log!Next]_(Log!vars)
    OBVIOUS
  <2>1. ASSUME NEW h \in Handlers, Store(h) \/ ApplyEvent(h) PROVE [Log!Next]_(Log!vars)
    BY <2>1, AbstractChange DEF Log!Next
  <2>2. ASSUME NEW h \in Handlers, Create(h) \/ Acknowledge(h) PROVE [Log!Next]_(Log!vars)
    BY <2>2, AbstractSubmit, AbstractAcknowledge
  <2>3. ASSUME NEW h \in Handlers, Link(h) PROVE [Log!Next]_(Log!vars)
    <3>1. UNCHANGED <<history, submitted>> /\ Acknowledged' = Acknowledged
      BY <2>3 DEF Link, Acknowledged
    <3>2. \E s \in submitted : requested' = s.version
      BY <2>3 DEF Link, LogInv, Held, HasRun
    <3> QED
      BY <3>1, <3>2 DEF Log!Next, Log!Link, Acknowledged
  <2>4. CASE ~\E h \in Handlers : \/ Store(h) \/ ApplyEvent(h) \/ Create(h) \/ Link(h)
                                  \/ Acknowledge(h)
    BY <2>4, AbstractStutter DEF Log!vars, Acknowledged
  <2> QED
    BY <2>1, <2>2, <2>3, <2>4
<1> QED
  BY <1>1, <1>2, LogCorrect, PTL DEF Spec, ImplementsThreadLog, Log!Spec

=============================================================================
