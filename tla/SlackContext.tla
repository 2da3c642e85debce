---------------------------- MODULE SlackContext ----------------------------
(***************************************************************************)
(* BuildContext (backend/internal/slack/service.go): which messages of a   *)
(* thread an analysis is given, and how much of each, within a number of   *)
(* messages and a number of characters.                                    *)
(*                                                                         *)
(* A thread is the sequence of its messages, oldest first.  Of a message   *)
(* only lengths matter: "header" of the line that names it, "text" of its  *)
(* text, 0 when it is deleted or blank.  Every step of the loop is a step  *)
(* of the model, so that what holds for every thread can be proved by      *)
(* induction over the steps.                                               *)
(***************************************************************************)
EXTENDS Integers, Sequences, FiniteSets, FiniteSetsExt

CONSTANTS Threads,  \* the threads to build a context of
          Bounds    \* pairs: the most messages, the most characters

Message == [parent : BOOLEAN, header : Nat, text : Nat]

\* A message is followed by two newlines.
Separator == 2

\* The messages of a thread have different timestamps, so one of them at most is the
\* parent.  The configuration requires 1000 characters (config.go, SLACK_MAX_CONTEXT_CHARS),
\* and a header, with Slack's timestamp and user id, has less than a tenth of that: half
\* the budget holds any header and some text.
ASSUME ContextAssumption ==
    /\ Threads \subseteq Seq(Message)
    /\ \A t \in Threads : \A i, j \in DOMAIN t : t[i].parent /\ t[j].parent => i = j
    /\ Bounds \subseteq (Nat \ {0}) \X (Nat \ {0})
    /\ \A t \in Threads, b \in Bounds :
          \A i \in DOMAIN t : t[i].header + Separator < b[2] \div 2

VARIABLES thread, maxMessages, maxChars,
          pc,
          left,      \* the replies the loop has not come to
          budget,    \* the characters left
          selected   \* what is selected: the place of a message, the length of its text

vars == <<thread, maxMessages, maxChars, pc, left, budget, selected>>

-----------------------------------------------------------------------------

Active == {i \in DOMAIN thread : thread[i].text > 0}

Parents == {i \in Active : thread[i].parent}

Replies == Active \ Parents

Places == {s.at : s \in selected}

Rendered(s) == thread[s.at].header + s.text + Separator

Truncated(length, max) == IF length <= max THEN length ELSE max

\* Mutations: a message is only counted by its text; half of what is left is kept back
\* for older replies.
Room_Text(i, share) == share

Room_Half(i, share) == share \div 2 - thread[i].header - Separator

Room(i, share) == share - thread[i].header - Separator

\* Mutation: every message gets an equal share.
ParentShare_Equal == budget \div Cardinality(Active)

ParentShare == IF Replies # {} /\ maxMessages > 1 THEN budget \div 2 ELSE budget

\* Mutation: the oldest replies first.
Latest_Oldest(S) == {i \in S : \A j \in S : i <= j}

\* The place of the latest reply, as a set.
Latest(S) == {i \in S : \A j \in S : j <= i}

\* The message at i with as much of its text as a share of the budget has room for.
Select(i, share) ==
    LET s == [at |-> i, text |-> Truncated(thread[i].text, Room(i, share))]
    IN  /\ selected' = selected \union {s}
        /\ budget' = budget - Rendered(s)

-----------------------------------------------------------------------------

Init ==
    /\ thread \in Threads
    /\ \E b \in Bounds : maxMessages = b[1] /\ maxChars = b[2]
    /\ pc = "filter"
    /\ left = {}
    /\ budget = maxChars
    /\ selected = {}

\* ErrEmptyContext when there is nothing to analyse.
Filter ==
    /\ pc = "filter"
    /\ pc' = IF Active = {} THEN "empty" ELSE "parent"
    /\ left' = Replies
    /\ UNCHANGED <<thread, maxMessages, maxChars, budget, selected>>

\* The parent comes first, and leaves half of the budget to the replies.
SelectParent ==
    /\ pc = "parent"
    /\ pc' = "replies"
    /\ \/ \E i \in Parents : Room(i, ParentShare) > 0 /\ Select(i, ParentShare)
       \/ /\ \A i \in Parents : Room(i, ParentShare) <= 0
          /\ UNCHANGED <<budget, selected>>
    /\ UNCHANGED <<thread, maxMessages, maxChars, left>>

More == left # {} /\ Cardinality(selected) < maxMessages /\ budget > 0

\* Mutation: the loop ends at a reply that has no room.
ConsiderReply_Break ==
    /\ pc = "replies"
    /\ More
    /\ \E i \in Latest(left) :
          \/ Room(i, budget) > 0 /\ Select(i, budget) /\ left' = left \ {i}
          \/ Room(i, budget) <= 0 /\ left' = {} /\ UNCHANGED <<budget, selected>>
    /\ UNCHANGED <<thread, maxMessages, maxChars, pc>>

\* Then the replies, the latest first; one that has no room is passed over.
ConsiderReply ==
    /\ pc = "replies"
    /\ More
    /\ \E i \in Latest(left) :
          /\ left' = left \ {i}
          /\ \/ Room(i, budget) > 0 /\ Select(i, budget)
             \/ Room(i, budget) <= 0 /\ UNCHANGED <<budget, selected>>
    /\ UNCHANGED <<thread, maxMessages, maxChars, pc>>

Finish ==
    /\ pc = "replies"
    /\ ~More
    /\ pc' = "done"
    /\ UNCHANGED <<thread, maxMessages, maxChars, left, budget, selected>>

Next == Filter \/ SelectParent \/ ConsiderReply \/ Finish

Spec == Init /\ [][Next]_vars

-----------------------------------------------------------------------------
(* Properties.                                                             *)

\* The type invariant; the budget is never overdrawn.
TypeOK ==
    /\ thread \in Seq(Message)
    /\ maxMessages \in Nat /\ maxChars \in Nat
    /\ pc \in {"filter", "parent", "replies", "done", "empty"}
    /\ left \subseteq Replies
    /\ budget \in 0..maxChars
    /\ selected \subseteq [at : Active, text : Nat \ {0}]

\* The context respects both limits, whatever is cut: the headers and separators of
\* the messages count.
ContextFits ==
    /\ MapThenSumSet(Rendered, selected) <= maxChars
    /\ Cardinality(selected) <= maxMessages

\* A parent that is not deleted is part of every context.
ParentRetained == pc \in {"replies", "done"} => Parents \subseteq Places

\* No reply is left out that has room: at the end the messages are as many as may be,
\* or what is left of the budget does not hold the header of any other reply.
NothingLeftOut ==
    pc = "done" =>
        \/ Cardinality(selected) = maxMessages
        \/ \A i \in Replies \ Places : Room(i, budget) <= 0

\* Later replies come before earlier ones: a reply is passed over for an older one only
\* if its header is longer, that is, the id of its author.
LatestAreSelected ==
    pc = "done" =>
        \A i \in Replies \intersect Places, j \in Replies \ Places :
            i < j => thread[i].header < thread[j].header

\* Only the oldest of the selected replies is cut short.
OnlyOldestIsCut ==
    \A s \in selected :
        s.at \in Replies /\ s.text < thread[s.at].text
            => \A r \in selected : r.at \in Replies => s.at <= r.at

\* There is something to analyse, and every selected message has a text.
NeverEmpty == pc = "done" => selected # {}

-----------------------------------------------------------------------------
(* The inductive invariant.                                                *)

\* What ContextAssumption says of this thread and these bounds.
InputOK ==
    /\ \A i, j \in DOMAIN thread : thread[i].parent /\ thread[j].parent => i = j
    /\ maxMessages >= 1 /\ maxChars >= 1
    /\ \A i \in DOMAIN thread : thread[i].header + Separator < maxChars \div 2

Considered == Replies \ left

\* Nothing is selected before the parent, and the first message finds the whole budget.
Start ==
    /\ pc \in {"filter", "parent"} => selected = {}
    /\ pc = "parent" => left = Replies
    /\ pc \in {"parent", "replies", "done"} => Active # {}
    /\ selected = {} => budget = maxChars

\* The loop goes backwards and comes to every reply once.
Backwards ==
    /\ \A i \in left, j \in Considered : i < j
    /\ left \intersect Places = {}

Slots == IsFiniteSet(selected) /\ Cardinality(selected) <= maxMessages

\* A reply that was passed over has no room, and the budget only shrinks.
PassedOver ==
    pc \in {"replies", "done"} => \A i \in Considered \ Places : Room(i, budget) <= 0

HeadersDecide ==
    pc \in {"replies", "done"} =>
        \A i \in Replies \intersect Places, j \in Considered \ Places :
            i < j => thread[i].header < thread[j].header

\* A reply that is cut takes what is left of the budget.
CutIsLast ==
    \A s \in selected :
        s.at \in Replies /\ s.text < thread[s.at].text
            => budget = 0 /\ \A r \in selected : r.at \in Replies => s.at <= r.at

Ended == pc = "done" => ~More

\* Every step of the loop keeps these facts, from which the properties follow.
ContextInv ==
    /\ InputOK /\ TypeOK /\ Start /\ Backwards /\ Slots
    /\ ParentRetained /\ PassedOver /\ HeadersDecide /\ CutIsLast /\ Ended
=============================================================================
