------------------------ MODULE SlackContext_proofs ------------------------
(***************************************************************************)
(* Theorems about SlackContext, for every thread and every bounds.         *)
(***************************************************************************)
EXTENDS SlackContext, FiniteSetTheorems, TLAPS

\* Half of a budget is a number between 0 and the budget.
LEMMA Half == ASSUME NEW n \in Nat PROVE n \div 2 \in 0..n
  OBVIOUS

\* What is kept of a text is not empty and not longer than the room there is.
LEMMA Cut ==
    ASSUME TypeOK, NEW i \in Active, NEW share \in Int, Room(i, share) > 0
    PROVE  /\ Truncated(thread[i].text, Room(i, share)) \in Nat \ {0}
           /\ Truncated(thread[i].text, Room(i, share)) <= thread[i].text
           /\ Truncated(thread[i].text, Room(i, share)) <= Room(i, share)
           /\ \/ Truncated(thread[i].text, Room(i, share)) = thread[i].text
              \/ Truncated(thread[i].text, Room(i, share)) = Room(i, share)
<1>1. thread[i] \in Message /\ thread[i].text > 0
  BY DEF TypeOK, Active
<1> QED
  BY <1>1 DEF Message, Room, Truncated, Separator

\* Selecting a message adds its place and takes what it renders to from the budget.
LEMMA Selecting ==
    ASSUME TypeOK, Slots, NEW i \in Active, NEW share \in Nat, share <= budget,
           Room(i, share) > 0, Select(i, share), thread' = thread
    PROVE  \E n \in Nat \ {0} :
              /\ selected' = selected \union {[at |-> i, text |-> n]}
              /\ n <= thread[i].text
              /\ n < thread[i].text => n = Room(i, share)
              /\ budget' = budget - (thread[i].header + n + Separator)
              /\ budget' \in 0..budget
              /\ budget' <= budget - 3
              /\ IsFiniteSet(selected')
              /\ Cardinality(selected') <= Cardinality(selected) + 1
<1> DEFINE n == Truncated(thread[i].text, Room(i, share))
<1>1. /\ n \in Nat \ {0} /\ n <= thread[i].text /\ n <= Room(i, share)
      /\ n = thread[i].text \/ n = Room(i, share)
  BY Cut
<1>2. thread[i].header \in Nat /\ thread[i].text \in Nat
  <2>1. thread[i] \in Message
    BY DEF TypeOK, Active
  <2> QED
    BY <2>1 DEF Message
<1>3. budget \in Nat
  BY DEF TypeOK
<1>4. selected' = selected \union {[at |-> i, text |-> n]}
  BY DEF Select
<1>5. budget' = budget - (thread[i].header + n + Separator)
  BY DEF Select, Rendered
<1>6. n <= share - thread[i].header - Separator
  BY <1>1 DEF Room
<1> HIDE DEF n
<1>7. budget' \in 0..budget /\ budget' <= budget - 3
  BY <1>1, <1>2, <1>3, <1>5, <1>6 DEF Separator
<1>8. /\ IsFiniteSet(selected')
      /\ Cardinality(selected') <= Cardinality(selected) + 1
  <2>1. IsFiniteSet(selected) /\ Cardinality(selected) \in Nat
    BY FS_CardinalityType DEF Slots
  <2> QED
    BY <1>4, <2>1, FS_AddElement
<1> QED
  BY <1>1, <1>4, <1>5, <1>7, <1>8

\* Before the loop nothing is selected.
LEMMA InitContext == ContextAssumption /\ Init => ContextInv
<1> SUFFICES ASSUME ContextAssumption, Init PROVE ContextInv
  OBVIOUS
<1>1. PICK b \in Bounds : maxMessages = b[1] /\ maxChars = b[2]
  BY DEF Init
<1>2. /\ b \in (Nat \ {0}) \X (Nat \ {0})
      /\ thread \in Threads /\ thread \in Seq(Message)
  BY <1>1 DEF ContextAssumption, Init
<1>3. maxMessages \in Nat \ {0} /\ maxChars \in Nat \ {0}
  BY <1>1, <1>2
<1>4. InputOK
  BY <1>1, <1>2, <1>3 DEF InputOK, ContextAssumption
<1>5. TypeOK
  BY <1>2, <1>3 DEF TypeOK, Init
<1>6. Slots
  BY <1>3, FS_EmptySet DEF Init, Slots
<1>7. Backwards /\ CutIsLast
  BY DEF Init, Backwards, CutIsLast, Places
<1> QED
  BY <1>4, <1>5, <1>6, <1>7
     DEF ContextInv, Init, Start, ParentRetained, PassedOver, HeadersDecide, Ended

\* No parent is a reply, so that selecting it disturbs nothing that is said of replies.
LEMMA FilterKeeps == ContextInv /\ Filter => ContextInv'
<1> SUFFICES ASSUME ContextInv, Filter PROVE ContextInv'
  OBVIOUS
<1> USE DEF ContextInv
<1>1. thread' = thread /\ Active' = Active /\ Parents' = Parents /\ Replies' = Replies
  BY DEF Filter, Active, Parents, Replies
<1>2. selected' = {} /\ budget' = maxChars /\ left' = Replies /\ Places' = {}
  BY DEF Filter, Start, Places
<1>3. pc' \in {"empty", "parent"} /\ (pc' = "parent" => Active # {})
  BY DEF Filter
<1>4. TypeOK'
  BY <1>1, <1>2, <1>3 DEF TypeOK, Filter
<1>5. InputOK' /\ Slots'
  BY DEF InputOK, Slots, Filter
<1>6. Start' /\ Backwards'
  BY <1>1, <1>2, <1>3 DEF Start, Backwards, Considered, Filter
<1> QED
  BY <1>1, <1>2, <1>3, <1>4, <1>5, <1>6
     DEF ParentRetained, PassedOver, HeadersDecide, CutIsLast, Ended

\* The parent is selected first and finds the whole budget.
LEMMA ParentKeeps == ContextInv /\ SelectParent => ContextInv'
<1> SUFFICES ASSUME ContextInv, SelectParent PROVE ContextInv'
  OBVIOUS
<1> USE DEF ContextInv
<1>1. /\ pc = "parent" /\ pc' = "replies" /\ left' = left /\ thread' = thread
      /\ maxMessages' = maxMessages /\ maxChars' = maxChars
      /\ left = Replies /\ selected = {} /\ budget = maxChars /\ Active # {}
  BY DEF SelectParent, Start
<1>2. Active' = Active /\ Parents' = Parents /\ Replies' = Replies /\ Considered' = {}
  BY <1>1 DEF Active, Parents, Replies, Considered
<1>3. /\ budget \in Nat /\ ParentShare \in Nat /\ ParentShare <= budget
      /\ budget \div 2 <= ParentShare
  BY <1>1, Half DEF TypeOK, ParentShare, InputOK
<1>4. \A i \in Parents : Room(i, ParentShare) > 0
  <2> SUFFICES ASSUME NEW i \in Parents PROVE Room(i, ParentShare) > 0
    OBVIOUS
  <2>1. thread[i] \in Message /\ thread[i].header + Separator < maxChars \div 2
    BY DEF Parents, Active, InputOK, TypeOK
  <2> QED
    BY <1>1, <1>3, <2>1 DEF Room, Message, Separator
<1>5. InputOK'
  BY <1>1 DEF InputOK
<1>6. CASE \E i \in Parents : Room(i, ParentShare) > 0 /\ Select(i, ParentShare)
  <2>1. PICK i \in Parents : Room(i, ParentShare) > 0 /\ Select(i, ParentShare)
    BY <1>6
  <2>2. i \in Active /\ i \notin Replies
    BY DEF Parents, Replies
  <2>3. PICK n \in Nat \ {0} :
              /\ selected' = selected \union {[at |-> i, text |-> n]}
              /\ budget' \in 0..budget
              /\ IsFiniteSet(selected')
              /\ Cardinality(selected') <= Cardinality(selected) + 1
    BY <1>1, <1>3, <2>1, <2>2, Selecting
  <2>4. selected' = {[at |-> i, text |-> n]} /\ Places' = {i}
    BY <1>1, <2>3 DEF Places
  <2>5. TypeOK'
    BY <1>1, <1>2, <2>2, <2>3, <2>4 DEF TypeOK
  <2>6. Slots'
    BY <1>1, <2>3, FS_EmptySet, FS_CardinalityType DEF Slots, InputOK, TypeOK
  <2>7. Start' /\ Backwards'
    BY <1>1, <1>2, <2>2, <2>4 DEF Start, Backwards
  <2>8. ParentRetained'
    BY <1>1, <1>2, <2>4 DEF ParentRetained, InputOK, Parents, Active
  <2>9. PassedOver' /\ HeadersDecide' /\ CutIsLast' /\ Ended'
    BY <1>1, <1>2, <2>2, <2>4 DEF PassedOver, HeadersDecide, CutIsLast, Ended
  <2> QED
    BY <1>5, <2>5, <2>6, <2>7, <2>8, <2>9
<1>7. CASE /\ \A i \in Parents : Room(i, ParentShare) <= 0
           /\ UNCHANGED <<budget, selected>>
  <2>1. Parents = {}
    <3> SUFFICES ASSUME NEW i \in Parents PROVE FALSE
      OBVIOUS
    <3>1. Room(i, ParentShare) > 0 /\ Room(i, ParentShare) <= 0
      BY <1>4, <1>7
    <3>2. thread[i] \in Message
      BY DEF Parents, Active, TypeOK
    <3> QED
      BY <1>3, <3>1, <3>2 DEF Room, Message, Separator
  <2>2. Places' = {} /\ selected' = {} /\ budget' = budget
    BY <1>1, <1>7 DEF Places
  <2>3. TypeOK' /\ Slots'
    BY <1>1, <1>2, <1>7 DEF TypeOK, Slots
  <2>4. Start' /\ Backwards'
    BY <1>1, <1>2, <2>2 DEF Start, Backwards
  <2>5. ParentRetained'
    BY <1>2, <2>1 DEF ParentRetained
  <2>6. PassedOver' /\ HeadersDecide' /\ CutIsLast' /\ Ended'
    BY <1>1, <1>2, <2>2 DEF PassedOver, HeadersDecide, CutIsLast, Ended
  <2> QED
    BY <1>5, <2>3, <2>4, <2>5, <2>6
<1> QED
  BY <1>6, <1>7 DEF SelectParent

\* What the loop says of the replies it has come to is kept when it comes to the latest
\* of those that are left.
LEMMA LoopShape ==
    ASSUME ContextInv, pc = "replies", NEW i \in Latest(left), left' = left \ {i},
           thread' = thread
    PROVE  /\ i \in Replies /\ i \in Active /\ i \in Int /\ i \notin Places
           /\ Active' = Active /\ Parents' = Parents /\ Replies' = Replies
           /\ left' \subseteq Replies'
           /\ Considered' = Considered \union {i}
           /\ \A j \in Considered : i < j /\ j \in Int
           /\ \A k \in left', j \in Considered' : k < j
           /\ thread[i] \in Message
           /\ \A j \in Active : thread[j] \in Message
<1> USE DEF ContextInv
<1>1. i \in left /\ \A j \in left : j <= i
  BY DEF Latest
<1>2. i \in Replies /\ i \in Active
  BY <1>1 DEF TypeOK, Replies
<1>3. Active' = Active /\ Parents' = Parents /\ Replies' = Replies
  BY DEF Active, Parents, Replies
<1>4. Replies \subseteq Int
  BY DEF Replies, Active, TypeOK
<1>5. Considered' = Considered \union {i}
  BY <1>1, <1>2, <1>3 DEF Considered
<1>6. \A j \in Considered : i < j /\ j \in Int
  BY <1>1, <1>4 DEF Backwards, Considered
<1>7. \A k \in left', j \in Considered' : k < j
  <2> SUFFICES ASSUME NEW k \in left', NEW j \in Considered' PROVE k < j
    OBVIOUS
  <2>1. k \in left /\ k # i /\ k \in Int /\ i \in Int /\ k <= i
    BY <1>1, <1>2, <1>4 DEF TypeOK
  <2> QED
    BY <1>5, <2>1 DEF Backwards
<1>8. \A j \in Active : thread[j] \in Message
  BY DEF Active, TypeOK
<1> QED
  BY <1>1, <1>2, <1>3, <1>4, <1>5, <1>6, <1>7, <1>8 DEF Backwards, TypeOK

\* The places of a selection and of one message more.
LEMMA OnePlaceMore ==
    ASSUME NEW S, NEW i, NEW n
    PROVE  {s.at : s \in S \union {[at |-> i, text |-> n]}} = {s.at : s \in S} \union {i}
<1> DEFINE rec == [at |-> i, text |-> n]
<1>1. rec.at = i
  OBVIOUS
<1> HIDE DEF rec
<1>2. {s.at : s \in S \union {rec}} = {s.at : s \in S} \union {rec.at}
  OBVIOUS
<1>3. {s.at : s \in S \union {rec}} = {s.at : s \in S} \union {i}
  BY <1>1, <1>2
<1> QED
  BY <1>3 DEF rec

\* A reply that is selected: it is the oldest so far, and it had room where those that
\* were passed over had none.
LEMMA SelectKeeps ==
    ASSUME ContextInv, ConsiderReply, NEW i \in Latest(left), left' = left \ {i},
           Room(i, budget) > 0, Select(i, budget)
    PROVE  ContextInv'
<1> USE DEF ContextInv
<1>1. /\ pc = "replies" /\ pc' = pc /\ thread' = thread
      /\ maxMessages' = maxMessages /\ maxChars' = maxChars
      /\ Cardinality(selected) < maxMessages /\ budget > 0
  BY DEF ConsiderReply, More
<1>2. /\ i \in Replies /\ i \in Active /\ i \in Int /\ i \notin Places
      /\ Active' = Active /\ Parents' = Parents /\ Replies' = Replies
      /\ left' \subseteq Replies'
      /\ Considered' = Considered \union {i}
      /\ \A j \in Considered : i < j /\ j \in Int
      /\ \A k \in left', j \in Considered' : k < j
      /\ thread[i] \in Message
      /\ \A j \in Active : thread[j] \in Message
  BY <1>1, LoopShape
<1>3. budget \in Nat /\ budget <= budget
  BY DEF TypeOK
<1>4. PICK n \in Nat \ {0} :
              /\ selected' = selected \union {[at |-> i, text |-> n]}
              /\ n <= thread[i].text
              /\ n < thread[i].text => n = Room(i, budget)
              /\ budget' = budget - (thread[i].header + n + Separator)
              /\ budget' \in 0..budget
              /\ budget' <= budget - 3
              /\ IsFiniteSet(selected')
              /\ Cardinality(selected') <= Cardinality(selected) + 1
  BY <1>1, <1>2, <1>3, Selecting
<1>5. Places' = Places \union {i}
  <2>1. {s.at : s \in selected \union {[at |-> i, text |-> n]}}
          = {s.at : s \in selected} \union {i}
    BY OnePlaceMore
  <2>2. Places' = {s.at : s \in selected'}
    BY DEF Places
  <2> QED
    BY <1>4, <2>1, <2>2 DEF Places
<1>6. TypeOK' /\ InputOK'
  BY <1>1, <1>2, <1>3, <1>4 DEF TypeOK, InputOK
<1>7. Slots'
  <2>1. Cardinality(selected) \in Nat /\ Cardinality(selected') \in Nat /\ maxMessages \in Nat
    BY <1>4, FS_CardinalityType DEF Slots, TypeOK
  <2> QED
    BY <1>1, <1>4, <2>1 DEF Slots
<1>8. Start' /\ Backwards' /\ ParentRetained'
  BY <1>1, <1>2, <1>4, <1>5 DEF Start, Backwards, ParentRetained
<1>9. \A j \in Considered \ Places : Room(j, budget) <= 0 /\ j \in Active
  BY <1>1 DEF PassedOver, Considered, Replies
<1>10. PassedOver'
  <2> SUFFICES ASSUME NEW j \in Considered' \ Places' PROVE Room(j, budget)' <= 0
    BY DEF PassedOver
  <2>1. j \in Considered \ Places /\ Room(j, budget) <= 0 /\ thread[j] \in Message
    BY <1>2, <1>5, <1>9
  <2> QED
    BY <1>1, <1>3, <1>4, <2>1 DEF Room, Message, Separator
<1>11. HeadersDecide'
  <2> SUFFICES ASSUME NEW k \in (Replies \intersect Places)', NEW j \in (Considered \ Places)',
                      k < j
               PROVE  thread[k].header < thread[j].header
    BY <1>1 DEF HeadersDecide
  <2>1. j \in Considered \ Places /\ Room(j, budget) <= 0 /\ thread[j] \in Message
    BY <1>2, <1>5, <1>9
  <2>2. CASE k = i
    BY <1>2, <1>3, <2>1, <2>2 DEF Room, Message, Separator
  <2>3. CASE k \in Replies \intersect Places
    BY <1>1, <2>1, <2>3 DEF HeadersDecide
  <2> QED
    BY <1>2, <1>5, <2>2, <2>3
<1>12. CutIsLast'
  <2> SUFFICES ASSUME NEW s \in selected', s.at \in Replies, s.text < thread[s.at].text
               PROVE  budget' = 0 /\ \A r \in selected' : r.at \in Replies => s.at <= r.at
    BY <1>1, <1>2 DEF CutIsLast
  <2>1. s \notin selected
    BY <1>1 DEF CutIsLast
  <2>2. s.at = i /\ s.text = n
    BY <1>4, <2>1
  <2>3. budget' = 0
    BY <1>2, <1>3, <1>4, <2>2 DEF Room, Message, Separator
  <2>4. ASSUME NEW r \in selected', r.at \in Replies PROVE i <= r.at
    <3>1. CASE r \in selected
      <4>1. r.at \in Places /\ r.at \notin left
        BY <3>1 DEF Places, Backwards
      <4>2. r.at \in Considered
        BY <2>4, <4>1 DEF Considered
      <4>3. i < r.at /\ r.at \in Int
        BY <1>2, <4>2
      <4> QED
        BY <1>2, <4>3
    <3>2. CASE r.at = i
      BY <1>2, <3>2
    <3> QED
      BY <1>4, <2>4, <3>1, <3>2
  <2> QED
    BY <2>2, <2>3, <2>4
<1> QED
  BY <1>1, <1>6, <1>7, <1>8, <1>10, <1>11, <1>12 DEF Ended

\* A reply that is passed over: every reply selected so far is later.
LEMMA PassKeeps ==
    ASSUME ContextInv, ConsiderReply, NEW i \in Latest(left), left' = left \ {i},
           Room(i, budget) <= 0, UNCHANGED <<budget, selected>>
    PROVE  ContextInv'
<1> USE DEF ContextInv
<1>1. /\ pc = "replies" /\ pc' = pc /\ thread' = thread
      /\ maxMessages' = maxMessages /\ maxChars' = maxChars
      /\ budget' = budget /\ selected' = selected /\ Places' = Places
  BY DEF ConsiderReply, Places
<1>2. /\ i \in Replies /\ i \in Active /\ i \in Int /\ i \notin Places
      /\ Active' = Active /\ Parents' = Parents /\ Replies' = Replies
      /\ left' \subseteq Replies'
      /\ Considered' = Considered \union {i}
      /\ \A j \in Considered : i < j /\ j \in Int
      /\ \A k \in left', j \in Considered' : k < j
      /\ thread[i] \in Message
      /\ \A j \in Active : thread[j] \in Message
  BY <1>1, LoopShape
<1>3. TypeOK' /\ InputOK' /\ Slots'
  BY <1>1, <1>2 DEF TypeOK, InputOK, Slots
<1>4. Start' /\ Backwards' /\ ParentRetained'
  BY <1>1, <1>2 DEF Start, Backwards, ParentRetained
<1>5. PassedOver'
  BY <1>1, <1>2 DEF PassedOver, Room
<1>6. HeadersDecide'
  <2> SUFFICES ASSUME NEW k \in Replies \intersect Places,
                      NEW j \in (Considered \union {i}) \ Places, k < j
               PROVE  thread[k].header < thread[j].header
    BY <1>1, <1>2 DEF HeadersDecide
  <2>1. k \in Considered
    BY DEF Considered, Backwards
  <2>2. j # i
    BY <1>2, <2>1
  <2> QED
    BY <1>1, <2>2 DEF HeadersDecide
<1>7. CutIsLast'
  BY <1>1, <1>2 DEF CutIsLast
<1> QED
  BY <1>1, <1>3, <1>4, <1>5, <1>6, <1>7 DEF Ended

\* The end of the loop changes nothing that was selected.
LEMMA FinishKeeps == ContextInv /\ Finish => ContextInv'
<1> SUFFICES ASSUME ContextInv, Finish PROVE ContextInv'
  OBVIOUS
<1>1. UNCHANGED <<thread, maxMessages, maxChars, left, budget, selected>> /\ ~More
      /\ pc = "replies" /\ pc' = "done"
  BY DEF Finish
<1>2. /\ Active' = Active /\ Parents' = Parents /\ Replies' = Replies
      /\ Places' = Places /\ Considered' = Considered /\ More' = More
  BY <1>1 DEF Active, Parents, Replies, Places, Considered, More
<1>3. TypeOK' /\ InputOK' /\ Slots' /\ Start' /\ Backwards' /\ Ended'
  BY <1>1, <1>2 DEF ContextInv, TypeOK, InputOK, Slots, Start, Backwards, Ended
<1>4. ParentRetained' /\ PassedOver' /\ HeadersDecide' /\ CutIsLast'
  BY <1>1, <1>2 DEF ContextInv, ParentRetained, PassedOver, HeadersDecide, CutIsLast, Room
<1> QED
  BY <1>3, <1>4 DEF ContextInv

\* ContextInv speaks of the variables of the module only.
LEMMA StutterKeeps == ContextInv /\ UNCHANGED vars => ContextInv'
  BY DEF vars, ContextInv, TypeOK, InputOK, Slots, Start, Backwards, Ended, ParentRetained,
         PassedOver, HeadersDecide, CutIsLast, Room, Active, Parents, Replies, Places,
         Considered, More

\* The inductive invariant holds for every thread and every bounds that ContextAssumption
\* admits.
THEOREM ContextInvariant == Spec => []ContextInv
<1>1. Init => ContextInv
  BY InitContext, ContextAssumption
<1>2. ContextInv /\ [Next]_vars => ContextInv'
  <2> SUFFICES ASSUME ContextInv, [Next]_vars PROVE ContextInv'
    OBVIOUS
  <2>1. CASE Filter
    BY <2>1, FilterKeeps
  <2>2. CASE SelectParent
    BY <2>2, ParentKeeps
  <2>3. CASE ConsiderReply
    BY <2>3, SelectKeeps, PassKeeps DEF ConsiderReply
  <2>4. CASE Finish
    BY <2>4, FinishKeeps
  <2>5. CASE UNCHANGED vars
    BY <2>5, StutterKeeps
  <2> QED
    BY <2>1, <2>2, <2>3, <2>4, <2>5 DEF Next
<1> QED
  BY <1>1, <1>2, PTL DEF Spec

\* BuildContext keeps the parent of the thread, unless it is deleted or blank.
THEOREM ParentTheorem == Spec => []ParentRetained
<1>1. ContextInv => ParentRetained
  BY DEF ContextInv
<1> QED
  BY <1>1, ContextInvariant, PTL

\* A reply is left out only when all places are taken or its header has no room.
THEOREM NothingLeftOutTheorem == Spec => []NothingLeftOut
<1>1. ContextInv => NothingLeftOut
  <2> SUFFICES ASSUME ContextInv, pc = "done", Cardinality(selected) # maxMessages,
                      NEW i \in Replies \ Places
               PROVE  Room(i, budget) <= 0
    BY DEF NothingLeftOut
  <2>1. left = {} \/ budget <= 0
    <3>1. ~(Cardinality(selected) >= maxMessages)
      BY FS_CardinalityType DEF ContextInv, Slots, TypeOK
    <3> QED
      BY <3>1, FS_CardinalityType DEF ContextInv, Ended, More, Slots, TypeOK
  <2>2. CASE left = {}
    BY <2>2 DEF ContextInv, PassedOver, Considered
  <2>3. CASE budget <= 0
    <3>1. thread[i] \in Message
      BY DEF ContextInv, TypeOK, Replies, Active
    <3> QED
      BY <2>3, <3>1 DEF ContextInv, TypeOK, Room, Message, Separator
  <2> QED
    BY <2>1, <2>2, <2>3
<1> QED
  BY <1>1, ContextInvariant, PTL

\* A reply is passed over for an older one only if its header is longer.
THEOREM LatestTheorem == Spec => []LatestAreSelected
<1>1. ContextInv => LatestAreSelected
  <2> SUFFICES ASSUME ContextInv, pc = "done", NEW i \in Replies \intersect Places,
                      NEW j \in Replies \ Places, i < j
               PROVE  thread[i].header < thread[j].header
    BY DEF LatestAreSelected
  <2>1. i \in Considered /\ i \in Int /\ j \in Int
    BY DEF ContextInv, Backwards, Considered, TypeOK, Replies, Active
  <2>2. j \in Considered
    BY <2>1 DEF ContextInv, Backwards, Considered
  <2> QED
    BY <2>2 DEF ContextInv, HeadersDecide
<1> QED
  BY <1>1, ContextInvariant, PTL

\* Only the oldest of the selected replies is cut.
THEOREM CutTheorem == Spec => []OnlyOldestIsCut
<1>1. ContextInv => OnlyOldestIsCut
  BY DEF ContextInv, CutIsLast, OnlyOldestIsCut
<1> QED
  BY <1>1, ContextInvariant, PTL

\* A context that is built is never empty.
THEOREM NeverEmptyTheorem == Spec => []NeverEmpty
<1>1. ContextInv => NeverEmpty
  <2> SUFFICES ASSUME ContextInv, pc = "done", selected = {} PROVE FALSE
    BY DEF NeverEmpty
  <2>1. budget = maxChars /\ Active # {} /\ Places = {} /\ maxChars >= 1 /\ maxMessages >= 1
    BY DEF ContextInv, Start, Places, InputOK
  <2>2. Replies # {} /\ Parents = {}
    BY <2>1 DEF ContextInv, ParentRetained, Replies
  <2>3. left = {}
    BY <2>1, FS_EmptySet DEF ContextInv, Ended, More, TypeOK
  <2>4. PICK i \in Replies : Room(i, maxChars) <= 0
    BY <2>1, <2>2, <2>3 DEF ContextInv, PassedOver, Considered
  <2>5. thread[i] \in Message /\ thread[i].header + Separator < maxChars \div 2
    BY DEF ContextInv, InputOK, TypeOK, Replies, Active
  <2>6. maxChars \in Nat /\ maxChars \div 2 \in 0..maxChars
    BY Half DEF ContextInv, TypeOK
  <2> QED
    BY <2>4, <2>5, <2>6 DEF Room, Message, Separator
<1> QED
  BY <1>1, ContextInvariant, PTL

-----------------------------------------------------------------------------
(***************************************************************************)
(* What the messages of a context add up to.  The sum is a fold over a     *)
(* set, that is, a function defined by recursion over the subsets of it;   *)
(* that there is such a function, and that a sum does not depend on the    *)
(* order in which a fold takes the members, is proved by looking at a      *)
(* smallest set for which it would not be so.                              *)
(***************************************************************************)

\* A family of finite sets that is not empty has a member of which no other is a part.
LEMMA SmallestSet ==
    ASSUME NEW D, NEW T, T \subseteq FiniteSubsetsOf(D), T # {}
    PROVE  \E s \in T : \A r \in T : r \subseteq s => r = s
<1>1. IsWellFoundedOn(StrictSubsetOrdering(D), FiniteSubsetsOf(D))
  BY FS_StrictSubsetOrderingWellFounded
<1>2. \E s \in T : \A r \in T : ~(<<r, s>> \in StrictSubsetOrdering(D))
  BY <1>1, WFMin
<1> QED
  BY <1>2 DEF StrictSubsetOrdering, FiniteSubsetsOf

\* What a selected message of a thread takes.
Taken(th, s) == th[s.at].header + s.text + Separator

Pick(S) == CHOOSE s \in S : TRUE

\* f gives every part of S its sum.
Sums(f, th, S) ==
    f = [r \in SUBSET S |-> IF r = {} THEN 0 ELSE Taken(th, Pick(r)) + f[r \ {Pick(r)}]]

SumsOf(th, S) == CHOOSE f : Sums(f, th, S)

Total(th, S) == SumsOf(th, S)[S]

\* The fold of the model is this sum.
LEMMA TotalIsSum == MapThenSumSet(Rendered, selected) = Total(thread, selected)
  BY DEF MapThenSumSet, MapThenFoldSet, Rendered, Total, SumsOf, Sums, Taken, Pick

\* The sums of two sets agree on what is a part of both.
LEMMA SumsAgree ==
    ASSUME NEW th, NEW f, NEW g, NEW S, NEW R, Sums(f, th, S), Sums(g, th, R),
           NEW s, s \subseteq S, s \subseteq R, IsFiniteSet(s)
    PROVE  f[s] = g[s]
<1> DEFINE T == {r \in SUBSET s : f[r] # g[r]}
<1> SUFFICES ASSUME T # {} PROVE FALSE
  OBVIOUS
<1>1. T \subseteq FiniteSubsetsOf(s)
  BY FS_Subset DEF FiniteSubsetsOf
<1>2. PICK r \in T : \A q \in T : q \subseteq r => q = r
  <2> HIDE DEF T
  <2> QED
    BY <1>1, SmallestSet
<1>3. r \subseteq S /\ r \subseteq R /\ f[r] # g[r]
  OBVIOUS
<1>4. f[r] = IF r = {} THEN 0 ELSE Taken(th, Pick(r)) + f[r \ {Pick(r)}]
  BY <1>3 DEF Sums
<1>5. g[r] = IF r = {} THEN 0 ELSE Taken(th, Pick(r)) + g[r \ {Pick(r)}]
  BY <1>3 DEF Sums
<1>6. r # {}
  BY <1>3, <1>4, <1>5
<1>7. Pick(r) \in r
  BY <1>6 DEF Pick
<1>8. r \ {Pick(r)} \notin T
  BY <1>2, <1>7
<1>9. f[r \ {Pick(r)}] = g[r \ {Pick(r)}]
  BY <1>8
<1> QED
  BY <1>3, <1>4, <1>5, <1>6, <1>9

\* Every finite set has its sums.
LEMMA SumsExist ==
    ASSUME NEW th, NEW D, IsFiniteSet(D)
    PROVE  \E f : Sums(f, th, D)
<1> DEFINE T == {s \in SUBSET D : ~ \E f : Sums(f, th, s)}
<1> SUFFICES ASSUME T # {} PROVE FALSE
  OBVIOUS
<1>1. T \subseteq FiniteSubsetsOf(D)
  BY FS_Subset DEF FiniteSubsetsOf
<1>2. PICK S \in T : \A r \in T : r \subseteq S => r = S
  <2> HIDE DEF T
  <2> QED
    BY <1>1, SmallestSet
<1>3. \A r \in SUBSET S : r # S => Sums(SumsOf(th, r), th, r)
  BY <1>2 DEF SumsOf
<1> DEFINE rest(r) == r \ {Pick(r)}
           h == [r \in SUBSET S |-> IF r = {} THEN 0 ELSE Taken(th, Pick(r)) + Total(th, rest(r))]
<1>4. ASSUME NEW r \in SUBSET S, r # {}
      PROVE  h[r] = Taken(th, Pick(r)) + h[rest(r)]
  <2>1. Pick(r) \in r
    BY <1>4 DEF Pick
  <2> DEFINE q == rest(r)
  <2>2. q \in SUBSET S /\ q # S /\ IsFiniteSet(q)
    BY <2>1, <1>1, <1>2, FS_Subset DEF FiniteSubsetsOf
  <2>3. Sums(SumsOf(th, q), th, q)
    BY <1>3, <2>2
  <2>4. Total(th, q) = IF q = {} THEN 0 ELSE Taken(th, Pick(q)) + SumsOf(th, q)[rest(q)]
    BY <2>3 DEF Total, Sums
  <2>5. q # {} => SumsOf(th, q)[rest(q)] = Total(th, rest(q))
    <3> SUFFICES ASSUME q # {} PROVE SumsOf(th, q)[rest(q)] = Total(th, rest(q))
      OBVIOUS
    <3>1. Pick(q) \in q
      BY DEF Pick
    <3> DEFINE p == rest(q)
    <3>2. p \subseteq q /\ p \in SUBSET S /\ p # S /\ IsFiniteSet(p)
      BY <2>2, <3>1, FS_Subset
    <3>3. Sums(SumsOf(th, p), th, p)
      BY <1>3, <3>2
    <3> HIDE DEF p, q
    <3>4. SumsOf(th, q)[p] = SumsOf(th, p)[p]
      BY <2>3, <3>2, <3>3, SumsAgree
    <3> QED
      BY <3>4 DEF Total, p
  <2>6. Total(th, q) = h[q]
    BY <2>2, <2>4, <2>5
  <2> QED
    BY <2>6, <1>4
<1>5. Sums(h, th, S)
  <2>1. \A r \in SUBSET S : h[r] = IF r = {} THEN 0 ELSE Taken(th, Pick(r)) + h[rest(r)]
    BY <1>4
  <2>2. h = [r \in SUBSET S |-> h[r]]
    OBVIOUS
  <2> HIDE DEF h
  <2>3. h = [r \in SUBSET S |-> IF r = {} THEN 0 ELSE Taken(th, Pick(r)) + h[r \ {Pick(r)}]]
    BY <2>1, <2>2
  <2> QED
    BY <2>3 DEF Sums
<1> QED
  BY <1>2, <1>5

\* A sum is nothing for no message, and else what one of them takes and the rest.
LEMMA TotalStep ==
    ASSUME NEW th, NEW S, IsFiniteSet(S)
    PROVE  Total(th, S) = IF S = {} THEN 0 ELSE Taken(th, Pick(S)) + Total(th, S \ {Pick(S)})
<1>1. Sums(SumsOf(th, S), th, S)
  BY SumsExist DEF SumsOf
<1> DEFINE R == S \ {Pick(S)}
<1>2. R \subseteq S /\ IsFiniteSet(R)
  BY FS_Subset
<1>3. Sums(SumsOf(th, R), th, R)
  BY <1>2, SumsExist DEF SumsOf
<1>4. SumsOf(th, S)[R] = Total(th, R)
  <2> HIDE DEF R
  <2> QED
    BY <1>1, <1>2, <1>3, SumsAgree DEF Total
<1>5. SumsOf(th, S)[S] = IF S = {} THEN 0 ELSE Taken(th, Pick(S)) + SumsOf(th, S)[R]
  BY <1>1 DEF Sums
<1> QED
  BY <1>4, <1>5 DEF Total

\* Which of the messages comes last in a sum makes no difference.
LEMMA TotalWithout ==
    ASSUME NEW th, NEW D, IsFiniteSet(D), \A s \in D : Taken(th, s) \in Nat
    PROVE  /\ Total(th, D) \in Nat
           /\ \A x \in D : Total(th, D) = Taken(th, x) + Total(th, D \ {x})
<1> DEFINE Good(S) == /\ Total(th, S) \in Nat
                      /\ \A x \in S : Total(th, S) = Taken(th, x) + Total(th, S \ {x})
           T == {S \in SUBSET D : ~Good(S)}
<1> SUFFICES ASSUME T # {} PROVE FALSE
  OBVIOUS
<1>1. T \subseteq FiniteSubsetsOf(D)
  BY FS_Subset DEF FiniteSubsetsOf
<1>2. PICK S \in T : \A R \in T : R \subseteq S => R = S
  <2> HIDE DEF T
  <2> QED
    BY <1>1, SmallestSet
<1>3. \A R \in SUBSET S : R # S => Good(R)
  BY <1>2
<1>4. IsFiniteSet(S) /\ S \subseteq D /\ ~Good(S)
  BY <1>1, <1>2 DEF FiniteSubsetsOf
<1> DEFINE c == Pick(S)
<1>5. Total(th, S) = IF S = {} THEN 0 ELSE Taken(th, c) + Total(th, S \ {c})
  BY <1>4, TotalStep
<1>6. S # {}
  BY <1>4, <1>5
<1>7. c \in S
  BY <1>6 DEF Pick
<1> HIDE DEF c
<1>8. Good(S \ {c}) /\ Taken(th, c) \in Nat
  BY <1>3, <1>4, <1>7
<1>9. ASSUME NEW x \in S, x # c
      PROVE  Total(th, S) = Taken(th, x) + Total(th, S \ {x})
  <2>1. Good(S \ {x}) /\ Taken(th, x) \in Nat
    BY <1>3, <1>4
  <2>2. Total(th, S \ {c}) = Taken(th, x) + Total(th, (S \ {c}) \ {x})
    BY <1>8, <1>9
  <2>3. Total(th, S \ {x}) = Taken(th, c) + Total(th, (S \ {x}) \ {c})
    BY <2>1, <1>7, <1>9
  <2>4. (S \ {x}) \ {c} = (S \ {c}) \ {x}
    OBVIOUS
  <2>5. Good((S \ {x}) \ {c})
    BY <1>3, <1>7
  <2> QED
    BY <1>5, <1>6, <1>8, <2>1, <2>2, <2>3, <2>4, <2>5
<1>10. Total(th, S) \in Nat
  BY <1>5, <1>6, <1>8
<1>11. \A x \in S : Total(th, S) = Taken(th, x) + Total(th, S \ {x})
  BY <1>5, <1>6, <1>9
<1> QED
  BY <1>4, <1>10, <1>11

\* What has been taken from the budget is what the selected messages take: headers,
\* texts and separators.
Accounts == budget + Total(thread, selected) = maxChars

\* Headers have lengths.
LEMMA HeadersOK == ASSUME TypeOK PROVE \A i \in Active : thread[i].header \in Nat
<1>1. \A i \in Active : thread[i] \in Message
  BY DEF TypeOK, Active
<1> QED
  BY <1>1 DEF Message

\* A sum with a message more.
LEMMA OneMore ==
    ASSUME ContextInv, NEW i \in Active, i \notin Places, NEW n \in Nat,
           selected' = selected \union {[at |-> i, text |-> n]}, thread' = thread
    PROVE  /\ Total(thread, selected) \in Nat
           /\ Total(thread, selected)' =
                 Total(thread, selected) + (thread[i].header + n + Separator)
<1> DEFINE s == [at |-> i, text |-> n]
<1>1. s.at = i /\ s.text = n
  OBVIOUS
<1> HIDE DEF s
<1>2. s \notin selected /\ selected' = selected \union {s}
  BY <1>1 DEF Places, s
<1>3. IsFiniteSet(selected) /\ IsFiniteSet(selected \union {s})
  BY FS_AddElement DEF ContextInv, Slots
<1>4. \A r \in selected : r.at \in Active /\ r.text \in Nat
  BY DEF ContextInv, TypeOK
<1>5. \A j \in Active : thread[j].header \in Nat
  BY HeadersOK DEF ContextInv
<1>6. \A r \in selected \union {s} : Taken(thread, r) \in Nat
  BY <1>1, <1>4, <1>5 DEF Taken, Separator
<1>7. (selected \union {s}) \ {s} = selected
  BY <1>2
<1>8. /\ Total(thread, selected \union {s}) = Taken(thread, s) + Total(thread, selected)
      /\ Total(thread, selected) \in Nat
  BY <1>3, <1>6, <1>7, TotalWithout
<1>9. Total(thread, selected)' = Total(thread, selected \union {s})
  BY <1>2
<1>10. Taken(thread, s) = thread[i].header + n + Separator /\ Taken(thread, s) \in Nat
  BY <1>1, <1>6 DEF Taken
<1> QED
  BY <1>8, <1>9, <1>10

\* A selection is paid for from the budget.
LEMMA SelectionIsPaid ==
    ASSUME ContextInv, Accounts, NEW i \in Active, i \notin Places, NEW share \in Nat,
           share <= budget, Room(i, share) > 0, Select(i, share),
           thread' = thread, maxChars' = maxChars
    PROVE  Accounts'
<1>1. TypeOK /\ Slots
  BY DEF ContextInv
<1>2. PICK n \in Nat \ {0} :
          /\ selected' = selected \union {[at |-> i, text |-> n]}
          /\ budget' = budget - (thread[i].header + n + Separator)
  BY <1>1, Selecting
<1>3. /\ Total(thread, selected) \in Nat
      /\ Total(thread, selected)' =
            Total(thread, selected) + (thread[i].header + n + Separator)
  BY <1>2, OneMore
<1>4. thread[i].header \in Nat /\ budget \in Int /\ maxChars \in Int
  BY <1>1, HeadersOK DEF TypeOK
<1> QED
  BY <1>2, <1>3, <1>4 DEF Accounts, Separator

\* The sum of the header, text and separator of every selected message never exceeds the
\* characters that are allowed, nor the number of messages theirs.
THEOREM FitsTheorem == Spec => []ContextFits
<1>1. Init => Accounts
  <2> SUFFICES ASSUME Init PROVE Accounts
    OBVIOUS
  <2>1. PICK b \in Bounds : maxMessages = b[1] /\ maxChars = b[2]
    BY DEF Init
  <2>2. maxChars \in Nat
    BY <2>1, ContextAssumption
  <2>3. Total(thread, selected) = 0
    BY FS_EmptySet, TotalStep DEF Init
  <2> QED
    BY <2>2, <2>3 DEF Init, Accounts
<1>2. ContextInv /\ Accounts /\ [Next]_vars => Accounts'
  <2> SUFFICES ASSUME ContextInv, Accounts, [Next]_vars PROVE Accounts'
    OBVIOUS
  <2>1. CASE UNCHANGED <<thread, maxChars, budget, selected>>
    BY <2>1 DEF Accounts
  <2>2. CASE SelectParent
    <3> SUFFICES ASSUME NEW i \in Parents, Room(i, ParentShare) > 0, Select(i, ParentShare)
                 PROVE  Accounts'
      BY <2>1, <2>2 DEF SelectParent
    <3>2. i \in Active /\ i \notin Places
      BY <2>2 DEF ContextInv, Start, SelectParent, Parents, Places
    <3>3. budget \in Nat /\ ParentShare \in Nat /\ ParentShare <= budget
      <4>1. budget \in Nat
        BY DEF ContextInv, TypeOK
      <4> QED
        BY <4>1, Half DEF ParentShare
    <3> QED
      BY <2>2, <3>2, <3>3, SelectionIsPaid DEF SelectParent
  <2>3. CASE ConsiderReply
    <3>1. PICK i \in Latest(left) :
              /\ left' = left \ {i}
              /\ \/ Room(i, budget) > 0 /\ Select(i, budget)
                 \/ UNCHANGED <<budget, selected>>
      BY <2>3 DEF ConsiderReply
    <3>2. pc = "replies" /\ thread' = thread /\ maxChars' = maxChars
      BY <2>3 DEF ConsiderReply
    <3>3. i \in Active /\ i \notin Places
      BY <3>1, <3>2, LoopShape
    <3>4. budget \in Nat
      BY DEF ContextInv, TypeOK
    <3>5. CASE Room(i, budget) > 0 /\ Select(i, budget)
      BY <3>2, <3>3, <3>4, <3>5, SelectionIsPaid
    <3> QED
      BY <2>1, <3>1, <3>2, <3>5
  <2> QED
    BY <2>1, <2>2, <2>3 DEF Next, vars, Filter, Finish
<1>3. ContextInv /\ Accounts => ContextFits
  <2> SUFFICES ASSUME ContextInv, Accounts PROVE ContextFits
    OBVIOUS
  <2>1. IsFiniteSet(selected) /\ \A s \in selected : Taken(thread, s) \in Nat
    <3>1. \A s \in selected : s.at \in Active /\ s.text \in Nat
      BY DEF ContextInv, TypeOK
    <3> QED
      BY <3>1, HeadersOK DEF ContextInv, Slots, Taken, Separator
  <2>2. Total(thread, selected) \in Nat
    BY <2>1, TotalWithout
  <2>3. budget \in Nat /\ maxChars \in Nat
    BY DEF ContextInv, TypeOK
  <2>4. Total(thread, selected) <= maxChars
    BY <2>2, <2>3 DEF Accounts
  <2> QED
    BY <2>4, TotalIsSum DEF ContextFits, ContextInv, Slots
<1> QED
  BY <1>1, <1>2, <1>3, ContextInvariant, PTL DEF Spec
=============================================================================
