-------------------------- MODULE ThreadSync_proofs --------------------------
(***************************************************************************)
(* Theorems about ThreadSync, for every number of messages and files, any  *)
(* sharing of files, every size of a page and every batch.                 *)
(***************************************************************************)
EXTENDS ThreadSync, FiniteSetTheorems, SequenceTheorems, TLAPS

(***************************************************************************)
(* What a transaction computes.  It is a fold over a sequence, that is, a  *)
(* function defined by recursion over the sets of its places; that there   *)
(* is such a function is proved by looking at a smallest set that has      *)
(* none.                                                                   *)
(***************************************************************************)

\* A family of finite sets that is not empty has a member of which no other is a part.
LEMMA SmallestSet ==
    ASSUME NEW D, NEW T, T \subseteq FiniteSubsetsOf(D), T # {}
    PROVE  \E s \in T : \A r \in T : r \subseteq s => r = s
<1>1. IsWellFoundedOn(StrictSubsetOrdering(D), FiniteSubsetsOf(D))
  BY FS_StrictSubsetOrderingWellFounded
<1>2. \E s \in T : \A r \in T : ~(<<r, s>> \in StrictSubsetOrdering(D))
  BY <1>1, WFMin
<1> QED
  BY <1>2 DEF StrictSubsetOrdering, FiniteSubsetsOf

\* Induction over the places of a sequence: a set that has 0, and with every number
\* below n the next one, has them all.
LEMMA UpTo ==
    ASSUME NEW n \in Nat, NEW S, 0 \in S, \A k \in 0 .. n-1 : k \in S => k + 1 \in S
    PROVE  \A k \in 0..n : k \in S
<1> DEFINE T == {0..k : k \in (0..n) \ S}
<1> SUFFICES ASSUME NEW j \in 0..n, j \notin S PROVE FALSE
  OBVIOUS
<1>1. T \subseteq FiniteSubsetsOf(0..n)
  <2>1. \A k \in 0..n : (0..k) \in SUBSET (0..n) /\ IsFiniteSet(0..k)
    BY FS_Interval
  <2> QED
    BY <2>1 DEF FiniteSubsetsOf
<1>2. PICK s \in T : \A r \in T : r \subseteq s => r = s
  <2>1. T # {}
    OBVIOUS
  <2> HIDE DEF T
  <2> QED
    BY <1>1, <2>1, SmallestSet
<1>3. PICK k \in (0..n) \ S : s = 0..k
  OBVIOUS
<1>4. k # 0 /\ k - 1 \in 0 .. n-1 /\ k - 1 \in 0..n
  OBVIOUS
<1>5. k - 1 \notin S
  BY <1>3, <1>4
<1>6. (0 .. k-1) \in T
  BY <1>4, <1>5
<1>7. (0 .. k-1) \subseteq s /\ k \in s /\ k \notin 0 .. k-1
  BY <1>3
<1> QED
  BY <1>2, <1>6, <1>7

\* The greatest member of a set of places.
LEMMA Greatest ==
    ASSUME NEW n \in Nat, NEW S \in SUBSET (1..n), S # {}
    PROVE  Max(S) \in S /\ \A k \in S : Max(S) >= k
<1> DEFINE T == {k..n : k \in S}
<1>1. T \subseteq FiniteSubsetsOf(1..n)
  BY FS_Interval DEF FiniteSubsetsOf
<1>2. PICK s \in T : \A r \in T : r \subseteq s => r = s
  <2>1. T # {}
    OBVIOUS
  <2> HIDE DEF T
  <2> QED
    BY <1>1, <2>1, SmallestSet
<1>3. PICK m \in S : s = m..n
  OBVIOUS
<1>4. ASSUME NEW k \in S PROVE m >= k
  <2>1. k <= n /\ m <= n /\ k \in Int /\ m \in Int /\ (k..n) \in T
    OBVIOUS
  <2>2. k > m => (k..n) \subseteq s /\ m \in s /\ m \notin k..n
    BY <1>3, <2>1
  <2> HIDE DEF T
  <2> QED
    BY <1>2, <2>1, <2>2
<1> QED
  BY <1>3, <1>4 DEF Max

\* A number that is at least every member is the greatest.
LEMMA IsGreatest ==
    ASSUME NEW S \in SUBSET Int, NEW n \in S, \A k \in S : n >= k
    PROVE  Max(S) = n
<1>1. \A k \in S : (\A j \in S : k >= j) => k = n
  OBVIOUS
<1> QED
  BY <1>1 DEF Max

\* f gives what is left of tables t after the inputs at the places in S.
Folds(f, t, inputs, S) ==
    f = [r \in SUBSET S |->
            IF r = {} THEN t ELSE ApplyInput(f[r \ {Max(r)}], inputs[Max(r)])]

FoldOf(t, inputs, S) == CHOOSE f : Folds(f, t, inputs, S)

FoldValue(t, inputs, S) == FoldOf(t, inputs, S)[S]

\* The tables after the first k inputs.
After(t, inputs, k) == FoldValue(t, inputs, 1..k)

\* The fold of the model is this one.
LEMMA FoldIsAfter ==
    ASSUME NEW t, NEW inputs \in Seq(Inputs)
    PROVE  FoldLeft(ApplyInput, t, inputs) = After(t, inputs, Len(inputs))
<1>1. DOMAIN inputs = 1..Len(inputs)
  OBVIOUS
<1> QED
  BY <1>1 DEF FoldLeft, MapThenFoldSet, After, FoldValue, FoldOf, Folds

\* Folds over two sets agree on what is a part of both.
LEMMA FoldsAgree ==
    ASSUME NEW t, NEW inputs, NEW f, NEW g, NEW S, NEW R,
           Folds(f, t, inputs, S), Folds(g, t, inputs, R),
           NEW n \in Nat, NEW s \in SUBSET (1..n), s \subseteq S, s \subseteq R
    PROVE  f[s] = g[s]
<1> DEFINE T == {r \in SUBSET s : f[r] # g[r]}
<1> SUFFICES ASSUME T # {} PROVE FALSE
  OBVIOUS
<1>1. T \subseteq FiniteSubsetsOf(s)
  <2>1. IsFiniteSet(1..n)
    BY FS_Interval
  <2>2. \A r \in SUBSET s : IsFiniteSet(r)
    BY <2>1, FS_Subset
  <2> QED
    BY <2>2 DEF FiniteSubsetsOf
<1>2. PICK r \in T : \A q \in T : q \subseteq r => q = r
  <2> HIDE DEF T
  <2> QED
    BY <1>1, SmallestSet
<1>3. r \subseteq S /\ r \subseteq R /\ f[r] # g[r] /\ r \in SUBSET (1..n)
  OBVIOUS
<1>4. f[r] = IF r = {} THEN t ELSE ApplyInput(f[r \ {Max(r)}], inputs[Max(r)])
  BY <1>3 DEF Folds
<1>5. g[r] = IF r = {} THEN t ELSE ApplyInput(g[r \ {Max(r)}], inputs[Max(r)])
  BY <1>3 DEF Folds
<1>6. r # {}
  BY <1>3, <1>4, <1>5
<1>7. Max(r) \in r
  BY <1>3, <1>6, Greatest
<1>8. r \ {Max(r)} \notin T
  BY <1>2, <1>7
<1>9. f[r \ {Max(r)}] = g[r \ {Max(r)}]
  BY <1>8
<1> QED
  BY <1>3, <1>4, <1>5, <1>6, <1>9

\* Every set of places has a fold.
LEMMA FoldsExist ==
    ASSUME NEW t, NEW inputs, NEW n \in Nat, NEW D \in SUBSET (1..n)
    PROVE  \E f : Folds(f, t, inputs, D)
<1> DEFINE T == {s \in SUBSET D : ~ \E f : Folds(f, t, inputs, s)}
<1> SUFFICES ASSUME T # {} PROVE FALSE
  OBVIOUS
<1>1. T \subseteq FiniteSubsetsOf(D)
  <2>1. IsFiniteSet(1..n)
    BY FS_Interval
  <2>2. \A r \in SUBSET D : IsFiniteSet(r)
    BY <2>1, FS_Subset
  <2> QED
    BY <2>2 DEF FiniteSubsetsOf
<1>2. PICK S \in T : \A r \in T : r \subseteq S => r = S
  <2> HIDE DEF T
  <2> QED
    BY <1>1, SmallestSet
<1>3. \A r \in SUBSET S : r # S => Folds(FoldOf(t, inputs, r), t, inputs, r)
  BY <1>2 DEF FoldOf
<1> DEFINE rest(r) == r \ {Max(r)}
           step(v, r) == ApplyInput(v, inputs[Max(r)])
           h == [r \in SUBSET S |->
                    IF r = {} THEN t ELSE step(FoldValue(t, inputs, rest(r)), r)]
<1>4. ASSUME NEW r \in SUBSET S, r # {}
      PROVE  h[r] = step(h[rest(r)], r)
  <2>1. Max(r) \in r
    BY <1>4, Greatest
  <2> DEFINE q == rest(r)
  <2>2. q \in SUBSET S /\ q # S /\ q \in SUBSET (1..n)
    BY <2>1
  <2>3. Folds(FoldOf(t, inputs, q), t, inputs, q)
    BY <1>3, <2>2
  <2>4. FoldValue(t, inputs, q) =
            IF q = {} THEN t ELSE step(FoldOf(t, inputs, q)[rest(q)], q)
    BY <2>3 DEF FoldValue, Folds
  <2>5. q # {} => FoldOf(t, inputs, q)[rest(q)] = FoldValue(t, inputs, rest(q))
    <3> SUFFICES ASSUME q # {}
                 PROVE  FoldOf(t, inputs, q)[rest(q)] = FoldValue(t, inputs, rest(q))
      OBVIOUS
    <3>1. Max(q) \in q
      BY <2>2, Greatest
    <3> DEFINE p == rest(q)
    <3>2. p \subseteq q /\ p \in SUBSET S /\ p # S /\ p \in SUBSET (1..n)
      BY <2>2, <3>1
    <3>3. Folds(FoldOf(t, inputs, p), t, inputs, p)
      BY <1>3, <3>2
    <3> HIDE DEF p, q
    <3> DEFINE f == FoldOf(t, inputs, q)
               g == FoldOf(t, inputs, p)
    <3>4. f[p] = g[p]
      <4>1. Folds(f, t, inputs, q) /\ Folds(g, t, inputs, p)
        BY <2>3, <3>3
      <4> HIDE DEF f, g
      <4> QED
        BY <3>2, <4>1, FoldsAgree
    <3> QED
      BY <3>4 DEF FoldValue, p
  <2>6. FoldValue(t, inputs, q) = h[q]
    BY <2>2, <2>4, <2>5
  <2> QED
    BY <2>6, <1>4
<1>5. Folds(h, t, inputs, S)
  <2>1. \A r \in SUBSET S : h[r] = IF r = {} THEN t ELSE step(h[rest(r)], r)
    BY <1>4
  <2>2. h = [r \in SUBSET S |-> h[r]]
    OBVIOUS
  <2> HIDE DEF h
  <2>3. h = [r \in SUBSET S |-> IF r = {} THEN t
                                ELSE ApplyInput(h[r \ {Max(r)}], inputs[Max(r)])]
    BY <2>1, <2>2
  <2> QED
    BY <2>3 DEF Folds
<1> QED
  BY <1>2, <1>5

\* What is left after k inputs, for every k: the tables at first, then input by input.
InputByInput(t, inputs) ==
    /\ After(t, inputs, 0) = t
    /\ \A k \in Nat : After(t, inputs, k + 1) =
                          ApplyInput(After(t, inputs, k), inputs[k + 1])

\* So the loop of ApplySlackMessages goes: the fold has these steps.
LEMMA OneByOne ==
    ASSUME NEW t, NEW inputs
    PROVE  InputByInput(t, inputs)
<1>1. \A k \in Nat : Folds(FoldOf(t, inputs, 1..k), t, inputs, 1..k)
  BY FoldsExist DEF FoldOf
<1>2. After(t, inputs, 0) = t
  <2> DEFINE R == 1..0
  <2>1. R = {} /\ Folds(FoldOf(t, inputs, R), t, inputs, R)
    BY <1>1
  <2> HIDE DEF R
  <2> QED
    BY <2>1 DEF After, FoldValue, Folds, R
<1>3. ASSUME NEW k \in Nat
      PROVE  After(t, inputs, k + 1) = ApplyInput(After(t, inputs, k), inputs[k + 1])
  <2> DEFINE S == 1 .. k+1
             R == 1..k
             f == FoldOf(t, inputs, S)
  <2>1. Folds(f, t, inputs, S) /\ Folds(FoldOf(t, inputs, R), t, inputs, R)
    BY <1>1
  <2>2. S \in SUBSET Int /\ k + 1 \in S /\ \A j \in S : k + 1 >= j
    OBVIOUS
  <2>3. Max(S) = k + 1
    <3> HIDE DEF S
    <3> QED
      BY <2>2, IsGreatest
  <2>4. S \ {k + 1} = R /\ S # {} /\ R \subseteq S /\ R \in SUBSET (1..k)
    OBVIOUS
  <2> HIDE DEF S, R
  <2>5. f[S] = ApplyInput(f[R], inputs[k + 1])
    BY <2>1, <2>3, <2>4 DEF Folds
  <2>6. f[R] = FoldOf(t, inputs, R)[R]
    BY <2>1, <2>4, FoldsAgree
  <2> QED
    BY <2>5, <2>6 DEF After, FoldValue, S, R
<1> QED
  BY <1>2, <1>3 DEF InputByInput

(***************************************************************************)
(* What one input does to the tables.                                      *)
(***************************************************************************)

MessageRows == [deleted : BOOLEAN, text : 0..NumTexts]

AttachmentRows == [message : Messages, meta : Metadata, removed : BOOLEAN]

MessageTables == [Messages -> MessageRows \union {NoRow}]

AttachmentTables == [Files -> AttachmentRows \union {NoRow}]

\* The files that a message shows.
FilesOf(atts, m) == {f \in Existing(atts, m) : ~atts[f].removed}

\* What is shown of a message by tables that are being written.
ShownIn(t, m) ==
    IF t.messages[m] = NoRow THEN NoRow
    ELSE Content(t.messages[m].deleted, t.messages[m].text,
                 [f \in FilesOf(t.attachments, m) |-> t.attachments[f].meta])

\* The rows are rows, a file belongs to a message that may carry it, and the thread row
\* names the newest message and the parent.
RowsOK(t) ==
    /\ t.messages \in MessageTables
    /\ t.attachments \in AttachmentTables
    /\ \A f \in Files : t.attachments[f] # NoRow => t.attachments[f].message \in Carriers[f]
    /\ t.last \in {m \in Messages : t.messages[m] # NoRow} \union {0}
    /\ \A m \in Messages : t.messages[m] # NoRow => t.last >= m
    /\ t.parent = IF t.messages[1] # NoRow THEN 1 ELSE 0
    /\ DOMAIN t.applied = Messages
    /\ t.changed \in BOOLEAN

\* A message shows what was applied to it.
ShowsApplied(t) == \A m \in Messages : Exclusive(m) => ShownIn(t, m) = t.applied[m]

TablesInv(t) == RowsOK(t) /\ ShowsApplied(t)

\* What a message that is posted has.
LEMMA PostShape ==
    ASSUME NEW m, NEW post \in Posts(m)
    PROVE  \E text \in 1..NumTexts, files \in FileLists(m) : post = Content(FALSE, text, files)
  BY DEF Posts, Content

\* An input names a message and has a content with files that the message may carry.
LEMMA InputShape ==
    ASSUME NEW input \in Inputs
    PROVE  /\ input = <<input[1], input[2]>>
           /\ input[1] \in Messages
           /\ input[2].deleted \in BOOLEAN /\ input[2].text \in 0..NumTexts
           /\ DOMAIN input[2].files \subseteq Carried(input[1])
           /\ \A f \in DOMAIN input[2].files : input[2].files[f] \in Metadata
           /\ input[2].files = [f \in DOMAIN input[2].files |-> input[2].files[f]]
           /\ input[2] = Content(input[2].deleted, input[2].text, input[2].files)
           /\ input[2] # NoRow
<1>1. PICK m \in Messages : input \in {m} \X (Posts(m) \union {Deletion})
  BY DEF Inputs
<1>2. input = <<input[1], input[2]>> /\ input[1] = m /\ input[2] \in Posts(m) \union {Deletion}
  BY <1>1
<1>3. PICK S \in SUBSET Carried(m) :
          \E deleted \in BOOLEAN, text \in 0..NumTexts, files \in [S -> Metadata] :
              input[2] = Content(deleted, text, files)
  <2>1. CASE input[2] = Deletion
    <3> DEFINE none == [f \in {} |-> 0]
    <3>1. none \in [{} -> Metadata] /\ {} \in SUBSET Carried(m)
      OBVIOUS
    <3>2. 0 \in 0..NumTexts /\ TRUE \in BOOLEAN
      BY SyncAssumption
    <3>3. input[2] = Content(TRUE, 0, none)
      BY <2>1 DEF Deletion
    <3> HIDE DEF none
    <3> QED
      BY <3>1, <3>2, <3>3
  <2>2. CASE input[2] \in Posts(m)
    <3>1. PICK text \in 1..NumTexts, files \in FileLists(m) :
              input[2] = Content(FALSE, text, files)
      BY <2>2, PostShape
    <3>2. PICK S \in SUBSET Carried(m) : files \in [S -> Metadata]
      BY DEF FileLists
    <3>3. text \in 0..NumTexts /\ FALSE \in BOOLEAN
      BY SyncAssumption
    <3> QED
      BY <3>1, <3>2, <3>3
  <2> QED
    BY <1>2, <2>1, <2>2
<1>4. PICK deleted \in BOOLEAN, text \in 0..NumTexts, files \in [S -> Metadata] :
          input[2] = Content(deleted, text, files)
  BY <1>3
<1>5. /\ input[2].deleted = deleted /\ input[2].text = text /\ input[2].files = files
      /\ DOMAIN files = S
  BY <1>4 DEF Content
<1>6. input[2] # NoRow
  <2>1. S \in SUBSET Files
    BY DEF Carried
  <2>2. NoRow \notin [deleted : BOOLEAN, text : 0..NumTexts, files : [S -> Metadata]]
    BY <2>1, SyncAssumption
  <2> QED
    BY <1>4, <2>2 DEF Content
<1> QED
  BY <1>1, <1>2, <1>4, <1>5, <1>6

\* Tables u are t after one input.
InputEffect(t, input, u) ==
    /\ u.messages = [t.messages EXCEPT ![input[1]] = MessageRow(input[2])]
    /\ u.attachments = ApplyAttachments(t.attachments, input[1], input[2].files)
    /\ u.changed = (\/ t.changed
                    \/ t.messages[input[1]] # MessageRow(input[2])
                    \/ AttachmentsChange(t.attachments, input[1], input[2].files))
    /\ u.last = Newest(t.last, input[1])
    /\ u.parent = IF input[1] = 1 THEN 1 ELSE t.parent
    /\ u.applied = [t.applied EXCEPT ![input[1]] = input[2]]

\* The fields of what an input leaves.
LEMMA InputFields ==
    ASSUME NEW t, NEW input
    PROVE  InputEffect(t, input, ApplyInput(t, input))
  BY DEF ApplyInput, InputEffect

\* A list of files that a message may carry.
ListOK(files, m) ==
    DOMAIN files \subseteq Carried(m) /\ \A f \in DOMAIN files : files[f] \in Metadata

\* The row of a file after the files of m were applied: it is listed, has been dropped,
\* or is as before.
FileEffect(atts, m, files, f, row) ==
    /\ f \in DOMAIN files =>
          /\ row \in AttachmentRows
          /\ row.message = m /\ row.meta = files[f] /\ row.removed = FALSE
    /\ f \in Dropped(atts, m, files) =>
          /\ f \notin DOMAIN files /\ atts[f] \in AttachmentRows
          /\ atts[f].message = m /\ atts[f].removed = FALSE
          /\ row \in AttachmentRows /\ row.message = m /\ row.removed = TRUE
    /\ f \notin DOMAIN files /\ f \notin Dropped(atts, m, files) => row = atts[f]

\* That is what the rows are.
LEMMA FileRow ==
    ASSUME NEW atts \in AttachmentTables, NEW m \in Messages,
           NEW files, ListOK(files, m), NEW f \in Files
    PROVE  FileEffect(atts, m, files, f, ApplyAttachments(atts, m, files)[f])
<1> DEFINE row == ApplyAttachments(atts, m, files)[f]
<1>1. row = CASE f \in DOMAIN files            -> Row(m, files[f])
              [] f \in Dropped(atts, m, files) -> [atts[f] EXCEPT !.removed = TRUE]
              [] OTHER                         -> atts[f]
  BY DEF ApplyAttachments, AttachmentTables
<1> HIDE DEF row
<1>2. f \in DOMAIN files => row = Row(m, files[f])
  BY <1>1 DEF Dropped
<1>3. f \in Dropped(atts, m, files) =>
          /\ f \notin DOMAIN files /\ atts[f] \in AttachmentRows
          /\ atts[f].message = m /\ atts[f].removed = FALSE
  BY DEF Dropped, Existing, AttachmentRows, AttachmentTables
<1>4. f \in Dropped(atts, m, files) => row = [atts[f] EXCEPT !.removed = TRUE]
  BY <1>1, <1>3
<1>5. f \notin DOMAIN files /\ f \notin Dropped(atts, m, files) => row = atts[f]
  BY <1>1
<1>6. f \in DOMAIN files =>
          /\ row \in AttachmentRows
          /\ row.message = m /\ row.meta = files[f] /\ row.removed = FALSE
  <2> SUFFICES ASSUME f \in DOMAIN files
               PROVE  /\ row \in AttachmentRows
                      /\ row.message = m /\ row.meta = files[f] /\ row.removed = FALSE
    OBVIOUS
  <2>1. files[f] \in Metadata /\ FALSE \in BOOLEAN
    BY DEF ListOK
  <2>2. row = [message |-> m, meta |-> files[f], removed |-> FALSE]
    BY <1>2 DEF Row
  <2> QED
    BY <2>1, <2>2 DEF AttachmentRows
<1>7. f \in Dropped(atts, m, files) =>
          row \in AttachmentRows /\ row.message = m /\ row.removed = TRUE
  BY <1>3, <1>4 DEF AttachmentRows, AttachmentTables
<1> QED
  BY <1>3, <1>5, <1>6, <1>7 DEF FileEffect, row

\* Files belong to messages that may carry them.
Belong(atts) == \A f \in Files : atts[f] # NoRow => atts[f].message \in Carriers[f]

\* The attachments of a message are applied: it shows its files and no others, and a
\* message that shows none of them is left alone.
LEMMA FilesApplied ==
    ASSUME NEW atts \in AttachmentTables, Belong(atts),
           NEW m \in Messages,
           NEW files, ListOK(files, m),
           NEW new, new = ApplyAttachments(atts, m, files)
    PROVE  /\ new \in AttachmentTables
           /\ Belong(new)
           /\ FilesOf(new, m) = DOMAIN files
           /\ \A f \in DOMAIN files : new[f].meta = files[f]
           /\ \A n \in Messages : n # m /\ FilesOf(atts, n) \intersect DOMAIN files = {} =>
                 /\ FilesOf(new, n) = FilesOf(atts, n)
                 /\ \A f \in FilesOf(atts, n) : new[f] = atts[f]
<1>1. DOMAIN files \subseteq Files /\ \A f \in DOMAIN files : m \in Carriers[f]
  BY DEF ListOK, Carried
<1>2. \A r \in AttachmentRows : r # NoRow /\ r.removed \in BOOLEAN
  BY SyncAssumption DEF AttachmentRows
<1>3. \A f \in Files : FileEffect(atts, m, files, f, new[f])
  BY FileRow
<1>4. new = [f \in Files |-> new[f]]
  <2>1. \E g : new = [f \in Files |-> g[f]]
    <3> DEFINE g == [f \in Files |-> CASE f \in DOMAIN files            -> Row(m, files[f])
                                       [] f \in Dropped(atts, m, files) ->
                                             [atts[f] EXCEPT !.removed = TRUE]
                                       [] OTHER                         -> atts[f]]
    <3>1. new = g
      BY DEF ApplyAttachments
    <3>2. g = [f \in Files |-> g[f]]
      OBVIOUS
    <3> HIDE DEF g
    <3> QED
      BY <3>1, <3>2
  <2> QED
    BY <2>1
<1>5. new \in AttachmentTables
  <2>1. \A f \in Files : new[f] \in AttachmentRows \union {NoRow}
    BY <1>3 DEF AttachmentTables, FileEffect
  <2> QED
    BY <1>4, <2>1 DEF AttachmentTables
<1>6. Belong(new)
  <2> SUFFICES ASSUME NEW f \in Files, new[f] # NoRow PROVE new[f].message \in Carriers[f]
    BY DEF Belong
  <2>1. f \in Dropped(atts, m, files) => atts[f] # NoRow
    BY <1>2, <1>3 DEF FileEffect
  <2> QED
    BY <1>1, <1>3, <2>1 DEF Belong, FileEffect
<1>7. \A f \in Files : f \in FilesOf(new, m) <=> f \in DOMAIN files
  <2> SUFFICES ASSUME NEW f \in Files
               PROVE  f \in FilesOf(new, m) <=> f \in DOMAIN files
    OBVIOUS
  <2>1. CASE f \in DOMAIN files
    BY <1>2, <1>3, <2>1 DEF FilesOf, Existing, FileEffect
  <2>2. CASE f \in Dropped(atts, m, files)
    BY <1>3, <2>2 DEF FilesOf, Existing, FileEffect
  <2>3. CASE f \notin DOMAIN files /\ f \notin Dropped(atts, m, files)
    <3>1. new[f] = atts[f]
      BY <1>3, <2>3 DEF FileEffect
    <3>2. f \notin FilesOf(atts, m)
      BY <2>3 DEF Dropped, FilesOf
    <3> QED
      BY <2>3, <3>1, <3>2 DEF FilesOf, Existing
  <2> QED
    BY <2>1, <2>2, <2>3
<1>8. FilesOf(new, m) = DOMAIN files
  BY <1>1, <1>7 DEF FilesOf, Existing
<1>9. ASSUME NEW n \in Messages, n # m, FilesOf(atts, n) \intersect DOMAIN files = {}
      PROVE  /\ FilesOf(new, n) = FilesOf(atts, n)
             /\ \A f \in FilesOf(atts, n) : new[f] = atts[f]
  <2>1. ASSUME NEW f \in FilesOf(atts, n)
        PROVE  new[f] = atts[f]
    <3>1. f \in Files /\ atts[f].message = n
      BY DEF FilesOf, Existing
    <3>2. f \notin DOMAIN files /\ f \notin Dropped(atts, m, files)
      BY <1>3, <1>9, <3>1 DEF FileEffect
    <3> QED
      BY <1>3, <3>1, <3>2 DEF FileEffect
  <2>2. ASSUME NEW f \in Files, new[f] # NoRow, new[f].message = n
        PROVE  new[f] = atts[f]
    BY <1>3, <1>9, <2>2 DEF FileEffect
  <2>3. \A f \in Files : f \in FilesOf(new, n) <=> f \in FilesOf(atts, n)
    BY <2>1, <2>2 DEF FilesOf, Existing
  <2> QED
    BY <2>1, <2>3 DEF FilesOf, Existing
<1> QED
  BY <1>1, <1>3, <1>5, <1>6, <1>8, <1>9 DEF FileEffect

\* When the files of a message count as changed: never if it shows them already, and if
\* they do not, no row is written with anything new.
LEMMA FilesChanged ==
    ASSUME NEW atts \in AttachmentTables,
           NEW m \in Messages,
           NEW files, ListOK(files, m)
    PROVE  /\ ~AttachmentsChange(atts, m, files) => ApplyAttachments(atts, m, files) = atts
           /\ FilesOf(atts, m) = DOMAIN files /\ (\A f \in DOMAIN files : atts[f].meta = files[f])
                 => ~AttachmentsChange(atts, m, files)
<1>1. ASSUME ~AttachmentsChange(atts, m, files)
      PROVE  ApplyAttachments(atts, m, files) = atts
  <2>1. \A f \in DOMAIN files : atts[f] = Row(m, files[f])
    BY <1>1 DEF AttachmentsChange, Differs
  <2>2. Dropped(atts, m, files) = {}
    BY <1>1 DEF AttachmentsChange
  <2>3. \A f \in Files : (CASE f \in DOMAIN files            -> Row(m, files[f])
                            [] f \in Dropped(atts, m, files) -> [atts[f] EXCEPT !.removed = TRUE]
                            [] OTHER                         -> atts[f]) = atts[f]
    BY <2>1, <2>2
  <2>4. atts = [f \in Files |-> atts[f]]
    BY DEF AttachmentTables
  <2> QED
    BY <2>3, <2>4 DEF ApplyAttachments
<1>2. ASSUME FilesOf(atts, m) = DOMAIN files, \A f \in DOMAIN files : atts[f].meta = files[f]
      PROVE  ~AttachmentsChange(atts, m, files)
  <2>1. Dropped(atts, m, files) = {}
    BY <1>2 DEF Dropped, FilesOf
  <2>2. ASSUME NEW f \in DOMAIN files PROVE atts[f] = Row(m, files[f])
    <3>1. f \in Files /\ atts[f] # NoRow /\ atts[f].message = m /\ ~atts[f].removed
      BY <1>2 DEF FilesOf, Existing
    <3>2. atts[f] \in AttachmentRows
      BY <3>1 DEF AttachmentTables
    <3> QED
      BY <1>2, <3>1, <3>2 DEF AttachmentRows, Row
  <2> QED
    BY <2>1, <2>2 DEF AttachmentsChange, Differs
<1> QED
  BY <1>1, <1>2

\* A message shows none of the files that an input lists.
Apart(t, n, input) == FilesOf(t.attachments, n) \intersect DOMAIN input[2].files = {}

\* What an input does: its message shows its content, messages that show none of its files
\* show what they did, and the rows stay in order.
LEMMA InputShows ==
    ASSUME NEW t, RowsOK(t), NEW input \in Inputs, NEW u, u = ApplyInput(t, input)
    PROVE  /\ RowsOK(u)
           /\ ShownIn(u, input[1]) = input[2]
           /\ \A n \in Messages : n # input[1] /\ Apart(t, n, input) =>
                 ShownIn(u, n) = ShownIn(t, n)
<1> DEFINE m == input[1]
           c == input[2]
<1>1. /\ m \in Messages /\ ListOK(c.files, m)
      /\ c.deleted \in BOOLEAN /\ c.text \in 0..NumTexts
      /\ c.files = [f \in DOMAIN c.files |-> c.files[f]]
      /\ c = Content(c.deleted, c.text, c.files)
  BY InputShape DEF ListOK
<1>0. InputEffect(t, input, u)
  BY InputFields
<1>2. /\ u.messages = [t.messages EXCEPT ![m] = MessageRow(c)]
      /\ u.attachments = ApplyAttachments(t.attachments, m, c.files)
      /\ u.changed \in BOOLEAN
      /\ u.last = Newest(t.last, m)
      /\ u.parent = IF m = 1 THEN 1 ELSE t.parent
      /\ u.applied = [t.applied EXCEPT ![m] = c]
  BY <1>0 DEF InputEffect
<1> HIDE DEF m, c
<1>3. /\ MessageRow(c) \in MessageRows
      /\ MessageRow(c).deleted = c.deleted /\ MessageRow(c).text = c.text
      /\ MessageRow(c) # NoRow
  BY <1>1, SyncAssumption DEF MessageRow, MessageRows
<1>4. /\ u.messages \in MessageTables
      /\ u.messages[m] = MessageRow(c)
      /\ \A n \in Messages : n # m => u.messages[n] = t.messages[n]
  BY <1>1, <1>2, <1>3 DEF RowsOK, MessageTables
<1>5. t.attachments \in AttachmentTables /\ Belong(t.attachments)
  BY DEF RowsOK, Belong
<1>6. /\ u.attachments \in AttachmentTables /\ Belong(u.attachments)
      /\ FilesOf(u.attachments, m) = DOMAIN c.files
      /\ \A f \in DOMAIN c.files : u.attachments[f].meta = c.files[f]
      /\ \A n \in Messages : n # m /\ FilesOf(t.attachments, n) \intersect DOMAIN c.files = {} =>
            /\ FilesOf(u.attachments, n) = FilesOf(t.attachments, n)
            /\ \A f \in FilesOf(t.attachments, n) : u.attachments[f] = t.attachments[f]
  BY <1>1, <1>2, <1>5, FilesApplied
<1>7. RowsOK(u)
  <2>1. u.last \in {n \in Messages : u.messages[n] # NoRow} \union {0}
    BY <1>1, <1>2, <1>3, <1>4 DEF RowsOK, Newest
  <2>2. \A n \in Messages : u.messages[n] # NoRow => u.last >= n
    <3>1. m \in Int /\ t.last \in Int /\ \A n \in Messages : n \in Int
      BY <1>1 DEF RowsOK, Messages
    <3> QED
      BY <1>2, <1>4, <3>1 DEF RowsOK, Newest
  <2>3. u.parent = IF u.messages[1] # NoRow THEN 1 ELSE 0
    <3>1. 1 \in Messages
      BY SyncAssumption DEF Messages
    <3> QED
      BY <1>2, <1>3, <1>4, <3>1 DEF RowsOK
  <2>4. DOMAIN u.applied = Messages
    BY <1>2 DEF RowsOK
  <2> QED
    BY <1>2, <1>4, <1>6, <2>1, <2>2, <2>3, <2>4 DEF RowsOK, Belong
<1>8. ShownIn(u, m) = c
  <2>1. [f \in FilesOf(u.attachments, m) |-> u.attachments[f].meta] = c.files
    BY <1>1, <1>6
  <2> QED
    BY <1>1, <1>3, <1>4, <2>1 DEF ShownIn
<1>9. ASSUME NEW n \in Messages, n # m, Apart(t, n, input)
      PROVE  ShownIn(u, n) = ShownIn(t, n)
  <2>0. FilesOf(t.attachments, n) \intersect DOMAIN c.files = {}
    BY <1>9 DEF Apart, c
  <2>1. [f \in FilesOf(u.attachments, n) |-> u.attachments[f].meta] =
            [f \in FilesOf(t.attachments, n) |-> t.attachments[f].meta]
    BY <1>6, <1>9, <2>0
  <2>2. u.messages[n] = t.messages[n]
    BY <1>4, <1>9
  <2> QED
    BY <2>1, <2>2 DEF ShownIn
<1> QED
  BY <1>7, <1>8, <1>9 DEF m, c

\* A message that shares no file shows none of another's.
LEMMA ExclusiveApart ==
    ASSUME NEW t, RowsOK(t), NEW input \in Inputs,
           NEW n \in Messages, n # input[1], Exclusive(n)
    PROVE  Apart(t, n, input)
<1> SUFFICES ASSUME NEW f \in FilesOf(t.attachments, n), f \in DOMAIN input[2].files
             PROVE  FALSE
  BY DEF Apart
<1>1. f \in Carried(input[1])
  BY InputShape
<1>2. f \in Files /\ t.attachments[f] # NoRow /\ t.attachments[f].message = n
  BY DEF FilesOf, Existing
<1>3. f \in Carried(n)
  BY <1>2 DEF RowsOK, Carried
<1>4. Carriers[f] = {n} /\ input[1] \in Carriers[f]
  BY <1>1, <1>3 DEF Exclusive, Carried
<1> QED
  BY <1>4

\* So a message that shares no file goes on showing what was applied to it last.
LEMMA InputKeeps ==
    ASSUME NEW t, TablesInv(t), NEW input \in Inputs, NEW u, u = ApplyInput(t, input)
    PROVE  TablesInv(u)
<1>1. /\ RowsOK(u)
      /\ ShownIn(u, input[1]) = input[2]
      /\ \A n \in Messages : n # input[1] /\ Exclusive(n) => ShownIn(u, n) = ShownIn(t, n)
  BY InputShows, ExclusiveApart DEF TablesInv
<1>0. InputEffect(t, input, u)
  BY InputFields
<1>2. u.applied = [t.applied EXCEPT ![input[1]] = input[2]] /\ DOMAIN t.applied = Messages
  BY <1>0 DEF InputEffect, TablesInv, RowsOK
<1>3. input[1] \in Messages
  BY InputShape
<1> QED
  BY <1>1, <1>2, <1>3 DEF TablesInv, ShowsApplied

\* When an input counts as a change: if not, no row of a message or file is written with
\* anything new, and what is shown already is not a change.
LEMMA InputChanges ==
    ASSUME NEW t, RowsOK(t), NEW input \in Inputs, NEW u, u = ApplyInput(t, input)
    PROVE  /\ t.changed => u.changed
           /\ ~u.changed => u.messages = t.messages /\ u.attachments = t.attachments
           /\ ShownIn(t, input[1]) = input[2] => u.changed = t.changed
<1> DEFINE m == input[1]
           c == input[2]
<1>1. /\ m \in Messages /\ ListOK(c.files, m)
      /\ c = Content(c.deleted, c.text, c.files) /\ c # NoRow
      /\ c.deleted \in BOOLEAN /\ c.text \in 0..NumTexts
  BY InputShape DEF ListOK
<1>0. InputEffect(t, input, u)
  BY InputFields
<1>2. /\ u.messages = [t.messages EXCEPT ![m] = MessageRow(c)]
      /\ u.attachments = ApplyAttachments(t.attachments, m, c.files)
      /\ u.changed = (\/ t.changed
                      \/ t.messages[m] # MessageRow(c)
                      \/ AttachmentsChange(t.attachments, m, c.files))
  BY <1>0 DEF InputEffect
<1> HIDE DEF m, c
<1>3. /\ t.messages \in MessageTables /\ t.attachments \in AttachmentTables
      /\ t.changed \in BOOLEAN
  BY DEF RowsOK
<1>4. /\ ~AttachmentsChange(t.attachments, m, c.files) => u.attachments = t.attachments
      /\ FilesOf(t.attachments, m) = DOMAIN c.files
            /\ (\A f \in DOMAIN c.files : t.attachments[f].meta = c.files[f])
         => ~AttachmentsChange(t.attachments, m, c.files)
  BY <1>1, <1>2, <1>3, FilesChanged
<1>5. ASSUME ~u.changed
      PROVE  u.messages = t.messages /\ u.attachments = t.attachments
  <2>1. t.messages[m] = MessageRow(c)
    BY <1>2, <1>5
  <2> QED
    BY <1>2, <1>3, <1>4, <1>5, <2>1 DEF MessageTables
<1>6. ASSUME ShownIn(t, m) = c
      PROVE  u.changed = t.changed
  <2>1. t.messages[m] # NoRow
    BY <1>1, <1>6 DEF ShownIn
  <2>2. c = Content(t.messages[m].deleted, t.messages[m].text,
                    [f \in FilesOf(t.attachments, m) |-> t.attachments[f].meta])
    BY <1>6, <2>1 DEF ShownIn
  <2>3. /\ c.deleted = t.messages[m].deleted /\ c.text = t.messages[m].text
        /\ c.files = [f \in FilesOf(t.attachments, m) |-> t.attachments[f].meta]
    BY <2>2 DEF Content
  <2>4. t.messages[m] \in MessageRows
    BY <1>1, <1>3, <2>1 DEF MessageTables
  <2>5. t.messages[m] = MessageRow(c)
    BY <2>3, <2>4 DEF MessageRow, MessageRows
  <2>6. ~AttachmentsChange(t.attachments, m, c.files)
    BY <1>4, <2>3
  <2> QED
    BY <1>2, <1>3, <2>5, <2>6
<1> QED
  BY <1>2, <1>3, <1>5, <1>6 DEF m, c

(***************************************************************************)
(* What a transaction does.                                                *)
(***************************************************************************)

\* The messages of a batch come in their order, each once.
Ascending(inputs) == \A j, k \in DOMAIN inputs : j < k => inputs[j][1] < inputs[k][1]

\* Its message shows an input, and did not before.
ShowsNews(t, u, input) ==
    ShownIn(t, input[1]) # input[2] /\ ShownIn(u, input[1]) = input[2]

\* Tables u are t after the first k inputs: what they say is applied and nothing else, and
\* they count as a change if and only if something differs, but for a file that moves.
Progress(t, inputs, k, u) ==
    /\ TablesInv(u)
    /\ ~u.changed => u.messages = t.messages /\ u.attachments = t.attachments
    /\ \A j \in 1..k : u.applied[inputs[j][1]] = inputs[j][2]
    /\ \A m \in Messages : (\A j \in 1..k : inputs[j][1] # m) => u.applied[m] = t.applied[m]
    /\ u.changed /\ ~MovesAFile(inputs) => \E j \in 1..k : ShowsNews(t, u, inputs[j])

\* The files of an input that its message shows are those of their rows.
LEMMA ShownFiles ==
    ASSUME NEW t, NEW input \in Inputs, ShownIn(t, input[1]) = input[2]
    PROVE  FilesOf(t.attachments, input[1]) = DOMAIN input[2].files
<1> DEFINE m == input[1]
<1>1. t.messages[m] # NoRow
  BY InputShape DEF ShownIn
<1>2. input[2] = Content(t.messages[m].deleted, t.messages[m].text,
                         [f \in FilesOf(t.attachments, m) |-> t.attachments[f].meta])
  BY <1>1 DEF ShownIn
<1>3. input[2].files = [f \in FilesOf(t.attachments, m) |-> t.attachments[f].meta]
  BY <1>2 DEF Content
<1> QED
  BY <1>3

\* One more input.
LEMMA ProgressStep ==
    ASSUME NEW t, NEW inputs \in Seq(Inputs), Ascending(inputs),
           NEW k \in 0 .. Len(inputs)-1, NEW u, Progress(t, inputs, k, u)
    PROVE  Progress(t, inputs, k + 1, ApplyInput(u, inputs[k + 1]))
<1> DEFINE input == inputs[k + 1]
           v == ApplyInput(u, input)
<1>1. k + 1 \in 1..Len(inputs) /\ k \in Nat /\ DOMAIN inputs = 1..Len(inputs)
  OBVIOUS
<1>2. input \in Inputs
  BY <1>1
<1>3. \A j \in 1..k : inputs[j] \in Inputs /\ inputs[j][1] < input[1]
  BY <1>1 DEF Ascending
<1> HIDE DEF input, v
<1>4. v = ApplyInput(u, input) /\ TablesInv(u) /\ RowsOK(u) /\ ShowsApplied(u)
  BY DEF v, Progress, TablesInv
<1>5. input[1] \in Messages
  BY <1>2, InputShape
<1>6. \A j \in 1..k : inputs[j][1] # input[1] /\ inputs[j][1] \in Messages
  <2>1. \A x \in Inputs : x[1] \in Messages
    BY InputShape
  <2>2. \A j \in 1..k : inputs[j][1] \in Messages
    BY <1>3, <2>1
  <2> QED
    BY <1>3, <1>5, <2>2 DEF Messages
<1>0. InputEffect(u, input, v)
  BY <1>4, InputFields
<1>7. v.applied = [u.applied EXCEPT ![input[1]] = input[2]] /\ DOMAIN u.applied = Messages
  BY <1>0, <1>4 DEF InputEffect, RowsOK
<1>8. TablesInv(v)
  BY <1>2, <1>4, InputKeeps
<1>9. /\ u.changed => v.changed
      /\ ~v.changed => v.messages = u.messages /\ v.attachments = u.attachments
      /\ ShownIn(u, input[1]) = input[2] => v.changed = u.changed
  BY <1>2, <1>4, InputChanges
<1>10. ~v.changed => v.messages = t.messages /\ v.attachments = t.attachments
  BY <1>9 DEF Progress
<1>11. u.applied[input[1]] = t.applied[input[1]]
  BY <1>5, <1>6 DEF Progress
<1>12. \A j \in 1 .. k+1 : v.applied[inputs[j][1]] = inputs[j][2]
  <2> SUFFICES ASSUME NEW j \in 1 .. k+1 PROVE v.applied[inputs[j][1]] = inputs[j][2]
    OBVIOUS
  <2>1. CASE j \in 1..k
    BY <1>5, <1>6, <1>7, <2>1 DEF Progress
  <2>2. CASE j = k + 1
    BY <1>5, <1>7, <2>2 DEF input
  <2> QED
    BY <1>1, <2>1, <2>2
<1>13. ASSUME NEW m \in Messages, \A j \in 1 .. k+1 : inputs[j][1] # m
       PROVE  v.applied[m] = t.applied[m]
  <2>1. m # input[1] /\ \A j \in 1..k : inputs[j][1] # m
    BY <1>1, <1>13 DEF input
  <2> QED
    BY <1>7, <2>1 DEF Progress
<1>14. ASSUME ~MovesAFile(inputs), v.changed
       PROVE  \E j \in 1 .. k+1 : ShowsNews(t, v, inputs[j])
  <2>1. /\ ShownIn(v, input[1]) = input[2]
        /\ \A n \in Messages : n # input[1] /\ Apart(u, n, input) =>
              ShownIn(v, n) = ShownIn(u, n)
    BY <1>2, <1>4, InputShows
  <2>2. CASE u.changed
    <3>1. PICK j \in 1..k : ShowsNews(t, u, inputs[j])
      BY <1>14, <2>2 DEF Progress
    <3>2. j \in DOMAIN inputs /\ k + 1 \in DOMAIN inputs /\ j < k + 1
      BY <1>1
    <3>3. DOMAIN inputs[j][2].files \intersect DOMAIN input[2].files = {}
      BY <1>14, <3>2 DEF MovesAFile, input
    <3>4. FilesOf(u.attachments, inputs[j][1]) = DOMAIN inputs[j][2].files
      BY <1>3, <3>1, ShownFiles DEF ShowsNews
    <3>5. ShownIn(v, inputs[j][1]) = ShownIn(u, inputs[j][1])
      BY <1>6, <2>1, <3>3, <3>4 DEF Apart
    <3> QED
      BY <1>1, <3>1, <3>5 DEF ShowsNews
  <2>3. CASE ~u.changed
    <3>1. ShownIn(t, input[1]) = ShownIn(u, input[1])
      BY <2>3 DEF Progress, ShownIn
    <3>2. ShowsNews(t, v, input)
      BY <1>9, <1>14, <2>1, <2>3, <3>1 DEF ShowsNews
    <3> QED
      BY <1>1, <3>2 DEF input
  <2> QED
    BY <2>2, <2>3
<1> QED
  BY <1>8, <1>10, <1>12, <1>13, <1>14 DEF Progress, input, v

\* The whole batch.
LEMMA Transaction ==
    ASSUME NEW t, TablesInv(t), t.changed = FALSE,
           NEW inputs \in Seq(Inputs), Ascending(inputs)
    PROVE  Progress(t, inputs, Len(inputs), FoldLeft(ApplyInput, t, inputs))
<1> DEFINE n == Len(inputs)
           S == {k \in 0..n : Progress(t, inputs, k, After(t, inputs, k))}
<1>1. n \in Nat
  OBVIOUS
<1>0. InputByInput(t, inputs)
  BY OneByOne
<1>2. 0 \in S
  <2>1. Progress(t, inputs, 0, t)
    BY DEF Progress
  <2>2. Progress(t, inputs, 0, After(t, inputs, 0))
    BY <1>0, <2>1 DEF InputByInput
  <2> QED
    BY <1>1, <2>2
<1>3. ASSUME NEW k \in 0 .. n-1, k \in S PROVE k + 1 \in S
  <2>1. k \in Nat /\ k + 1 \in 0..n
    BY <1>1
  <2>2. After(t, inputs, k + 1) = ApplyInput(After(t, inputs, k), inputs[k + 1])
    BY <1>0, <2>1 DEF InputByInput
  <2> DEFINE u == After(t, inputs, k)
  <2>3. Progress(t, inputs, k, u)
    BY <1>3
  <2> HIDE DEF u
  <2>4. Progress(t, inputs, k + 1, ApplyInput(u, inputs[k + 1]))
    BY <2>3, ProgressStep
  <2> QED
    BY <2>1, <2>2, <2>4 DEF u
<1>4. n \in S
  <2> HIDE DEF S, n
  <2>1. \A k \in 0..n : k \in S
    BY <1>1, <1>2, <1>3, UpTo
  <2> QED
    BY <1>1, <2>1
<1> QED
  BY <1>4, FoldIsAfter

(***************************************************************************)
(* The inductive invariant.                                                *)
(***************************************************************************)

\* The types of what is not a table.
FetchTypes ==
    /\ sent \subseteq Inputs
    /\ DOMAIN remote = Messages
    /\ \A m \in Messages : remote[m] \in Posts(m) \union {NoRow, Deletion}
    /\ version \in 0..MaxVersion
    /\ sync \in {"synchronized", "dirty", "syncing", "failed"} /\ synced \in BOOLEAN
    /\ pc \in {"idle", "page", "store"} /\ tries \in 0 .. MaxTries-1
    /\ cursor \in 0..NumMessages
    /\ batch \in Seq(Inputs)

\* The batch is in order and ends at the cursor, and begins empty; while it is collected
\* only an event sets the status.
BatchInv ==
    /\ Ascending(batch)
    /\ \A k \in DOMAIN batch : batch[k][1] <= cursor
    /\ pc = "idle" => cursor = 0 /\ tries = 0 /\ batch = <<>>
    /\ pc # "idle" => sync \in {"syncing", "dirty"}

\* What an event, a batch or the tables have of a message was posted in Slack.
PostedInv ==
    /\ \A input \in sent : remote[input[1]] # NoRow
    /\ \A k \in DOMAIN batch : remote[batch[k][1]] # NoRow
    /\ \A m \in Messages : applied[m] # NoRow => remote[m] # NoRow

\* As long as nothing happens in Slack, the batch has all that is listed up to the cursor,
\* and a finished one has all.
QuietInv ==
    steady =>
        /\ \A m \in Listed(0) : m <= cursor => \E k \in DOMAIN batch : batch[k] = <<m, remote[m]>>
        /\ pc = "store" => Listed(cursor) = {}

SyncInv == FetchTypes /\ TablesInv(Tables) /\ BatchInv /\ PostedInv /\ QuietInv

\* The fields of the tables a transaction begins with.
LEMMA TableFields ==
    /\ Tables.messages = messages /\ Tables.attachments = attachments
    /\ Tables.changed = FALSE
    /\ Tables.last = last /\ Tables.parent = parent /\ Tables.applied = applied
  BY DEF Tables

\* The invariant of tables looks at their fields.
LEMMA SameFields ==
    ASSUME NEW t, NEW u, TablesInv(u), t.changed \in BOOLEAN,
           t.messages = u.messages, t.attachments = u.attachments,
           t.last = u.last, t.parent = u.parent, t.applied = u.applied
    PROVE  TablesInv(t)
  BY DEF TablesInv, RowsOK, ShowsApplied, ShownIn

\* At the beginning no message is stored, and none shown.
LEMMA InitSync == Init => SyncInv
<1> SUFFICES ASSUME Init PROVE SyncInv
  OBVIOUS
<1>1. FetchTypes
  <2>1. DOMAIN remote = Messages /\ \A m \in Messages : remote[m] = NoRow
    BY DEF Init
  <2>2. 0 \in 0..MaxVersion /\ 0 \in 0..NumMessages /\ 0 \in 0 .. MaxTries-1
    BY SyncAssumption DEF MaxTries
  <2>3. sent \subseteq Inputs /\ batch \in Seq(Inputs)
    BY DEF Init
  <2> QED
    BY <2>1, <2>2, <2>3 DEF Init, FetchTypes
<1>2. TablesInv(Tables)
  <2>1. RowsOK(Tables)
    <3>1. messages \in MessageTables /\ \A m \in Messages : messages[m] = NoRow
      BY DEF Init, MessageTables
    <3>2. attachments \in AttachmentTables /\ \A f \in Files : attachments[f] = NoRow
      BY DEF Init, AttachmentTables
    <3>3. 1 \in Messages
      BY SyncAssumption DEF Messages
    <3> QED
      BY <3>1, <3>2, <3>3, TableFields DEF RowsOK, Init
  <2>2. ShowsApplied(Tables)
    BY TableFields DEF ShowsApplied, ShownIn, Init
  <2> QED
    BY <2>1, <2>2 DEF TablesInv
<1>3. BatchInv /\ PostedInv /\ QuietInv
  BY DEF Init, BatchInv, PostedInv, QuietInv, Ascending
<1> QED
  BY <1>1, <1>2, <1>3 DEF SyncInv

\* A step that leaves the tables alone.
LEMMA TablesStay == UNCHANGED <<rowVars, applied>> /\ TablesInv(Tables) => TablesInv(Tables)'
<1> SUFFICES ASSUME UNCHANGED <<rowVars, applied>>, TablesInv(Tables) PROVE TablesInv(Tables')
  OBVIOUS
<1>1. Tables' = Tables
  BY DEF Tables, rowVars
<1> QED
  BY <1>1

\* What is posted is an input.
LEMMA PostedInputs ==
    ASSUME NEW m \in Messages, NEW content \in Posts(m) \union {Deletion}
    PROVE  <<m, content>> \in Inputs /\ content # NoRow
<1>1. <<m, content>> \in Inputs
  BY DEF Inputs
<1>2. <<m, content>>[2] # NoRow
  BY <1>1, InputShape
<1> QED
  BY <1>1, <1>2

\* Slack's users: the fetch is no longer a quiet one.
LEMMA SlackChangeKeeps ==
    ASSUME SyncInv, NEW m \in Messages, NEW content \in Posts(m) \union {Deletion},
           SlackChange(m, content)
    PROVE  SyncInv'
<1>1. /\ remote' = [remote EXCEPT ![m] = content] /\ sent' = sent \union {<<m, content>>}
      /\ steady' = FALSE
      /\ UNCHANGED <<rowVars, sync, synced, fetchVars, applied>>
  BY DEF SlackChange
<1>2. <<m, content>> \in Inputs /\ content # NoRow /\ <<m, content>>[1] = m
  BY PostedInputs
<1>3. /\ DOMAIN remote' = Messages /\ remote'[m] = content
      /\ \A n \in Messages : n # m => remote'[n] = remote[n]
  BY <1>1 DEF SyncInv, FetchTypes
<1>4. \A n \in Messages : remote[n] # NoRow => remote'[n] # NoRow
  BY <1>2, <1>3
<1>5. FetchTypes'
  BY <1>1, <1>2, <1>3 DEF SyncInv, FetchTypes, rowVars, fetchVars
<1>6. TablesInv(Tables)'
  BY <1>1, TablesStay DEF SyncInv
<1>7. BatchInv'
  BY <1>1 DEF SyncInv, BatchInv, fetchVars
<1>8. PostedInv'
  <2>1. \A x \in Inputs : x[1] \in Messages
    BY InputShape
  <2>2. \A input \in sent' : remote'[input[1]] # NoRow
    BY <1>1, <1>2, <1>3, <1>4, <2>1 DEF SyncInv, FetchTypes, PostedInv
  <2>3. \A k \in DOMAIN batch : batch[k][1] \in Messages
    BY <2>1 DEF SyncInv, FetchTypes
  <2> QED
    BY <1>1, <1>4, <2>2, <2>3 DEF SyncInv, PostedInv, fetchVars
<1>9. QuietInv'
  BY <1>1 DEF QuietInv
<1> QED
  BY <1>5, <1>6, <1>7, <1>8, <1>9 DEF SyncInv

\* A fetch begins with an empty batch.
LEMMA BeginFetchKeeps == SyncInv /\ BeginFetch => SyncInv'
<1> SUFFICES ASSUME SyncInv, BeginFetch PROVE SyncInv'
  OBVIOUS
<1>1. /\ pc = "idle" /\ pc' = "page" /\ sync' = "syncing"
      /\ UNCHANGED <<slackVars, rowVars, synced, cursor, tries, batch, applied>>
  BY DEF BeginFetch
<1>2. cursor = 0 /\ batch = <<>>
  BY <1>1 DEF SyncInv, BatchInv
<1>3. FetchTypes'
  BY <1>1 DEF SyncInv, FetchTypes, slackVars, rowVars
<1>4. TablesInv(Tables)'
  BY <1>1, TablesStay DEF SyncInv
<1>5. BatchInv' /\ PostedInv'
  BY <1>1, <1>2 DEF SyncInv, BatchInv, PostedInv, Ascending, slackVars
<1>6. QuietInv'
  BY <1>1, <1>2 DEF QuietInv, Listed
<1> QED
  BY <1>3, <1>4, <1>5, <1>6 DEF SyncInv

\* A fetch that ends leaves no batch behind.
LEMMA IdleKeeps ==
    ASSUME SyncInv, Idle, UNCHANGED <<slackVars, rowVars, synced, applied>>,
           sync' \in {sync, "failed"}
    PROVE  SyncInv'
<1>1. pc' = "idle" /\ cursor' = 0 /\ tries' = 0 /\ batch' = <<>>
  BY DEF Idle
<1>2. FetchTypes'
  BY <1>1, SyncAssumption DEF SyncInv, FetchTypes, slackVars, rowVars, MaxTries
<1>3. TablesInv(Tables)'
  BY TablesStay DEF SyncInv
<1>4. BatchInv' /\ PostedInv'
  BY <1>1 DEF SyncInv, BatchInv, PostedInv, Ascending, slackVars
<1>5. QuietInv'
  BY <1>1 DEF QuietInv, Listed
<1> QED
  BY <1>2, <1>3, <1>4, <1>5 DEF SyncInv

\* A rate limited page is asked for again, or ends the fetch.
LEMMA RateLimitedKeeps == SyncInv /\ RateLimited => SyncInv'
<1> SUFFICES ASSUME SyncInv, RateLimited PROVE SyncInv'
  OBVIOUS
<1>1. UNCHANGED <<slackVars, rowVars, synced, applied, steady>>
  BY DEF RateLimited
<1>2. CASE FetchFails
  BY <1>1, <1>2, IdleKeeps DEF FetchFails
<1>3. CASE tries + 1 < MaxTries /\ tries' = tries + 1 /\ UNCHANGED <<pc, cursor, batch, sync>>
  <2>1. pc = "page"
    BY DEF RateLimited
  <2>2. FetchTypes'
    BY <1>1, <1>3 DEF SyncInv, FetchTypes, slackVars, rowVars, MaxTries
  <2>3. TablesInv(Tables)'
    BY <1>1, TablesStay DEF SyncInv
  <2>4. BatchInv' /\ PostedInv' /\ QuietInv'
    BY <1>1, <1>3, <2>1 DEF SyncInv, BatchInv, PostedInv, QuietInv, Listed, Ascending, slackVars
  <2> QED
    BY <2>2, <2>3, <2>4 DEF SyncInv
<1> QED
  BY <1>2, <1>3 DEF RateLimited

\* A fetch or its transaction fails.
LEMMA SyncFailsKeeps == SyncInv /\ SyncFails => SyncInv'
  BY IdleKeeps DEF SyncFails, FetchFails

\* The inputs of a page: messages that are listed, with what Slack has of them.
LEMMA PageInputs ==
    ASSUME FetchTypes, NEW page \in Seq(Listed(cursor))
    PROVE  /\ DOMAIN page = 1..Len(page) /\ Len(page) \in Nat
           /\ InputsOf(page) \in Seq(Inputs) /\ Len(InputsOf(page)) = Len(page)
           /\ \A k \in DOMAIN page :
                 /\ page[k] \in Messages /\ page[k] > cursor
                 /\ remote[page[k]] # NoRow
                 /\ InputsOf(page)[k] = <<page[k], remote[page[k]]>>
<1>1. DOMAIN page = 1..Len(page) /\ Len(page) \in Nat
  OBVIOUS
<1>2. \A m \in Listed(cursor) :
          /\ m \in Messages /\ m > cursor
          /\ remote[m] \in Posts(m) /\ remote[m] # NoRow
  BY DEF FetchTypes, Listed, Messages
<1>3. \A k \in DOMAIN page : page[k] \in Listed(cursor)
  BY <1>1
<1>4. \A k \in DOMAIN page : <<page[k], remote[page[k]]>> \in Inputs
  BY <1>2, <1>3, PostedInputs
<1>5. InputsOf(page) = [k \in 1..Len(page) |-> <<page[k], remote[page[k]]>>]
  BY <1>1 DEF InputsOf
<1>6. InputsOf(page) \in [1..Len(page) -> Inputs]
  BY <1>1, <1>4, <1>5
<1>7. InputsOf(page) \in Seq(Inputs) /\ Len(InputsOf(page)) = Len(page)
  BY <1>1, <1>6
<1> QED
  BY <1>1, <1>2, <1>3, <1>5, <1>7

\* A page goes on where the batch ends, and leaves nothing out that is listed before its
\* own end.
LEMMA FetchPageKeeps == SyncInv /\ FetchPage => SyncInv'
<1> SUFFICES ASSUME SyncInv, FetchPage PROVE SyncInv'
  OBVIOUS
<1> USE DEF SyncInv
<1>1. PICK page \in BoundedSeq(Listed(cursor), PageSize) :
          /\ IsPage(page, cursor)
          /\ batch' = batch \o InputsOf(page)
          /\ cursor' = IF page = <<>> THEN cursor ELSE Last(page)
  BY DEF FetchPage
<1>2. /\ pc = "page" /\ tries' = 0
      /\ pc' = IF Listed(cursor') = {} THEN "store" ELSE "page"
      /\ UNCHANGED <<slackVars, rowVars, sync, synced, applied, steady>>
  BY DEF FetchPage
<1>3. page \in Seq(Listed(cursor))
  BY <1>1 DEF BoundedSeq, SeqOf
<1> DEFINE new == InputsOf(page)
           n == Len(batch)
<1>4. /\ DOMAIN page = 1..Len(page) /\ Len(page) \in Nat
      /\ new \in Seq(Inputs) /\ Len(new) = Len(page)
      /\ \A k \in DOMAIN page :
            /\ page[k] \in Messages /\ page[k] > cursor
            /\ remote[page[k]] # NoRow
            /\ new[k] = <<page[k], remote[page[k]]>>
  BY <1>3, PageInputs
<1>5. batch \in Seq(Inputs) /\ n \in Nat /\ DOMAIN batch = 1..n /\ cursor \in 0..NumMessages
  BY DEF FetchTypes
<1> HIDE DEF new
<1>6. /\ batch' \in Seq(Inputs) /\ DOMAIN batch' = 1 .. n + Len(page)
      /\ \A k \in 1..n : batch'[k] = batch[k]
      /\ \A k \in 1..Len(page) : batch'[n + k] = new[k]
  <2>1. batch' = batch \o new
    BY <1>1 DEF new
  <2>2. batch \o new \in Seq(Inputs) /\ Len(batch \o new) = n + Len(new)
    BY <1>4, <1>5, ConcatProperties
  <2>3. \A k \in 1..n : (batch \o new)[k] = batch[k]
    BY <1>4, <1>5
  <2>4. \A k \in 1..Len(new) : (batch \o new)[n + k] = new[k]
    BY <1>4, <1>5
  <2>5. DOMAIN batch' = 1 .. n + Len(page)
    BY <1>4, <2>1, <2>2
  <2> QED
    BY <1>4, <2>1, <2>2, <2>3, <2>4, <2>5
<1>7. \A k \in DOMAIN batch' : \/ k \in 1..n
                               \/ \E j \in 1..Len(page) : k = n + j
  <2> SUFFICES ASSUME NEW k \in 1 .. n + Len(page), k \notin 1..n
               PROVE  \E j \in 1..Len(page) : k = n + j
    BY <1>6
  <2>1. k - n \in 1..Len(page) /\ k = n + (k - n)
    BY <1>4, <1>5
  <2> QED
    BY <2>1
<1>8. /\ cursor' \in 0..NumMessages /\ cursor' >= cursor
      /\ \A k \in DOMAIN page : page[k] <= cursor'
      /\ page # <<>> => \E k \in DOMAIN page : cursor' = page[k]
  <2>1. CASE page = <<>>
    BY <1>1, <1>4, <1>5, <2>1
  <2>2. CASE page # <<>>
    <3>1. Len(page) \in DOMAIN page /\ cursor' = page[Len(page)]
      BY <1>1, <1>4, <2>2 DEF Last
    <3>2. \A k \in DOMAIN page : k <= Len(page)
      BY <1>4
    <3>3. \A k \in DOMAIN page : k < Len(page) => page[k] < page[Len(page)]
      BY <1>1, <3>1 DEF IsPage
    <3>4. \A k \in DOMAIN page : page[k] \in Int /\ page[k] \in 0..NumMessages
      BY <1>4 DEF Messages
    <3>5. cursor' >= cursor /\ cursor' \in 0..NumMessages
      BY <1>4, <1>5, <3>1, <3>4
    <3>6. \A k \in DOMAIN page : page[k] <= cursor'
      BY <1>4, <3>1, <3>2, <3>3, <3>4
    <3> QED
      BY <3>1, <3>5, <3>6
  <2> QED
    BY <2>1, <2>2
<1>9. FetchTypes'
  <2>1. pc' \in {"idle", "page", "store"} /\ tries' \in 0 .. MaxTries-1
    BY <1>2 DEF MaxTries
  <2> QED
    BY <1>2, <1>6, <1>8, <2>1 DEF FetchTypes, slackVars, rowVars
<1>10. TablesInv(Tables)'
  BY <1>2, TablesStay
<1>11. \A x \in Inputs : x[1] \in Int
  <2>1. \A x \in Inputs : x[1] \in Messages
    BY InputShape
  <2> QED
    BY <2>1 DEF Messages
<1>12. \A k \in 1..n : batch[k][1] \in Int /\ batch[k][1] <= cursor
  BY <1>5, <1>11 DEF BatchInv
<1>13. \A k \in 1..Len(page) : /\ batch'[n + k] = <<page[k], remote[page[k]]>>
                               /\ batch'[n + k][1] = page[k]
  <2>1. \A k \in 1..Len(page) : batch'[n + k] = <<page[k], remote[page[k]]>>
    BY <1>4, <1>6
  <2>2. \A k \in 1..Len(page) : <<page[k], remote[page[k]]>>[1] = page[k]
    OBVIOUS
  <2> QED
    BY <2>1, <2>2
<1>14. BatchInv'
  <2>1. \A k \in DOMAIN batch' : batch'[k][1] <= cursor'
    <3>1. \A k \in 1..n : batch'[k][1] <= cursor'
      BY <1>5, <1>6, <1>8, <1>12
    <3>2. \A k \in 1..Len(page) : batch'[n + k][1] <= cursor'
      BY <1>4, <1>8, <1>13
    <3> QED
      BY <1>7, <3>1, <3>2
  <2>2. ASSUME NEW j \in DOMAIN batch', NEW k \in DOMAIN batch', j < k
        PROVE  batch'[j][1] < batch'[k][1]
    <3>1. CASE k \in 1..n
      <4>1. j \in 1..n
        BY <1>5, <1>6, <2>2, <3>1
      <4>2. batch[j][1] < batch[k][1]
        BY <1>5, <2>2, <3>1, <4>1 DEF BatchInv, Ascending
      <4> QED
        BY <1>6, <3>1, <4>1, <4>2
    <3>2. CASE \E i \in 1..Len(page) : k = n + i
      <4>1. PICK i \in 1..Len(page) : k = n + i
        BY <3>2
      <4>2. batch'[k][1] = page[i] /\ page[i] \in Int /\ page[i] > cursor
        BY <1>4, <1>13, <4>1 DEF Messages
      <4>3. CASE j \in 1..n
        BY <1>5, <1>6, <1>12, <4>2, <4>3
      <4>4. CASE \E h \in 1..Len(page) : j = n + h
        <5>1. PICK h \in 1..Len(page) : j = n + h
          BY <4>4
        <5>2. h < i
          BY <1>5, <2>2, <4>1, <5>1
        <5>3. page[h] < page[i]
          BY <1>1, <1>4, <5>2 DEF IsPage
        <5> QED
          BY <1>13, <4>2, <5>1, <5>3
      <4> QED
        BY <1>7, <4>3, <4>4
    <3> QED
      BY <1>7, <3>1, <3>2
  <2>3. pc' # "idle" /\ sync' \in {"syncing", "dirty"}
    BY <1>2 DEF BatchInv
  <2> QED
    BY <2>1, <2>2, <2>3 DEF BatchInv, Ascending
<1>15. PostedInv'
  <2>1. \A k \in 1..n : remote[batch'[k][1]] # NoRow
    BY <1>5, <1>6 DEF PostedInv
  <2>2. \A k \in 1..Len(page) : remote[batch'[n + k][1]] # NoRow
    BY <1>4, <1>13
  <2>3. \A k \in DOMAIN batch' : remote[batch'[k][1]] # NoRow
    BY <1>7, <2>1, <2>2
  <2> QED
    BY <1>2, <2>3 DEF PostedInv, slackVars
<1>16. QuietInv'
  <2> SUFFICES ASSUME steady
               PROVE  /\ \A m \in Listed(0) : m <= cursor' =>
                             \E k \in DOMAIN batch' : batch'[k] = <<m, remote[m]>>
                      /\ pc' = "store" => Listed(cursor') = {}
    BY <1>2 DEF QuietInv, Listed, slackVars
  <2>1. ASSUME NEW m \in Listed(0), m <= cursor'
        PROVE  \E k \in DOMAIN batch' : batch'[k] = <<m, remote[m]>>
    <3>1. m \in Int
      BY DEF Listed
    <3>2. CASE m <= cursor
      <4>1. PICK k \in 1..n : batch[k] = <<m, remote[m]>>
        BY <1>5, <2>1, <3>2 DEF QuietInv
      <4>2. k \in DOMAIN batch'
        BY <1>4, <1>5, <1>6
      <4> QED
        BY <1>6, <4>1, <4>2
    <3>3. CASE m > cursor
      <4>1. m \in Listed(cursor)
        BY <1>5, <2>1, <3>1, <3>3 DEF Listed
      <4>2. page # <<>>
        BY <1>1, <1>5, <2>1, <3>1, <3>3
      <4>3. PICK e \in DOMAIN page : cursor' = page[e]
        BY <1>8, <4>2
      <4>4. m \in Range(page)
        <5>1. m \notin Range(page) => page[e] < m
          BY <1>1, <4>1 DEF IsPage
        <5> QED
          BY <1>4, <2>1, <3>1, <4>3, <5>1 DEF Messages
      <4>5. PICK i \in DOMAIN page : m = page[i]
        BY <4>4 DEF Range
      <4>6. i \in 1..Len(page) /\ n + i \in DOMAIN batch'
        BY <1>4, <1>5, <1>6
      <4> QED
        BY <1>13, <4>5, <4>6
    <3> QED
      BY <1>5, <3>1, <3>2, <3>3
  <2> QED
    BY <1>2, <2>1
<1> QED
  BY <1>9, <1>10, <1>14, <1>15, <1>16

\* The tables after a transaction.
Outcome(inputs) == FoldLeft(ApplyInput, Tables, inputs)

\* A transaction writes its outcome, which is what its inputs say.
LEMMA Applied ==
    ASSUME SyncInv, NEW inputs \in Seq(Inputs), Ascending(inputs),
           NEW target \in {"synchronized", "dirty"}, ApplySlackMessages(inputs, target)
    PROVE  /\ Progress(Tables, inputs, Len(inputs), Outcome(inputs))
           /\ Outcome(inputs).changed \in BOOLEAN
           /\ Outcome(inputs).changed => version < MaxVersion
           /\ messages' = Outcome(inputs).messages
           /\ attachments' = Outcome(inputs).attachments
           /\ version' = IF Outcome(inputs).changed THEN version + 1 ELSE version
           /\ last' = Outcome(inputs).last
           /\ parent' = Outcome(inputs).parent
           /\ applied' = Outcome(inputs).applied
           /\ target = "synchronized" => sync' = "synchronized"
           /\ target = "dirty" => sync' \in {sync, "dirty"}
<1>1. Progress(Tables, inputs, Len(inputs), Outcome(inputs))
  BY Transaction, TableFields DEF SyncInv, Outcome
<1>2. Outcome(inputs).changed \in BOOLEAN
  BY <1>1 DEF Progress, TablesInv, RowsOK
<1>3. /\ Outcome(inputs).changed => version < MaxVersion
      /\ messages' = Outcome(inputs).messages
      /\ attachments' = Outcome(inputs).attachments
      /\ version' = IF Outcome(inputs).changed THEN version + 1 ELSE version
      /\ last' = Outcome(inputs).last
      /\ parent' = Outcome(inputs).parent
      /\ applied' = Outcome(inputs).applied
  BY DEF ApplySlackMessages, Outcome
<1>4. sync' = CASE target = "synchronized" -> "synchronized"
                [] target = "dirty" /\ Outcome(inputs).changed -> "dirty"
                [] OTHER -> sync
  BY DEF ApplySlackMessages, Outcome
<1> QED
  BY <1>1, <1>2, <1>3, <1>4

\* A transaction whose inputs were posted keeps what it writes consistent.
LEMMA AppliedKeeps ==
    ASSUME SyncInv, NEW inputs \in Seq(Inputs), Ascending(inputs),
           NEW target \in {"synchronized", "dirty"}, ApplySlackMessages(inputs, target),
           \A k \in DOMAIN inputs : remote[inputs[k][1]] # NoRow,
           UNCHANGED remote
    PROVE  /\ TablesInv(Tables)'
           /\ version' \in 0..MaxVersion
           /\ \A m \in Messages : applied'[m] # NoRow => remote'[m] # NoRow
<1>1. /\ Progress(Tables, inputs, Len(inputs), Outcome(inputs))
      /\ Outcome(inputs).changed \in BOOLEAN
      /\ Outcome(inputs).changed => version < MaxVersion
      /\ messages' = Outcome(inputs).messages
      /\ attachments' = Outcome(inputs).attachments
      /\ version' = IF Outcome(inputs).changed THEN version + 1 ELSE version
      /\ last' = Outcome(inputs).last
      /\ parent' = Outcome(inputs).parent
      /\ applied' = Outcome(inputs).applied
  BY Applied
<1> DEFINE u == Outcome(inputs)
<1> HIDE DEF u
<1>2. TablesInv(Tables)'
  <2>1. TablesInv(u)
    BY <1>1 DEF Progress, u
  <2>2. /\ Tables'.messages = u.messages /\ Tables'.attachments = u.attachments
        /\ Tables'.changed \in BOOLEAN
        /\ Tables'.last = u.last /\ Tables'.parent = u.parent /\ Tables'.applied = u.applied
    BY <1>1 DEF Tables, u
  <2>3. TablesInv(Tables')
    BY <2>1, <2>2, SameFields
  <2> QED
    BY <2>3
<1>3. version' \in 0..MaxVersion
  BY <1>1, SyncAssumption DEF SyncInv, FetchTypes
<1>4. ASSUME NEW m \in Messages, applied'[m] # NoRow
      PROVE  remote'[m] # NoRow
  <2>1. DOMAIN inputs = 1..Len(inputs)
    OBVIOUS
  <2>2. CASE \E j \in 1..Len(inputs) : inputs[j][1] = m
    BY <2>1, <2>2
  <2>3. CASE \A j \in 1..Len(inputs) : inputs[j][1] # m
    <3>1. applied'[m] = applied[m]
      BY <1>1, <2>3, TableFields DEF Progress
    <3> QED
      BY <1>4, <3>1 DEF SyncInv, PostedInv
  <2> QED
    BY <2>2, <2>3
<1> QED
  BY <1>2, <1>3, <1>4

\* A synchronization stores its batch and is over.
LEMMA StoreKeeps == SyncInv /\ Store => SyncInv'
<1> SUFFICES ASSUME SyncInv, Store PROVE SyncInv'
  OBVIOUS
<1>1. /\ ApplySlackMessages(batch, "synchronized") /\ synced' = TRUE
      /\ UNCHANGED <<slackVars, steady>>
  BY DEF Store
<1>2. pc' = "idle" /\ cursor' = 0 /\ tries' = 0 /\ batch' = <<>>
  BY DEF Store, Idle
<1>3. batch \in Seq(Inputs) /\ Ascending(batch) /\ UNCHANGED remote
      /\ \A k \in DOMAIN batch : remote[batch[k][1]] # NoRow
  BY <1>1 DEF SyncInv, FetchTypes, BatchInv, PostedInv, slackVars
<1>4. /\ TablesInv(Tables)'
      /\ version' \in 0..MaxVersion
      /\ \A m \in Messages : applied'[m] # NoRow => remote'[m] # NoRow
  BY <1>1, <1>3, AppliedKeeps
<1>5. sync' = "synchronized"
  BY <1>1, <1>3, Applied
<1>6. FetchTypes'
  <2>1. cursor' \in 0..NumMessages /\ tries' \in 0 .. MaxTries-1 /\ batch' \in Seq(Inputs)
    BY <1>2, SyncAssumption DEF MaxTries
  <2> QED
    BY <1>1, <1>2, <1>4, <1>5, <2>1 DEF SyncInv, FetchTypes, slackVars
<1>7. BatchInv' /\ QuietInv'
  BY <1>2 DEF BatchInv, QuietInv, Ascending, Listed
<1>8. PostedInv'
  BY <1>1, <1>2, <1>4 DEF SyncInv, PostedInv, slackVars
<1> QED
  BY <1>4, <1>6, <1>7, <1>8 DEF SyncInv

\* The one input of an event is a sequence in order.
LEMMA OneInput ==
    ASSUME NEW input \in Inputs
    PROVE  /\ <<input>> \in Seq(Inputs) /\ Ascending(<<input>>) /\ Len(<<input>>) = 1
           /\ DOMAIN <<input>> = {1} /\ <<input>>[1] = input
  BY DEF Ascending

\* An event leaves the fetch of another handler as it is.
LEMMA ApplyEventKeeps ==
    ASSUME SyncInv, NEW input \in sent, ApplyEvent(input)
    PROVE  SyncInv'
<1>1. /\ ApplySlackMessages(<<input>>, "dirty")
      /\ UNCHANGED <<slackVars, synced, fetchVars, steady>>
  BY DEF ApplyEvent
<1>2. input \in Inputs /\ remote[input[1]] # NoRow
  BY DEF SyncInv, FetchTypes, PostedInv
<1> DEFINE inputs == <<input>>
<1>3. /\ inputs \in Seq(Inputs) /\ Ascending(inputs)
      /\ DOMAIN inputs = {1} /\ inputs[1] = input
  BY <1>2, OneInput
<1>4. ApplySlackMessages(inputs, "dirty") /\ UNCHANGED remote
  BY <1>1 DEF slackVars
<1> HIDE DEF inputs
<1>5. \A k \in DOMAIN inputs : remote[inputs[k][1]] # NoRow
  BY <1>2, <1>3
<1>6. /\ TablesInv(Tables)'
      /\ version' \in 0..MaxVersion
      /\ \A m \in Messages : applied'[m] # NoRow => remote'[m] # NoRow
  BY <1>3, <1>4, <1>5, AppliedKeeps
<1>7. sync' \in {sync, "dirty"}
  BY <1>3, <1>4, Applied
<1>8. FetchTypes'
  BY <1>1, <1>6, <1>7 DEF SyncInv, FetchTypes, slackVars, fetchVars
<1>9. BatchInv'
  BY <1>1, <1>7 DEF SyncInv, BatchInv, fetchVars
<1>10. PostedInv'
  BY <1>1, <1>6 DEF SyncInv, PostedInv, slackVars, fetchVars
<1>11. QuietInv'
  BY <1>1 DEF SyncInv, QuietInv, Listed, slackVars, fetchVars
<1> QED
  BY <1>6, <1>8, <1>9, <1>10, <1>11 DEF SyncInv

\* The invariant of the synchronization holds at every moment, for every thread, every
\* sharing of files and every size of a page.
THEOREM SyncInvariant == Spec => []SyncInv
<1>1. Init => SyncInv
  BY InitSync
<1>2. SyncInv /\ [Next]_vars => SyncInv'
  <2> SUFFICES ASSUME SyncInv, [Next]_vars PROVE SyncInv'
    OBVIOUS
  <2>1. ASSUME NEW m \in Messages, NEW content \in Posts(m) \union {Deletion},
               SlackChange(m, content)
        PROVE  SyncInv'
    BY <2>1, SlackChangeKeeps
  <2>2. CASE BeginFetch
    BY <2>2, BeginFetchKeeps
  <2>3. CASE FetchPage
    BY <2>3, FetchPageKeeps
  <2>4. CASE RateLimited
    BY <2>4, RateLimitedKeeps
  <2>5. CASE SyncFails
    BY <2>5, SyncFailsKeeps
  <2>6. CASE Store
    BY <2>6, StoreKeeps
  <2>7. ASSUME NEW input \in sent, ApplyEvent(input) PROVE SyncInv'
    BY <2>7, ApplyEventKeeps
  <2>8. CASE UNCHANGED vars
    <3>1. TablesInv(Tables)'
      BY <2>8, TablesStay DEF SyncInv, vars
    <3> QED
      BY <2>8, <3>1 DEF SyncInv, FetchTypes, BatchInv, PostedInv, QuietInv, Listed,
                        vars, slackVars, fetchVars, rowVars
  <2> QED
    BY <2>1, <2>2, <2>3, <2>4, <2>5, <2>6, <2>7, <2>8 DEF Next
<1> QED
  BY <1>1, <1>2, PTL DEF Spec

(***************************************************************************)
(* The properties.                                                         *)
(***************************************************************************)

\* The types, the newest message and the parent that the thread row names, and the order
\* in which a fetch collects the messages.
THEOREM TypesAndOrder == Spec => []TypeOK
<1>1. SyncInv => TypeOK
  <2> SUFFICES ASSUME SyncInv PROVE TypeOK
    OBVIOUS
  <2>1. RowsOK(Tables)
    BY DEF SyncInv, TablesInv
  <2>2. \A f \in Files : attachments[f] = NoRow \/ attachments[f].message \in Carriers[f]
    BY <2>1, TableFields DEF RowsOK
  <2>3. last = Max({m \in Messages : Tabled(m)} \union {0})
    <3> DEFINE S == {m \in Messages : Tabled(m)} \union {0}
    <3>1. S \in SUBSET Int
      BY DEF Messages
    <3>2. last \in S
      BY <2>1, TableFields DEF RowsOK, Tabled
    <3>3. \A m \in S : last >= m
      <4>1. last >= 0
        BY <3>2 DEF Messages
      <4> QED
        BY <2>1, <4>1, TableFields DEF RowsOK, Tabled
    <3> HIDE DEF S
    <3>4. Max(S) = last
      BY <3>1, <3>2, <3>3, IsGreatest
    <3> QED
      BY <3>4 DEF S
  <2>4. parent = IF Tabled(1) THEN 1 ELSE 0
    BY <2>1, TableFields DEF RowsOK, Tabled
  <2> QED
    BY <2>2, <2>3, <2>4 DEF SyncInv, FetchTypes, BatchInv, Ascending, TypeOK
<1> QED
  BY <1>1, SyncInvariant, PTL

\* What is shown of a message is what the tables show.
LEMMA ShownIsTables ==
    /\ \A m \in Messages : Shown(m) = ShownIn(Tables, m)
    /\ \A m \in Messages : Shown(m)' = ShownIn(Tables', m)
<1>1. \A m \in Messages : {g \in Existing(attachments, m) : ~attachments[g].removed} =
                              FilesOf(attachments, m)
  BY DEF FilesOf
<1>2. \A m \in Messages : {g \in Existing(attachments', m) : ~attachments'[g].removed} =
                              FilesOf(attachments', m)
  BY DEF FilesOf
<1>3. \A m \in Messages : Shown(m) = ShownIn(Tables, m)
  BY <1>1 DEF Shown, Tabled, ShownIn, Tables
<1>4. \A m \in Messages : Shown(m)' = ShownIn(Tables', m)
  BY <1>2 DEF Shown, Tabled, ShownIn, Tables, Existing, FilesOf
<1> QED
  BY <1>3, <1>4

\* A message that shares no file shows what was last applied to it, whatever was removed,
\* restored or deleted before.
THEOREM ShowsWhatWasApplied == Spec => []MessagesShowWhatWasApplied
<1>1. SyncInv => MessagesShowWhatWasApplied
  BY ShownIsTables, TableFields
  DEF SyncInv, TablesInv, ShowsApplied, MessagesShowWhatWasApplied
<1> QED
  BY <1>1, SyncInvariant, PTL

\* A step that leaves messages and attachments alone leaves alone what is shown.
LEMMA SameShown ==
    ASSUME messages' = messages, attachments' = attachments
    PROVE  \A m \in Messages : Shown(m)' = Shown(m)
<1>1. \A m \in Messages : ShownIn(Tables', m) = ShownIn(Tables, m)
  BY DEF ShownIn, Tables
<1> QED
  BY <1>1, ShownIsTables

\* A transaction that counts as a change shows one, unless it moves a file from message to
\* message.
LEMMA VersionOfTransaction ==
    ASSUME SyncInv, SyncInv', NEW inputs \in Seq(Inputs), Ascending(inputs),
           NEW target \in {"synchronized", "dirty"}, ApplySlackMessages(inputs, target)
    PROVE  IF \E m \in Messages : Shown(m)' # Shown(m)
           THEN version' = version + 1
           ELSE \/ version' = version
                \/ version' = version + 1 /\ MovesAFile(inputs)
<1>1. /\ Progress(Tables, inputs, Len(inputs), Outcome(inputs))
      /\ Outcome(inputs).changed \in BOOLEAN
      /\ messages' = Outcome(inputs).messages
      /\ attachments' = Outcome(inputs).attachments
      /\ version' = IF Outcome(inputs).changed THEN version + 1 ELSE version
  BY Applied
<1> DEFINE u == Outcome(inputs)
           n == Len(inputs)
<1> HIDE DEF u, n
<1>2. CASE ~u.changed
  <2>1. messages' = messages /\ attachments' = attachments /\ version' = version
    BY <1>1, <1>2, TableFields DEF Progress, u
  <2>2. ~ \E m \in Messages : Shown(m)' # Shown(m)
    BY <2>1, SameShown
  <2> QED
    BY <2>1, <2>2
<1>3. CASE u.changed /\ ~MovesAFile(inputs)
  <2>1. PICK j \in 1..n : ShowsNews(Tables, u, inputs[j])
    BY <1>1, <1>3 DEF Progress, u, n
  <2>2. inputs[j][1] \in Messages
    <3>1. \A x \in Inputs : x[1] \in Messages
      BY InputShape
    <3>2. inputs[j] \in Inputs
      BY DEF n
    <3> QED
      BY <3>1, <3>2
  <2>3. ShownIn(Tables', inputs[j][1]) = ShownIn(u, inputs[j][1])
    BY <1>1 DEF ShownIn, Tables, u
  <2>4. Shown(inputs[j][1])' # Shown(inputs[j][1])
    BY <2>1, <2>2, <2>3, ShownIsTables DEF ShowsNews
  <2> QED
    BY <1>1, <1>3, <2>2, <2>4 DEF u
<1>4. CASE u.changed /\ MovesAFile(inputs)
  BY <1>1, <1>4 DEF u
<1> QED
  BY <1>1, <1>2, <1>3, <1>4 DEF u

\* The context version grows by one exactly when what is shown of the thread changes: only
\* a synchronization that finds a file with two messages may count one more.
THEOREM VersionTheorem == Spec => VersionCountsChanges
<1> DEFINE Counts == IF \E m \in Messages : Shown(m)' # Shown(m)
                     THEN version' = version + 1
                     ELSE \/ version' = version
                          \/ /\ version' = version + 1
                             /\ pc = "store" /\ pc' = "idle" /\ MovesAFile(batch)
<1>1. SyncInv /\ SyncInv' /\ [Next]_vars => [Counts]_vars
  <2> SUFFICES ASSUME SyncInv, SyncInv', [Next]_vars PROVE Counts \/ UNCHANGED vars
    OBVIOUS
  <2>1. UNCHANGED rowVars => Counts
    BY SameShown DEF rowVars
  <2> HIDE DEF Counts
  <2>2. Store => Counts
    <3>1. batch \in Seq(Inputs) /\ Ascending(batch)
      BY DEF SyncInv, FetchTypes, BatchInv
    <3> QED
      BY <3>1, VersionOfTransaction DEF Store, Idle, Counts
  <2>3. ASSUME NEW input \in sent, ApplyEvent(input) PROVE Counts
    <3> DEFINE inputs == <<input>>
    <3>1. input \in Inputs
      BY DEF SyncInv, FetchTypes
    <3>2. inputs \in Seq(Inputs) /\ Ascending(inputs)
      BY <3>1, OneInput
    <3>3. ApplySlackMessages(inputs, "dirty")
      BY <2>3 DEF ApplyEvent
    <3>4. ~MovesAFile(inputs)
      BY DEF MovesAFile
    <3> HIDE DEF inputs
    <3> QED
      BY <3>2, <3>3, <3>4, VersionOfTransaction DEF Counts
  <2>4. /\ \A m \in Messages : \A content \in Posts(m) \union {Deletion} :
              SlackChange(m, content) => UNCHANGED rowVars
        /\ BeginFetch \/ FetchPage \/ RateLimited \/ SyncFails => UNCHANGED rowVars
    BY DEF SlackChange, BeginFetch, FetchPage, RateLimited, SyncFails
  <2> QED
    BY <2>1, <2>2, <2>3, <2>4 DEF Next
<1> QED
  BY <1>1, SyncInvariant, PTL DEF Spec, VersionCountsChanges

\* A synchronization during which nothing happens in Slack leaves the thread as it is in
\* Slack, but for the deletions that were not applied last.
THEOREM QuietSync == Spec => SyncMissesOnlyDeletions
<1> DEFINE Shows == pc = "store" /\ sync' = "synchronized" /\ steady =>
                        \A m \in Messages : Exclusive(m) /\ remote[m] # Deletion =>
                            Shown(m)' = remote[m]
<1>1. SyncInv /\ SyncInv' /\ [Next]_vars => [Shows]_vars
  <2> SUFFICES ASSUME SyncInv, SyncInv', [Next]_vars,
                      pc = "store", sync' = "synchronized", steady, ~UNCHANGED vars,
                      NEW m \in Messages, Exclusive(m), remote[m] # Deletion
               PROVE  Shown(m)' = remote[m]
    OBVIOUS
  <2>1. Store
    <3>1. sync \in {"syncing", "dirty"}
      BY DEF SyncInv, BatchInv
    <3>2. \A k \in Messages : \A content \in Posts(k) \union {Deletion} :
              SlackChange(k, content) => sync' = sync
      BY DEF SlackChange
    <3>3. ~BeginFetch /\ ~FetchPage /\ ~RateLimited /\ (SyncFails => sync' = sync)
      BY DEF BeginFetch, FetchPage, RateLimited, SyncFails
    <3>4. ASSUME NEW input \in sent, ApplyEvent(input) PROVE sync' # "synchronized"
      <4> DEFINE inputs == <<input>>
      <4>1. input \in Inputs
        BY DEF SyncInv, FetchTypes
      <4>2. inputs \in Seq(Inputs) /\ Ascending(inputs)
        BY <4>1, OneInput
      <4>3. ApplySlackMessages(inputs, "dirty")
        BY <3>4 DEF ApplyEvent
      <4> HIDE DEF inputs
      <4>4. sync' \in {sync, "dirty"}
        BY <4>2, <4>3, Applied
      <4> QED
        BY <3>1, <4>4
    <3> QED
      BY <3>1, <3>2, <3>3, <3>4 DEF Next
  <2>2. /\ batch \in Seq(Inputs) /\ Ascending(batch)
        /\ ApplySlackMessages(batch, "synchronized")
    BY <2>1 DEF Store, SyncInv, FetchTypes, BatchInv
  <2>3. Progress(Tables, batch, Len(batch), Outcome(batch)) /\ applied' = Outcome(batch).applied
    BY <2>2, Applied
  <2>4. Shown(m)' = applied'[m]
    BY ShownIsTables, TableFields DEF SyncInv, TablesInv, ShowsApplied, Tables
  <2>5. DOMAIN batch = 1..Len(batch)
    BY <2>2
  <2>6. CASE remote[m] = NoRow
    <3>1. \A k \in 1..Len(batch) : batch[k][1] # m
      BY <2>5, <2>6 DEF SyncInv, PostedInv
    <3>2. applied'[m] = applied[m]
      BY <2>3, <3>1, TableFields DEF Progress
    <3>3. applied[m] = NoRow
      BY <2>6 DEF SyncInv, PostedInv
    <3> QED
      BY <2>4, <2>6, <3>2, <3>3
  <2>7. CASE remote[m] # NoRow
    <3>1. m \in Listed(0)
      BY <2>7 DEF Listed, Messages
    <3>2. m <= cursor
      <4>1. m \notin Listed(cursor) /\ cursor \in Nat
        BY DEF SyncInv, QuietInv, FetchTypes
      <4> QED
        BY <2>7, <4>1 DEF Listed, Messages
    <3>3. PICK k \in DOMAIN batch : batch[k] = <<m, remote[m]>>
      BY <3>1, <3>2 DEF SyncInv, QuietInv
    <3>4. batch[k][1] = m /\ batch[k][2] = remote[m]
      BY <3>3
    <3>5. applied'[m] = remote[m]
      BY <2>3, <2>5, <3>4 DEF Progress
    <3> QED
      BY <2>4, <3>5
  <2> QED
    BY <2>6, <2>7
<1> QED
  BY <1>1, SyncInvariant, PTL DEF Spec, SyncMissesOnlyDeletions

=============================================================================
