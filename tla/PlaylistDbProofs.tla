--------------------------- MODULE PlaylistDbProofs ---------------------------
(***************************************************************************)
(* Theorems about PlaylistDb, checked by TLAPS for every set of writers,   *)
(* readers, titles and folders, and every bound.                           *)
(***************************************************************************)
EXTENDS PlaylistDb, SequenceTheorems, TLAPS

(***************************************************************************)
(* Lemmas about stacks and lists.                                          *)
(***************************************************************************)

\* Replacing the innermost activation keeps a stack a stack of the same depth.
LEMMA SetTopType ==
  ASSUME NEW S, NEW s \in Seq(S), s # << >>, NEW f \in S
  PROVE  /\ SetTop(s, f) \in Seq(S)
         /\ Len(SetTop(s, f)) = Len(s)
         /\ \A j \in 1..Len(s) : SetTop(s, f)[j] = IF j = Len(s) THEN f ELSE s[j]
<1>1. Len(s) \in 1..Len(s)
  BY EmptySeq
<1>. QED  BY <1>1, ExceptSeq DEF SetTop

\* Popping drops the innermost activation and nothing else.
LEMMA PopType ==
  ASSUME NEW S, NEW s \in Seq(S), s # << >>
  PROVE  /\ Pop(s) \in Seq(S)
         /\ Len(Pop(s)) = Len(s) - 1
         /\ \A j \in 1..(Len(s) - 1) : Pop(s)[j] = s[j]
<1>1. Len(s) \in Nat \ {0}
  BY EmptySeq
<1>2. \A j \in 1..Len(s) : s[j] \in S
  BY ElementOfSeq
<1>3. Pop(s) \in [1..(Len(s) - 1) -> S]
  BY <1>1, <1>2 DEF Pop
<1>. QED  BY <1>1, <1>3 DEF Pop

\* Advancing moves the innermost activation to its next list element.
LEMMA AdvanceType ==
  ASSUME NEW s \in Seq(Frame), s # << >>
  PROVE  /\ NextItem(s) \in Seq(Frame)
         /\ Len(NextItem(s)) = Len(s)
         /\ \A j \in 1..Len(s) : NextItem(s)[j].next = s[j].next
<1>1. Len(s) \in Nat \ {0}
  BY EmptySeq
<1>2. s[Len(s)] \in Frame
  BY <1>1, ElementOfSeq
<1>. DEFINE f == [s[Len(s)] EXCEPT !.i = @ + 1]
<1>3. f \in Frame
  <2>. DEFINE t == s[Len(s)]
  <2>1. t \in Frame
    BY <1>2
  <2>. HIDE DEF t
  <2>2. t.i + 1 \in Nat \ {0}
    BY <2>1 DEF Frame
  <2>3. [t EXCEPT !.i = @ + 1] \in Frame
    BY <2>1, <2>2 DEF Frame
  <2>. QED  BY <2>3 DEF t
<1>4. \A j \in 1..Len(s) : s[j] \in Frame
  BY ElementOfSeq
<1>5. f.next = s[Len(s)].next
  BY <1>2 DEF Frame
<1>6. /\ SetTop(s, f) \in Seq(Frame)
      /\ Len(SetTop(s, f)) = Len(s)
      /\ \A j \in 1..Len(s) : SetTop(s, f)[j] = IF j = Len(s) THEN f ELSE s[j]
  <2>. HIDE DEF f
  <2>. QED  BY <1>3, SetTopType
<1>. QED  BY <1>5, <1>6 DEF NextItem

\* A list with one entry put in: its length and the ids it links.
LEMMA InsertAtLinks ==
  ASSUME NEW list \in Seq(Entry), NEW p \in 1..(Len(list) + 1), NEW e \in Entry
  PROVE  /\ InsertAt(list, p, e) \in Seq(Entry)
         /\ Len(InsertAt(list, p, e)) = Len(list) + 1
         /\ \A i \in 0..(Len(list) + 2) :
              IdAt(InsertAt(list, p, e), i) =
                IF i < p THEN IdAt(list, i) ELSE IF i = p THEN e.id ELSE IdAt(list, i - 1)
<1>1. Len(list) \in Nat /\ \A i \in 1..Len(list) : list[i] \in Entry
  BY ElementOfSeq
<1>. DEFINE new == InsertAt(list, p, e)
<1>2. new \in [1..(Len(list) + 1) -> Entry]
  BY <1>1 DEF InsertAt
<1>3. new \in Seq(Entry) /\ Len(new) = Len(list) + 1
  BY <1>1, <1>2
<1>4. ASSUME NEW i \in 0..(Len(list) + 2)
      PROVE  IdAt(new, i) =
               IF i < p THEN IdAt(list, i) ELSE IF i = p THEN e.id ELSE IdAt(list, i - 1)
  BY <1>1, <1>3 DEF IdAt, InsertAt
<1>. QED  BY <1>3, <1>4

\* A list with the entries a .. m-1 taken out.
LEMMA CutSliceLinks ==
  ASSUME NEW list \in Seq(Entry),
         NEW a \in 1..(Len(list) + 1), NEW m \in 1..(Len(list) + 1), a <= m
  PROVE  /\ CutSlice(list, a, m) \in Seq(Entry)
         /\ Len(CutSlice(list, a, m)) = Len(list) - (m - a)
         /\ \A i \in 0..(Len(list) - (m - a) + 1) :
              IdAt(CutSlice(list, a, m), i) =
                IF i < a THEN IdAt(list, i) ELSE IdAt(list, i + (m - a))
<1>1. Len(list) \in Nat /\ \A i \in 1..Len(list) : list[i] \in Entry
  BY ElementOfSeq
<1>. DEFINE new == CutSlice(list, a, m)
            n   == Len(list) - (m - a)
<1>2. n \in Nat /\ new \in [1..n -> Entry]
  BY <1>1 DEF CutSlice
<1>3. new \in Seq(Entry) /\ Len(new) = n
  BY <1>1, <1>2
<1>4. ASSUME NEW i \in 0..(n + 1)
      PROVE  IdAt(new, i) = IF i < a THEN IdAt(list, i) ELSE IdAt(list, i + (m - a))
  <2>1. CASE i = 0
    BY <1>1, <2>1 DEF IdAt
  <2>2. CASE i = n + 1
    <3>1. i >= a /\ i + (m - a) = Len(list) + 1 /\ i # 0
      BY <1>1, <1>2, <2>2
    <3>. QED  BY <1>1, <1>3, <2>2, <3>1 DEF IdAt
  <2>3. CASE i \in 1..n
    <3>1. new[i] = IF i < a THEN list[i] ELSE list[i + (m - a)]
      BY <2>3 DEF CutSlice
    <3>2. i # 0 /\ i # n + 1 /\ i + (m - a) # Len(list) + 1 /\ i # Len(list) + 1
      BY <1>1, <1>2, <2>3
    <3>3. i + (m - a) # 0
      BY <1>1, <2>3
    <3>. QED  BY <1>3, <3>1, <3>2, <3>3 DEF IdAt
  <2>. QED  BY <1>2, <2>1, <2>2, <2>3
<1>. QED  BY <1>2, <1>3, <1>4

-----------------------------------------------------------------------------
(***************************************************************************)
(* Type correctness, for any number of writers and whatever fails.  TypeOK *)
(* is not inductive: the innermost activation must exist while its steps   *)
(* run, and the row inserted must be of a title.                           *)
(***************************************************************************)
Adding   == {"count", "max", "next", "item", "insert"}
Removing == {"rfirst", "rnext", "rdelete", "rrelink"}

Control(w) ==
  /\ pc[w] \in Adding => stack[w] # << >>
  /\ pc[w] \in Removing \cup {"idle"} => stack[w] = << >>
  /\ pc[w] = "insert" => Top(w).i <= Len(Top(w).items) /\ ItemNow(w) \in Titles

TypeInv == TypeOK /\ \A w \in Writers : Control(w)

\* The innermost activation is a frame.
LEMMA TopType ==
  ASSUME TypeOK, NEW w \in Writers, stack[w] # << >>
  PROVE  /\ stack[w] \in Seq(Frame)
         /\ Len(stack[w]) \in Nat \ {0}
         /\ Top(w) \in Frame
         /\ Top(w).items \in Seq(Item)
         /\ Top(w).i \in Nat \ {0}
         /\ Top(w).next \in Int
         /\ Top(w).first \in Int
<1>1. stack[w] \in Seq(Frame)
  BY DEF TypeOK
<1>2. Len(stack[w]) \in Nat \ {0}
  BY <1>1, EmptySeq
<1>3. Top(w) \in Frame
  BY <1>1, <1>2, ElementOfSeq DEF Top
<1>. QED  BY <1>1, <1>2, <1>3 DEF Frame

IsTable(t) == DOMAIN t \subseteq Nat /\ t \in [DOMAIN t -> Row]

\* An UPDATE keeps every row's id and title and changes the link of those that match.
LEMMA RelinkTable ==
  ASSUME NEW t, IsTable(t), NEW old \in Int, NEW new \in Int
  PROVE  /\ DOMAIN Relink(t, old, new) = DOMAIN t
         /\ IsTable(Relink(t, old, new))
         /\ \A k \in DOMAIN t :
              /\ Relink(t, old, new)[k].id = t[k].id
              /\ Relink(t, old, new)[k].title = t[k].title
              /\ Relink(t, old, new)[k].next = IF t[k].next = old THEN new ELSE t[k].next
BY DEF IsTable, Relink, Row

\* An INSERT adds the one row.
LEMMA InsertTable ==
  ASSUME NEW t, IsTable(t), NEW top \in DOMAIN t, NEW row \in Row
  PROVE  /\ DOMAIN Insert(t, top, row) = DOMAIN t \cup {top + 1}
         /\ IsTable(Insert(t, top, row))
         /\ Insert(t, top, row)[top + 1] = row
         /\ \A k \in DOMAIN t : k # top + 1 => Insert(t, top, row)[k] = t[k]
BY DEF IsTable, Insert

\* A DELETE keeps exactly the rows of other ids.
LEMMA DeleteTable ==
  ASSUME NEW t, IsTable(t), NEW id \in Int
  PROVE  /\ DOMAIN Delete(t, id) = {j \in DOMAIN t : t[j].id # id}
         /\ IsTable(Delete(t, id))
         /\ \A k \in DOMAIN Delete(t, id) : Delete(t, id)[k] = t[k]
BY DEF IsTable, Delete

LEMMA InitTypeInv == Init => TypeInv
<1>1. SUFFICES ASSUME Init PROVE TypeInv
  OBVIOUS
<1>2. DOMAIN rows \subseteq Nat /\ rows \in [DOMAIN rows -> Row]
  BY <1>1 DEF Init, InitialTable, Row, BEGINNING, END
<1>3. \A S : << >> \in Seq(S)
  BY EmptySeq
<1>4. NoRead \in Read /\ NoRemove \in Remove
  BY <1>3 DEF NoRead, Read, NoRemove, Remove, END
<1>. QED  BY <1>1, <1>2, <1>3, <1>4
          DEF Init, TypeInv, TypeOK, Control, WriterSteps, Adding, Removing

\* The history flag of the reads is all a writer's step changes in them.
LEMMA DisturbType ==
  ASSUME TypeOK, Disturb
  PROVE  rd' \in [Readers -> Read]
<1>1. ASSUME NEW r \in Readers
      PROVE  (IF rows' = rows THEN rd[r] ELSE [rd[r] EXCEPT !.quiet = FALSE]) \in Read
  <2>1. rd[r] \in Read
    BY DEF TypeOK
  <2>2. [rd[r] EXCEPT !.quiet = FALSE] \in Read
    BY <2>1 DEF Read
  <2>. QED  BY <2>1, <2>2
<1>. QED  BY <1>1 DEF Disturb

\* Steps that only choose the next step and set local scalars.
LEMMA LocalStepType ==
  ASSUME TypeInv, NEW w \in Writers, rd' \in [Readers -> Read],
         AddCount(w) \/ AddMax(w) \/ AddEnd(w) \/ BumpLoad(w)
  PROVE  TypeInv'
<1>1. rows' = rows /\ counter' = counter /\ stack' = stack /\ rm' = rm /\ ops' = ops
      /\ order' = order
  BY DEF AddCount, AddMax, AddEnd, BumpLoad
<1>2. highest' \in [Writers -> Int]
  BY DEF TypeInv, TypeOK, AddCount, AddMax, AddEnd, BumpLoad, RowIds, Row
<1>3. tmp' \in [Writers -> Nat]
  BY DEF TypeInv, TypeOK, AddCount, AddMax, AddEnd, BumpLoad
<1>4. /\ pc' \in [Writers -> WriterSteps]
      /\ \A v \in Writers : v # w => pc'[v] = pc[v]
      /\ \/ pc[w] \in Adding /\ pc'[w] \in {"max", "next", "bump"}
         \/ pc'[w] = "store"
  BY DEF TypeInv, TypeOK, AddCount, AddMax, AddEnd, BumpLoad, Goto, WriterSteps, Adding
<1>5. \A v \in Writers : Control(v)'
  BY <1>1, <1>4 DEF TypeInv, Control, Adding, Removing, Top, ItemNow
<1>. QED  BY <1>1, <1>2, <1>3, <1>4, <1>5 DEF TypeInv, TypeOK

\* Steps that replace, push or pop activations.
LEMMA StackStepType ==
  ASSUME TypeInv, NEW w \in Writers, rd' \in [Readers -> Read],
         NEW s \in Seq(Frame), stack' = [stack EXCEPT ![w] = s],
         NEW step \in WriterSteps \ {"insert"}, pc' = [pc EXCEPT ![w] = step],
         step \in Adding => s # << >>,
         step \in Removing \cup {"idle"} => s = << >>,
         UNCHANGED <<rm, tmp>>, ops' \in Nat, counter' \in Nat,
         highest' \in [Writers -> Int], order' \in Seq(Entry),
         DOMAIN rows' \subseteq Nat, rows' \in [DOMAIN rows' -> Row]
  PROVE  TypeInv'
<1>1. stack' \in [Writers -> Seq(Frame)] /\ pc' \in [Writers -> WriterSteps]
  BY DEF TypeInv, TypeOK
<1>2. \A v \in Writers : v # w => stack'[v] = stack[v] /\ pc'[v] = pc[v]
  BY DEF TypeInv, TypeOK
<1>3. stack'[w] = s /\ pc'[w] = step
  BY DEF TypeInv, TypeOK
<1>4. \A v \in Writers : Control(v)'
  BY <1>2, <1>3 DEF TypeInv, Control, Adding, Removing, Top, ItemNow
<1>. QED  BY <1>1, <1>4 DEF TypeInv, TypeOK

LEMMA AddBeginType ==
  ASSUME TypeInv, NEW w \in Writers, rd' \in [Readers -> Read],
         NEW first \in Int, NEW items \in Requests, AddBegin(w, first, items)
  PROVE  TypeInv'
<1>1. NewFrame(first, items) \in Frame
  BY ConstantsOK DEF NewFrame, Frame, END
<1>. DEFINE s == <<NewFrame(first, items)>>
<1>2. s \in Seq(Frame) /\ s # << >>
  BY <1>1
<1>3. stack' = [stack EXCEPT ![w] = s] /\ pc' = [pc EXCEPT ![w] = "count"]
  BY DEF AddBegin, Goto
<1>4. /\ UNCHANGED <<rm, tmp, rows, counter, order>>
      /\ ops' \in Nat /\ highest' \in [Writers -> Int]
  BY DEF AddBegin, StartOp, TypeInv, TypeOK
<1>5. "count" \in WriterSteps \ {"insert"} /\ "count" \notin Removing \cup {"idle"}
  BY DEF WriterSteps, Removing
<1>. HIDE DEF s
<1>. QED  BY <1>2, <1>3, <1>4, <1>5, StackStepType DEF TypeInv, TypeOK

LEMMA AddNextType ==
  ASSUME TypeInv, NEW w \in Writers, rd' \in [Readers -> Read], AddNext(w)
  PROVE  TypeInv'
<1>1. pc[w] = "next" /\ stack[w] # << >>
  BY DEF AddNext, TypeInv, Control, Adding
<1>2. PICK id \in Int : SetNext(w, id)
  BY DEF AddNext, TypeInv, TypeOK, Row, END
<1>. DEFINE f == [Top(w) EXCEPT !.next = id]
            s == SetTop(stack[w], f)
<1>3. f \in Frame
  BY <1>1, TopType DEF Frame, TypeInv
<1>4. s \in Seq(Frame) /\ Len(s) = Len(stack[w])
  <2>. HIDE DEF f
  <2>. QED  BY <1>1, <1>3, SetTopType, TopType DEF TypeInv
<1>5. s # << >>
  BY <1>1, <1>4, TopType, EmptySeq DEF TypeInv
<1>6. stack' = [stack EXCEPT ![w] = s] /\ pc' = [pc EXCEPT ![w] = "item"]
  BY <1>2 DEF AddNext, Goto, SetNext
<1>7. UNCHANGED <<rm, tmp, rows, counter, order, ops, highest>>
  BY DEF AddNext
<1>8. "item" \in WriterSteps \ {"insert"} /\ "item" \notin Removing \cup {"idle"}
  BY DEF WriterSteps, Removing
<1>. HIDE DEF s
<1>. QED  BY <1>4, <1>5, <1>6, <1>7, <1>8, StackStepType DEF TypeInv, TypeOK

LEMMA AddSkipType ==
  ASSUME TypeInv, NEW w \in Writers, rd' \in [Readers -> Read], AddSkip(w)
  PROVE  TypeInv'
<1>1. pc[w] = "item" /\ stack[w] # << >>
  BY DEF AddSkip, AtItem, TypeInv, Control, Adding
<1>. DEFINE s == NextItem(stack[w])
<1>2. s \in Seq(Frame) /\ s # << >>
  BY <1>1, AdvanceType, TopType, EmptySeq DEF TypeInv
<1>3. stack' = [stack EXCEPT ![w] = s] /\ pc' = [pc EXCEPT ![w] = "item"]
  BY <1>1 DEF AddSkip, TypeInv, TypeOK
<1>4. UNCHANGED <<rm, tmp, rows, counter, order, ops, highest>>
  BY DEF AddSkip
<1>5. "item" \in WriterSteps \ {"insert"} /\ "item" \notin Removing \cup {"idle"}
  BY DEF WriterSteps, Removing
<1>. HIDE DEF s
<1>. QED  BY <1>2, <1>3, <1>4, <1>5, StackStepType DEF TypeInv, TypeOK

LEMMA AddFolderType ==
  ASSUME TypeInv, NEW w \in Writers, rd' \in [Readers -> Read], AddFolder(w)
  PROVE  TypeInv'
<1>1. pc[w] = "item" /\ stack[w] # << >> /\ ItemNow(w) \in Folders
  BY DEF AddFolder, AtItem, TypeInv, Control, Adding
<1>. DEFINE after == IF Top(w).i = 1 THEN Top(w).first ELSE highest[w]
            f == NewFrame(after, Contents[ItemNow(w)])
            s == Append(stack[w], f)
<1>2. after \in Int
  BY <1>1, TopType DEF TypeInv, TypeOK
<1>3. f \in Frame
  <2>. HIDE DEF after
  <2>. QED  BY <1>1, <1>2, ConstantsOK DEF NewFrame, Frame, END
<1>4. s \in Seq(Frame) /\ s # << >>
  <2>. HIDE DEF f
  <2>1. stack[w] \in Seq(Frame)
    BY DEF TypeInv, TypeOK
  <2>. QED  BY <1>3, <2>1, AppendProperties
<1>5. stack' = [stack EXCEPT ![w] = s] /\ pc' = [pc EXCEPT ![w] = "count"]
  BY DEF AddFolder, Goto
<1>6. UNCHANGED <<rm, tmp, rows, counter, order, ops, highest>>
  BY DEF AddFolder
<1>7. "count" \in WriterSteps \ {"insert"} /\ "count" \notin Removing \cup {"idle"}
  BY DEF WriterSteps, Removing
<1>. HIDE DEF s
<1>. QED  BY <1>4, <1>5, <1>6, <1>7, StackStepType DEF TypeInv, TypeOK

LEMMA AddRelinkType ==
  ASSUME TypeInv, NEW w \in Writers, rd' \in [Readers -> Read], AddRelink(w)
  PROVE  TypeInv'
<1>1. pc[w] = "item" /\ stack[w] # << >> /\ AtItem(w) /\ ItemNow(w) \in Titles
  BY DEF AddRelink, AtItem, TypeInv, Control, Adding
<1>2. /\ UNCHANGED <<counter, stack, rm, tmp, ops, order>>
      /\ pc' = [pc EXCEPT ![w] = "insert"]
      /\ highest' = [highest EXCEPT ![w] = highest[w] + 1]
      /\ rows' = Relink(rows, Top(w).next, highest'[w])
  BY DEF AddRelink, Goto
<1>3. highest' \in [Writers -> Int] /\ highest'[w] \in Int
  BY <1>2 DEF TypeInv, TypeOK
<1>4. DOMAIN rows' \subseteq Nat /\ rows' \in [DOMAIN rows' -> Row]
  <2>1. Top(w).next \in Int /\ IsTable(rows)
    BY <1>1, TopType DEF TypeInv, TypeOK, IsTable
  <2>2. IsTable(Relink(rows, Top(w).next, highest'[w]))
    BY <2>1, <1>3, RelinkTable
  <2>. QED  BY <1>2, <2>2 DEF IsTable
<1>5. pc' \in [Writers -> WriterSteps]
  BY <1>2 DEF TypeInv, TypeOK, WriterSteps
<1>6. \A v \in Writers : Control(v)'
  BY <1>1, <1>2 DEF TypeInv, TypeOK, Control, Adding, Removing, Top, ItemNow, AtItem
<1>. QED  BY <1>2, <1>3, <1>4, <1>5, <1>6 DEF TypeInv, TypeOK

\* Where the history puts a new entry, it stays a list of entries.
LEMMA OrderTypes ==
  ASSUME order \in Seq(Entry)
  PROVE  /\ \A next \in Int, e \in Entry : OrderInsert(next, e) => order' \in Seq(Entry)
         /\ \A first, this \in Int : OrderCut(first, this) => order' \in Seq(Entry)
<1>1. ASSUME NEW next \in Int, NEW e \in Entry, OrderInsert(next, e)
      PROVE  order' \in Seq(Entry)
  BY <1>1, InsertAtLinks DEF OrderInsert
<1>2. ASSUME NEW first \in Int, NEW this \in Int, OrderCut(first, this)
      PROVE  order' \in Seq(Entry)
  BY <1>2, CutSliceLinks DEF OrderCut
<1>. QED  BY <1>1, <1>2

LEMMA AddInsertType ==
  ASSUME TypeInv, NEW w \in Writers, rd' \in [Readers -> Read], AddInsert(w)
  PROVE  TypeInv'
<1>1. pc[w] = "insert" /\ stack[w] # << >> /\ ItemNow(w) \in Titles
  BY DEF AddInsert, TypeInv, Control, Adding
<1>. DEFINE row == [id |-> highest[w], title |-> ItemNow(w), next |-> Top(w).next]
            e == [id |-> highest[w], title |-> ItemNow(w)]
            s == NextItem(stack[w])
<1>2. Top(w).next \in Int /\ highest[w] \in Int
  BY <1>1, TopType DEF TypeInv, TypeOK
<1>3. row \in Row /\ e \in Entry
  BY <1>1, <1>2 DEF Row, Entry
<1>4. s \in Seq(Frame) /\ s # << >>
  BY <1>1, AdvanceType, TopType, EmptySeq DEF TypeInv
<1>5. PICK top \in DOMAIN rows : rows' = Insert(rows, top, row)
  BY DEF AddInsert
<1>6. DOMAIN rows' \subseteq Nat /\ rows' \in [DOMAIN rows' -> Row]
  <2>. HIDE DEF row
  <2>1. IsTable(rows)
    BY DEF TypeInv, TypeOK, IsTable
  <2>2. IsTable(Insert(rows, top, row))
    BY <1>3, <2>1, InsertTable
  <2>. QED  BY <1>5, <2>2 DEF IsTable
<1>7. order' \in Seq(Entry)
  <2>1. OrderInsert(Top(w).next, e)
    BY DEF AddInsert
  <2>. HIDE DEF e
  <2>. QED  BY <1>2, <1>3, <2>1, OrderTypes DEF TypeInv, TypeOK
<1>8. stack' = [stack EXCEPT ![w] = s] /\ pc' = [pc EXCEPT ![w] = "item"]
  BY DEF AddInsert, Goto
<1>9. UNCHANGED <<rm, tmp, counter, ops, highest>>
  BY DEF AddInsert
<1>10. "item" \in WriterSteps \ {"insert"} /\ "item" \notin Removing \cup {"idle"}
  BY DEF WriterSteps, Removing
<1>. HIDE DEF s, row, e
<1>. QED  BY <1>4, <1>6, <1>7, <1>8, <1>9, <1>10, StackStepType DEF TypeInv, TypeOK

\* A return: what becomes of the stack and of the step.
LEMMA ReturnType ==
  ASSUME TypeInv, NEW w \in Writers, Return(w)
  PROVE  \E s \in Seq(Frame), step \in {"idle", "item"} :
           /\ stack' = [stack EXCEPT ![w] = s] /\ pc' = [pc EXCEPT ![w] = step]
           /\ step = "item" => s # << >>
           /\ step = "idle" => s = << >>
<1>1. CASE Len(stack[w]) <= 1
  <2>1. << >> \in Seq(Frame)
    BY EmptySeq
  <2>. QED  BY <1>1, <2>1 DEF Return, Goto
<1>2. CASE ~ (Len(stack[w]) <= 1)
  <2>. DEFINE s == NextItem(Pop(stack[w]))
  <2>1. stack[w] \in Seq(Frame) /\ Len(stack[w]) \in Nat /\ stack[w] # << >>
    BY <1>2, LenProperties, EmptySeq DEF TypeInv, TypeOK
  <2>2. Pop(stack[w]) \in Seq(Frame) /\ Len(Pop(stack[w])) > 0
    BY <1>2, <2>1, PopType
  <2>3. Pop(stack[w]) # << >>
    BY <2>2, EmptySeq
  <2>4. s \in Seq(Frame) /\ Len(s) > 0
    BY <2>2, <2>3, AdvanceType
  <2>5. s # << >>
    BY <2>4, EmptySeq
  <2>6. stack' = [stack EXCEPT ![w] = s] /\ pc' = [pc EXCEPT ![w] = "item"]
    BY <1>2 DEF Return, Goto
  <2>. HIDE DEF s
  <2>. QED  BY <2>4, <2>5, <2>6
<1>. QED  BY <1>1, <1>2

LEMMA AddFailsType ==
  ASSUME TypeInv, NEW w \in Writers, rd' \in [Readers -> Read], AddFails(w)
  PROVE  TypeInv'
<1>1. PICK s \in Seq(Frame), step \in {"idle", "item"} :
        /\ stack' = [stack EXCEPT ![w] = s] /\ pc' = [pc EXCEPT ![w] = step]
        /\ step = "item" => s # << >>
        /\ step = "idle" => s = << >>
  BY ReturnType DEF AddFails
<1>2. UNCHANGED <<rm, tmp, rows, counter, order, ops>> /\ highest' \in [Writers -> Int]
  BY DEF AddFails, TypeInv, TypeOK
<1>3. step \in WriterSteps \ {"insert"}
  BY DEF WriterSteps
<1>. QED  BY <1>1, <1>2, <1>3, StackStepType DEF TypeInv, TypeOK, Adding, Removing

LEMMA BumpStoreType ==
  ASSUME TypeInv, NEW w \in Writers, rd' \in [Readers -> Read], BumpStore(w)
  PROVE  TypeInv'
<1>1. PICK s \in Seq(Frame), step \in {"idle", "item"} :
        /\ stack' = [stack EXCEPT ![w] = s] /\ pc' = [pc EXCEPT ![w] = step]
        /\ step = "item" => s # << >>
        /\ step = "idle" => s = << >>
  BY ReturnType DEF BumpStore
<1>2. UNCHANGED <<rm, tmp, rows, order, ops, highest>> /\ counter' \in Nat
  BY DEF BumpStore, TypeInv, TypeOK
<1>3. step \in WriterSteps \ {"insert"}
  BY DEF WriterSteps
<1>. QED  BY <1>1, <1>2, <1>3, StackStepType DEF TypeInv, TypeOK, Adding, Removing

LEMMA CrashType ==
  ASSUME TypeInv, NEW w \in Writers, rd' \in [Readers -> Read], Crash(w)
  PROVE  TypeInv'
<1>1. << >> \in Seq(Frame)
  BY EmptySeq
<1>2. "idle" \in WriterSteps \ {"insert"} /\ "idle" \notin Adding
  BY DEF WriterSteps, Adding
<1>. QED  BY <1>1, <1>2, StackStepType DEF Crash, Goto, TypeInv, TypeOK

\* The steps of mps_playlist_remove.
LEMMA RemoveType ==
  ASSUME TypeInv, NEW w \in Writers, rd' \in [Readers -> Read],
         \/ \E first \in Int, count \in Counts : RemoveBegin(w, first, count)
         \/ RemoveFirst(w) \/ RemoveNext(w) \/ RemoveDelete(w)
         \/ RemoveRelink(w) \/ RemoveFails(w)
  PROVE  TypeInv'
<1>. DEFINE removes ==
         \/ \E first \in Int, count \in Counts : RemoveBegin(w, first, count)
         \/ RemoveFirst(w) \/ RemoveNext(w) \/ RemoveDelete(w)
         \/ RemoveRelink(w) \/ RemoveFails(w)
<1>0. removes
  OBVIOUS
<1>1. UNCHANGED <<counter, stack, highest, tmp>>
  BY DEF RemoveBegin, RemoveFirst, RemoveNext, RemoveDelete, RemoveRelink, RemoveFails
<1>2. PICK step \in (Removing \ {"rfirst"}) \cup {"rfirst", "bump", "idle"} :
        pc[w] \in Removing \cup {"idle"} /\ pc' = [pc EXCEPT ![w] = step]
  BY DEF RemoveBegin, RemoveFirst, RemoveNext, RemoveDelete, RemoveRelink, RemoveFails,
         Goto, Removing
<1>3. ops' \in Nat
  BY DEF RemoveBegin, RemoveFirst, RemoveNext, RemoveDelete, RemoveRelink, RemoveFails,
         StartOp, TypeInv, TypeOK
<1>4. rm[w] \in Remove /\ rm \in [Writers -> Remove]
  BY DEF TypeInv, TypeOK
<1>5. rm' \in [Writers -> Remove]
  <2>1. ASSUME NEW first \in Int, NEW count \in Counts, RemoveBegin(w, first, count)
        PROVE  rm' \in [Writers -> Remove]
    BY <1>4, <2>1, ConstantsOK DEF RemoveBegin, Remove, END
  <2>2. ASSUME RemoveFirst(w) PROVE rm' \in [Writers -> Remove]
    <3>1. PICK k \in DOMAIN rows : rm' = [rm EXCEPT ![w] = RemoveAt(w, rows[k].next)]
      BY <2>2 DEF RemoveFirst
    <3>2. rows[k].next \in Int
      BY DEF TypeInv, TypeOK, Row
    <3>3. RemoveAt(w, rows[k].next) \in Remove
      BY <1>4, <3>2 DEF RemoveAt, Remove
    <3>. QED  BY <1>4, <3>1, <3>3
  <2>3. ASSUME RemoveNext(w) PROVE rm' \in [Writers -> Remove]
    <3>1. \A k \in DOMAIN rows : rows[k].next \in Int
      BY DEF TypeInv, TypeOK, Row
    <3>. QED  BY <1>4, <2>3, <3>1 DEF RemoveNext, Remove
  <2>4. ASSUME RemoveDelete(w) PROVE rm' \in [Writers -> Remove]
    <3>. DEFINE r == [rm[w] EXCEPT !.i = @ + 1, !.this = rm[w].next]
    <3>1. rm' = [rm EXCEPT ![w] = r]
      BY <1>4, <2>4 DEF RemoveDelete, Remove
    <3>2. \A q \in Remove, i \in Nat, id \in Int :
            [q EXCEPT !.i = i, !.this = id] \in Remove
      BY DEF Remove
    <3>3. rm[w].i + 1 \in Nat /\ rm[w].next \in Int
      BY <1>4 DEF Remove
    <3>4. r \in Remove
      BY <1>4, <3>2, <3>3, Zenon
    <3>. QED  BY <1>4, <3>1, <3>4
  <2>5. ASSUME RemoveRelink(w) \/ RemoveFails(w) PROVE rm' \in [Writers -> Remove]
    BY <1>4, <2>5 DEF RemoveRelink, RemoveFails
  <2>. QED  BY <1>0, <2>1, <2>2, <2>3, <2>4, <2>5
<1>6. /\ DOMAIN rows' \subseteq Nat /\ rows' \in [DOMAIN rows' -> Row]
      /\ order' \in Seq(Entry)
  <2>1. rm[w].first \in Int /\ rm[w].this \in Int
    BY <1>4 DEF Remove
  <2>2. CASE RemoveDelete(w)
    <3>1. IsTable(Delete(rows, rm[w].this))
      BY <2>1, DeleteTable DEF IsTable, TypeInv, TypeOK
    <3>. QED  BY <2>2, <3>1 DEF RemoveDelete, IsTable, TypeInv, TypeOK
  <2>3. CASE RemoveRelink(w)
    <3>1. IsTable(Relink(rows, rm[w].first, rm[w].this))
      BY <2>1, RelinkTable DEF IsTable, TypeInv, TypeOK
    <3>2. order' \in Seq(Entry)
      BY <2>1, <2>3, OrderTypes DEF RemoveRelink, TypeInv, TypeOK
    <3>. QED  BY <2>3, <3>1, <3>2 DEF RemoveRelink, IsTable
  <2>4. CASE ~ RemoveDelete(w) /\ ~ RemoveRelink(w)
    BY <1>0, <2>4 DEF RemoveBegin, RemoveFirst, RemoveNext, RemoveFails, TypeInv, TypeOK
  <2>. QED  BY <2>2, <2>3, <2>4
<1>7. pc' \in [Writers -> WriterSteps]
  BY <1>2 DEF TypeInv, TypeOK, WriterSteps, Removing
<1>8. \A v \in Writers : Control(v)'
  BY <1>1, <1>2 DEF TypeInv, TypeOK, Control, Adding, Removing, Top, ItemNow
<1>. QED  BY <1>1, <1>3, <1>5, <1>6, <1>7, <1>8 DEF TypeInv, TypeOK

LEMMA WriterType ==
  ASSUME TypeInv, NEW w \in Writers, WriterStep(w), Disturb
  PROVE  TypeInv'
<1>1. rd' \in [Readers -> Read]
  BY DisturbType DEF TypeInv
<1>2. NamedIds \subseteq Int /\ BEGINNING \in Int /\ END \in Int
  BY DEF NamedIds, RowIds, TypeInv, TypeOK, Row, BEGINNING, END
<1>3. CASE \E first \in NamedIds \cup {BEGINNING, END}, items \in Requests :
             AddBegin(w, first, items)
  BY <1>1, <1>2, <1>3, AddBeginType
<1>4. CASE AddCount(w) \/ AddMax(w) \/ AddEnd(w) \/ BumpLoad(w)
  BY <1>1, <1>4, LocalStepType
<1>5. CASE AddNext(w)
  BY <1>1, <1>5, AddNextType
<1>6. CASE AddSkip(w) \/ AddFolder(w) \/ AddRelink(w) \/ AddInsert(w)
  BY <1>1, <1>6, AddSkipType, AddFolderType, AddRelinkType, AddInsertType
<1>7. CASE AddFails(w) \/ BumpStore(w) \/ Crash(w)
  BY <1>1, <1>7, AddFailsType, BumpStoreType, CrashType
<1>8. CASE \/ \E first \in NamedIds \cup {BEGINNING}, count \in Counts :
                RemoveBegin(w, first, count)
           \/ RemoveFirst(w) \/ RemoveNext(w) \/ RemoveDelete(w)
           \/ RemoveRelink(w) \/ RemoveFails(w)
  <2>1. \/ \E first \in Int, count \in Counts : RemoveBegin(w, first, count)
        \/ RemoveFirst(w) \/ RemoveNext(w) \/ RemoveDelete(w)
        \/ RemoveRelink(w) \/ RemoveFails(w)
    BY <1>2, <1>8
  <2>. QED  BY <1>1, <2>1, RemoveType
<1>. QED  BY <1>3, <1>4, <1>5, <1>6, <1>7, <1>8 DEF WriterStep, WriterGoesOn

LEMMA ReaderType ==
  ASSUME TypeInv, NEW r \in Readers, ReaderStep(r),
         UNCHANGED <<rows, counter, wvars, order>>
  PROVE  TypeInv'
<1>1. rd[r] \in Read /\ rd \in [Readers -> Read]
  BY DEF TypeInv, TypeOK
<1>2. NamedIds \subseteq Int /\ BEGINNING \in Int /\ END \in Int
  BY DEF NamedIds, RowIds, TypeInv, TypeOK, Row, BEGINNING, END
<1>3. \A k \in DOMAIN rows : rows[k] \in Row
  BY DEF TypeInv, TypeOK
<1>4. PICK q \in Read : rd' = [rd EXCEPT ![r] = q]
  <2>1. CASE \E first \in NamedIds \cup {BEGINNING, END}, count \in Counts :
               GetBegin(r, first, count)
    <3>1. PICK first \in NamedIds \cup {BEGINNING, END}, count \in Counts :
            GetBegin(r, first, count)
      BY <2>1
    <3>. DEFINE q == [pc    |-> IF first \in {END, EMPTY} \/ count = 0 THEN "ok"
                                ELSE IF first = BEGINNING THEN "first" ELSE "row",
                      from  |-> first, count |-> count, this |-> first,
                      got   |-> << >>, quiet |-> TRUE, erred |-> FALSE]
    <3>2. << >> \in Seq(Entry)
      BY EmptySeq
    <3>3. q \in Read
      BY <1>2, <3>2, ConstantsOK DEF Read
    <3>. QED  BY <3>1, <3>3 DEF GetBegin
  <2>2. CASE GetFirst(r)
    <3>1. PICK k \in DOMAIN rows :
            rd' = [rd EXCEPT ![r].pc = "row", ![r].this = rows[k].next]
      BY <2>2 DEF GetFirst
    <3>. DEFINE q == [rd[r] EXCEPT !.pc = "row", !.this = rows[k].next]
    <3>2. \A x \in Read, id \in Int : [x EXCEPT !.pc = "row", !.this = id] \in Read
      BY DEF Read
    <3>3. q \in Read
      BY <1>1, <1>3, <3>2, Zenon DEF Row
    <3>4. rd' = [rd EXCEPT ![r] = q]
      BY <1>1, <3>1 DEF Read
    <3>. QED  BY <3>3, <3>4
  <2>3. CASE GetRow(r)
    <3>1. PICK k \in DOMAIN rows :
            rd' = [rd EXCEPT ![r].this = rows[k].next,
                     ![r].got = Kept(r, [id |-> rows[k].id, title |-> rows[k].title])]
      BY <2>3 DEF GetRow
    <3>. DEFINE e == [id |-> rows[k].id, title |-> rows[k].title]
                g == Kept(r, e)
                q == [rd[r] EXCEPT !.this = rows[k].next, !.got = g]
    <3>2. e \in Entry
      BY <1>3 DEF Row, Entry
    <3>3. g \in Seq(Entry)
      BY <1>1, <3>2 DEF Read, Kept
    <3>4. \A x \in Read, id \in Int, s \in Seq(Entry) :
            [x EXCEPT !.this = id, !.got = s] \in Read
      BY DEF Read
    <3>5. rows[k].next \in Int
      BY <1>3 DEF Row
    <3>6. q \in Read
      <4>. HIDE DEF g
      <4>. QED  BY <1>1, <3>3, <3>4, <3>5, Zenon
    <3>7. rd' = [rd EXCEPT ![r] = q]
      <4>. HIDE DEF g
      <4>1. rd' = [rd EXCEPT ![r].this = rows[k].next, ![r].got = g]
        BY <3>1 DEF g
      <4>. QED  BY <1>1, <4>1 DEF Read
    <3>. QED  BY <3>6, <3>7
  <2>4. CASE GetEnd(r)
    <3>1. \A x \in Read : [x EXCEPT !.pc = "ok"] \in Read
      BY DEF Read
    <3>. QED  BY <1>1, <2>4, <3>1 DEF GetEnd
  <2>5. CASE GetFails(r) \/ GetErrs(r)
    <3>1. \A x \in Read :
            [x EXCEPT !.pc = "failed"] \in Read /\ [x EXCEPT !.pc = "failed", !.erred = TRUE] \in Read
      BY DEF Read
    <3>. QED  BY <1>1, <2>5, <3>1 DEF GetFails, GetErrs
  <2>. QED  BY <2>1, <2>2, <2>3, <2>4, <2>5 DEF ReaderStep, ReaderGoesOn
<1>5. ops' \in Nat
  BY DEF ReaderStep, ReaderGoesOn, GetBegin, GetFirst, GetRow, GetFails, GetErrs, GetEnd, StartOp,
         TypeInv, TypeOK
<1>. QED  BY <1>1, <1>4, <1>5 DEF TypeInv, TypeOK, Control, Top, ItemNow, wvars

LEMMA NextTypeInv == TypeInv /\ [Next]_vars => TypeInv'
<1>1. SUFFICES ASSUME TypeInv, [Next]_vars PROVE TypeInv'
  OBVIOUS
<1>2. CASE \E w \in Writers : WriterStep(w) /\ Disturb
  BY <1>1, <1>2, WriterType
<1>3. CASE \E r \in Readers : ReaderStep(r) /\ UNCHANGED <<rows, counter, wvars, order>>
  BY <1>1, <1>3, ReaderType
<1>4. CASE UNCHANGED vars
  BY <1>1, <1>4 DEF TypeInv, TypeOK, Control, Top, ItemNow, vars, wvars
<1>. QED  BY <1>1, <1>2, <1>3, <1>4 DEF Next

\* Whatever the writers do to each other and whatever fails, every variable keeps its
\* type, and a process that is adding has an activation to add from.
THEOREM TypeCorrect == Spec => []TypeOK
<1>1. TypeInv => TypeOK
  BY DEF TypeInv
<1>. QED  BY <1>1, InitTypeInv, NextTypeInv, PTL DEF Spec

-----------------------------------------------------------------------------
(***************************************************************************)
(* Tables that hold a playlist: what each SQL statement of the library     *)
(* does to a chain of rows.  Lemmas about the operators of PlaylistTable,  *)
(* for every table and every list.                                         *)
(***************************************************************************)
Distinct(list) ==
  /\ \A i \in 1..Len(list) : list[i].id \in EntryId
  /\ \A i, j \in 1..Len(list) : list[i].id = list[j].id => i = j

\* Every place links to the next one.
Straight(list) == [i \in 0..Len(list) |-> IdAt(list, i + 1)]

\* The rows of table t are the places of the list, those in gone left out, each once,
\* and the row of place i links to link[i].
Chain(t, list, gone, link) ==
  /\ \A k, l \in DOMAIN t : t[k].id = t[l].id => k = l
  /\ \A k \in DOMAIN t : \E i \in 0..Len(list) : i \notin gone /\ t[k].id = IdAt(list, i)
  /\ \A i \in 0..Len(list) : i \notin gone =>
       \E k \in DOMAIN t : /\ t[k].id = IdAt(list, i)
                           /\ t[k].next = link[i]
                           /\ i > 0 => t[k].title = list[i].title

-----------------------------------------------------------------------------
(***************************************************************************)
(* What each SQL statement does to a chain.                                *)
(***************************************************************************)

\* The places of a list have different ids, sentinels included.
LEMMA IdAtInjective ==
  ASSUME NEW list \in Seq(Entry), Distinct(list)
  PROVE  /\ \A i \in 0..(Len(list) + 1) : IdAt(list, i) \in Int
         /\ \A i, j \in 0..(Len(list) + 1) : IdAt(list, i) = IdAt(list, j) => i = j
<1>1. Len(list) \in Nat
  OBVIOUS
<1>2. \A i \in 1..Len(list) : list[i].id \in Nat /\ list[i].id > 0
  BY DEF Distinct, EntryId
<1>. QED  BY <1>1, <1>2 DEF IdAt, Distinct, BEGINNING, END

\* A SELECT by the id of a place that is there answers with that place's link.
LEMMA SelectChain ==
  ASSUME NEW t, NEW list \in Seq(Entry), Distinct(list), NEW gone, NEW link,
         Chain(t, list, gone, link),
         NEW i \in 0..Len(list), i \notin gone
  PROVE  /\ HasRow(t, IdAt(list, i))
         /\ \A k : Selects(t, IdAt(list, i), k) =>
              /\ t[k].next = link[i]
              /\ i > 0 => t[k].title = list[i].title
BY DEF Chain, HasRow, Selects

\* No row has an id that is no place of the list.
LEMMA NoRowChain ==
  ASSUME NEW t, NEW list, NEW gone, NEW link, Chain(t, list, gone, link),
         NEW id, \A i \in 0..Len(list) : i \notin gone => IdAt(list, i) # id
  PROVE  ~ HasRow(t, id)
BY DEF Chain, HasRow

\* UPDATE of the link to place p: the place before it now links to h.
LEMMA RelinkChain ==
  ASSUME NEW t, IsTable(t), NEW list \in Seq(Entry), Distinct(list),
         Chain(t, list, {}, Straight(list)),
         NEW p \in 1..(Len(list) + 1), NEW h \in Int
  PROVE  Chain(Relink(t, IdAt(list, p), h), list, {}, [Straight(list) EXCEPT ![p - 1] = h])
<1>. DEFINE u == Relink(t, IdAt(list, p), h)
            link == [Straight(list) EXCEPT ![p - 1] = h]
<1>1. Len(list) \in Nat /\ IdAt(list, p) \in Int
  BY IdAtInjective
<1>2. /\ DOMAIN u = DOMAIN t
      /\ \A k \in DOMAIN t :
           /\ u[k].id = t[k].id /\ u[k].title = t[k].title
           /\ u[k].next = IF t[k].next = IdAt(list, p) THEN h ELSE t[k].next
  BY <1>1, RelinkTable
<1>3. ASSUME NEW i \in 0..Len(list)
      PROVE  \E k \in DOMAIN u : /\ u[k].id = IdAt(list, i)
                                 /\ u[k].next = link[i]
                                 /\ i > 0 => u[k].title = list[i].title
  <2>1. PICK k \in DOMAIN t : /\ t[k].id = IdAt(list, i)
                              /\ t[k].next = IdAt(list, i + 1)
                              /\ i > 0 => t[k].title = list[i].title
    BY DEF Chain, Straight
  <2>2. t[k].next = IdAt(list, p) <=> i = p - 1
    BY <1>1, <2>1, IdAtInjective
  <2>3. link[i] = IF i = p - 1 THEN h ELSE IdAt(list, i + 1)
    BY <1>1 DEF Straight
  <2>. QED  BY <1>2, <2>1, <2>2, <2>3
<1>4. \A k, l \in DOMAIN u : u[k].id = u[l].id => k = l
  BY <1>2 DEF Chain
<1>5. \A k \in DOMAIN u : \E i \in 0..Len(list) : i \notin {} /\ u[k].id = IdAt(list, i)
  BY <1>2, SMTT(30) DEF Chain
<1>. HIDE DEF u, link
<1>6. Chain(u, list, {}, link)
  BY <1>3, <1>4, <1>5 DEF Chain
<1>. QED  BY <1>6 DEF u, link

\* INSERT of the row the place before p links to already: the chain of the longer list.
LEMMA InsertChain ==
  ASSUME NEW t, IsTable(t), NEW list \in Seq(Entry), Distinct(list),
         NEW p \in 1..(Len(list) + 1), NEW e \in Entry, e.id \in EntryId,
         \A i \in 1..Len(list) : list[i].id # e.id,
         Chain(t, list, {}, [Straight(list) EXCEPT ![p - 1] = e.id]),
         NEW top, IsTopRow(t, top), NEW row \in Row,
         row.id = e.id, row.title = e.title, row.next = IdAt(list, p)
  PROVE  /\ Distinct(InsertAt(list, p, e))
         /\ LET new == InsertAt(list, p, e)
            IN Chain(Insert(t, top, row), new, {}, Straight(new))
<1>. DEFINE new == InsertAt(list, p, e)
            u   == Insert(t, top, row)
            n   == Len(list)
            old == [Straight(list) EXCEPT ![p - 1] = e.id]
<1>1. n \in Nat /\ \A i \in 1..n : list[i] \in Entry
  BY ElementOfSeq
<1>2. /\ new \in Seq(Entry) /\ Len(new) = n + 1
      /\ \A i \in 0..(n + 2) :
           IdAt(new, i) = IF i < p THEN IdAt(list, i) ELSE IF i = p THEN e.id ELSE IdAt(list, i - 1)
  BY InsertAtLinks
<1>3. \A i \in 1..(n + 1) : new[i] = IF i < p THEN list[i] ELSE IF i = p THEN e ELSE list[i - 1]
  BY DEF InsertAt
<1>4. top \in DOMAIN t /\ top \in Nat /\ top + 1 \notin DOMAIN t
  BY DEF IsTopRow, IsTable
<1>5. /\ DOMAIN u = DOMAIN t \cup {top + 1}
      /\ u[top + 1] = row
      /\ \A k \in DOMAIN t : u[k] = t[k]
  <2>1. /\ DOMAIN u = DOMAIN t \cup {top + 1}
        /\ u[top + 1] = row
        /\ \A k \in DOMAIN t : k # top + 1 => u[k] = t[k]
    BY <1>4 DEF Insert, IsTable
  <2>. QED  BY <1>4, <2>1
<1>6. \A i \in 0..n : old[i] = IF i = p - 1 THEN e.id ELSE IdAt(list, i + 1)
  BY <1>1 DEF Straight
<1>7. \A i \in 0..(n + 1) : IdAt(list, i) # e.id
  BY <1>1 DEF IdAt, EntryId, BEGINNING, END
<1>. HIDE DEF new, u, old
<1>8. Distinct(new)
  <2>1. \A i \in 1..(n + 1) : new[i].id \in EntryId
    BY <1>1, <1>3 DEF Distinct
  <2>2. \A i \in 1..n : list[i].id # e.id
    OBVIOUS
  <2>3. ASSUME NEW i \in 1..(n + 1), NEW j \in 1..(n + 1), i < j
        PROVE  new[i].id # new[j].id
    <3>1. \A a, b \in 1..n : a # b => list[a].id # list[b].id
      BY DEF Distinct
    <3>2. CASE j < p
      <4>1. new[i] = list[i] /\ new[j] = list[j] /\ i \in 1..n /\ j \in 1..n /\ i # j
        BY <1>1, <1>3, <2>3, <3>2
      <4>. QED  BY <3>1, <4>1
    <3>3. CASE j = p
      <4>1. new[i] = list[i] /\ new[j] = e /\ i \in 1..n
        BY <1>1, <1>3, <2>3, <3>3
      <4>. QED  BY <2>2, <4>1
    <3>4. CASE j > p /\ i = p
      <4>1. new[i] = e /\ new[j] = list[j - 1] /\ j - 1 \in 1..n
        BY <1>1, <1>3, <3>4
      <4>. QED  BY <2>2, <4>1
    <3>5. CASE j > p /\ i < p
      <4>1. new[i] = list[i] /\ new[j] = list[j - 1] /\ j - 1 \in 1..n /\ i \in 1..n /\ i # j - 1
        BY <1>1, <1>3, <3>5
      <4>. QED  BY <3>1, <4>1
    <3>6. CASE i > p
      <4>1. /\ new[i] = list[i - 1] /\ new[j] = list[j - 1]
            /\ i - 1 \in 1..n /\ j - 1 \in 1..n /\ i - 1 # j - 1
        BY <1>1, <1>3, <2>3, <3>6
      <4>. QED  BY <3>1, <4>1
    <3>. QED  BY <1>1, <2>3, <3>2, <3>3, <3>4, <3>5, <3>6
  <2>4. \A i, j \in 1..(n + 1) : new[i].id = new[j].id => i = j
    BY <1>1, <2>3
  <2>. QED  BY <1>2, <2>1, <2>4 DEF Distinct
<1>9. \A k, l \in DOMAIN u : u[k].id = u[l].id => k = l
  <2>1. \A k \in DOMAIN t : t[k].id # e.id
    BY <1>1, <1>7 DEF Chain
  <2>. QED  BY <1>5, <2>1 DEF Chain
<1>10. \A k \in DOMAIN u : \E i \in 0..(n + 1) : u[k].id = IdAt(new, i)
  <2>1. ASSUME NEW k \in DOMAIN t PROVE \E i \in 0..(n + 1) : t[k].id = IdAt(new, i)
    <3>1. PICK j \in 0..n : t[k].id = IdAt(list, j)
      BY DEF Chain
    <3>2. CASE j < p
      BY <1>1, <1>2, <3>1, <3>2
    <3>3. CASE j >= p
      <4>1. j + 1 \in 0..(n + 1) /\ ~ (j + 1 < p) /\ j + 1 # p /\ (j + 1) - 1 = j
        BY <1>1, <3>3
      <4>2. IdAt(new, j + 1) = IdAt(list, j)
        BY <1>2, <4>1
      <4>. QED  BY <3>1, <4>1, <4>2
    <3>. QED  BY <1>1, <3>2, <3>3
  <2>2. row.id = IdAt(new, p)
    BY <1>1, <1>2
  <2>. QED  BY <1>1, <1>5, <2>1, <2>2
<1>11. ASSUME NEW i \in 0..(n + 1)
       PROVE  \E k \in DOMAIN u : /\ u[k].id = IdAt(new, i)
                                  /\ u[k].next = IdAt(new, i + 1)
                                  /\ i > 0 => u[k].title = new[i].title
  <2>0. i + 1 \in 0..(n + 2) /\ i \in 0..(n + 2)
    BY <1>1
  <2>1. CASE i = p
    <3>1. IdAt(new, i) = e.id /\ IdAt(new, i + 1) = IdAt(list, p) /\ new[i] = e
      BY <1>1, <1>2, <1>3, <2>0, <2>1
    <3>. QED  BY <1>5, <3>1
  <2>2. CASE i < p
    <3>1. PICK k \in DOMAIN t : /\ t[k].id = IdAt(list, i)
                                /\ t[k].next = old[i]
                                /\ i > 0 => t[k].title = list[i].title
      BY <1>1, <2>2 DEF Chain, old
    <3>2. old[i] = IdAt(new, i + 1)
      BY <1>1, <1>2, <1>6, <2>0, <2>2, SMTT(30)
    <3>3. IdAt(new, i) = IdAt(list, i) /\ (i > 0 => new[i] = list[i])
      BY <1>1, <1>2, <1>3, <2>0, <2>2
    <3>. QED  BY <1>5, <3>1, <3>2, <3>3
  <2>3. CASE i > p
    <3>. DEFINE j == i - 1
    <3>0. j \in 0..n /\ j > 0 /\ j >= p /\ j # p - 1 /\ j + 1 = i
      BY <1>1, <2>3
    <3>1. PICK k \in DOMAIN t : /\ t[k].id = IdAt(list, j)
                                /\ t[k].next = old[j]
                                /\ t[k].title = list[j].title
      BY <3>0 DEF Chain, old
    <3>2. old[j] = IdAt(new, i + 1)
      BY <1>1, <1>2, <1>6, <2>0, <2>3, <3>0
    <3>3. IdAt(new, i) = IdAt(list, j) /\ new[i] = list[j]
      BY <1>1, <1>2, <1>3, <2>0, <2>3
    <3>. QED  BY <1>5, <3>1, <3>2, <3>3
  <2>. QED  BY <1>1, <2>1, <2>2, <2>3
<1>12. \A i \in 0..(n + 1) : Straight(new)[i] = IdAt(new, i + 1)
  BY <1>2 DEF Straight
<1>. HIDE DEF n
<1>13. Chain(u, new, {}, Straight(new))
  BY <1>2, <1>9, <1>10, <1>11, <1>12 DEF Chain
<1>. QED  BY <1>8, <1>13 DEF new, u

\* DELETE of the first row that is left of a run of places.
LEMMA DeleteChain ==
  ASSUME NEW t, IsTable(t), NEW list \in Seq(Entry), Distinct(list),
         NEW a \in 1..Len(list), NEW m \in a..Len(list),
         Chain(t, list, a..(m - 1), Straight(list))
  PROVE  Chain(Delete(t, IdAt(list, m)), list, a..m, Straight(list))
<1>. DEFINE u == Delete(t, IdAt(list, m))
            gone == a..(m - 1)
            link == Straight(list)
<1>1. Len(list) \in Nat /\ IdAt(list, m) \in Int /\ m \in 1..Len(list)
  BY IdAtInjective
<1>2. /\ DOMAIN u = {j \in DOMAIN t : t[j].id # IdAt(list, m)}
      /\ \A k \in DOMAIN u : u[k] = t[k]
  BY DEF Delete
<1>3. \A i \in 0..Len(list) : i \notin a..m <=> i \notin gone /\ i # m
  BY <1>1
<1>4. \A i \in 0..Len(list) : IdAt(list, i) = IdAt(list, m) => i = m
  BY <1>1, IdAtInjective
<1>. HIDE DEF u, link, gone
<1>5. /\ \A k, l \in DOMAIN t : t[k].id = t[l].id => k = l
      /\ \A k \in DOMAIN t : \E i \in 0..Len(list) : i \notin gone /\ t[k].id = IdAt(list, i)
      /\ \A i \in 0..Len(list) : i \notin gone =>
           \E k \in DOMAIN t : /\ t[k].id = IdAt(list, i)
                               /\ t[k].next = link[i]
                               /\ i > 0 => t[k].title = list[i].title
  BY DEF Chain, gone, link
<1>6. \A k, l \in DOMAIN u : u[k].id = u[l].id => k = l
  BY <1>2, <1>5
<1>7. \A k \in DOMAIN u : \E i \in 0..Len(list) : i \notin a..m /\ u[k].id = IdAt(list, i)
  BY <1>2, <1>3, <1>5
<1>8. ASSUME NEW i \in 0..Len(list), i \notin a..m
      PROVE  \E k \in DOMAIN u : /\ u[k].id = IdAt(list, i)
                                 /\ u[k].next = link[i]
                                 /\ i > 0 => u[k].title = list[i].title
  <2>1. PICK k \in DOMAIN t : /\ t[k].id = IdAt(list, i)
                              /\ t[k].next = link[i]
                              /\ i > 0 => t[k].title = list[i].title
    BY <1>3, <1>5, <1>8
  <2>2. k \in DOMAIN u /\ u[k] = t[k]
    BY <1>2, <1>3, <1>4, <1>8, <2>1
  <2>. QED  BY <2>1, <2>2
<1>9. Chain(u, list, a..m, link)
  BY <1>6, <1>7, <1>8 DEF Chain
<1>. QED  BY <1>9 DEF u, link

\* The closing UPDATE of a remove: the chain of the shorter list.
LEMMA CutChain ==
  ASSUME NEW t, IsTable(t), NEW list \in Seq(Entry), Distinct(list),
         NEW a \in 1..(Len(list) + 1), NEW m \in 1..(Len(list) + 1), a <= m,
         Chain(t, list, a..(m - 1), Straight(list))
  PROVE  /\ Distinct(CutSlice(list, a, m))
         /\ LET new == CutSlice(list, a, m)
            IN Chain(Relink(t, IdAt(list, a), IdAt(list, m)), new, {}, Straight(new))
<1>. DEFINE new == CutSlice(list, a, m)
            u == Relink(t, IdAt(list, a), IdAt(list, m))
            n == Len(list) - (m - a)
            was(i) == IF i < a THEN i ELSE i + (m - a)
<1>1. /\ Len(list) \in Nat /\ n \in Nat
      /\ IdAt(list, a) \in Int /\ IdAt(list, m) \in Int
      /\ \A i \in 1..Len(list) : list[i] \in Entry
  BY IdAtInjective, ElementOfSeq
<1>2. /\ new \in Seq(Entry) /\ Len(new) = n
      /\ \A i \in 0..(n + 1) : IdAt(new, i) = IdAt(list, was(i))
  BY CutSliceLinks
<1>3. \A i \in 1..n : was(i) \in 1..Len(list) /\ new[i] = list[was(i)]
  BY <1>1 DEF CutSlice
<1>4. /\ DOMAIN u = DOMAIN t
      /\ \A k \in DOMAIN t :
           /\ u[k].id = t[k].id /\ u[k].title = t[k].title
           /\ u[k].next = IF t[k].next = IdAt(list, a) THEN IdAt(list, m) ELSE t[k].next
  BY <1>1, RelinkTable
<1>. HIDE DEF new, u
<1>5. Distinct(new)
  <2>1. \A i \in 1..n : new[i].id \in EntryId
    BY <1>3 DEF Distinct
  <2>2. \A i, j \in 1..n : was(i) = was(j) => i = j
    BY <1>1
  <2>3. \A i, j \in 1..Len(list) : list[i].id = list[j].id => i = j
    BY DEF Distinct
  <2>4. \A i, j \in 1..n : new[i].id = new[j].id => i = j
    <3>. HIDE DEF was
    <3>. QED  BY <1>3, <2>2, <2>3, SMTT(30)
  <2>. QED  BY <1>2, <2>1, <2>4 DEF Distinct
<1>6. \A i \in 0..n : was(i) \in 0..Len(list) /\ was(i) \notin a..(m - 1)
  BY <1>1
<1>7. \A j \in 0..Len(list) : j \notin a..(m - 1) => \E i \in 0..n : was(i) = j
  <2>. SUFFICES ASSUME NEW j \in 0..Len(list), j \notin a..(m - 1)
                PROVE  \E i \in 0..n : was(i) = j
    OBVIOUS
  <2>1. CASE j < a
    <3>1. j \in 0..n /\ was(j) = j
      BY <1>1, <2>1
    <3>. QED  BY <3>1
  <2>2. CASE j >= m
    <3>1. j - (m - a) \in 0..n /\ was(j - (m - a)) = j
      BY <1>1, <2>2
    <3>. QED  BY <3>1
  <2>. QED  BY <1>1, <2>1, <2>2
<1>8. \A k, l \in DOMAIN u : u[k].id = u[l].id => k = l
  BY <1>4 DEF Chain
<1>9. \A k \in DOMAIN u : \E i \in 0..n : u[k].id = IdAt(new, i)
  <2>. SUFFICES ASSUME NEW k \in DOMAIN u PROVE \E i \in 0..n : u[k].id = IdAt(new, i)
    OBVIOUS
  <2>1. PICK j \in 0..Len(list) : j \notin a..(m - 1) /\ t[k].id = IdAt(list, j)
    BY <1>4 DEF Chain
  <2>2. PICK i \in 0..n : was(i) = j
    BY <1>7, <2>1
  <2>3. i \in 0..(n + 1)
    BY <1>1
  <2>. HIDE DEF was, n
  <2>. QED  BY <1>2, <1>4, <2>1, <2>2, <2>3
<1>10. ASSUME NEW i \in 0..n
       PROVE  \E k \in DOMAIN u : /\ u[k].id = IdAt(new, i)
                                  /\ u[k].next = IdAt(new, i + 1)
                                  /\ i > 0 => u[k].title = new[i].title
  <2>. DEFINE j == was(i)
  <2>1. j \in 0..Len(list) /\ j \notin a..(m - 1) /\ i \in 0..(n + 1) /\ i + 1 \in 0..(n + 1)
    BY <1>1, <1>6
  <2>2. PICK k \in DOMAIN t : /\ t[k].id = IdAt(list, j)
                              /\ t[k].next = Straight(list)[j]
                              /\ j > 0 => t[k].title = list[j].title
    <3>. HIDE DEF j
    <3>. QED  BY <2>1 DEF Chain
  <2>3. t[k].next = IdAt(list, j + 1)
    <3>. HIDE DEF j
    <3>. QED  BY <2>1, <2>2 DEF Straight
  <2>4. j + 1 = a <=> i = a - 1
    BY <1>1
  <2>5. IdAt(list, j + 1) = IdAt(list, a) <=> j + 1 = a
    <3>1. j + 1 \in 0..(Len(list) + 1) /\ a \in 0..(Len(list) + 1)
      BY <1>1, <2>1
    <3>. HIDE DEF j
    <3>. QED  BY <3>1, IdAtInjective
  <2>6. was(i + 1) = IF i = a - 1 THEN m ELSE j + 1
    BY <1>1
  <2>7. u[k].next = IdAt(new, i + 1)
    <3>. HIDE DEF j, was, n
    <3>. QED  BY <1>2, <1>4, <2>1, <2>2, <2>3, <2>4, <2>5, <2>6
  <2>8. i > 0 => j > 0 /\ new[i] = list[j]
    BY <1>1, <1>3
  <2>. HIDE DEF j
  <2>9. u[k].id = IdAt(new, i)
    BY <1>2, <1>4, <2>1, <2>2 DEF j
  <2>. QED  BY <1>4, <2>2, <2>7, <2>8, <2>9
<1>11. \A i \in 0..n : Straight(new)[i] = IdAt(new, i + 1)
  BY <1>2 DEF Straight
<1>. HIDE DEF n
<1>12. Chain(u, new, {}, Straight(new))
  BY <1>2, <1>8, <1>9, <1>10, <1>11 DEF Chain
<1>. QED  BY <1>5, <1>12 DEF new, u
=============================================================================
