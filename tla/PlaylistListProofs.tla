------------------------- MODULE PlaylistListProofs --------------------------
(***************************************************************************)
(* The table is the playlist, and a list goes to the place asked for:      *)
(* proved for one writer at a time whose two pairs of statements are not   *)
(* cut in half, for every playlist, request, folder and number of readers. *)
(***************************************************************************)
EXTENDS PlaylistDbProofs, WellFoundedInduction

\* The assumptions, neither of which the code enforces.  Nobody else writes; and of the
\* statements only SELECTs, the UPDATE of an add and the DELETEs of a remove may fail,
\* not the INSERT after the UPDATE, nor the closing UPDATE of a remove.
OneWriter == \A v, w \in Writers : v = w
PairsWhole ==
  /\ "insert" \notin FailingSteps
  /\ "rrelink" \notin FailingSteps
  /\ ~ Crashes
Orderly == OneWriter /\ PairsWhole

-----------------------------------------------------------------------------
(***************************************************************************)
(* The inductive invariant.  RowsAre(order) alone is not inductive: it     *)
(* says nothing about the half-done pairs, nor about what a writer         *)
(* remembers of the list while it works on it.                             *)
(***************************************************************************)
Gaps == {"insert", "rnext", "rdelete", "rrelink"}

\* The places an entry can go before.
Places(list) == {IdAt(list, p) : p \in 1..(Len(list) + 1)}

\* Every activation that will still insert knows a place to insert before.
PlacesIn(frames, step, places) ==
  \A j \in 1..Len(frames) :
    (j < Len(frames) \/ step \in {"item", "insert"}) => frames[j].next \in places

PlacesKnown(w) == PlacesIn(stack[w], pc[w], Places(order))

\* The process's highest id is one: no entry of the list has a higher one.
HighestKnown(w) ==
  (Len(stack[w]) >= 2 \/ pc[w] \in {"next", "item"}) =>
    highest[w] >= 0 /\ \A i \in 1..Len(order) : order[i].id <= highest[w]

\* Between the UPDATE and the INSERT of an add: one place links to the row to come.
Opened(w) ==
  /\ highest[w] > 0 /\ \A i \in 1..Len(order) : order[i].id < highest[w]
  /\ \E p \in 1..(Len(order) + 1) :
       /\ IdAt(order, p) = Top(w).next
       /\ Chain(rows, order, {}, [Straight(order) EXCEPT ![p - 1] = highest[w]])

\* In the middle of a remove: the run from first up to this is gone, or first was no
\* place and nothing is.
Cutting(w) ==
  \/ \E a, m \in 1..(Len(order) + 1) :
       /\ a <= m
       /\ rm[w].first = IdAt(order, a)
       /\ rm[w].this = IdAt(order, m)
       /\ Chain(rows, order, a..(m - 1), Straight(order))
       /\ pc[w] = "rdelete" => m <= Len(order) /\ rm[w].next = IdAt(order, m + 1)
  \/ /\ rm[w].first = rm[w].this
     /\ rm[w].first # BEGINNING
     /\ rm[w].first \notin Places(order)
     /\ Chain(rows, order, {}, Straight(order))
     /\ pc[w] # "rdelete"

WriterInv(w) ==
  /\ PlacesKnown(w)
  /\ HighestKnown(w)
  /\ pc[w] = "max" => order # << >>
  /\ pc[w] = "insert" => Opened(w)
  /\ pc[w] \in {"rnext", "rdelete", "rrelink"} => Cutting(w)

Closed == (\A w \in Writers : pc[w] \notin Gaps) => Chain(rows, order, {}, Straight(order))

ListInv ==
  /\ TypeInv
  /\ Distinct(order)
  /\ Closed
  /\ \A w \in Writers : WriterInv(w)

LEMMA InitListInv == Init => ListInv
<1>1. SUFFICES ASSUME Init PROVE ListInv
  OBVIOUS
<1>2. TypeInv
  BY <1>1, InitTypeInv
<1>3. order = << >> /\ Len(order) = 0
  BY <1>1 DEF Init
<1>4. Distinct(order)
  BY <1>3 DEF Distinct
<1>5. /\ DOMAIN rows = {1}
      /\ rows[1].id = BEGINNING /\ rows[1].next = END
  BY <1>1 DEF Init, InitialTable
<1>6. IdAt(order, 0) = BEGINNING /\ IdAt(order, 1) = END
  BY <1>3 DEF IdAt
<1>7. \A i \in 0..Len(order) : i = 0 /\ Straight(order)[i] = END
  BY <1>3, <1>6 DEF Straight
<1>8. Chain(rows, order, {}, Straight(order))
  BY <1>3, <1>5, <1>6, <1>7 DEF Chain
<1>9. \A w \in Writers : WriterInv(w)
  BY <1>1 DEF Init, WriterInv, PlacesKnown, PlacesIn, HighestKnown
<1>. QED  BY <1>2, <1>4, <1>8, <1>9 DEF ListInv, Closed

\* With one writer, what it keeps is all there is to keep.
LEMMA OneWriterSuffices ==
  ASSUME Orderly, NEW w \in Writers, TypeInv', Distinct(order'),
         pc'[w] \notin Gaps => Chain(rows', order', {}, Straight(order')),
         WriterInv(w)'
  PROVE  ListInv'
<1>1. \A v \in Writers : v = w
  BY DEF Orderly, OneWriter, PairsWhole
<1>2. Closed'
  BY DEF Closed
<1>3. \A v \in Writers : WriterInv(v)'
  BY <1>1
<1>. QED  BY <1>2, <1>3 DEF ListInv

\* What the invariant says of the one writer and its table.
LEMMA OneWriterHas ==
  ASSUME ListInv, Orderly, NEW w \in Writers
  PROVE  /\ order \in Seq(Entry) /\ Len(order) \in Nat /\ Distinct(order) /\ IsTable(rows)
         /\ pc \in [Writers -> WriterSteps] /\ stack \in [Writers -> Seq(Frame)]
         /\ highest \in [Writers -> Int] /\ rm \in [Writers -> Remove]
         /\ highest[w] \in Int /\ rm[w] \in Remove
         /\ stack[w] \in Seq(Frame) /\ Len(stack[w]) \in Nat
         /\ pc[w] \notin Gaps => Chain(rows, order, {}, Straight(order))
         /\ WriterInv(w)
         /\ Control(w)
BY DEF ListInv, TypeInv, TypeOK, IsTable, Orderly, OneWriter, Closed

\* The ids of a closed table.
LEMMA ChainIds ==
  ASSUME NEW t, IsTable(t), NEW list \in Seq(Entry), Distinct(list),
         Chain(t, list, {}, Straight(list))
  PROVE  /\ \A i \in 1..Len(list) : list[i].id \in RowIds(t) /\ list[i].id > 0
         /\ NoEntries(t) <=> list = << >>
<1>1. Len(list) \in Nat
  OBVIOUS
<1>2. \A i \in 1..Len(list) : IdAt(list, i) = list[i].id /\ i \in 0..Len(list)
  BY <1>1 DEF IdAt
<1>3. \A i \in 1..Len(list) : \E k \in DOMAIN t : t[k].id = list[i].id
  BY <1>2 DEF Chain
<1>4. \A i \in 1..Len(list) : list[i].id \in Nat /\ list[i].id > 0
  BY DEF Distinct, EntryId
<1>5. CASE list = << >>
  <2>1. \A i \in 0..Len(list) : IdAt(list, i) = BEGINNING
    BY <1>5 DEF IdAt
  <2>2. NoEntries(t)
    BY <2>1 DEF NoEntries, Chain
  <2>. QED  BY <1>5, <2>2
<1>6. CASE list # << >>
  <2>1. 1 \in 1..Len(list)
    BY <1>1, <1>6, EmptySeq
  <2>2. ~ NoEntries(t)
    BY <1>3, <1>4, <2>1 DEF NoEntries, BEGINNING
  <2>. QED  BY <1>3, <1>4, <1>6, <2>2 DEF RowIds
<1>. QED  BY <1>5, <1>6

\* Counting, asking for the highest id and the end of a list.
LEMMA LocalStepList ==
  ASSUME ListInv, Orderly, TypeInv', NEW w \in Writers,
         AddCount(w) \/ AddMax(w) \/ AddEnd(w) \/ BumpLoad(w)
  PROVE  ListInv'
<1>1. UNCHANGED <<rows, order, stack>> /\ pc[w] \notin Gaps /\ pc'[w] \notin Gaps
  BY OneWriterHas DEF AddCount, AddMax, AddEnd, BumpLoad, Goto, Gaps
<1>2. Distinct(order') /\ Chain(rows', order', {}, Straight(order'))
  BY <1>1, OneWriterHas
<1>3. pc'[w] \in {"max", "next", "bump", "store"}
  BY OneWriterHas DEF AddCount, AddMax, AddEnd, BumpLoad, Goto
<1>4. PlacesKnown(w)'
  BY <1>1, <1>3, OneWriterHas DEF WriterInv, PlacesKnown, PlacesIn
<1>5. (pc'[w] = "max" => order' # << >>) /\ HighestKnown(w)'
  <2>1. CASE AddCount(w)
    <3>1. NoEntries(rows) <=> order = << >>
      BY <1>1, ChainIds, OneWriterHas
    <3>2. order = << >> => \A h : \A i \in 1..Len(order) : order[i].id <= h
      OBVIOUS
    <3>3. CASE NoEntries(rows)
      <4>1. pc'[w] = "next" /\ highest'[w] = 0 /\ order' = << >>
        BY <1>1, <2>1, <3>1, <3>3, OneWriterHas DEF AddCount, Goto
      <4>. QED  BY <4>1 DEF HighestKnown
    <3>4. CASE ~ NoEntries(rows)
      <4>1. pc'[w] = "max" /\ highest' = highest /\ order' # << >>
        BY <1>1, <2>1, <3>1, <3>4, OneWriterHas DEF AddCount, Goto
      <4>. QED  BY <1>1, <4>1, OneWriterHas DEF HighestKnown, WriterInv
    <3>. QED  BY <3>3, <3>4
  <2>2. CASE AddMax(w)
    <3>1. PICK m \in RowIds(rows) : IsMaxId(rows, m) /\ highest'[w] = m
      BY <2>2, OneWriterHas DEF AddMax
    <3>2. \A i \in 1..Len(order) : order[i].id \in RowIds(rows) /\ order[i].id > 0
      BY <1>1, ChainIds, OneWriterHas
    <3>3. \A i \in 1..Len(order) : order[i].id <= m
      BY <3>1, <3>2 DEF IsMaxId, RowIds
    <3>4. order # << >> /\ Len(order) >= 1 /\ pc'[w] = "next"
      BY <2>2, OneWriterHas, EmptySeq DEF WriterInv, AddMax, Goto
    <3>5. m \in Int
      BY OneWriterHas DEF RowIds, IsTable, Row
    <3>6. m >= 0
      <4>1. 1 \in 1..Len(order)
        BY <3>4, OneWriterHas
      <4>2. order[1].id \in Int
        BY <4>1, OneWriterHas DEF Distinct, EntryId
      <4>. QED  BY <3>2, <3>3, <3>5, <4>1, <4>2
    <3>. QED  BY <1>1, <3>1, <3>3, <3>4, <3>6 DEF HighestKnown
  <2>3. CASE AddEnd(w) \/ BumpLoad(w)
    <3>1. pc'[w] \in {"bump", "store"} /\ highest' = highest
      BY <2>3, OneWriterHas DEF AddEnd, BumpLoad, Goto
    <3>. QED  BY <1>1, <3>1, OneWriterHas DEF WriterInv, HighestKnown
  <2>. QED  BY <2>1, <2>2, <2>3
<1>6. WriterInv(w)'
  BY <1>3, <1>4, <1>5 DEF WriterInv
<1>. QED  BY <1>2, <1>6, OneWriterSuffices

\* A command that starts.
LEMMA AddBeginList ==
  ASSUME ListInv, Orderly, TypeInv', NEW w \in Writers,
         NEW first, NEW items, AddBegin(w, first, items)
  PROVE  ListInv'
<1>1. UNCHANGED <<rows, order>> /\ pc[w] \notin Gaps /\ pc'[w] = "count"
  BY OneWriterHas DEF AddBegin, Goto, Gaps
<1>2. Distinct(order') /\ Chain(rows', order', {}, Straight(order'))
  BY <1>1, OneWriterHas
<1>3. Len(stack'[w]) = 1
  BY OneWriterHas DEF AddBegin
<1>4. PlacesKnown(w)' /\ HighestKnown(w)'
  BY <1>1, <1>3 DEF PlacesKnown, PlacesIn, HighestKnown
<1>5. WriterInv(w)'
  BY <1>1, <1>4 DEF WriterInv
<1>. QED  BY <1>2, <1>5, OneWriterSuffices

\* Where the new entries go is a place of the list.
LEMMA AddNextList ==
  ASSUME ListInv, Orderly, TypeInv', NEW w \in Writers, AddNext(w)
  PROVE  ListInv'
<1>1. /\ UNCHANGED <<rows, order, highest>> /\ pc[w] = "next" /\ pc'[w] = "item"
      /\ pc[w] \notin Gaps /\ stack[w] # << >>
  BY OneWriterHas DEF AddNext, Goto, Gaps, Control, Adding
<1>2. Distinct(order') /\ Chain(rows', order', {}, Straight(order'))
  BY <1>1, OneWriterHas
<1>3. PICK id \in Places(order) : SetNext(w, id)
  <2>1. CASE SetNext(w, END)
    <3>1. IdAt(order, Len(order) + 1) = END /\ Len(order) + 1 \in 1..(Len(order) + 1)
      BY OneWriterHas DEF IdAt
    <3>. QED  BY <2>1, <3>1 DEF Places
  <2>2. CASE \E k \in DOMAIN rows : Selects(rows, Top(w).first, k) /\ SetNext(w, rows[k].next)
    <3>1. PICK k \in DOMAIN rows : Selects(rows, Top(w).first, k) /\ SetNext(w, rows[k].next)
      BY <2>2
    <3>2. PICK i \in 0..Len(order) : rows[k].id = IdAt(order, i)
      BY <1>1, OneWriterHas DEF Chain
    <3>3. rows[k].next = Straight(order)[i]
      <4>1. Selects(rows, IdAt(order, i), k)
        BY <3>1, <3>2 DEF Selects
      <4>2. order \in Seq(Entry) /\ Distinct(order) /\ Chain(rows, order, {}, Straight(order))
        BY <1>1, OneWriterHas
      <4>. QED  BY <4>1, <4>2, SelectChain
    <3>4. rows[k].next = IdAt(order, i + 1) /\ i + 1 \in 1..(Len(order) + 1)
      BY <3>3, OneWriterHas DEF Straight
    <3>. QED  BY <3>1, <3>4 DEF Places
  <2>. QED  BY <2>1, <2>2 DEF AddNext
<1>4. id \in Int
  BY <1>3, IdAtInjective, OneWriterHas DEF Places
<1>. DEFINE f == [Top(w) EXCEPT !.next = id]
<1>5. f \in Frame /\ f.next = id
  BY <1>1, <1>4, TopType DEF Frame, ListInv, TypeInv
<1>6. /\ Len(SetTop(stack[w], f)) = Len(stack[w])
      /\ \A j \in 1..Len(stack[w]) :
           SetTop(stack[w], f)[j] = IF j = Len(stack[w]) THEN f ELSE stack[w][j]
  <2>. HIDE DEF f
  <2>1. stack[w] \in Seq(Frame) /\ stack[w] # << >> /\ f \in Frame
    BY <1>1, <1>5, OneWriterHas
  <2>2. \A z \in Seq(Frame), g \in Frame : z # << >> =>
          /\ Len(SetTop(z, g)) = Len(z)
          /\ \A j \in 1..Len(z) : SetTop(z, g)[j] = IF j = Len(z) THEN g ELSE z[j]
    BY SetTopType
  <2>. QED  BY <2>1, <2>2, Zenon
<1>7. stack'[w] = SetTop(stack[w], f)
  BY <1>3, OneWriterHas DEF SetNext
<1>. HIDE DEF f
<1>8. PlacesKnown(w)'
  <2>1. \A j \in 1..Len(stack[w]) : j < Len(stack[w]) => stack[w][j].next \in Places(order)
    BY OneWriterHas DEF WriterInv, PlacesKnown, PlacesIn
  <2>2. \A j \in 1..Len(stack[w]) : stack'[w][j].next \in Places(order)
    BY <1>3, <1>5, <1>6, <1>7, <2>1, OneWriterHas
  <2>. QED  BY <1>1, <1>6, <1>7, <2>2 DEF PlacesKnown, PlacesIn
<1>9. HighestKnown(w)'
  BY <1>1, OneWriterHas DEF WriterInv, HighestKnown
<1>10. WriterInv(w)'
  BY <1>1, <1>8, <1>9 DEF WriterInv
<1>. QED  BY <1>2, <1>10, OneWriterSuffices

\* Stepping over a list element, and returning to a caller, keep what is known.
LEMMA AdvancePlaces ==
  ASSUME NEW s \in Seq(Frame), s # << >>, NEW places,
         \A j \in 1..Len(s) : s[j].next \in places
  PROVE  /\ Len(NextItem(s)) = Len(s)
         /\ \A j \in 1..Len(NextItem(s)) : NextItem(s)[j].next \in places
BY AdvanceType

LEMMA ReturnPlaces ==
  ASSUME NEW s \in Seq(Frame), Len(s) >= 2, NEW places,
         \A j \in 1..Len(s) : j < Len(s) => s[j].next \in places
  PROVE  \A j \in 1..Len(NextItem(Pop(s))) : NextItem(Pop(s))[j].next \in places
<1>1. s # << >> /\ Len(s) \in Nat
  BY EmptySeq
<1>2. /\ Pop(s) \in Seq(Frame)
      /\ Len(Pop(s)) = Len(s) - 1
      /\ \A j \in 1..(Len(s) - 1) : Pop(s)[j] = s[j]
  BY <1>1, PopType
<1>3. Pop(s) # << >>
  BY <1>1, <1>2, EmptySeq
<1>4. \A j \in 1..Len(Pop(s)) : Pop(s)[j].next \in places
  BY <1>1, <1>2
<1>. QED  BY <1>2, <1>3, <1>4, AdvancePlaces

LEMMA AddSkipList ==
  ASSUME ListInv, Orderly, TypeInv', NEW w \in Writers, AddSkip(w)
  PROVE  ListInv'
<1>1. /\ UNCHANGED <<rows, order, highest, pc>> /\ pc[w] = "item"
      /\ pc[w] \notin Gaps /\ stack[w] # << >> /\ stack'[w] = NextItem(stack[w])
  BY OneWriterHas DEF AddSkip, AtItem, Gaps, Control, Adding
<1>2. Distinct(order') /\ Chain(rows', order', {}, Straight(order'))
  BY <1>1, OneWriterHas
<1>3. \A j \in 1..Len(stack[w]) : stack[w][j].next \in Places(order)
  BY <1>1, OneWriterHas DEF WriterInv, PlacesKnown, PlacesIn
<1>4. /\ Len(NextItem(stack[w])) = Len(stack[w])
      /\ \A j \in 1..Len(NextItem(stack[w])) : NextItem(stack[w])[j].next \in Places(order)
  BY <1>1, <1>3, AdvancePlaces, OneWriterHas
<1>5. PlacesKnown(w)' /\ HighestKnown(w)'
  BY <1>1, <1>4, OneWriterHas DEF WriterInv, PlacesKnown, PlacesIn, HighestKnown
<1>6. WriterInv(w)'
  BY <1>1, <1>5 DEF WriterInv
<1>. QED  BY <1>2, <1>6, OneWriterSuffices

\* The caller's place stays a place while the folder's elements are put in.
LEMMA AddFolderList ==
  ASSUME ListInv, Orderly, TypeInv', NEW w \in Writers, AddFolder(w)
  PROVE  ListInv'
<1>1. /\ UNCHANGED <<rows, order, highest>> /\ pc[w] = "item" /\ pc'[w] = "count"
      /\ pc[w] \notin Gaps
  BY OneWriterHas DEF AddFolder, AtItem, Goto, Gaps
<1>2. Distinct(order') /\ Chain(rows', order', {}, Straight(order'))
  BY <1>1, OneWriterHas
<1>3. PICK f : stack'[w] = Append(stack[w], f)
  BY OneWriterHas DEF AddFolder
<1>4. \A j \in 1..Len(stack[w]) : stack[w][j].next \in Places(order)
  BY <1>1, OneWriterHas DEF WriterInv, PlacesKnown, PlacesIn
<1>5. /\ Len(stack'[w]) = Len(stack[w]) + 1
      /\ \A j \in 1..Len(stack[w]) : stack'[w][j] = stack[w][j]
  BY <1>3, OneWriterHas
<1>6. PlacesKnown(w)'
  BY <1>1, <1>4, <1>5, OneWriterHas DEF PlacesKnown, PlacesIn
<1>7. HighestKnown(w)'
  BY <1>1, OneWriterHas DEF WriterInv, HighestKnown
<1>8. WriterInv(w)'
  BY <1>1, <1>6, <1>7 DEF WriterInv
<1>. QED  BY <1>2, <1>8, OneWriterSuffices

\* The UPDATE of an add.
LEMMA AddRelinkList ==
  ASSUME ListInv, Orderly, TypeInv', NEW w \in Writers, AddRelink(w)
  PROVE  ListInv'
<1>1. /\ UNCHANGED <<order, stack>> /\ pc[w] = "item" /\ pc'[w] = "insert"
      /\ pc[w] \notin Gaps /\ stack[w] # << >>
      /\ highest'[w] = highest[w] + 1
      /\ rows' = Relink(rows, Top(w).next, highest[w] + 1)
  BY OneWriterHas DEF AddRelink, AtItem, Goto, Gaps, Control, Adding
<1>2. Chain(rows, order, {}, Straight(order)) /\ Distinct(order) /\ order \in Seq(Entry)
      /\ IsTable(rows) /\ highest[w] + 1 \in Int
  BY <1>1, OneWriterHas
<1>3. Len(stack[w]) \in 1..Len(stack[w])
  BY <1>1, EmptySeq, OneWriterHas
<1>4. PICK p \in 1..(Len(order) + 1) : IdAt(order, p) = Top(w).next
  BY <1>1, <1>3, OneWriterHas DEF WriterInv, PlacesKnown, PlacesIn, Places, Top
<1>5. Chain(rows', order, {}, [Straight(order) EXCEPT ![p - 1] = highest[w] + 1])
  BY <1>1, <1>2, <1>4, RelinkChain
<1>6. highest[w] >= 0 /\ \A i \in 1..Len(order) : order[i].id <= highest[w]
  BY <1>1, OneWriterHas DEF WriterInv, HighestKnown
<1>7. \A i \in 1..Len(order) : order[i].id \in Int
  BY <1>2 DEF Distinct, EntryId
<1>8. Top(w)' = Top(w)
  BY <1>1 DEF Top
<1>9. highest'[w] > 0 /\ \A i \in 1..Len(order) : order[i].id < highest'[w]
  BY <1>1, <1>6, <1>7, OneWriterHas
<1>10. Opened(w)'
  BY <1>1, <1>4, <1>5, <1>8, <1>9 DEF Opened
<1>11. PlacesKnown(w)'
  BY <1>1, OneWriterHas DEF WriterInv, PlacesKnown, PlacesIn
<1>12. HighestKnown(w)'
  BY <1>1, <1>7, <1>9, OneWriterHas DEF HighestKnown
<1>13. WriterInv(w)'
  BY <1>1, <1>10, <1>11, <1>12 DEF WriterInv
<1>14. "insert" \in Gaps
  BY DEF Gaps
<1>. QED  BY <1>1, <1>2, <1>13, <1>14, OneWriterSuffices

\* The history of an insertion: the place is one, and it is known which.
LEMMA OrderInsertPlace ==
  ASSUME order \in Seq(Entry), Distinct(order),
         NEW p \in 1..(Len(order) + 1), NEW e, OrderInsert(IdAt(order, p), e)
  PROVE  order' = InsertAt(order, p, e)
<1>1. PICK q \in 1..(Len(order) + 1) :
        IdAt(order, q) = IdAt(order, p) /\ order' = InsertAt(order, q, e)
  BY DEF OrderInsert
<1>2. q = p
  <2>1. p \in 0..(Len(order) + 1) /\ q \in 0..(Len(order) + 1)
    OBVIOUS
  <2>. QED  BY <1>1, <2>1, IdAtInjective
<1>. QED  BY <1>1, <1>2

\* The INSERT of an add.
LEMMA AddInsertList ==
  ASSUME ListInv, Orderly, TypeInv', NEW w \in Writers, AddInsert(w)
  PROVE  /\ ListInv'
         /\ \E p \in 1..(Len(order) + 1), e \in Entry :
              /\ e.id \in EntryId
              /\ \A i \in 1..Len(order) : order[i].id < e.id
              /\ order' = InsertAt(order, p, e)
<1>1. /\ UNCHANGED highest /\ pc[w] = "insert" /\ pc'[w] = "item" /\ pc'[w] \notin Gaps
      /\ stack[w] # << >> /\ stack'[w] = NextItem(stack[w]) /\ ItemNow(w) \in Titles
  BY OneWriterHas DEF AddInsert, Goto, Gaps, Control, Adding
<1>. DEFINE e == [id |-> highest[w], title |-> ItemNow(w)]
            row == [id |-> highest[w], title |-> ItemNow(w), next |-> Top(w).next]
<1>2. /\ order \in Seq(Entry) /\ Len(order) \in Nat /\ Distinct(order) /\ IsTable(rows)
      /\ highest[w] \in Int /\ stack[w] \in Seq(Frame) /\ Opened(w)
  BY <1>1, OneWriterHas DEF WriterInv
<1>3. highest[w] > 0 /\ \A i \in 1..Len(order) : order[i].id < highest[w]
  BY <1>2 DEF Opened
<1>4. PICK p \in 1..(Len(order) + 1) :
        /\ IdAt(order, p) = Top(w).next
        /\ Chain(rows, order, {}, [Straight(order) EXCEPT ![p - 1] = highest[w]])
  BY <1>2 DEF Opened
<1>5. Top(w).next \in Int
  BY <1>1, TopType DEF ListInv, TypeInv
<1>6. /\ e \in Entry /\ e.id = highest[w] /\ e.id \in EntryId
      /\ row \in Row /\ row.id = e.id /\ row.title = e.title /\ row.next = IdAt(order, p)
  BY <1>1, <1>2, <1>3, <1>4, <1>5 DEF Entry, EntryId, Row
<1>7. PICK top \in DOMAIN rows : IsTopRow(rows, top) /\ rows' = Insert(rows, top, row)
  BY DEF AddInsert
<1>8. OrderInsert(IdAt(order, p), e)
  BY <1>4 DEF AddInsert
<1>9. \A i \in 1..Len(order) : order[i].id # e.id
  BY <1>2, <1>3 DEF Distinct, EntryId
<1>. HIDE DEF e, row
<1>10. order' = InsertAt(order, p, e)
  BY <1>2, <1>8, OrderInsertPlace
<1>11. Distinct(order') /\ Chain(rows', order', {}, Straight(order'))
  <2>1. Chain(rows, order, {}, [Straight(order) EXCEPT ![p - 1] = e.id])
    BY <1>4, <1>6
  <2>. QED  BY <1>2, <1>6, <1>7, <1>9, <1>10, <2>1, InsertChain
<1>12. /\ order' \in Seq(Entry) /\ Len(order') = Len(order) + 1
       /\ \A i \in 0..(Len(order) + 2) :
            IdAt(order', i) =
              IF i < p THEN IdAt(order, i) ELSE IF i = p THEN e.id ELSE IdAt(order, i - 1)
  BY <1>2, <1>6, <1>10, InsertAtLinks
<1>13. Places(order) \subseteq Places(order')
  <2>. SUFFICES ASSUME NEW q \in 1..(Len(order) + 1) PROVE IdAt(order, q) \in Places(order')
    BY DEF Places
  <2>1. CASE q < p
    <3>1. IdAt(order', q) = IdAt(order, q) /\ q \in 1..(Len(order') + 1)
      BY <1>2, <1>12, <2>1
    <3>. QED  BY <3>1 DEF Places
  <2>2. CASE q >= p
    <3>1. q + 1 \in 0..(Len(order) + 2) /\ ~ (q + 1 < p) /\ q + 1 # p /\ (q + 1) - 1 = q
      BY <1>2, <2>2
    <3>2. IdAt(order', q + 1) = IdAt(order, q) /\ q + 1 \in 1..(Len(order') + 1)
      BY <1>2, <1>12, <3>1
    <3>. QED  BY <3>2 DEF Places
  <2>. QED  BY <1>2, <2>1, <2>2
<1>14. PlacesKnown(w)'
  <2>1. \A j \in 1..Len(stack[w]) : stack[w][j].next \in Places(order')
    BY <1>1, <1>13, OneWriterHas DEF WriterInv, PlacesKnown, PlacesIn
  <2>2. \A j \in 1..Len(NextItem(stack[w])) : NextItem(stack[w])[j].next \in Places(order')
    BY <1>1, <1>2, <2>1, AdvancePlaces
  <2>. QED  BY <1>1, <2>2 DEF PlacesKnown, PlacesIn
<1>15. HighestKnown(w)'
  <2>1. \A i \in 1..Len(order') :
          order'[i] = IF i < p THEN order[i] ELSE IF i = p THEN e ELSE order[i - 1]
    BY <1>2, <1>10, <1>12 DEF InsertAt
  <2>2. \A i \in 1..Len(order) : order[i].id <= highest[w]
    BY <1>2, <1>3 DEF Distinct, EntryId
  <2>3. ASSUME NEW i \in 1..Len(order') PROVE order'[i].id <= highest[w]
    <3>1. CASE i < p
      <4>1. i \in 1..Len(order) /\ order'[i] = order[i]
        BY <1>2, <1>12, <2>1, <3>1
      <4>. QED  BY <2>2, <4>1
    <3>2. CASE i = p
      BY <1>2, <1>6, <2>1, <3>2
    <3>3. CASE i > p
      <4>1. i - 1 \in 1..Len(order) /\ order'[i] = order[i - 1]
        BY <1>2, <1>12, <2>1, <3>3
      <4>. QED  BY <2>2, <4>1
    <3>. QED  BY <1>2, <1>12, <3>1, <3>2, <3>3
  <2>. QED  BY <1>1, <1>2, <1>3, <2>3 DEF HighestKnown
<1>16. WriterInv(w)'
  BY <1>1, <1>14, <1>15 DEF WriterInv
<1>17. ListInv'
  BY <1>11, <1>16, OneWriterSuffices
<1>. QED  BY <1>3, <1>6, <1>10, <1>17

\* A return, from a command or from the activation for a folder.
LEMMA ReturnList ==
  ASSUME ListInv, Orderly, TypeInv', NEW w \in Writers, Return(w),
         pc[w] \notin Gaps, UNCHANGED <<rows, order>>,
         highest'[w] \in Int, highest'[w] >= highest[w]
  PROVE  ListInv'
<1>1. Distinct(order') /\ Chain(rows', order', {}, Straight(order'))
  BY OneWriterHas
<1>2. CASE Len(stack[w]) <= 1
  <2>1. Len(stack'[w]) = 0 /\ pc'[w] = "idle"
    BY <1>2, OneWriterHas DEF Return, Goto
  <2>2. WriterInv(w)'
    BY <2>1 DEF WriterInv, PlacesKnown, PlacesIn, HighestKnown
  <2>. QED  BY <1>1, <2>2, OneWriterSuffices
<1>3. CASE ~ (Len(stack[w]) <= 1)
  <2>1. /\ Len(stack[w]) >= 2 /\ stack[w] \in Seq(Frame)
        /\ stack'[w] = NextItem(Pop(stack[w])) /\ pc'[w] = "item"
    BY <1>3, OneWriterHas DEF Return, Goto
  <2>2. \A j \in 1..Len(stack[w]) : j < Len(stack[w]) => stack[w][j].next \in Places(order)
    BY OneWriterHas DEF WriterInv, PlacesKnown, PlacesIn
  <2>3. PlacesKnown(w)'
    BY <2>1, <2>2, ReturnPlaces DEF PlacesKnown, PlacesIn
  <2>4. highest[w] >= 0 /\ \A i \in 1..Len(order) : order[i].id <= highest[w]
    BY <2>1, OneWriterHas DEF WriterInv, HighestKnown
  <2>5. \A i \in 1..Len(order) : order[i].id \in Int
    BY OneWriterHas DEF Distinct, EntryId
  <2>6. HighestKnown(w)'
    BY <2>4, <2>5, OneWriterHas DEF HighestKnown
  <2>7. WriterInv(w)'
    BY <2>1, <2>3, <2>6 DEF WriterInv
  <2>. QED  BY <1>1, <2>7, OneWriterSuffices
<1>. QED  BY <1>2, <1>3

LEMMA AddFailsList ==
  ASSUME ListInv, Orderly, TypeInv', NEW w \in Writers, AddFails(w)
  PROVE  ListInv'
<1>1. Return(w) /\ pc[w] \notin Gaps /\ UNCHANGED <<rows, order>>
  BY DEF AddFails, Orderly, PairsWhole, Gaps
<1>2. highest'[w] \in Int /\ highest'[w] >= highest[w]
  BY OneWriterHas DEF AddFails
<1>. QED  BY <1>1, <1>2, ReturnList

LEMMA BumpStoreList ==
  ASSUME ListInv, Orderly, TypeInv', NEW w \in Writers, BumpStore(w)
  PROVE  ListInv'
<1>1. Return(w) /\ pc[w] \notin Gaps /\ UNCHANGED <<rows, order>>
  BY DEF BumpStore, Gaps
<1>2. highest'[w] \in Int /\ highest'[w] >= highest[w]
  BY OneWriterHas DEF BumpStore
<1>. QED  BY <1>1, <1>2, ReturnList

\* While a remove runs there is no activation, and nothing but Cutting to keep.
LEMMA RemovingSuffices ==
  ASSUME ListInv, Orderly, TypeInv', NEW w \in Writers,
         pc[w] \in Removing \cup {"idle"}, UNCHANGED stack,
         pc'[w] \in Removing \cup {"idle", "bump"}, Distinct(order'),
         pc'[w] \notin Gaps => Chain(rows', order', {}, Straight(order')),
         pc'[w] \in Gaps => Cutting(w)'
  PROVE  ListInv'
<1>1. Len(stack'[w]) = 0
  BY OneWriterHas DEF Control
<1>2. PlacesKnown(w)' /\ HighestKnown(w)'
  BY <1>1 DEF PlacesKnown, PlacesIn, HighestKnown, Removing
<1>3. WriterInv(w)'
  BY <1>2 DEF WriterInv, Removing, Gaps
<1>. QED  BY <1>3, OneWriterSuffices

\* A whole chain is one with an empty run cut out at any place.
LEMMA EmptyRun ==
  ASSUME NEW m \in Int
  PROVE  m..(m - 1) = {}
OBVIOUS

LEMMA RemoveBeginList ==
  ASSUME ListInv, Orderly, TypeInv', NEW w \in Writers,
         NEW first \in NamedIds \cup {BEGINNING}, NEW count, RemoveBegin(w, first, count)
  PROVE  ListInv'
<1>1. /\ UNCHANGED <<rows, order, stack>> /\ pc[w] = "idle" /\ pc[w] \notin Gaps
      /\ pc'[w] = IF first = BEGINNING THEN "rfirst" ELSE "rnext"
      /\ rm'[w].first = first /\ rm'[w].this = first
  BY OneWriterHas DEF RemoveBegin, Goto, Gaps
<1>2. Distinct(order') /\ Chain(rows', order', {}, Straight(order'))
  BY <1>1, OneWriterHas
<1>3. ASSUME first # BEGINNING PROVE Cutting(w)'
  <2>1. CASE first \in Places(order)
    <3>1. PICK p \in 1..(Len(order) + 1) : first = IdAt(order, p)
      BY <2>1 DEF Places
    <3>2. p..(p - 1) = {}
      BY EmptyRun
    <3>3. Chain(rows', order', p..(p - 1), Straight(order')) /\ p <= p
      BY <1>2, <3>2, OneWriterHas
    <3>. QED  BY <1>1, <1>3, <3>1, <3>3 DEF Cutting
  <2>2. CASE first \notin Places(order)
    BY <1>1, <1>2, <1>3, <2>2 DEF Cutting
  <2>. QED  BY <2>1, <2>2
<1>. QED  BY <1>1, <1>2, <1>3, RemovingSuffices DEF Removing, Gaps

LEMMA RemoveFirstList ==
  ASSUME ListInv, Orderly, TypeInv', NEW w \in Writers, RemoveFirst(w)
  PROVE  ListInv'
<1>1. /\ UNCHANGED <<rows, order, stack>> /\ pc[w] = "rfirst" /\ pc[w] \notin Gaps
      /\ pc'[w] = "rnext"
  BY OneWriterHas DEF RemoveFirst, Goto, Gaps
<1>2. Distinct(order') /\ Chain(rows', order', {}, Straight(order'))
  BY <1>1, OneWriterHas
<1>3. PICK k \in DOMAIN rows :
        Selects(rows, BEGINNING, k) /\ rm'[w] = RemoveAt(w, rows[k].next)
  BY OneWriterHas DEF RemoveFirst
<1>4. rows[k].next = IdAt(order, 1)
  <2>1. IdAt(order, 0) = BEGINNING /\ 0 \in 0..Len(order) /\ 0 \notin {}
    BY OneWriterHas DEF IdAt
  <2>2. Straight(order)[0] = IdAt(order, 1)
    BY <2>1 DEF Straight
  <2>3. order \in Seq(Entry) /\ Distinct(order) /\ Chain(rows, order, {}, Straight(order))
    BY <1>1, OneWriterHas
  <2>. QED  BY <1>3, <2>1, <2>2, <2>3, SelectChain
<1>5. rm'[w].first = IdAt(order, 1) /\ rm'[w].this = IdAt(order, 1)
  BY <1>3, <1>4, OneWriterHas DEF RemoveAt, Remove
<1>6. 1 \in 1..(Len(order) + 1) /\ 1..(1 - 1) = {}
  BY EmptyRun, OneWriterHas
<1>7. Cutting(w)'
  <2>1. Chain(rows', order', 1..(1 - 1), Straight(order')) /\ 1 <= 1
    BY <1>2, <1>6
  <2>. QED  BY <1>1, <1>5, <1>6, <2>1 DEF Cutting
<1>. QED  BY <1>1, <1>2, <1>7, RemovingSuffices DEF Removing, Gaps

\* The loop's SELECT finds the row only if its place is still there.
LEMMA RemoveNextList ==
  ASSUME ListInv, Orderly, TypeInv', NEW w \in Writers, RemoveNext(w)
  PROVE  ListInv'
<1>1. /\ UNCHANGED <<rows, order, stack>> /\ pc[w] = "rnext"
      /\ pc'[w] \in {"rdelete", "rrelink"}
      /\ order \in Seq(Entry) /\ Len(order) \in Nat /\ Distinct(order)
      /\ rm[w] \in Remove /\ rm \in [Writers -> Remove] /\ Cutting(w)
  BY OneWriterHas DEF RemoveNext, Goto, WriterInv
<1>2. CASE RemoveMore(w)
  <2>1. PICK k \in DOMAIN rows :
          Selects(rows, rm[w].this, k) /\ rm' = [rm EXCEPT ![w].next = rows[k].next]
    BY <1>2 DEF RemoveNext
  <2>2. /\ rm'[w].first = rm[w].first /\ rm'[w].this = rm[w].this
        /\ rm'[w].next = rows[k].next
    BY <1>1, <2>1 DEF Remove
  <2>3. CASE \E a, m \in 1..(Len(order) + 1) :
               /\ a <= m
               /\ rm[w].first = IdAt(order, a)
               /\ rm[w].this = IdAt(order, m)
               /\ Chain(rows, order, a..(m - 1), Straight(order))
    <3>1. PICK a \in 1..(Len(order) + 1), m \in 1..(Len(order) + 1) :
               /\ a <= m
               /\ rm[w].first = IdAt(order, a)
               /\ rm[w].this = IdAt(order, m)
               /\ Chain(rows, order, a..(m - 1), Straight(order))
      BY <2>3
    <3>2. m <= Len(order)
      <4>1. IdAt(order, Len(order) + 1) = END
        BY <1>1 DEF IdAt
      <4>. QED  BY <1>1, <1>2, <3>1, <4>1 DEF RemoveMore
    <3>3. m \in 0..Len(order) /\ m \notin a..(m - 1)
      BY <1>1, <3>2
    <3>4. rows[k].next = Straight(order)[m]
      BY <1>1, <2>1, <3>1, <3>3, SelectChain
    <3>5. rows[k].next = IdAt(order, m + 1)
      BY <1>1, <3>3, <3>4 DEF Straight
    <3>6. Cutting(w)'
      BY <1>1, <2>2, <3>1, <3>2, <3>5 DEF Cutting
    <3>. QED  BY <1>1, <3>6, RemovingSuffices DEF Removing, Gaps
  <2>4. CASE /\ rm[w].first = rm[w].this
             /\ rm[w].first # BEGINNING
             /\ rm[w].first \notin Places(order)
             /\ Chain(rows, order, {}, Straight(order))
    <3>1. \A i \in 0..Len(order) : IdAt(order, i) # rm[w].this
      <4>1. \A i \in 1..Len(order) : IdAt(order, i) \in Places(order)
        BY <1>1 DEF Places
      <4>2. IdAt(order, 0) = BEGINNING
        BY DEF IdAt
      <4>. QED  BY <1>1, <2>4, <4>1, <4>2
    <3>2. ~ HasRow(rows, rm[w].this)
      BY <2>4, <3>1, NoRowChain
    <3>. QED  BY <2>1, <3>2 DEF HasRow, Selects
  <2>. QED  BY <1>1, <2>3, <2>4 DEF Cutting
<1>3. CASE ~ RemoveMore(w)
  <2>1. rm' = rm /\ pc'[w] = "rrelink"
    BY <1>3, OneWriterHas DEF RemoveNext, Goto
  <2>2. Cutting(w)'
    BY <1>1, <2>1 DEF Cutting
  <2>. QED  BY <1>1, <2>1, <2>2, RemovingSuffices DEF Removing, Gaps
<1>. QED  BY <1>2, <1>3

LEMMA RemoveDeleteList ==
  ASSUME ListInv, Orderly, TypeInv', NEW w \in Writers, RemoveDelete(w)
  PROVE  ListInv'
<1>1. /\ UNCHANGED <<order, stack>> /\ pc[w] = "rdelete" /\ pc'[w] = "rnext"
      /\ rows' = Delete(rows, rm[w].this)
      /\ order \in Seq(Entry) /\ Len(order) \in Nat /\ Distinct(order) /\ IsTable(rows)
      /\ rm[w] \in Remove /\ rm \in [Writers -> Remove] /\ Cutting(w)
  BY OneWriterHas DEF RemoveDelete, Goto, WriterInv
<1>2. rm'[w].first = rm[w].first /\ rm'[w].this = rm[w].next
  BY <1>1 DEF RemoveDelete, Remove
<1>3. PICK a \in 1..(Len(order) + 1), m \in 1..(Len(order) + 1) :
        /\ a <= m
        /\ rm[w].first = IdAt(order, a)
        /\ rm[w].this = IdAt(order, m)
        /\ Chain(rows, order, a..(m - 1), Straight(order))
        /\ m <= Len(order) /\ rm[w].next = IdAt(order, m + 1)
  BY <1>1 DEF Cutting
<1>4. a \in 1..Len(order) /\ m \in a..Len(order) /\ m + 1 \in 1..(Len(order) + 1)
      /\ a <= m + 1 /\ (m + 1) - 1 = m
  BY <1>1, <1>3
<1>5. Chain(rows', order, a..m, Straight(order))
  BY <1>1, <1>3, <1>4, DeleteChain
<1>6. Chain(rows', order, a..((m + 1) - 1), Straight(order))
  BY <1>4, <1>5
<1>7. Cutting(w)'
  <2>. DEFINE n == m + 1
  <2>1. n \in 1..(Len(order) + 1) /\ a <= n /\ rm'[w].this = IdAt(order, n)
        /\ Chain(rows', order, a..(n - 1), Straight(order))
    BY <1>2, <1>3, <1>4, <1>6
  <2>. HIDE DEF n
  <2>. QED  BY <1>1, <1>2, <1>3, <2>1 DEF Cutting
<1>. QED  BY <1>1, <1>7, RemovingSuffices DEF Removing, Gaps

\* Relinking an id to itself changes nothing.
LEMMA RelinkSelf ==
  ASSUME NEW t, IsTable(t), NEW x
  PROVE  Relink(t, x, x) = t
<1>1. \A k \in DOMAIN t : t[k] \in Row
  BY DEF IsTable
<1>2. \A k \in DOMAIN t : t[k].next = x => [t[k] EXCEPT !.next = x] = t[k]
  BY <1>1 DEF Row
<1>. QED  BY <1>2 DEF IsTable, Relink

\* The closing UPDATE of a remove.
LEMMA RemoveRelinkList ==
  ASSUME ListInv, Orderly, TypeInv', NEW w \in Writers, RemoveRelink(w)
  PROVE  /\ ListInv'
         /\ \/ order' = order
            \/ \E a, m \in 1..(Len(order) + 1) : a <= m /\ order' = CutSlice(order, a, m)
<1>1. /\ UNCHANGED stack /\ pc[w] = "rrelink" /\ pc'[w] = "bump"
      /\ rows' = Relink(rows, rm[w].first, rm[w].this)
      /\ OrderCut(rm[w].first, rm[w].this)
      /\ order \in Seq(Entry) /\ Len(order) \in Nat /\ Distinct(order) /\ IsTable(rows)
      /\ Cutting(w)
  BY OneWriterHas DEF RemoveRelink, Goto, WriterInv
<1>2. CASE \E a, m \in 1..(Len(order) + 1) :
             /\ a <= m
             /\ rm[w].first = IdAt(order, a)
             /\ rm[w].this = IdAt(order, m)
             /\ Chain(rows, order, a..(m - 1), Straight(order))
  <2>1. PICK a \in 1..(Len(order) + 1), m \in 1..(Len(order) + 1) :
             /\ a <= m
             /\ rm[w].first = IdAt(order, a)
             /\ rm[w].this = IdAt(order, m)
             /\ Chain(rows, order, a..(m - 1), Straight(order))
    BY <1>2
  <2>2. order' = CutSlice(order, a, m)
    <3>1. PICK b \in 1..(Len(order) + 1), n \in 1..(Len(order) + 1) :
            /\ IdAt(order, b) = IdAt(order, a) /\ IdAt(order, n) = IdAt(order, m)
            /\ order' = CutSlice(order, b, n)
      BY <1>1, <2>1 DEF OrderCut
    <3>2. \A i \in 1..(Len(order) + 1) : i \in 0..(Len(order) + 1)
      BY <1>1
    <3>3. b = a /\ n = m
      BY <1>1, <3>1, <3>2, IdAtInjective
    <3>. QED  BY <3>1, <3>3
  <2>3. Distinct(order') /\ Chain(rows', order', {}, Straight(order'))
    BY <1>1, <2>1, <2>2, CutChain
  <2>4. ListInv'
    BY <1>1, <2>3, RemovingSuffices DEF Removing, Gaps
  <2>. QED  BY <2>1, <2>2, <2>4
<1>3. CASE /\ rm[w].first = rm[w].this
           /\ rm[w].first \notin Places(order)
           /\ Chain(rows, order, {}, Straight(order))
  <2>1. rows' = rows
    BY <1>1, <1>3, RelinkSelf
  <2>2. order' = order
    BY <1>1, <1>3 DEF OrderCut, Places
  <2>3. ListInv'
    BY <1>1, <1>3, <2>1, <2>2, RemovingSuffices DEF Removing, Gaps
  <2>. QED  BY <2>2, <2>3
<1>. QED  BY <1>1, <1>2, <1>3 DEF Cutting

LEMMA RemoveFailsList ==
  ASSUME ListInv, Orderly, TypeInv', NEW w \in Writers, RemoveFails(w)
  PROVE  ListInv'
<1>1. /\ UNCHANGED <<rows, order, stack, rm>>
      /\ \/ pc[w] = "rfirst" /\ pc'[w] = "idle"
         \/ pc[w] \in {"rnext", "rdelete"} /\ pc'[w] = "rrelink"
  BY OneWriterHas DEF RemoveFails, Goto, Orderly, PairsWhole
<1>2. Distinct(order')
  BY <1>1, OneWriterHas
<1>3. pc'[w] \notin Gaps => Chain(rows', order', {}, Straight(order'))
  BY <1>1, OneWriterHas DEF Gaps
<1>4. pc'[w] \in Gaps => Cutting(w)'
  BY <1>1, OneWriterHas DEF WriterInv, Cutting, Gaps
<1>5. pc[w] \in Removing \cup {"idle"} /\ pc'[w] \in Removing \cup {"idle", "bump"}
  BY <1>1 DEF Removing
<1>. QED  BY <1>1, <1>2, <1>3, <1>4, <1>5, RemovingSuffices

LEMMA ReaderList ==
  ASSUME ListInv, TypeInv', UNCHANGED <<rows, counter, wvars, order>>
  PROVE  ListInv'
<1>1. \A w \in Writers : WriterInv(w)'
  BY DEF ListInv, WriterInv, PlacesKnown, HighestKnown, Opened, Cutting, Top, wvars
<1>2. Closed'
  BY DEF ListInv, Closed, wvars
<1>. QED  BY <1>1, <1>2 DEF ListInv

\* Every step of the one writer keeps the list, and does to it what the playlist of
\* PlaylistSeq allows or nothing.
LEMMA WriterList ==
  ASSUME ListInv, Orderly, TypeInv', NEW w \in Writers, WriterStep(w)
  PROVE  /\ ListInv'
         /\ \/ order' = order
            \/ \E p \in 1..(Len(order) + 1), e \in Entry :
                 /\ e.id \in EntryId
                 /\ \A i \in 1..Len(order) : order[i].id < e.id
                 /\ order' = InsertAt(order, p, e)
            \/ \E a, m \in 1..(Len(order) + 1) : a <= m /\ order' = CutSlice(order, a, m)
<1>1. CASE \E first \in NamedIds \cup {BEGINNING, END}, items \in Requests :
             AddBegin(w, first, items)
  BY <1>1, AddBeginList DEF AddBegin
<1>2. CASE \E first \in NamedIds \cup {BEGINNING}, count \in Counts :
             RemoveBegin(w, first, count)
  BY <1>2, RemoveBeginList DEF RemoveBegin
<1>3. CASE AddCount(w) \/ AddMax(w) \/ AddEnd(w) \/ BumpLoad(w)
  BY <1>3, LocalStepList DEF AddCount, AddMax, AddEnd, BumpLoad
<1>4. CASE AddNext(w) \/ AddSkip(w) \/ AddFolder(w)
  BY <1>4, AddNextList, AddSkipList, AddFolderList DEF AddNext, AddSkip, AddFolder
<1>5. CASE AddRelink(w) \/ AddFails(w) \/ BumpStore(w)
  BY <1>5, AddRelinkList, AddFailsList, BumpStoreList DEF AddRelink, AddFails, BumpStore
<1>6. CASE AddInsert(w)
  BY <1>6, AddInsertList
<1>7. CASE RemoveFirst(w) \/ RemoveNext(w) \/ RemoveDelete(w) \/ RemoveFails(w)
  BY <1>7, RemoveFirstList, RemoveNextList, RemoveDeleteList, RemoveFailsList
     DEF RemoveFirst, RemoveNext, RemoveDelete, RemoveFails
<1>8. CASE RemoveRelink(w)
  BY <1>8, RemoveRelinkList
<1>9. ~ Crash(w)
  BY DEF Crash, Orderly, PairsWhole
<1>. QED  BY <1>1, <1>2, <1>3, <1>4, <1>5, <1>6, <1>7, <1>8, <1>9
          DEF WriterStep, WriterGoesOn

LEMMA NextListInv == Orderly /\ ListInv /\ [Next]_vars => ListInv'
<1>1. SUFFICES ASSUME Orderly, ListInv, [Next]_vars PROVE ListInv'
  OBVIOUS
<1>2. TypeInv'
  BY <1>1, NextTypeInv DEF ListInv
<1>3. CASE \E w \in Writers : WriterStep(w) /\ Disturb
  BY <1>1, <1>2, <1>3, WriterList
<1>4. CASE \E r \in Readers : ReaderStep(r) /\ UNCHANGED <<rows, counter, wvars, order>>
  BY <1>1, <1>2, <1>4, ReaderList
<1>5. CASE UNCHANGED vars
  BY <1>1, <1>2, <1>5, ReaderList DEF vars
<1>. QED  BY <1>1, <1>3, <1>4, <1>5 DEF Next

LEMMA ListInvImpliesIntact == ListInv => ListIntact
<1>1. SUFFICES ASSUME ListInv, \A w \in Writers : pc[w] \notin Gaps PROVE RowsAre(order)
  BY DEF ListIntact, Gaps
<1>2. Chain(rows, order, {}, Straight(order))
  BY <1>1 DEF ListInv, Closed
<1>3. \A i \in 0..Len(order) : Straight(order)[i] = IdAt(order, i + 1)
  BY DEF Straight
<1>4. \A i \in 0..Len(order) : \E k \in DOMAIN rows :
        /\ rows[k].id = IdAt(order, i)
        /\ rows[k].next = IdAt(order, i + 1)
        /\ i > 0 => rows[k].title = order[i].title
  <2>1. ASSUME NEW i \in 0..Len(order)
        PROVE  \E k \in DOMAIN rows : /\ rows[k].id = IdAt(order, i)
                                      /\ rows[k].next = Straight(order)[i]
                                      /\ i > 0 => rows[k].title = order[i].title
    BY <1>2 DEF Chain
  <2>. QED  BY <1>3, <2>1
<1>5. /\ \A k, l \in DOMAIN rows : rows[k].id = rows[l].id => k = l
      /\ \A k \in DOMAIN rows : \E i \in 0..Len(order) : rows[k].id = IdAt(order, i)
  BY <1>2 DEF Chain
<1>. QED  BY <1>4, <1>5 DEF RowsAre

\* With one writer at a time whose pairs of statements are whole, the table is the
\* playlist whenever no pair is open, whatever is asked for and whichever other
\* statements fail.
THEOREM ListStaysIntact == Orderly => (Spec => []ListIntact)
<1>1. SUFFICES ASSUME Orderly PROVE Spec => []ListIntact
  OBVIOUS
<1>2. Init => ListInv
  BY InitListInv
<1>3. ListInv /\ [Next]_vars => ListInv'
  BY <1>1, NextListInv
<1>4. ListInv => ListIntact
  BY ListInvImpliesIntact
<1>. QED  BY <1>2, <1>3, <1>4, PTL DEF Spec

LEMMA AbstractStep == Orderly /\ ListInv /\ [Next]_vars => [Abstract!Next]_order
<1>1. SUFFICES ASSUME Orderly, ListInv, [Next]_vars, order' # order
               PROVE  Abstract!Next
  OBVIOUS
<1>2. PICK w \in Writers : WriterStep(w)
  BY <1>1 DEF Next, vars
<1>3. TypeInv' /\ order \in Seq(Entry) /\ Len(order) \in Nat
  BY <1>1, NextTypeInv, SMTT(30) DEF ListInv, TypeInv, TypeOK
<1>4. CASE \E p \in 1..(Len(order) + 1), e \in Entry :
             /\ e.id \in EntryId
             /\ \A i \in 1..Len(order) : order[i].id < e.id
             /\ order' = InsertAt(order, p, e)
  <2>1. PICK p \in 1..(Len(order) + 1), e \in Entry :
          /\ e.id \in EntryId
          /\ \A i \in 1..Len(order) : order[i].id < e.id
          /\ order' = InsertAt(order, p, e)
    BY <1>4
  <2>2. Abstract!Put(p, e)
    BY <2>1 DEF Abstract!Put, Abstract!Fresh, Abstract!EntryId, EntryId,
                Abstract!InsertAt, InsertAt
  <2>3. p \in DOMAIN order' /\ e = order'[p]
    BY <1>3, <2>1 DEF InsertAt
  <2>4. e \in {order'[i] : i \in DOMAIN order'}
    BY <2>3
  <2>. QED  BY <2>2, <2>4 DEF Abstract!Next
<1>5. CASE \E a, m \in 1..(Len(order) + 1) : a <= m /\ order' = CutSlice(order, a, m)
  <2>1. PICK a \in 1..(Len(order) + 1), m \in 1..(Len(order) + 1) :
          a <= m /\ order' = CutSlice(order, a, m)
    BY <1>5
  <2>2. Abstract!Take(a, m)
    BY <1>3, <2>1 DEF Abstract!Take, Abstract!CutSlice, CutSlice
  <2>. QED  BY <2>2 DEF Abstract!Next
<1>. QED  BY <1>1, <1>2, <1>3, <1>4, <1>5, WriterList

\* Under the same assumption the library implements the abstract playlist: each of its
\* steps puts one new entry at a place, takes a run of neighbours out, or is a stutter.
THEOREM ImplementsPlaylist == Orderly => (Spec => AbstractSpec)
<1>1. SUFFICES ASSUME Orderly PROVE Spec => AbstractSpec
  OBVIOUS
<1>2. Init => ListInv /\ Abstract!Init
  BY InitListInv DEF Init, Abstract!Init
<1>3. ListInv /\ [Next]_vars => ListInv'
  BY <1>1, NextListInv
<1>4. ListInv /\ [Next]_vars => [Abstract!Next]_order
  BY <1>1, AbstractStep
<1>. QED  BY <1>2, <1>3, <1>4, PTL DEF Spec, AbstractSpec, Abstract!Spec

-----------------------------------------------------------------------------
(***************************************************************************)
(* Where a list goes.  A folder that is not the first of its list is put   *)
(* after the highest id, which the code takes for the entry it added last. *)
(* It is, once an entry of the list has landed; and as long as none has, a *)
(* folder that goes elsewhere leaves the place asked for as it was.        *)
(***************************************************************************)
\* Entries added after a go before b.
Adjacent(list, a, b) ==
  \/ a = END /\ b = END
  \/ \E i \in 0..Len(list) : IdAt(list, i) = a /\ IdAt(list, i + 1) = b

\* The entry before b is the newest.
Latest(list, b) ==
  \E m \in 1..Len(list) : /\ \A i \in 1..Len(list) : list[i].id <= list[m].id
                          /\ IdAt(list, m + 1) = b

\* If a is the id of an entry at all, it is the newest.
Beyond(list, a) == a >= 0 /\ \A i \in 1..Len(list) : list[i].id <= a

Looking == {"count", "max", "next"}
Putting == {"item", "insert"}

\* What has landed between a, the entry a list was to follow, and b, which followed it.
Landing(list, a, b, some) ==
  \/ a = END
  \/ \E f \in 0..Len(list), n \in 1..(Len(list) + 1) :
       /\ f < n /\ IdAt(list, f) = a /\ IdAt(list, n) = b
       /\ \A p \in (f + 1)..(n - 1), q \in 1..Len(list) :
            list[q].id > list[p].id => p < q /\ q < n
       /\ some => f + 1 < n

\* A list that begins with a title has something landed once it is past it.
Begun(frame) == frame.i > 1 /\ frame.items[1] \in Titles

Placing(frames, step, list) ==
  /\ \A i, j \in 1..Len(frames) :
       i < j /\ (j < Len(frames) \/ step \in Putting) =>
         frames[j].next = frames[i].next \/ Latest(list, frames[j].next)
  /\ \A j \in 1..Len(frames) : j < Len(frames) => frames[j].items[frames[j].i] \in Folders
  /\ step \in Looking =>
       /\ frames[Len(frames)].i = 1
       /\ Len(frames) >= 2 =>
            \/ Adjacent(list, frames[Len(frames)].first, frames[Len(frames) - 1].next)
            \/ Beyond(list, frames[Len(frames)].first)
  /\ step \in Putting /\ frames[Len(frames)].i = 1 =>
       Adjacent(list, frames[Len(frames)].first, frames[Len(frames)].next)
  /\ Len(frames) >= 2 \/ (Len(frames) = 1 /\ step \in Putting) =>
       Landing(list, frames[1].first, frames[1].next, Begun(frames[1]))

PlaceInv == \A w \in Writers : Placing(stack[w], pc[w], order)

\* The ids around an entry that is put in.
LEMMA InsertedIds ==
  ASSUME NEW list \in Seq(Entry), NEW p \in 1..(Len(list) + 1), NEW e \in Entry,
         NEW new, new = InsertAt(list, p, e)
  PROVE  /\ Len(list) \in Nat /\ Len(new) = Len(list) + 1
         /\ \A i \in 0..(Len(list) + 2) :
              IdAt(new, i) =
                IF i < p THEN IdAt(list, i) ELSE IF i = p THEN e.id ELSE IdAt(list, i - 1)
         /\ \A i \in 1..(Len(list) + 1) :
              new[i] = IF i < p THEN list[i] ELSE IF i = p THEN e ELSE list[i - 1]
<1>1. /\ Len(new) = Len(list) + 1
      /\ \A i \in 0..(Len(list) + 2) :
           IdAt(new, i) =
             IF i < p THEN IdAt(list, i) ELSE IF i = p THEN e.id ELSE IdAt(list, i - 1)
  BY InsertAtLinks
<1>2. \A i \in 1..(Len(list) + 1) :
        new[i] = IF i < p THEN list[i] ELSE IF i = p THEN e ELSE list[i - 1]
  BY DEF InsertAt
<1>. QED  BY <1>1, <1>2

\* There is one newest entry, so one place behind it.
LEMMA LatestUnique ==
  ASSUME NEW list, Distinct(list), NEW a, NEW b, Latest(list, a), Latest(list, b)
  PROVE  a = b
<1>1. PICK m \in 1..Len(list) :
        (\A i \in 1..Len(list) : list[i].id <= list[m].id) /\ IdAt(list, m + 1) = a
  BY DEF Latest
<1>2. PICK k \in 1..Len(list) :
        (\A i \in 1..Len(list) : list[i].id <= list[k].id) /\ IdAt(list, k + 1) = b
  BY DEF Latest
<1>3. list[m].id \in Int /\ list[k].id \in Int
  BY DEF Distinct, EntryId
<1>4. m = k
  <2>1. list[m].id <= list[k].id /\ list[k].id <= list[m].id
    BY <1>1, <1>2
  <2>. QED  BY <1>3, <2>1 DEF Distinct
<1>. QED  BY <1>1, <1>2, <1>4

\* An entry that is put in with the highest id is the newest, before what it was put before.
LEMMA InsertLatest ==
  ASSUME NEW list \in Seq(Entry), Distinct(list), NEW p \in 1..(Len(list) + 1),
         NEW e \in Entry, e.id \in EntryId, \A i \in 1..Len(list) : list[i].id < e.id
  PROVE  Latest(InsertAt(list, p, e), IdAt(list, p))
<1>0. PICK new : new = InsertAt(list, p, e)
  OBVIOUS
<1>1. /\ Len(list) \in Nat /\ Len(new) = Len(list) + 1
      /\ IdAt(new, p + 1) = IdAt(list, p)
  <2>1. /\ Len(new) = Len(list) + 1
        /\ \A i \in 0..(Len(list) + 2) :
             IdAt(new, i) =
               IF i < p THEN IdAt(list, i) ELSE IF i = p THEN e.id ELSE IdAt(list, i - 1)
    BY <1>0, InsertAtLinks
  <2>2. p + 1 \in 0..(Len(list) + 2) /\ ~ (p + 1 < p) /\ p + 1 # p /\ (p + 1) - 1 = p
    OBVIOUS
  <2>. QED  BY <2>1, <2>2
<1>2. \A i \in 1..(Len(list) + 1) :
        new[i] = IF i < p THEN list[i] ELSE IF i = p THEN e ELSE list[i - 1]
  BY <1>0 DEF InsertAt
<1>3. p \in 1..Len(new) /\ new[p] = e
  BY <1>1, <1>2
<1>4. ASSUME NEW i \in 1..Len(new) PROVE new[i].id <= e.id
  <2>1. \A j \in 1..Len(list) : list[j].id <= e.id
    BY DEF Distinct, EntryId
  <2>2. CASE i < p
    <3>1. i \in 1..Len(list) /\ new[i] = list[i]
      BY <1>1, <1>2, <2>2
    <3>. QED  BY <2>1, <3>1
  <2>3. CASE i = p
    BY <1>3, <2>3 DEF EntryId
  <2>4. CASE i > p
    <3>1. i - 1 \in 1..Len(list) /\ new[i] = list[i - 1]
      BY <1>1, <1>2, <2>4
    <3>. QED  BY <2>1, <3>1
  <2>. QED  BY <1>1, <2>2, <2>3, <2>4
<1>. QED  BY <1>0, <1>1, <1>3, <1>4 DEF Latest

\* As long as the newest entry has not landed none has.
LEMMA NoneLanded ==
  ASSUME NEW list \in Seq(Entry), Distinct(list), NEW b, Latest(list, b),
         NEW f \in 0..Len(list), NEW n \in 1..(Len(list) + 1), f < n, IdAt(list, n) # b,
         \A p \in (f + 1)..(n - 1), q \in 1..Len(list) : list[q].id > list[p].id => p < q /\ q < n
  PROVE  f + 1 = n
<1>1. SUFFICES ASSUME f + 1 < n PROVE FALSE
  OBVIOUS
<1>2. Len(list) \in Nat /\ \A i \in 1..Len(list) : list[i].id \in Int
  BY DEF Distinct, EntryId
<1>3. PICK m \in 1..Len(list) :
        (\A i \in 1..Len(list) : list[i].id <= list[m].id) /\ IdAt(list, m + 1) = b
  BY DEF Latest
<1>4. \A i \in 1..Len(list) : i # m => list[m].id > list[i].id
  BY <1>2, <1>3 DEF Distinct
<1>5. m + 1 # n
  BY <1>3
<1>6. f < m /\ m < n
  <2>1. f + 1 \in (f + 1)..(n - 1) /\ f + 1 \in 1..Len(list)
    BY <1>1, <1>2
  <2>2. m # f + 1 => f + 1 < m /\ m < n
    BY <1>4, <2>1
  <2>. QED  BY <1>1, <2>2
<1>7. m + 1 \in (f + 1)..(n - 1) /\ m + 1 \in 1..Len(list)
  BY <1>2, <1>5, <1>6
<1>8. list[m].id > list[m + 1].id
  BY <1>4, <1>7
<1>9. m + 1 < m
  BY <1>7, <1>8
<1>. QED  BY <1>9

\* The list with an entry of the highest id put in, at the place of the activation that has
\* it or, as long as none has landed, anywhere else.
LEMMA InsertLanding ==
  ASSUME NEW list \in Seq(Entry), Distinct(list), NEW p \in 1..(Len(list) + 1),
         NEW e \in Entry, e.id \in EntryId, \A i \in 1..Len(list) : list[i].id < e.id,
         NEW a, NEW b, NEW some \in BOOLEAN, Landing(list, a, b, some),
         IdAt(list, p) = b \/ Latest(list, IdAt(list, p)),
         NEW more \in BOOLEAN, more => some \/ IdAt(list, p) = b
  PROVE  Landing(InsertAt(list, p, e), a, b, more)
<1>0. PICK new : new = InsertAt(list, p, e)
  OBVIOUS
<1>1. CASE a = END
  BY <1>1 DEF Landing
<1>2. CASE a # END
  <2>1. PICK f \in 0..Len(list), n \in 1..(Len(list) + 1) :
          /\ f < n /\ IdAt(list, f) = a /\ IdAt(list, n) = b
          /\ \A x \in (f + 1)..(n - 1), q \in 1..Len(list) :
               list[q].id > list[x].id => x < q /\ q < n
          /\ some => f + 1 < n
    BY <1>2 DEF Landing
  <2>2. /\ Len(list) \in Nat /\ Len(new) = Len(list) + 1
        /\ \A i \in 0..(Len(list) + 2) :
             IdAt(new, i) =
               IF i < p THEN IdAt(list, i) ELSE IF i = p THEN e.id ELSE IdAt(list, i - 1)
    BY <1>0, InsertedIds
  <2>3. \A i \in 1..(Len(list) + 1) :
          new[i] = IF i < p THEN list[i] ELSE IF i = p THEN e ELSE list[i - 1]
    BY <1>0 DEF InsertAt
  <2>4. e.id \in Int /\ \A i \in 1..Len(list) : list[i].id \in Int
    BY DEF Distinct, EntryId
  <2>5. CASE IdAt(list, p) = b
    <3>1. p = n
      <4>1. p \in 0..(Len(list) + 1) /\ n \in 0..(Len(list) + 1)
        BY <2>2
      <4>. QED  BY <2>1, <2>5, <4>1, IdAtInjective
    <3>2. f \in 0..Len(new) /\ n + 1 \in 1..(Len(new) + 1) /\ f < n + 1 /\ f + 1 < n + 1
      BY <2>1, <2>2
    <3>3. IdAt(new, f) = a
      BY <2>1, <2>2, <3>1
    <3>4. IdAt(new, n + 1) = b
      <4>1. n + 1 \in 0..(Len(list) + 2) /\ ~ (n + 1 < n) /\ n + 1 # n /\ (n + 1) - 1 = n
        BY <2>2
      <4>. QED  BY <2>1, <2>2, <3>1, <4>1
    <3>5. ASSUME NEW x \in (f + 1)..n, NEW q \in 1..Len(new), new[q].id > new[x].id
          PROVE  x < q /\ q < n + 1
      <4>1. x # n
        <5>1. ASSUME x = n PROVE FALSE
          <6>1. new[x] = e
            BY <2>2, <2>3, <3>1, <5>1
          <6>2. CASE q < n
            <7>1. q \in 1..Len(list) /\ new[q] = list[q]
              BY <2>2, <2>3, <3>1, <6>2
            <7>. QED  BY <2>4, <3>5, <6>1, <7>1
          <6>3. CASE q = n
            BY <2>4, <3>5, <6>1, <5>1, <6>3
          <6>4. CASE q > n
            <7>1. q - 1 \in 1..Len(list) /\ new[q] = list[q - 1]
              BY <2>2, <2>3, <3>1, <6>4
            <7>. QED  BY <2>4, <3>5, <6>1, <7>1
          <6>. QED  BY <2>2, <6>2, <6>3, <6>4
        <5>. QED  BY <5>1
      <4>2. x \in (f + 1)..(n - 1) /\ new[x] = list[x]
        BY <2>2, <2>3, <3>1, <4>1
      <4>3. CASE q < n
        <5>1. q \in 1..Len(list) /\ new[q] = list[q]
          BY <2>2, <2>3, <3>1, <4>3
        <5>2. x < q /\ q < n
          BY <2>1, <3>5, <4>2, <5>1
        <5>. QED  BY <5>2, <4>3, <2>2
      <4>4. CASE q = n
        BY <4>2, <4>4
      <4>5. CASE q > n
        <5>1. q - 1 \in 1..Len(list) /\ new[q] = list[q - 1]
          BY <2>2, <2>3, <3>1, <4>5
        <5>2. q - 1 < n
          BY <2>1, <3>5, <4>2, <5>1
        <5>. QED  BY <2>2, <4>5, <5>2
      <4>. QED  BY <2>2, <4>3, <4>4, <4>5
    <3>6. (n + 1) - 1 = n
      BY <2>2
    <3>. QED  BY <1>0, <3>2, <3>3, <3>4, <3>5, <3>6 DEF Landing
  <2>6. CASE IdAt(list, p) # b
    <3>1. f + 1 = n
      BY <2>1, <2>6, NoneLanded
    <3>2. p # n
      BY <2>1, <2>6
    <3>3. ~ more
      BY <2>1, <2>6, <3>1
    <3>4. CASE p <= f
      <4>1. /\ f + 1 \in 0..(Len(list) + 2) /\ ~ (f + 1 < p) /\ f + 1 # p /\ (f + 1) - 1 = f
            /\ n + 1 \in 0..(Len(list) + 2) /\ ~ (n + 1 < p) /\ n + 1 # p /\ (n + 1) - 1 = n
        BY <2>1, <2>2, <3>4
      <4>2. IdAt(new, f + 1) = a /\ IdAt(new, n + 1) = b
        BY <2>1, <2>2, <4>1
      <4>3. /\ f + 1 \in 0..Len(new) /\ n + 1 \in 1..(Len(new) + 1) /\ f + 1 < n + 1
            /\ ((f + 1) + 1)..((n + 1) - 1) = {}
        BY <2>2, <3>1
      <4>. QED  BY <1>0, <3>3, <4>2, <4>3 DEF Landing
    <3>5. CASE p > f
      <4>1. n < p /\ f < p /\ f \in 0..(Len(list) + 2) /\ n \in 0..(Len(list) + 2)
        BY <2>2, <3>1, <3>2, <3>5
      <4>2. IdAt(new, f) = a /\ IdAt(new, n) = b
        BY <2>1, <2>2, <4>1
      <4>3. /\ f \in 0..Len(new) /\ n \in 1..(Len(new) + 1) /\ f < n
            /\ (f + 1)..(n - 1) = {}
        BY <2>2, <3>1
      <4>. QED  BY <1>0, <3>3, <4>2, <4>3 DEF Landing
    <3>. QED  BY <2>2, <3>4, <3>5
  <2>. QED  BY <2>5, <2>6
<1>. QED  BY <1>1, <1>2

\* What follows an id is one id.
LEMMA AdjacentUnique ==
  ASSUME NEW list \in Seq(Entry), Distinct(list), NEW a, NEW b, NEW c,
         Adjacent(list, a, b), Adjacent(list, a, c)
  PROVE  b = c
<1>1. Len(list) \in Nat /\ IdAt(list, Len(list) + 1) = END
  BY DEF IdAt
<1>2. \A i, j \in 0..(Len(list) + 1) : IdAt(list, i) = IdAt(list, j) => i = j
  BY IdAtInjective
<1>3. \A i \in 0..Len(list) : IdAt(list, i) # END
  <2>1. ASSUME NEW i \in 0..Len(list), IdAt(list, i) = END PROVE FALSE
    <3>1. i \in 0..(Len(list) + 1) /\ Len(list) + 1 \in 0..(Len(list) + 1)
      BY <1>1
    <3>2. i = Len(list) + 1
      BY <1>1, <1>2, <2>1, <3>1
    <3>. QED  BY <1>1, <3>2
  <2>. QED  BY <2>1
<1>4. CASE a = END
  BY <1>3, <1>4 DEF Adjacent
<1>5. CASE a # END
  <2>1. PICK i \in 0..Len(list) : IdAt(list, i) = a /\ IdAt(list, i + 1) = b
    BY <1>5 DEF Adjacent
  <2>2. PICK j \in 0..Len(list) : IdAt(list, j) = a /\ IdAt(list, j + 1) = c
    BY <1>5 DEF Adjacent
  <2>3. i = j
    <3>1. i \in 0..(Len(list) + 1) /\ j \in 0..(Len(list) + 1)
      BY <1>1
    <3>. QED  BY <1>2, <2>1, <2>2, <3>1
  <2>. QED  BY <2>1, <2>2, <2>3
<1>. QED  BY <1>4, <1>5

\* What follows the highest id is behind the newest entry.
LEMMA BeyondLatest ==
  ASSUME NEW list \in Seq(Entry), Distinct(list), NEW a, NEW b,
         Beyond(list, a), Adjacent(list, a, b)
  PROVE  Latest(list, b)
<1>1. a >= 0 /\ \A i \in 1..Len(list) : list[i].id <= a
  BY DEF Beyond
<1>2. PICK i \in 0..Len(list) : IdAt(list, i) = a /\ IdAt(list, i + 1) = b
  BY <1>1 DEF Adjacent, END
<1>3. i \in 1..Len(list) /\ list[i].id = a
  <2>1. Len(list) \in Nat
    OBVIOUS
  <2>2. i # 0
    BY <1>1, <1>2 DEF IdAt, BEGINNING
  <2>. QED  BY <1>2, <2>1, <2>2 DEF IdAt
<1>. QED  BY <1>1, <1>2, <1>3 DEF Latest

LEMMA AdjacentLanding ==
  ASSUME NEW list \in Seq(Entry), NEW a, NEW b, Adjacent(list, a, b)
  PROVE  Landing(list, a, b, FALSE)
<1>1. CASE a = END
  BY <1>1 DEF Landing
<1>2. CASE a # END
  <2>1. PICK i \in 0..Len(list) : IdAt(list, i) = a /\ IdAt(list, i + 1) = b
    BY <1>2 DEF Adjacent
  <2>2. Len(list) \in Nat /\ i + 1 \in 1..(Len(list) + 1) /\ i < i + 1
    OBVIOUS
  <2>3. (i + 1)..((i + 1) - 1) = {}
    BY <2>2
  <2>. QED  BY <2>1, <2>2, <2>3 DEF Landing
<1>. QED  BY <1>1, <1>2

\* The innermost activation goes on to its next element, the others stay.
LEMMA AdvanceFrames ==
  ASSUME NEW s \in Seq(Frame), s # << >>, NEW t, t = NextItem(s)
  PROVE  /\ Len(s) \in Nat /\ Len(s) >= 1 /\ Len(t) = Len(s)
         /\ \A j \in 1..Len(s) : j # Len(s) => t[j] = s[j]
         /\ \A j \in 1..Len(s) :
              t[j].first = s[j].first /\ t[j].next = s[j].next /\ t[j].items = s[j].items
         /\ t[Len(s)].i = s[Len(s)].i + 1
<1>1. Len(s) \in Nat /\ Len(s) >= 1
  BY EmptySeq
<1>2. PICK x \in Frame : x = s[Len(s)]
  BY <1>1, ElementOfSeq
<1>3. PICK f : f = [x EXCEPT !.i = @ + 1]
  OBVIOUS
<1>4. /\ f \in Frame /\ f.first = x.first /\ f.next = x.next /\ f.items = x.items
      /\ f.i = x.i + 1
  <2>1. x.i + 1 \in Nat \ {0}
    BY <1>2 DEF Frame
  <2>2. [x EXCEPT !.i = @ + 1] = [x EXCEPT !.i = x.i + 1]
    BY <1>2 DEF Frame
  <2>. QED  BY <1>2, <1>3, <2>1, <2>2 DEF Frame
<1>5. t = SetTop(s, f)
  BY <1>2, <1>3 DEF NextItem
<1>6. /\ Len(t) = Len(s)
      /\ \A j \in 1..Len(s) : t[j] = IF j = Len(s) THEN f ELSE s[j]
  <2>1. \A z \in Seq(Frame), g \in Frame : z # << >> =>
          /\ Len(SetTop(z, g)) = Len(z)
          /\ \A j \in 1..Len(z) : SetTop(z, g)[j] = IF j = Len(z) THEN g ELSE z[j]
    BY SetTopType
  <2>2. f \in Frame
    BY <1>4
  <2>3. /\ Len(SetTop(s, f)) = Len(s)
        /\ \A j \in 1..Len(s) : SetTop(s, f)[j] = IF j = Len(s) THEN f ELSE s[j]
    BY <2>1, <2>2, Zenon
  <2>. QED  BY <1>5, <2>3
<1>. QED  BY <1>1, <1>2, <1>4, <1>6

\* What the activations must have for the innermost one to go on.
LEMMA AdvancePlacing ==
  ASSUME NEW s \in Seq(Frame), s # << >>, NEW list, NEW t, t = NextItem(s),
         \A i, j \in 1..Len(s) : i < j => s[j].next = s[i].next \/ Latest(list, s[j].next),
         \A j \in 1..Len(s) : j < Len(s) => s[j].items[s[j].i] \in Folders,
         Landing(list, s[1].first, s[1].next, Begun(t[1]))
  PROVE  Placing(t, "item", list)
<1>1. /\ Len(s) \in Nat /\ Len(s) >= 1 /\ Len(t) = Len(s)
      /\ \A j \in 1..Len(s) : j # Len(s) => t[j] = s[j]
      /\ \A j \in 1..Len(s) :
           t[j].first = s[j].first /\ t[j].next = s[j].next /\ t[j].items = s[j].items
      /\ t[Len(s)].i = s[Len(s)].i + 1
  BY AdvanceFrames
<1>2. \A i, j \in 1..Len(t) : i < j => t[j].next = t[i].next \/ Latest(list, t[j].next)
  BY <1>1
<1>3. \A j \in 1..Len(t) : j < Len(t) => t[j].items[t[j].i] \in Folders
  BY <1>1
<1>4. t[Len(t)].i # 1
  <2>1. s[Len(s)] \in Frame
    BY <1>1, ElementOfSeq
  <2>2. s[Len(s)].i \in Nat \ {0}
    BY <2>1 DEF Frame
  <2>. QED  BY <1>1, <2>2
<1>5. Landing(list, t[1].first, t[1].next, Begun(t[1]))
  BY <1>1
<1>. QED  BY <1>2, <1>3, <1>4, <1>5 DEF Placing, Looking

LEMMA NoFramesPlacing ==
  ASSUME NEW step, step \notin Looking, step \notin Putting, NEW list, NEW s, s = << >>
  PROVE  Placing(s, step, list)
<1>1. Len(s) = 0
  OBVIOUS
<1>. QED  BY <1>1 DEF Placing

\* Steps between which neither the activations nor the list change.
LEMMA SamePlacing ==
  ASSUME NEW s, NEW list, NEW step, NEW later, Placing(s, step, list),
         later \in Looking => step \in Looking, later \in Putting => step \in Putting
  PROVE  Placing(s, later, list)
BY DEF Placing

\* Landing says no more of less.
LEMMA LandingLess ==
  ASSUME NEW list, NEW a, NEW b, NEW some \in BOOLEAN, NEW more \in BOOLEAN,
         Landing(list, a, b, some), more => some
  PROVE  Landing(list, a, b, more)
BY DEF Landing

-----------------------------------------------------------------------------
(***************************************************************************)
(* Each step of the one writer keeps PlaceInv.                             *)
(***************************************************************************)
LEMMA LocalStepPlaces ==
  ASSUME ListInv, Orderly, NEW w \in Writers, Placing(stack[w], pc[w], order),
         AddCount(w) \/ AddMax(w) \/ AddEnd(w) \/ BumpLoad(w) \/ AddRelink(w)
  PROVE  Placing(stack'[w], pc'[w], order')
<1>1. stack' = stack /\ order' = order
  BY DEF AddCount, AddMax, AddEnd, BumpLoad, AddRelink
<1>2. \/ pc[w] = "count" /\ pc'[w] \in {"next", "max"}
      \/ pc[w] = "max" /\ pc'[w] = "next"
      \/ pc[w] = "item" /\ pc'[w] \in {"bump", "insert"}
      \/ pc[w] = "bump" /\ pc'[w] = "store"
  BY OneWriterHas DEF AddCount, AddMax, AddEnd, BumpLoad, AddRelink, AtItem, Goto
<1>3. pc'[w] \in Looking => pc[w] \in Looking
  BY <1>2 DEF Looking
<1>4. pc'[w] \in Putting => pc[w] \in Putting
  BY <1>2 DEF Putting
<1>5. Placing(stack[w], pc'[w], order)
  BY <1>3, <1>4, SamePlacing
<1>. QED  BY <1>1, <1>5

LEMMA AddBeginPlaces ==
  ASSUME ListInv, Orderly, NEW w \in Writers, NEW first, NEW items, AddBegin(w, first, items)
  PROVE  Placing(stack'[w], pc'[w], order')
<1>1. stack'[w] = <<NewFrame(first, items)>> /\ pc'[w] = "count"
  BY OneWriterHas DEF AddBegin, Goto
<1>2. Len(stack'[w]) = 1 /\ stack'[w][1].i = 1
  BY <1>1 DEF NewFrame
<1>. QED  BY <1>1, <1>2 DEF Placing, Looking, Putting

\* The SELECT for what follows finds it, and it is where the caller puts its own entries or
\* behind the newest entry.
LEMMA AddNextPlaces ==
  ASSUME ListInv, Orderly, NEW w \in Writers, Placing(stack[w], pc[w], order), AddNext(w)
  PROVE  Placing(stack'[w], pc'[w], order')
<1>1. PICK s, t, n, list : s = stack[w] /\ t = stack'[w] /\ n = Len(stack[w]) /\ list = order
  OBVIOUS
<1>2. /\ order' = order /\ pc[w] = "next" /\ pc'[w] = "item" /\ pc[w] \notin Gaps
      /\ s # << >> /\ s \in Seq(Frame) /\ list \in Seq(Entry) /\ Distinct(list)
  BY <1>1, OneWriterHas DEF AddNext, Goto, Gaps, Control, Adding
<1>3. n \in Nat /\ n >= 1 /\ n = Len(s) /\ s[n] \in Frame
  BY <1>1, <1>2, EmptySeq, ElementOfSeq
<1>4. PICK id \in Int : SetNext(w, id) /\ Adjacent(list, s[n].first, id)
  <2>1. CASE Top(w).first = END /\ SetNext(w, END)
    <3>1. END \in Int /\ Adjacent(list, s[n].first, END)
      BY <1>1, <2>1 DEF END, Adjacent, Top
    <3>. QED  BY <2>1, <3>1
  <2>2. CASE \E k \in DOMAIN rows : Selects(rows, Top(w).first, k) /\ SetNext(w, rows[k].next)
    <3>1. PICK k \in DOMAIN rows : Selects(rows, Top(w).first, k) /\ SetNext(w, rows[k].next)
      BY <2>2
    <3>2. Chain(rows, order, {}, Straight(order))
      BY <1>2, OneWriterHas
    <3>3. PICK i \in 0..Len(order) : rows[k].id = IdAt(order, i)
      BY <3>2 DEF Chain
    <3>4. rows[k].next = Straight(order)[i]
      <4>1. Selects(rows, IdAt(order, i), k)
        BY <3>1, <3>3 DEF Selects
      <4>2. order \in Seq(Entry) /\ Distinct(order)
        BY OneWriterHas, Zenon
      <4>. QED  BY <3>2, <4>1, <4>2, SelectChain
    <3>5. rows[k].next = IdAt(order, i + 1) /\ IdAt(order, i) = Top(w).first
      BY <3>1, <3>3, <3>4 DEF Straight, Selects
    <3>6. Adjacent(list, s[n].first, rows[k].next)
      BY <1>1, <3>5 DEF Adjacent, Top
    <3>7. rows[k].next \in Int
      BY OneWriterHas DEF IsTable, Row
    <3>. QED  BY <3>1, <3>6, <3>7
  <2>. QED  BY <2>1, <2>2 DEF AddNext
<1>5. PICK f \in Frame : /\ t = SetTop(s, f) /\ f.first = s[n].first /\ f.next = id
                         /\ f.i = s[n].i /\ f.items = s[n].items
  <2>1. PICK x \in Frame : x = s[n]
    BY <1>3
  <2>2. t = SetTop(s, [x EXCEPT !.next = id])
    BY <1>1, <1>4, <2>1, OneWriterHas DEF SetNext, Top
  <2>3. \A g : g = [x EXCEPT !.next = id] =>
          g \in Frame /\ g.first = x.first /\ g.next = id /\ g.i = x.i /\ g.items = x.items
    BY DEF Frame
  <2>. QED  BY <2>1, <2>2, <2>3
<1>6. /\ Len(t) = n
      /\ \A j \in 1..n : t[j] = IF j = n THEN f ELSE s[j]
  <2>1. \A z \in Seq(Frame), g \in Frame : z # << >> =>
          /\ Len(SetTop(z, g)) = Len(z)
          /\ \A j \in 1..Len(z) : SetTop(z, g)[j] = IF j = Len(z) THEN g ELSE z[j]
    BY SetTopType
  <2>2. /\ Len(SetTop(s, f)) = Len(s)
        /\ \A j \in 1..Len(s) : SetTop(s, f)[j] = IF j = Len(s) THEN f ELSE s[j]
    BY <1>2, <2>1, Zenon
  <2>. QED  BY <1>3, <1>5, <2>2
<1>7. /\ \A i, j \in 1..n : i < j /\ j < n => s[j].next = s[i].next \/ Latest(list, s[j].next)
      /\ \A j \in 1..n : j < n => s[j].items[s[j].i] \in Folders
      /\ s[n].i = 1
      /\ n >= 2 => Adjacent(list, s[n].first, s[n - 1].next) \/ Beyond(list, s[n].first)
      /\ n >= 2 => Landing(list, s[1].first, s[1].next, Begun(s[1]))
  BY <1>1, <1>2, <1>3 DEF Placing, Looking
<1>8. n >= 2 => id = s[n - 1].next \/ Latest(list, id)
  <2>1. ASSUME Adjacent(list, s[n].first, s[n - 1].next) PROVE id = s[n - 1].next
    BY <1>2, <1>4, <2>1, AdjacentUnique
  <2>2. ASSUME Beyond(list, s[n].first) PROVE Latest(list, id)
    BY <1>2, <1>4, <2>2, BeyondLatest
  <2>. QED  BY <1>7, <2>1, <2>2
<1>9. ASSUME NEW i \in 1..n, NEW j \in 1..n, i < j
      PROVE  t[j].next = t[i].next \/ Latest(list, t[j].next)
  <2>1. t[i] = s[i] /\ i < n
    BY <1>3, <1>6, <1>9
  <2>2. CASE j < n
    BY <1>6, <1>7, <1>9, <2>1, <2>2
  <2>3. CASE j = n
    <3>1. t[j].next = id
      BY <1>5, <1>6, <2>3
    <3>2. n >= 2 /\ n - 1 \in 1..n /\ n - 1 < n
      BY <1>3, <2>1
    <3>3. s[n - 1].next = s[i].next \/ Latest(list, s[n - 1].next)
      <4>1. CASE i = n - 1
        BY <4>1
      <4>2. CASE i < n - 1
        BY <1>7, <3>2, <4>2
      <4>. QED  BY <1>3, <2>1, <4>1, <4>2
    <3>. QED  BY <1>8, <2>1, <3>1, <3>2, <3>3
  <2>. QED  BY <1>3, <2>2, <2>3
<1>10. \A j \in 1..n : j < n => t[j].items[t[j].i] \in Folders
  BY <1>3, <1>6, <1>7
<1>11. Adjacent(list, t[n].first, t[n].next)
  BY <1>3, <1>4, <1>5, <1>6
<1>12. Landing(list, t[1].first, t[1].next, Begun(t[1]))
  <2>1. CASE n = 1
    <3>1. t[1] = f /\ f.i = 1
      BY <1>3, <1>5, <1>6, <1>7, <2>1
    <3>2. Begun(t[1]) = FALSE
      BY <3>1 DEF Begun
    <3>3. Landing(list, t[1].first, t[1].next, FALSE)
      BY <1>2, <1>11, <2>1, AdjacentLanding
    <3>. QED  BY <3>2, <3>3
  <2>2. CASE n >= 2
    <3>1. t[1] = s[1]
      BY <1>3, <1>6, <2>2
    <3>. QED  BY <1>7, <2>2, <3>1
  <2>. QED  BY <1>3, <2>1, <2>2
<1>13. Placing(t, "item", list)
  BY <1>6, <1>9, <1>10, <1>11, <1>12 DEF Placing, Looking
<1>. QED  BY <1>1, <1>2, <1>13

LEMMA OneOrMore == ASSUME NEW n \in Nat, n >= 1 PROVE n >= 2 \/ n = 1
  OBVIOUS

\* An activation that looks at its list says this of all.
LEMMA PuttingHas ==
  ASSUME ListInv, Orderly, NEW w \in Writers, Placing(stack[w], pc[w], order),
         pc[w] \in Putting, NEW s, s = stack[w]
  PROVE  /\ s \in Seq(Frame) /\ s # << >> /\ Len(s) \in Nat /\ Len(s) >= 1
         /\ \A i, j \in 1..Len(s) : i < j => s[j].next = s[i].next \/ Latest(order, s[j].next)
         /\ \A j \in 1..Len(s) : j < Len(s) => s[j].items[s[j].i] \in Folders
         /\ s[Len(s)].i = 1 => Adjacent(order, s[Len(s)].first, s[Len(s)].next)
         /\ Landing(order, s[1].first, s[1].next, Begun(s[1]))
<1>1. s \in Seq(Frame) /\ s # << >>
  BY OneWriterHas DEF Control, Adding, Putting
<1>2. Len(s) \in Nat /\ Len(s) >= 1
  BY <1>1, EmptySeq
<1>3. Placing(s, pc[w], order)
  OBVIOUS
<1>4. \A i, j \in 1..Len(s) : i < j => s[j].next = s[i].next \/ Latest(order, s[j].next)
  BY <1>3 DEF Placing
<1>5. \A j \in 1..Len(s) : j < Len(s) => s[j].items[s[j].i] \in Folders
  BY <1>3 DEF Placing
<1>6. s[Len(s)].i = 1 => Adjacent(order, s[Len(s)].first, s[Len(s)].next)
  BY <1>3 DEF Placing
<1>7. Landing(order, s[1].first, s[1].next, Begun(s[1]))
  <2>1. Len(s) >= 2 \/ Len(s) = 1
    BY <1>2, OneOrMore, Zenon
  <2>. QED  BY <1>3, <2>1 DEF Placing
<1>. QED  BY <1>1, <1>2, <1>4, <1>5, <1>6, <1>7

\* A list that goes on past something that is no title has no more to show for it.
LEMMA PastNoTitle ==
  ASSUME NEW s \in Seq(Frame), s # << >>, NEW t, t = NextItem(s),
         s[Len(s)].items[s[Len(s)].i] \notin Titles, NEW list,
         Landing(list, s[1].first, s[1].next, Begun(s[1]))
  PROVE  Landing(list, s[1].first, s[1].next, Begun(t[1]))
<1>1. Begun(t[1]) => Begun(s[1])
  <2>1. Len(s) \in Nat /\ Len(s) >= 1 /\ s[1] \in Frame
    BY EmptySeq, ElementOfSeq
  <2>2. /\ Len(s) # 1 => t[1] = s[1]
        /\ t[1].items = s[1].items
    <3>1. /\ \A j \in 1..Len(s) : j # Len(s) => t[j] = s[j]
          /\ \A j \in 1..Len(s) : t[j].items = s[j].items
      BY AdvanceFrames
    <3>2. 1 \in 1..Len(s)
      BY <2>1
    <3>. QED  BY <3>1, <3>2
  <2>3. ASSUME Len(s) = 1, Begun(t[1]) PROVE Begun(s[1])
    <3>1. s[1].items[1] \in Titles
      BY <2>2, <2>3 DEF Begun
    <3>2. s[1].i # 1
      BY <2>3, <3>1
    <3>3. s[1].i \in Nat \ {0}
      BY <2>1 DEF Frame
    <3>. QED  BY <3>1, <3>2, <3>3 DEF Begun
  <2>. QED  BY <2>2, <2>3
<1>2. Begun(s[1]) \in BOOLEAN /\ Begun(t[1]) \in BOOLEAN
  BY DEF Begun
<1>. QED  BY <1>1, <1>2, LandingLess

LEMMA AddSkipPlaces ==
  ASSUME ListInv, Orderly, NEW w \in Writers, Placing(stack[w], pc[w], order), AddSkip(w)
  PROVE  Placing(stack'[w], pc'[w], order')
<1>1. PICK s, t : s = stack[w] /\ t = stack'[w]
  OBVIOUS
<1>2. order' = order /\ pc[w] = "item" /\ pc'[w] = "item" /\ pc[w] \in Putting /\ t = NextItem(s)
  BY <1>1, OneWriterHas DEF AddSkip, AtItem, Putting
<1>3. /\ s \in Seq(Frame) /\ s # << >> /\ Len(s) \in Nat /\ Len(s) >= 1
      /\ \A i, j \in 1..Len(s) : i < j => s[j].next = s[i].next \/ Latest(order, s[j].next)
      /\ \A j \in 1..Len(s) : j < Len(s) => s[j].items[s[j].i] \in Folders
      /\ Landing(order, s[1].first, s[1].next, Begun(s[1]))
  BY <1>1, <1>2, PuttingHas
<1>4. s[Len(s)].items[s[Len(s)].i] \notin Titles
  BY <1>1, IdRangesDisjoint DEF AddSkip, ItemNow, Top
<1>5. Landing(order, s[1].first, s[1].next, Begun(t[1]))
  BY <1>2, <1>3, <1>4, PastNoTitle
<1>6. Placing(t, "item", order)
  BY <1>2, <1>3, <1>5, AdvancePlacing
<1>. QED  BY <1>1, <1>2, <1>6

\* A folder goes where its list goes or behind the newest entry.
LEMMA AddFolderPlaces ==
  ASSUME ListInv, Orderly, NEW w \in Writers, Placing(stack[w], pc[w], order), AddFolder(w)
  PROVE  Placing(stack'[w], pc'[w], order')
<1>1. PICK s, t : s = stack[w] /\ t = stack'[w]
  OBVIOUS
<1>2. /\ order' = order /\ pc[w] = "item" /\ pc'[w] = "count" /\ pc[w] \in Putting
      /\ s[Len(s)].items[s[Len(s)].i] \in Folders
  BY <1>1, OneWriterHas DEF AddFolder, AtItem, ItemNow, Top, Goto, Putting
<1>3. /\ s \in Seq(Frame) /\ s # << >> /\ Len(s) \in Nat /\ Len(s) >= 1
      /\ \A i, j \in 1..Len(s) : i < j => s[j].next = s[i].next \/ Latest(order, s[j].next)
      /\ \A j \in 1..Len(s) : j < Len(s) => s[j].items[s[j].i] \in Folders
      /\ s[Len(s)].i = 1 => Adjacent(order, s[Len(s)].first, s[Len(s)].next)
      /\ Landing(order, s[1].first, s[1].next, Begun(s[1]))
  BY <1>1, <1>2, PuttingHas
<1>4. PICK f : /\ t = Append(s, f) /\ f.i = 1
               /\ f.first = IF s[Len(s)].i = 1 THEN s[Len(s)].first ELSE highest[w]
  <2>1. \A first, items : NewFrame(first, items).i = 1 /\ NewFrame(first, items).first = first
    BY DEF NewFrame
  <2>2. t = Append(s, NewFrame(IF s[Len(s)].i = 1 THEN s[Len(s)].first ELSE highest[w],
                               Contents[s[Len(s)].items[s[Len(s)].i]]))
    BY <1>1, OneWriterHas DEF AddFolder, ItemNow, Top
  <2>. QED  BY <2>1, <2>2
<1>5. /\ Len(t) = Len(s) + 1 /\ t[Len(s) + 1] = f
      /\ \A j \in 1..Len(s) : t[j] = s[j]
  BY <1>3, <1>4
<1>6. Beyond(order, highest[w])
  BY <1>2, OneWriterHas DEF WriterInv, HighestKnown, Beyond
<1>7. /\ t[Len(t)].i = 1
      /\ Adjacent(order, t[Len(t)].first, t[Len(t) - 1].next) \/ Beyond(order, t[Len(t)].first)
  <2>1. Len(t) - 1 = Len(s) /\ Len(s) \in 1..Len(s)
    BY <1>3, <1>5
  <2>. QED  BY <1>3, <1>4, <1>5, <1>6, <2>1
<1>8. \A i, j \in 1..Len(t) : i < j /\ j < Len(t) =>
        t[j].next = t[i].next \/ Latest(order, t[j].next)
  BY <1>3, <1>5
<1>9. \A j \in 1..Len(t) : j < Len(t) => t[j].items[t[j].i] \in Folders
  BY <1>2, <1>3, <1>5
<1>10. Landing(order, t[1].first, t[1].next, Begun(t[1]))
  BY <1>3, <1>5
<1>11. Placing(t, "count", order)
  BY <1>7, <1>8, <1>9, <1>10 DEF Placing, Putting
<1>. QED  BY <1>1, <1>2, <1>11

\* The new entry is the newest.  Whatever was put behind the newest one before still is.
LEMMA AddInsertPlaces ==
  ASSUME ListInv, Orderly, NEW w \in Writers, Placing(stack[w], pc[w], order), AddInsert(w)
  PROVE  Placing(stack'[w], pc'[w], order')
<1>1. PICK s, t, list, new : s = stack[w] /\ t = stack'[w] /\ list = order /\ new = order'
  OBVIOUS
<1>2. /\ pc[w] = "insert" /\ pc'[w] = "item" /\ pc[w] \in Putting /\ t = NextItem(s)
      /\ list \in Seq(Entry) /\ Distinct(list) /\ ItemNow(w) \in Titles
  BY <1>1, OneWriterHas DEF AddInsert, Goto, Putting, Control
<1>3. /\ s \in Seq(Frame) /\ s # << >> /\ Len(s) \in Nat /\ Len(s) >= 1
      /\ \A i, j \in 1..Len(s) : i < j => s[j].next = s[i].next \/ Latest(list, s[j].next)
      /\ \A j \in 1..Len(s) : j < Len(s) => s[j].items[s[j].i] \in Folders
      /\ Landing(list, s[1].first, s[1].next, Begun(s[1]))
  BY <1>1, <1>2, PuttingHas
<1>4. PICK p \in 1..(Len(list) + 1), e \in Entry :
        /\ e.id \in EntryId /\ \A i \in 1..Len(list) : list[i].id < e.id
        /\ IdAt(list, p) = s[Len(s)].next /\ new = InsertAt(list, p, e)
  <2>1. Opened(w) /\ highest[w] \in Int
    BY <1>2, OneWriterHas DEF WriterInv
  <2>2. /\ highest[w] \in EntryId /\ \A i \in 1..Len(list) : list[i].id < highest[w]
        /\ \E p \in 1..(Len(list) + 1) : IdAt(list, p) = s[Len(s)].next
    BY <1>1, <2>1 DEF Opened, EntryId, Top
  <2>3. PICK p \in 1..(Len(list) + 1) : IdAt(list, p) = s[Len(s)].next
    BY <2>2
  <2>4. PICK e : e = [id |-> highest[w], title |-> ItemNow(w)]
    OBVIOUS
  <2>5. e \in Entry /\ e.id = highest[w]
    BY <1>2, <2>1, <2>4 DEF Entry
  <2>6. OrderInsert(IdAt(order, p), e)
    BY <1>1, <2>3, <2>4 DEF AddInsert, Top
  <2>7. order' = InsertAt(order, p, e)
    BY <1>1, <1>2, <2>6, OrderInsertPlace
  <2>. QED  BY <1>1, <2>2, <2>3, <2>5, <2>7
<1>5. Latest(new, s[Len(s)].next)
  BY <1>2, <1>4, InsertLatest
<1>6. ASSUME NEW i \in 1..Len(s), NEW j \in 1..Len(s), i < j
      PROVE  s[j].next = s[i].next \/ Latest(new, s[j].next)
  <2>1. SUFFICES ASSUME Latest(list, s[j].next) PROVE s[j].next = s[Len(s)].next
    BY <1>3, <1>5, <1>6
  <2>2. CASE j = Len(s)
    BY <2>2
  <2>3. CASE j < Len(s)
    <3>1. s[Len(s)].next = s[j].next \/ Latest(list, s[Len(s)].next)
      BY <1>3, <2>3
    <3>. QED  BY <1>2, <2>1, <3>1, LatestUnique
  <2>. QED  BY <1>3, <2>2, <2>3
<1>7. Landing(new, s[1].first, s[1].next, Begun(t[1]))
  <2>1. Begun(s[1]) \in BOOLEAN /\ Begun(t[1]) \in BOOLEAN
    BY DEF Begun
  <2>2. IdAt(list, p) = s[1].next \/ Latest(list, IdAt(list, p))
    <3>1. CASE Len(s) = 1
      BY <1>4, <3>1
    <3>2. CASE Len(s) >= 2
      <4>1. 1 \in 1..Len(s) /\ Len(s) \in 1..Len(s) /\ 1 < Len(s)
        BY <1>3, <3>2
      <4>. QED  BY <1>3, <1>4, <4>1
    <3>3. Len(s) >= 2 \/ Len(s) = 1
      BY <1>3, OneOrMore, Zenon
    <3>. QED  BY <3>1, <3>2, <3>3
  <2>3. Begun(t[1]) => Begun(s[1]) \/ IdAt(list, p) = s[1].next
    <3>1. Len(s) # 1 => t[1] = s[1]
      <4>1. \A j \in 1..Len(s) : j # Len(s) => t[j] = s[j]
        BY <1>2, <1>3, AdvanceFrames
      <4>2. 1 \in 1..Len(s)
        BY <1>3
      <4>. QED  BY <4>1, <4>2
    <3>. QED  BY <1>4, <3>1
  <2>. QED  BY <1>2, <1>3, <1>4, <2>1, <2>2, <2>3, InsertLanding
<1>8. Placing(t, "item", new)
  BY <1>2, <1>3, <1>6, <1>7, AdvancePlacing
<1>. QED  BY <1>1, <1>2, <1>8

\* The innermost activation is dropped, and its caller goes on past the folder.
LEMMA ReturnFrames ==
  ASSUME NEW s \in Seq(Frame), Len(s) >= 2, NEW list, NEW step, Placing(s, step, list)
  PROVE  Placing(NextItem(Pop(s)), "item", list)
<1>1. PICK u : u = Pop(s)
  OBVIOUS
<1>2. PICK n \in Nat : n = Len(s)
  OBVIOUS
<1>3. s # << >> /\ n >= 2
  BY <1>2, EmptySeq
<1>4. /\ u \in Seq(Frame) /\ Len(u) = n - 1
      /\ \A j \in 1..(n - 1) : u[j] = s[j]
  BY <1>1, <1>2, <1>3, PopType
<1>5. n - 1 \in 1..(n - 1) /\ 1 \in 1..(n - 1) /\ u # << >>
  BY <1>2, <1>3, <1>4, EmptySeq
<1>6. /\ \A i, j \in 1..n : i < j /\ j < n => s[j].next = s[i].next \/ Latest(list, s[j].next)
      /\ \A j \in 1..n : j < n => s[j].items[s[j].i] \in Folders
      /\ Landing(list, s[1].first, s[1].next, Begun(s[1]))
  BY <1>2, <1>3 DEF Placing
<1>7. \A i, j \in 1..Len(u) : i < j => u[j].next = u[i].next \/ Latest(list, u[j].next)
  <2>1. SUFFICES ASSUME NEW i \in 1..(n - 1), NEW j \in 1..(n - 1), i < j
                 PROVE  s[j].next = s[i].next \/ Latest(list, s[j].next)
    BY <1>4
  <2>2. i \in 1..n /\ j \in 1..n /\ j < n
    BY <1>3
  <2>. QED  BY <1>6, <2>1, <2>2
<1>8. \A j \in 1..Len(u) : u[j].items[u[j].i] \in Folders
  <2>1. SUFFICES ASSUME NEW j \in 1..(n - 1) PROVE s[j].items[s[j].i] \in Folders
    BY <1>4
  <2>2. j \in 1..n /\ j < n
    BY <1>3
  <2>. QED  BY <1>6, <2>2
<1>9. u[1] = s[1] /\ u[Len(u)].items[u[Len(u)].i] \notin Titles
  <2>1. Len(u) \in 1..Len(u)
    BY <1>4, <1>5
  <2>. QED  BY <1>4, <1>5, <1>8, <2>1, IdRangesDisjoint
<1>10. PICK t : t = NextItem(u)
  OBVIOUS
<1>11. Landing(list, u[1].first, u[1].next, Begun(u[1]))
  BY <1>6, <1>9
<1>12. Landing(list, u[1].first, u[1].next, Begun(t[1]))
  BY <1>4, <1>5, <1>9, <1>10, <1>11, PastNoTitle
<1>13. Placing(t, "item", list)
  BY <1>4, <1>5, <1>7, <1>8, <1>10, <1>12, AdvancePlacing
<1>. QED  BY <1>1, <1>10, <1>13

LEMMA ReturnPlacing ==
  ASSUME ListInv, Orderly, NEW w \in Writers, Placing(stack[w], pc[w], order),
         Return(w), UNCHANGED order
  PROVE  Placing(stack'[w], pc'[w], order')
<1>1. PICK s : s = stack[w] /\ s \in Seq(Frame)
  BY OneWriterHas
<1>2. CASE Len(s) <= 1
  <2>1. stack'[w] = << >> /\ pc'[w] = "idle"
    BY <1>1, <1>2, OneWriterHas DEF Return, Goto
  <2>. QED  BY <2>1, NoFramesPlacing DEF Looking, Putting
<1>3. CASE ~ (Len(s) <= 1)
  <2>1. stack'[w] = NextItem(Pop(s)) /\ pc'[w] = "item" /\ Len(s) >= 2
    BY <1>1, <1>3, OneWriterHas DEF Return, Goto
  <2>2. Placing(NextItem(Pop(s)), "item", order)
    BY <1>1, <2>1, ReturnFrames
  <2>. QED  BY <2>1, <2>2
<1>. QED  BY <1>2, <1>3

\* A remove has no activations.
LEMMA RemovePlaces ==
  ASSUME ListInv, Orderly, NEW w \in Writers, UNCHANGED stack,
         pc[w] \in Removing \cup {"idle"}, pc'[w] \in Removing \cup {"idle", "bump"}
  PROVE  Placing(stack'[w], pc'[w], order')
<1>1. stack'[w] = << >>
  BY OneWriterHas DEF Control
<1>2. pc'[w] \notin Looking /\ pc'[w] \notin Putting
  BY DEF Removing, Looking, Putting
<1>. QED  BY <1>1, <1>2, NoFramesPlacing

LEMMA WriterPlaces ==
  ASSUME ListInv, Orderly, NEW w \in Writers, Placing(stack[w], pc[w], order), WriterStep(w)
  PROVE  Placing(stack'[w], pc'[w], order')
<1>1. CASE \E first \in NamedIds \cup {BEGINNING, END}, items \in Requests :
             AddBegin(w, first, items)
  BY <1>1, AddBeginPlaces
<1>2. CASE \E first \in NamedIds \cup {BEGINNING}, count \in Counts :
             RemoveBegin(w, first, count)
  <2>1. PICK first, count : RemoveBegin(w, first, count)
    BY <1>2
  <2>2. UNCHANGED stack /\ pc[w] = "idle" /\ pc'[w] \in {"rfirst", "rnext"}
    BY <2>1, OneWriterHas DEF RemoveBegin, Goto
  <2>. QED  BY <2>2, RemovePlaces DEF Removing
<1>3. CASE AddCount(w) \/ AddMax(w) \/ AddEnd(w) \/ BumpLoad(w) \/ AddRelink(w)
  BY <1>3, LocalStepPlaces
<1>4. CASE AddNext(w) \/ AddSkip(w) \/ AddFolder(w) \/ AddInsert(w)
  BY <1>4, AddNextPlaces, AddSkipPlaces, AddFolderPlaces, AddInsertPlaces
<1>5. CASE AddFails(w) \/ BumpStore(w)
  <2>1. Return(w) /\ UNCHANGED order
    BY <1>5 DEF AddFails, BumpStore
  <2>. QED  BY <2>1, ReturnPlacing
<1>6. CASE RemoveFirst(w) \/ RemoveNext(w) \/ RemoveDelete(w) \/ RemoveRelink(w) \/ RemoveFails(w)
  <2>1. /\ UNCHANGED stack /\ pc[w] \in Removing
        /\ pc'[w] \in Removing \cup {"idle", "bump"}
    BY <1>6, OneWriterHas
       DEF RemoveFirst, RemoveNext, RemoveDelete, RemoveRelink, RemoveFails, Goto, Removing
  <2>. QED  BY <2>1, RemovePlaces
<1>7. ~ Crash(w)
  BY DEF Crash, Orderly, PairsWhole
<1>. QED  BY <1>1, <1>2, <1>3, <1>4, <1>5, <1>6, <1>7 DEF WriterStep, WriterGoesOn

LEMMA NextPlaceInv == Orderly /\ ListInv /\ PlaceInv /\ [Next]_vars => PlaceInv'
<1>1. SUFFICES ASSUME Orderly, ListInv, PlaceInv, [Next]_vars PROVE PlaceInv'
  OBVIOUS
<1>2. CASE \E w \in Writers : WriterStep(w)
  <2>1. PICK w \in Writers : WriterStep(w)
    BY <1>2
  <2>2. Placing(stack'[w], pc'[w], order')
    BY <1>1, <2>1, WriterPlaces DEF PlaceInv
  <2>3. \A v \in Writers : v = w
    BY <1>1 DEF Orderly, OneWriter
  <2>. QED  BY <2>2, <2>3 DEF PlaceInv
<1>3. CASE UNCHANGED <<stack, pc, order>>
  BY <1>1, <1>3 DEF PlaceInv
<1>. QED  BY <1>1, <1>2, <1>3 DEF Next, vars, wvars

LEMMA InitPlaceInv == Init => PlaceInv
<1>1. SUFFICES ASSUME Init, NEW w \in Writers PROVE Placing(stack[w], pc[w], order)
  BY DEF PlaceInv
<1>2. stack[w] = << >> /\ pc[w] = "idle"
  BY <1>1 DEF Init
<1>. QED  BY <1>2, NoFramesPlacing DEF Looking, Putting

LEMMA PlaceInvImpliesInPlace == Orderly /\ ListInv /\ PlaceInv => AddsInPlace
<1>1. SUFFICES ASSUME Orderly, ListInv, PlaceInv,
                      NEW w \in Writers, pc[w] = "item", Len(stack[w]) = 1
               PROVE  /\ \A p \in Between(w), q \in 1..Len(order) :
                           order[q].id > order[p].id => q \in Between(w) /\ q > p
                      /\ Top(w).i > 1 /\ Top(w).items[1] \in Titles /\ Top(w).first # END
                           => Between(w) # {}
  BY DEF AddsInPlace
<1>2. PICK a, b, list, top : /\ top = stack[w][1] /\ top = Top(w) /\ a = top.first
                             /\ b = top.next /\ list = order
  BY <1>1 DEF Top
<1>3. Landing(list, a, b, Begun(top))
  BY <1>1, <1>2, OneWriterHas DEF PlaceInv, Placing, Putting
<1>4. PICK N \in Nat : N = Len(list)
  BY <1>1, <1>2, OneWriterHas
<1>5. \A i, j \in 0..(N + 1) : IdAt(list, i) = IdAt(list, j) => i = j
  BY <1>1, <1>2, <1>4, OneWriterHas, IdAtInjective
<1>6. Between(w) = {p \in 1..N : \E f \in 0..(p - 1), n \in (p + 1)..(N + 1) :
                      IdAt(list, f) = a /\ IdAt(list, n) = b}
  BY <1>2, <1>4 DEF Between
<1>7. CASE a = END
  <2>1. IdAt(list, N + 1) = END
    BY <1>4 DEF IdAt
  <2>2. Between(w) = {}
    <3>1. SUFFICES ASSUME NEW p \in 1..N, NEW f \in 0..(p - 1), IdAt(list, f) = a PROVE FALSE
      BY <1>6
    <3>2. f \in 0..(N + 1) /\ N + 1 \in 0..(N + 1) /\ f # N + 1
      BY <1>4, <3>1
    <3>. QED  BY <1>5, <1>7, <2>1, <3>1, <3>2
  <2>. QED  BY <1>2, <1>7, <2>2
<1>8. CASE a # END
  <2>1. PICK f \in 0..N, n \in 1..(N + 1) :
          /\ f < n /\ IdAt(list, f) = a /\ IdAt(list, n) = b
          /\ \A p \in (f + 1)..(n - 1), q \in 1..N :
               list[q].id > list[p].id => p < q /\ q < n
          /\ Begun(top) => f + 1 < n
    BY <1>3, <1>4, <1>8 DEF Landing
  <2>2. Between(w) = (f + 1)..(n - 1)
    <3>1. ASSUME NEW p \in Between(w) PROVE p \in (f + 1)..(n - 1)
      <4>1. PICK g \in 0..(p - 1), m \in (p + 1)..(N + 1) :
              p \in 1..N /\ IdAt(list, g) = a /\ IdAt(list, m) = b
        BY <1>6, <3>1
      <4>2. g \in 0..(N + 1) /\ m \in 0..(N + 1) /\ f \in 0..(N + 1) /\ n \in 0..(N + 1)
        BY <1>4, <2>1, <4>1
      <4>3. g = f /\ m = n
        BY <1>5, <2>1, <4>1, <4>2
      <4>. QED  BY <1>4, <4>1, <4>3
    <3>2. ASSUME NEW p \in (f + 1)..(n - 1) PROVE p \in Between(w)
      <4>1. p \in 1..N /\ f \in 0..(p - 1) /\ n \in (p + 1)..(N + 1)
        BY <1>4, <2>1, <3>2
      <4>. QED  BY <1>6, <2>1, <4>1
    <3>. QED  BY <3>1, <3>2
  <2>3. ASSUME NEW p \in Between(w), NEW q \in 1..N, list[q].id > list[p].id
        PROVE  q \in Between(w) /\ q > p
    <3>1. p \in (f + 1)..(n - 1)
      BY <2>2
    <3>2. p < q /\ q < n
      BY <2>1, <2>3, <3>1
    <3>. QED  BY <2>1, <2>2, <3>1, <3>2
  <2>4. Begun(top) => Between(w) # {}
    <3>1. f + 1 < n => f + 1 \in (f + 1)..(n - 1)
      BY <2>1
    <3>. QED  BY <2>1, <2>2, <3>1
  <2>. QED  BY <1>2, <1>4, <2>3, <2>4 DEF Begun
<1>. QED  BY <1>7, <1>8

\* Under the same assumption a list goes to the place asked for and in the order given,
\* however deep its folders are nested and whichever other statements fail: only what
\* comes before the first entry that lands there may go astray.
THEOREM ListsGoInPlace == Orderly => (Spec => []AddsInPlace)
<1>1. SUFFICES ASSUME Orderly PROVE Spec => []AddsInPlace
  OBVIOUS
<1>2. Init => ListInv /\ PlaceInv
  BY InitListInv, InitPlaceInv
<1>3. ListInv /\ PlaceInv /\ [Next]_vars => ListInv' /\ PlaceInv'
  BY <1>1, NextListInv, NextPlaceInv
<1>4. ListInv /\ PlaceInv => AddsInPlace
  BY <1>1, PlaceInvImpliesInPlace
<1>. QED  BY <1>2, <1>3, <1>4, PTL DEF Spec
-----------------------------------------------------------------------------
(***************************************************************************)
(* Walks along next_playlist_entry_id come to an end: proved at every step *)
(* of the one writer, also between the two statements of a pair.  And a    *)
(* read that no write disturbed returns the slice that was asked for.      *)
(***************************************************************************)
\* A set of numbers has a least one; one with a bound has a greatest.
LEMMA LeastNat ==
  ASSUME NEW S \in SUBSET Nat, S # {}
  PROVE  \E x \in S : \A y \in S : x <= y
<1>1. PICK x \in S : \A y \in S : ~ (<<y, x>> \in OpToRel(<, Nat))
  BY NatLessThanWellFounded, WFMin
<1>2. ASSUME NEW y \in S, y < x PROVE FALSE
  <2>1. <<y, x>> \in Nat \X Nat
    OBVIOUS
  <2>2. <<y, x>> \in OpToRel(<, Nat)
    BY <1>2, <2>1 DEF OpToRel
  <2>. QED  BY <1>1, <2>2
<1>3. \A y \in S : x <= y
  BY <1>2
<1>. QED  BY <1>3

LEMMA GreatestNat ==
  ASSUME NEW n \in Nat, NEW S \in SUBSET (0..n), S # {}
  PROVE  \E x \in S : \A y \in S : y <= x
<1>. DEFINE T == {n - x : x \in S}
<1>1. T \in SUBSET Nat /\ T # {}
  <2>1. \A x \in S : n - x \in Nat
    OBVIOUS
  <2>2. \E x \in S : n - x \in T
    OBVIOUS
  <2>. QED  BY <2>1, <2>2
<1>2. PICK z \in T : \A y \in T : z <= y
  BY <1>1, LeastNat
<1>3. PICK x \in S : z = n - x
  BY <1>2
<1>4. \A y \in S : n - x <= n - y
  BY <1>2, <1>3
<1>5. \A y \in S : y <= x
  BY <1>4
<1>. QED  BY <1>5

\* In a chain whose links lead to later places, or nowhere, no walk comes back.
LEMMA ChainForward ==
  ASSUME NEW t, NEW list \in Seq(Entry), NEW gone, NEW link, Chain(t, list, gone, link),
         \A i, j \in 0..Len(list) : link[i] = IdAt(list, j) => i < j,
         NEW S \in SUBSET DOMAIN t, S # {}
  PROVE  \E k \in S : \A l \in S : ~ Selects(t, t[k].next, l)
<1>. DEFINE n == Len(list)
            I == {i \in 0..n : \E k \in S : i \notin gone /\ t[k].id = IdAt(list, i)}
<1>1. n \in Nat
  OBVIOUS
<1>2. \A k \in S : \E i \in I : t[k].id = IdAt(list, i)
  BY DEF Chain
<1>3. I \in SUBSET (0..n) /\ I # {}
  BY <1>2
<1>4. PICK m \in I : \A i \in I : i <= m
  <2>. HIDE DEF I, n
  <2>. QED  BY <1>1, <1>3, GreatestNat
<1>5. PICK k \in S : t[k].id = IdAt(list, m) /\ m \notin gone
  OBVIOUS
<1>6. t[k].next = link[m]
  <2>1. m \in 0..n /\ k \in DOMAIN t
    OBVIOUS
  <2>2. PICK l \in DOMAIN t : t[l].id = IdAt(list, m) /\ t[l].next = link[m]
    BY <1>5, <2>1 DEF Chain
  <2>3. l = k
    <3>1. t[l].id = t[k].id
      BY <1>5, <2>2
    <3>2. \A x, y \in DOMAIN t : t[x].id = t[y].id => x = y
      BY DEF Chain
    <3>. QED  BY <2>1, <3>1, <3>2
  <2>. QED  BY <2>2, <2>3
<1>7. ASSUME NEW l \in S, Selects(t, t[k].next, l) PROVE FALSE
  <2>1. PICK j \in I : t[l].id = IdAt(list, j)
    BY <1>2
  <2>2. link[m] = IdAt(list, j)
    BY <1>6, <1>7, <2>1 DEF Selects
  <2>3. m < j
    BY <2>2
  <2>. QED  BY <1>3, <1>4, <2>3
<1>. QED  BY <1>5, <1>7

\* Each place links to the next one, which is a later one.
LEMMA StraightForward ==
  ASSUME NEW list \in Seq(Entry), Distinct(list)
  PROVE  \A i, j \in 0..Len(list) : Straight(list)[i] = IdAt(list, j) => i < j
<1>. SUFFICES ASSUME NEW i \in 0..Len(list), NEW j \in 0..Len(list),
                     Straight(list)[i] = IdAt(list, j)
              PROVE  i < j
  OBVIOUS
<1>1. IdAt(list, i + 1) = IdAt(list, j)
  BY DEF Straight
<1>2. Len(list) \in Nat /\ i + 1 \in 0..(Len(list) + 1) /\ j \in 0..(Len(list) + 1)
  OBVIOUS
<1>3. i + 1 = j
  BY <1>1, <1>2, IdAtInjective
<1>. QED  BY <1>2, <1>3

\* So does each place of a list that is being added to, but for the one that links to the
\* row to come, and that one links nowhere yet.
LEMMA OpenedForward ==
  ASSUME NEW list \in Seq(Entry), Distinct(list), NEW p \in 1..(Len(list) + 1),
         NEW h \in Int, h > 0, \A i \in 1..Len(list) : list[i].id < h
  PROVE  \A i, j \in 0..Len(list) :
           [Straight(list) EXCEPT ![p - 1] = h][i] = IdAt(list, j) => i < j
<1>. DEFINE link == [Straight(list) EXCEPT ![p - 1] = h]
<1>. SUFFICES ASSUME NEW i \in 0..Len(list), NEW j \in 0..Len(list), link[i] = IdAt(list, j)
              PROVE  i < j
  OBVIOUS
<1>1. IdAt(list, j) # h
  <2>1. \A k \in 1..Len(list) : list[k].id \in Int
    BY DEF Distinct, EntryId
  <2>. QED  BY <2>1 DEF IdAt, BEGINNING
<1>2. link[i] = IF i = p - 1 THEN h ELSE Straight(list)[i]
  BY DEF Straight
<1>. HIDE DEF link
<1>3. Straight(list)[i] = IdAt(list, j)
  BY <1>1, <1>2
<1>. QED  BY <1>3, StraightForward

\* The invariant of PlaylistListProofs says which chain the table is at each step.
LEMMA ListInvForward == Orderly /\ ListInv => LinksAllForward
<1>1. SUFFICES ASSUME Orderly, ListInv, NEW S \in SUBSET DOMAIN rows, S # {}
               PROVE  \E k \in S : ~ LinksInto(k, S)
  BY DEF LinksAllForward
<1>2. order \in Seq(Entry) /\ Distinct(order)
  BY <1>1 DEF ListInv, TypeInv, TypeOK
<1>3. PICK gone, link :
        /\ Chain(rows, order, gone, link)
        /\ \A i, j \in 0..Len(order) : link[i] = IdAt(order, j) => i < j
  <2>1. CASE \E g : Chain(rows, order, g, Straight(order))
    BY <1>2, <2>1, StraightForward
  <2>2. CASE \E w \in Writers : pc[w] = "insert"
    <3>1. PICK w \in Writers : pc[w] = "insert"
      BY <2>2
    <3>2. Opened(w) /\ highest[w] \in Int
      BY <1>1, <3>1 DEF ListInv, WriterInv, TypeInv, TypeOK
    <3>3. PICK p \in 1..(Len(order) + 1) :
            Chain(rows, order, {}, [Straight(order) EXCEPT ![p - 1] = highest[w]])
      BY <3>2 DEF Opened
    <3>4. \A i, j \in 0..Len(order) :
            [Straight(order) EXCEPT ![p - 1] = highest[w]][i] = IdAt(order, j) => i < j
      BY <1>2, <3>2, OpenedForward DEF Opened
    <3>. QED  BY <3>3, <3>4
  <2>3. CASE \E w \in Writers : pc[w] \in {"rnext", "rdelete", "rrelink"}
    <3>1. \E g : Chain(rows, order, g, Straight(order))
      BY <1>1, <2>3 DEF ListInv, WriterInv, Cutting
    <3>. QED  BY <2>1, <3>1
  <2>4. CASE \A w \in Writers : pc[w] \notin Gaps
    <3>1. \E g : Chain(rows, order, g, Straight(order))
      BY <1>1, <2>4 DEF ListInv, Closed
    <3>. QED  BY <2>1, <3>1
  <2>. QED  BY <2>2, <2>3, <2>4 DEF Gaps
<1>4. \E k \in S : \A l \in S : ~ Selects(rows, rows[k].next, l)
  <2>1. \A t, list, g, f : \A T \in SUBSET DOMAIN t :
          /\ list \in Seq(Entry) /\ Chain(t, list, g, f)
          /\ \A i, j \in 0..Len(list) : f[i] = IdAt(list, j) => i < j
          /\ T # {}
          => \E k \in T : \A l \in T : ~ Selects(t, t[k].next, l)
    BY ChainForward
  <2>. QED  BY <1>1, <1>2, <1>3, <2>1, Zenon
<1>. QED  BY <1>4 DEF LinksInto

\* With one writer at a time whose pairs of statements are whole, the links never form a
\* cycle, at any step: every loop over the table, in any process, has an end.
THEOREM WalksEnd == Orderly => (Spec => []LinksAllForward)
<1>1. SUFFICES ASSUME Orderly PROVE Spec => []LinksAllForward
  OBVIOUS
<1>2. Init => ListInv
  BY InitListInv
<1>3. ListInv /\ [Next]_vars => ListInv'
  BY <1>1, NextListInv
<1>4. ListInv => LinksAllForward
  BY <1>1, ListInvForward
<1>. QED  BY <1>2, <1>3, <1>4, PTL DEF Spec

-----------------------------------------------------------------------------
(***************************************************************************)
(* No id is given twice: proved for one writer, whatever fails and         *)
(* whenever it dies.  The invariant says what highest_entry_id is worth.   *)
(***************************************************************************)
Above(w) ==
  /\ (Len(stack[w]) >= 2 \/ pc[w] \in {"next", "item"}) =>
       \A k \in DOMAIN rows : rows[k].id <= highest[w]
  /\ pc[w] = "insert" => \A k \in DOMAIN rows : rows[k].id < highest[w]

IdInv == TypeInv /\ IdsDistinct /\ \A w \in Writers : Above(w)

\* What IdInv says of the one writer.
LEMMA WriterHasIds ==
  ASSUME IdInv, NEW w \in Writers
  PROVE  /\ pc \in [Writers -> WriterSteps] /\ stack \in [Writers -> Seq(Frame)]
         /\ highest \in [Writers -> Int] /\ highest[w] \in Int
         /\ stack[w] \in Seq(Frame) /\ Len(stack[w]) \in Nat
         /\ IsTable(rows) /\ \A k \in DOMAIN rows : rows[k].id \in Int /\ k \in Nat
         /\ Above(w) /\ Control(w) /\ IdsDistinct
BY DEF IdInv, TypeInv, TypeOK, IsTable, Row

\* The steps of an add that leave the rows alone.
LEMMA AddLocalIds ==
  ASSUME IdInv, OneWriter, NEW w \in Writers,
         \/ \E first, items : AddBegin(w, first, items)
         \/ AddCount(w) \/ AddMax(w) \/ AddNext(w) \/ AddSkip(w) \/ AddFolder(w)
         \/ AddEnd(w) \/ BumpLoad(w)
  PROVE  rows' = rows /\ Above(w)'
<1>1. CASE \E first, items : AddBegin(w, first, items)
  <2>1. rows' = rows /\ Len(stack'[w]) = 1 /\ pc'[w] = "count"
    BY <1>1, WriterHasIds DEF AddBegin, Goto
  <2>. QED  BY <2>1 DEF Above
<1>2. CASE AddCount(w)
  <2>1. rows' = rows /\ stack' = stack
    BY <1>2 DEF AddCount
  <2>2. CASE NoEntries(rows)
    <3>1. highest'[w] = 0 /\ pc'[w] = "next"
      BY <1>2, <2>2, WriterHasIds DEF AddCount, Goto
    <3>2. \A k \in DOMAIN rows : rows[k].id <= 0
      BY <2>2 DEF NoEntries, BEGINNING
    <3>. QED  BY <2>1, <3>1, <3>2 DEF Above
  <2>3. CASE ~ NoEntries(rows)
    <3>1. highest' = highest /\ pc'[w] = "max"
      BY <1>2, <2>3, WriterHasIds DEF AddCount, Goto
    <3>. QED  BY <2>1, <3>1, WriterHasIds DEF Above
  <2>. QED  BY <2>2, <2>3
<1>3. CASE AddMax(w)
  <2>1. rows' = rows /\ pc'[w] = "next" /\ \A k \in DOMAIN rows : rows[k].id <= highest'[w]
    BY <1>3, WriterHasIds DEF AddMax, IsMaxId, Goto
  <2>. QED  BY <2>1 DEF Above
<1>4. CASE AddNext(w)
  <2>1. rows' = rows /\ highest' = highest /\ pc[w] = "next" /\ pc'[w] = "item"
    BY <1>4, WriterHasIds DEF AddNext, Goto
  <2>. QED  BY <2>1, WriterHasIds DEF Above
<1>5. CASE AddSkip(w)
  <2>1. rows' = rows /\ highest' = highest /\ pc' = pc /\ pc[w] = "item"
    BY <1>5 DEF AddSkip, AtItem
  <2>. QED  BY <2>1, WriterHasIds DEF Above
<1>6. CASE AddFolder(w)
  <2>1. rows' = rows /\ highest' = highest /\ pc[w] = "item" /\ pc'[w] = "count"
    BY <1>6, WriterHasIds DEF AddFolder, AtItem, Goto
  <2>. QED  BY <2>1, WriterHasIds DEF Above
<1>7. CASE AddEnd(w) \/ BumpLoad(w)
  <2>1. rows' = rows /\ highest' = highest /\ stack' = stack /\ pc'[w] \in {"bump", "store"}
    BY <1>7, WriterHasIds DEF AddEnd, BumpLoad, Goto
  <2>. QED  BY <2>1, WriterHasIds DEF Above
<1>. QED  BY <1>1, <1>2, <1>3, <1>4, <1>5, <1>6, <1>7

\* Returning from an activation, also after a statement that failed.
LEMMA ReturnIds ==
  ASSUME IdInv, OneWriter, NEW w \in Writers, AddFails(w) \/ BumpStore(w)
  PROVE  rows' = rows /\ Above(w)'
<1>1. rows' = rows /\ Return(w)
  BY DEF AddFails, BumpStore
<1>2. highest'[w] \in Int /\ highest'[w] >= highest[w]
  BY WriterHasIds DEF AddFails, BumpStore
<1>3. CASE Len(stack[w]) <= 1
  <2>1. Len(stack'[w]) = 0 /\ pc'[w] = "idle"
    BY <1>1, <1>3, WriterHasIds DEF Return, Goto
  <2>. QED  BY <1>1, <2>1 DEF Above
<1>4. CASE Len(stack[w]) >= 2
  <2>1. pc'[w] = "item"
    BY <1>1, <1>4, WriterHasIds DEF Return, Goto
  <2>2. \A k \in DOMAIN rows : rows[k].id <= highest[w]
    BY <1>4, WriterHasIds DEF Above
  <2>3. \A k \in DOMAIN rows : rows[k].id <= highest'[w]
    BY <1>2, <2>2, WriterHasIds
  <2>. QED  BY <1>1, <2>1, <2>3 DEF Above
<1>. QED  BY <1>3, <1>4, WriterHasIds

\* The UPDATE of an add leaves the ids alone, and the INSERT brings a higher one.
LEMMA AddRowsIds ==
  ASSUME IdInv, OneWriter, NEW w \in Writers, AddRelink(w) \/ AddInsert(w)
  PROVE  IdsDistinct' /\ Above(w)'
<1>1. CASE AddRelink(w)
  <2>1. /\ pc[w] = "item" /\ pc'[w] = "insert" /\ stack[w] # << >>
        /\ highest'[w] = highest[w] + 1
        /\ rows' = Relink(rows, Top(w).next, highest[w] + 1)
    BY <1>1, WriterHasIds DEF AddRelink, AtItem, Goto, Control, Adding
  <2>2. Top(w).next \in Int
    BY <2>1, TopType DEF IdInv, TypeInv
  <2>3. DOMAIN rows' = DOMAIN rows /\ \A k \in DOMAIN rows : rows'[k].id = rows[k].id
    BY <2>1, <2>2, RelinkTable, WriterHasIds
  <2>4. \A k \in DOMAIN rows : rows[k].id <= highest[w]
    BY <2>1, WriterHasIds DEF Above
  <2>5. \A k \in DOMAIN rows' : rows'[k].id < highest'[w] /\ rows'[k].id <= highest'[w]
    <3>1. \A h, i \in Int : i <= h => i < h + 1 /\ i <= h + 1
      OBVIOUS
    <3>2. highest[w] \in Int /\ \A k \in DOMAIN rows : rows[k].id \in Int
      BY WriterHasIds
    <3>3. \A k \in DOMAIN rows : rows[k].id < highest[w] + 1 /\ rows[k].id <= highest[w] + 1
      BY <2>4, <3>1, <3>2
    <3>. QED  BY <2>1, <2>3, <3>3
  <2>6. IdsDistinct'
    BY <2>3, WriterHasIds DEF IdsDistinct
  <2>. QED  BY <2>1, <2>5, <2>6 DEF Above
<1>2. CASE AddInsert(w)
  <2>1. /\ pc[w] = "insert" /\ pc'[w] = "item" /\ highest' = highest
    BY <1>2, WriterHasIds DEF AddInsert, Goto
  <2>2. PICK top, row :
          /\ rows' = Insert(rows, top, row) /\ row.id = highest[w]
          /\ top \in DOMAIN rows /\ IsTopRow(rows, top)
    BY <1>2 DEF AddInsert
  <2>3. top + 1 \notin DOMAIN rows
    BY <2>2, WriterHasIds DEF IsTopRow
  <2>4. /\ DOMAIN rows' = DOMAIN rows \cup {top + 1}
        /\ rows'[top + 1] = row
        /\ \A k \in DOMAIN rows : rows'[k] = rows[k]
    BY <2>2, <2>3 DEF Insert
  <2>5. \A k \in DOMAIN rows : rows[k].id < highest[w]
    BY <2>1, WriterHasIds DEF Above
  <2>6. \A k \in DOMAIN rows' : rows'[k].id <= highest'[w]
    BY <2>1, <2>2, <2>4, <2>5, WriterHasIds
  <2>7. \A k \in DOMAIN rows : rows[k].id # highest[w]
    BY <2>5, WriterHasIds
  <2>8. IdsDistinct'
    BY <2>2, <2>4, <2>7, WriterHasIds DEF IdsDistinct
  <2>. QED  BY <2>1, <2>6, <2>8 DEF Above
<1>. QED  BY <1>1, <1>2

\* A remove brings no id; a writer that is not adding needs no highest one.
LEMMA RemoveIds ==
  ASSUME IdInv, OneWriter, NEW w \in Writers,
         \/ \E first, count : RemoveBegin(w, first, count)
         \/ RemoveFirst(w) \/ RemoveNext(w) \/ RemoveDelete(w) \/ RemoveRelink(w)
         \/ RemoveFails(w) \/ Crash(w)
  PROVE  IdsDistinct' /\ Above(w)'
<1>. DEFINE removes ==
         \/ \E first, count : RemoveBegin(w, first, count)
         \/ RemoveFirst(w) \/ RemoveNext(w) \/ RemoveDelete(w) \/ RemoveRelink(w)
         \/ RemoveFails(w)
<1>1. Len(stack'[w]) = 0 /\ pc'[w] \in Removing \cup {"idle", "bump"}
  <2>1. CASE Crash(w)
    BY <2>1, WriterHasIds DEF Crash, Goto
  <2>2. CASE removes
    <3>1. stack' = stack /\ pc[w] \in Removing \cup {"idle"}
      BY <2>2 DEF RemoveBegin, RemoveFirst, RemoveNext, RemoveDelete, RemoveRelink,
                  RemoveFails, Removing
    <3>2. pc'[w] \in Removing \cup {"idle", "bump"}
      BY <2>2, WriterHasIds DEF RemoveBegin, RemoveFirst, RemoveNext, RemoveDelete,
                  RemoveRelink, RemoveFails, Removing, Goto
    <3>. QED  BY <3>1, <3>2, WriterHasIds DEF Control
  <2>. QED  BY <2>1, <2>2
<1>2. Above(w)'
  BY <1>1 DEF Above, Removing
<1>3. IdsDistinct'
  <2>1. CASE rows' = rows
    BY <2>1, WriterHasIds DEF IdsDistinct
  <2>2. CASE RemoveDelete(w)
    <3>1. \A k \in DOMAIN rows' : k \in DOMAIN rows /\ rows'[k] = rows[k]
      BY <2>2 DEF RemoveDelete, Delete
    <3>. QED  BY <3>1, WriterHasIds DEF IdsDistinct
  <2>3. CASE RemoveRelink(w)
    <3>1. rm[w].first \in Int /\ rm[w].this \in Int
      BY DEF IdInv, TypeInv, TypeOK, Remove
    <3>2. DOMAIN rows' = DOMAIN rows /\ \A k \in DOMAIN rows : rows'[k].id = rows[k].id
      BY <2>3, <3>1, RelinkTable, WriterHasIds DEF RemoveRelink
    <3>. QED  BY <3>2, WriterHasIds DEF IdsDistinct
  <2>. QED  BY <2>1, <2>2, <2>3 DEF RemoveBegin, RemoveFirst, RemoveNext, RemoveFails, Crash
<1>. QED  BY <1>2, <1>3

LEMMA NextIdInv == OneWriter /\ IdInv /\ [Next]_vars => IdInv'
<1>1. SUFFICES ASSUME OneWriter, IdInv, [Next]_vars PROVE IdInv'
  OBVIOUS
<1>2. TypeInv'
  BY <1>1, NextTypeInv DEF IdInv
<1>3. CASE \E w \in Writers : WriterStep(w) /\ Disturb
  <2>1. PICK w \in Writers : WriterStep(w)
    BY <1>3
  <2>2. CASE \/ \E first, items : AddBegin(w, first, items)
             \/ AddCount(w) \/ AddMax(w) \/ AddNext(w) \/ AddSkip(w) \/ AddFolder(w)
             \/ AddEnd(w) \/ BumpLoad(w) \/ AddFails(w) \/ BumpStore(w)
    <3>1. rows' = rows /\ Above(w)'
      BY <1>1, <2>2, AddLocalIds, ReturnIds
    <3>2. IdsDistinct'
      BY <1>1, <3>1 DEF IdInv, IdsDistinct
    <3>. QED  BY <1>1, <1>2, <3>1, <3>2 DEF IdInv, OneWriter
  <2>3. CASE AddRelink(w) \/ AddInsert(w)
    BY <1>1, <1>2, <2>3, AddRowsIds DEF IdInv, OneWriter
  <2>4. CASE \/ \E first, count : RemoveBegin(w, first, count)
             \/ RemoveFirst(w) \/ RemoveNext(w) \/ RemoveDelete(w) \/ RemoveRelink(w)
             \/ RemoveFails(w) \/ Crash(w)
    BY <1>1, <1>2, <2>4, RemoveIds DEF IdInv, OneWriter
  <2>. QED  BY <2>1, <2>2, <2>3, <2>4 DEF WriterStep, WriterGoesOn
<1>4. CASE UNCHANGED <<rows, counter, wvars, order>>
  BY <1>1, <1>2, <1>4 DEF IdInv, IdsDistinct, Above, wvars
<1>5. UNCHANGED vars => UNCHANGED <<rows, counter, wvars, order>>
  BY DEF vars
<1>. QED  BY <1>1, <1>3, <1>4, <1>5 DEF Next

\* With one writer at a time no id is ever given to two rows, though nothing in the
\* table forbids it: whichever statements fail and wherever the process dies.
THEOREM IdsStayDistinct == OneWriter => (Spec => []IdsDistinct)
<1>1. SUFFICES ASSUME OneWriter PROVE Spec => []IdsDistinct
  OBVIOUS
<1>2. Init => IdInv
  <2>1. SUFFICES ASSUME Init PROVE IdInv
    OBVIOUS
  <2>2. DOMAIN rows = {1}
    BY <2>1 DEF Init, InitialTable
  <2>3. IdsDistinct
    BY <2>2 DEF IdsDistinct
  <2>4. \A w \in Writers : Above(w)
    BY <2>1 DEF Init, Above
  <2>. QED  BY <2>1, <2>3, <2>4, InitTypeInv DEF IdInv
<1>3. IdInv /\ [Next]_vars => IdInv'
  BY <1>1, NextIdInv
<1>4. IdInv => IdsDistinct
  BY DEF IdInv
<1>. QED  BY <1>2, <1>3, <1>4, PTL DEF Spec

-----------------------------------------------------------------------------
(***************************************************************************)
(* A read that no write disturbs sees one table from its first statement   *)
(* to its last.  What it has got is a run of the playlist, and it comes to *)
(* a row that is not there only where a pair of statements is open.        *)
(***************************************************************************)
Unbroken(t, list) == Chain(t, list, {}, Straight(list))

\* The place of the list a read starts at, if it is one.
StartsAt(read, list, s) == IF read.from = BEGINNING THEN s = 1 ELSE read.from = IdAt(list, s)
Nowhere(read, list) == read.from # BEGINNING /\ read.from \notin Places(list)

GotFrom(read, list, s) ==
  /\ s + Len(read.got) <= Len(list) + 1
  /\ \A i \in 1..Len(read.got) : read.got[i] = list[s + i - 1]

\* A link out of a table that has a pair of statements open.
Dangling(t, list, id) == id # END /\ ~ HasRow(t, id) /\ ~ Unbroken(t, list)

\* As many as were asked for, or as there are.
Enough(read, list, s) ==
  Len(read.got) = IF read.count = ALL \/ read.count > Len(list) + 1 - s
                  THEN Len(list) + 1 - s ELSE read.count

Reading(read, t, list) ==
  /\ read.pc = "first" =>
       read.from = BEGINNING /\ read.this = BEGINNING /\ read.got = << >> /\ read.count # 0
  /\ read.pc = "row" =>
       /\ read.count # 0
       /\ read.count # ALL => Len(read.got) <= read.count
       /\ \/ Nowhere(read, list) /\ read.got = << >> /\ read.this = read.from
          \/ \E s \in 1..(Len(list) + 1) :
               /\ StartsAt(read, list, s) /\ GotFrom(read, list, s)
               /\ \/ read.this = IdAt(list, s + Len(read.got))
                  \/ Dangling(t, list, read.this)
  /\ read.pc = "ok" =>
       \/ read.count = 0 /\ read.got = << >>
       \/ \E s \in 1..(Len(list) + 1) :
            StartsAt(read, list, s) /\ GotFrom(read, list, s) /\ Enough(read, list, s)
  /\ read.pc = "failed" =>
       /\ read.count # 0
       /\ read.count # ALL => Len(read.got) <= read.count
       /\ \/ Nowhere(read, list) /\ read.got = << >>
          \/ \E s \in 1..(Len(list) + 1) : StartsAt(read, list, s) /\ GotFrom(read, list, s)
       /\ read.erred \/ Nowhere(read, list) \/ ~ Unbroken(t, list)

ReadInv == \A r \in Readers : rd[r].quiet => Reading(rd[r], rows, order)

\* What a row links to, at every step: the next place, or a row still to come.
LEMMA TableShape ==
  ASSUME Orderly, ListInv
  PROVE  \E gone, link :
           /\ Chain(rows, order, gone, link) /\ 0 \notin gone
           /\ \A i \in 0..Len(order) :
                link[i] = IdAt(order, i + 1) \/ Dangling(rows, order, link[i])
<1>1. order \in Seq(Entry) /\ Distinct(order) /\ Len(order) \in Nat
  BY DEF ListInv, TypeInv, TypeOK
<1>2. CASE \E w \in Writers : pc[w] = "insert"
  <2>1. PICK w \in Writers : pc[w] = "insert"
    BY <1>2
  <2>2. Opened(w) /\ highest[w] \in Int
    BY <2>1 DEF ListInv, WriterInv, TypeInv, TypeOK
  <2>3. PICK h \in Int : h = highest[w] /\ h > 0 /\ \A i \in 1..Len(order) : order[i].id < h
    BY <2>2 DEF Opened
  <2>4. PICK p \in 1..(Len(order) + 1) :
          Chain(rows, order, {}, [Straight(order) EXCEPT ![p - 1] = h])
    BY <2>2, <2>3 DEF Opened
  <2>5. PICK link : link = [Straight(order) EXCEPT ![p - 1] = h]
    OBVIOUS
  <2>6. /\ p - 1 \in 0..Len(order) /\ link[p - 1] = h
        /\ \A i \in 0..Len(order) : i # p - 1 => link[i] = IdAt(order, i + 1)
    BY <1>1, <2>5 DEF Straight
  <2>7. \A i \in 0..(Len(order) + 1) : IdAt(order, i) # h
    <3>1. \A i \in 1..Len(order) : order[i].id \in Int
      BY <1>1 DEF Distinct, EntryId
    <3>. QED  BY <1>1, <2>3, <3>1 DEF IdAt, BEGINNING, END
  <2>8. ~ HasRow(rows, h) /\ h # END
    <3>1. h # END
      BY <2>3 DEF END
    <3>2. \A i \in 0..Len(order) : IdAt(order, i) # h
      BY <1>1, <2>7
    <3>. QED  BY <2>4, <3>1, <3>2, NoRowChain
  <2>9. ~ Unbroken(rows, order)
    <3>1. ASSUME Unbroken(rows, order) PROVE FALSE
      <4>1. PICK k \in DOMAIN rows : rows[k].id = IdAt(order, p - 1) /\ rows[k].next = Straight(order)[p - 1]
        BY <2>6, <3>1 DEF Unbroken, Chain
      <4>2. PICK l \in DOMAIN rows : rows[l].id = IdAt(order, p - 1) /\ rows[l].next = h
        <5>1. Chain(rows, order, {}, link)
          BY <2>4, <2>5
        <5>2. p - 1 \notin {}
          OBVIOUS
        <5>3. \E l \in DOMAIN rows : rows[l].id = IdAt(order, p - 1) /\ rows[l].next = link[p - 1]
          BY <2>6, <5>1, <5>2 DEF Chain
        <5>. QED  BY <2>6, <5>3
      <4>3. k = l
        BY <4>1, <4>2, <3>1 DEF Unbroken, Chain
      <4>4. IdAt(order, p) = h
        BY <1>1, <2>6, <4>1, <4>2, <4>3 DEF Straight
      <4>. QED  BY <1>1, <2>7, <4>4
    <3>. QED  BY <3>1
  <2>. QED  BY <2>4, <2>5, <2>6, <2>8, <2>9 DEF Dangling
<1>3. CASE ~ (\E w \in Writers : pc[w] = "insert")
  <2>1. PICK gone : Chain(rows, order, gone, Straight(order)) /\ 0 \notin gone
    <3>1. CASE \E w \in Writers : pc[w] \in {"rnext", "rdelete", "rrelink"}
      <4>1. PICK w \in Writers : Cutting(w)
        BY <3>1 DEF ListInv, WriterInv
      <4>. QED  BY <1>1, <4>1 DEF Cutting
    <3>2. CASE ~ (\E w \in Writers : pc[w] \in {"rnext", "rdelete", "rrelink"})
      BY <1>3, <3>2 DEF ListInv, Closed, Gaps
    <3>. QED  BY <3>1, <3>2
  <2>2. \A i \in 0..Len(order) : Straight(order)[i] = IdAt(order, i + 1)
    BY DEF Straight
  <2>. QED  BY <2>1, <2>2
<1>. QED  BY <1>2, <1>3

\* The playlist only changes with the table.
LEMMA OrderWithRows ==
  ASSUME Orderly, ListInv, NEW w \in Writers, WriterStep(w), rows' = rows
  PROVE  order' = order
<1>0. order \in Seq(Entry) /\ Len(order) \in Nat /\ Distinct(order) /\ IsTable(rows)
  BY OneWriterHas
<1>1. CASE AddInsert(w)
  <2>1. PICK top \in DOMAIN rows : IsTopRow(rows, top) /\ \E row : rows' = Insert(rows, top, row)
    BY <1>1 DEF AddInsert
  <2>2. top \in Nat /\ DOMAIN rows' = DOMAIN rows \cup {top + 1}
    BY <1>0, <2>1 DEF Insert, IsTable
  <2>3. top + 1 \in DOMAIN rows
    BY <2>2
  <2>4. top + 1 <= top
    BY <2>1, <2>3 DEF IsTopRow
  <2>. QED  BY <2>2, <2>4
<1>2. CASE RemoveRelink(w)
  <2>1. /\ rows' = Relink(rows, rm[w].first, rm[w].this)
        /\ OrderCut(rm[w].first, rm[w].this) /\ Cutting(w)
    BY <1>2, OneWriterHas DEF RemoveRelink, WriterInv
  <2>2. \A a, b \in 1..(Len(order) + 1) : IdAt(order, a) = IdAt(order, b) => a = b
    <3>1. \A a \in 1..(Len(order) + 1) : a \in 0..(Len(order) + 1)
      BY <1>0
    <3>. QED  BY <1>0, <3>1, IdAtInjective
  <2>3. CASE rm[w].first = rm[w].this
    <3>1. CASE \E a \in 1..(Len(order) + 1), m \in 1..(Len(order) + 1) :
                 /\ IdAt(order, a) = rm[w].first /\ IdAt(order, m) = rm[w].this
                 /\ order' = CutSlice(order, a, m)
      <4>1. PICK a \in 1..(Len(order) + 1) : order' = CutSlice(order, a, a)
        BY <2>2, <2>3, <3>1
      <4>2. CutSlice(order, a, a) = order
        BY <1>0 DEF CutSlice
      <4>. QED  BY <4>1, <4>2
    <3>. QED  BY <2>1, <3>1 DEF OrderCut
  <2>4. CASE rm[w].first # rm[w].this
    <3>1. PICK a \in 1..(Len(order) + 1), m \in 1..(Len(order) + 1) :
            /\ a <= m /\ rm[w].first = IdAt(order, a) /\ rm[w].this = IdAt(order, m)
            /\ Chain(rows, order, a..(m - 1), Straight(order))
      BY <2>1, <2>4 DEF Cutting
    <3>2. a - 1 \in 0..Len(order) /\ a - 1 \notin a..(m - 1)
      BY <1>0
    <3>3. PICK k \in DOMAIN rows : rows[k].next = Straight(order)[a - 1]
      BY <3>1, <3>2 DEF Chain
    <3>4. rows[k].next = IdAt(order, a)
      BY <3>2, <3>3 DEF Straight
    <3>5. rows'[k].next = rm[w].this
      <4>1. PICK old \in Int, new \in Int : old = rm[w].first /\ new = rm[w].this
        BY OneWriterHas DEF Remove
      <4>2. Relink(rows, old, new)[k].next = IF rows[k].next = old THEN new ELSE rows[k].next
        BY <1>0, <4>1, RelinkTable
      <4>. QED  BY <2>1, <3>1, <3>4, <4>1, <4>2
    <3>. QED  BY <2>4, <3>1, <3>4, <3>5
  <2>. QED  BY <2>3, <2>4
<1>3. CASE ~ AddInsert(w) /\ ~ RemoveRelink(w)
  BY <1>3 DEF WriterStep, WriterGoesOn, AddBegin, AddCount, AddMax, AddNext, AddSkip, AddFolder,
     AddRelink, AddEnd, AddFails, BumpLoad, BumpStore, RemoveBegin, RemoveFirst, RemoveNext,
     RemoveDelete, RemoveFails, Crash
<1>. QED  BY <1>1, <1>2, <1>3

LEMMA ReadFacts ==
  ASSUME Orderly, ListInv
  PROVE  /\ order \in Seq(Entry) /\ Distinct(order) /\ Len(order) \in Nat
         /\ rd \in [Readers -> Read]
         /\ IdAt(order, 0) = BEGINNING /\ IdAt(order, Len(order) + 1) = END
         /\ \A i \in 1..Len(order) : IdAt(order, i) = order[i].id /\ order[i].id > 0
BY DEF ListInv, TypeInv, TypeOK, Distinct, EntryId, IdAt

\* The row of a place answers with the entry there, and with the next place unless a pair
\* is open after it.
LEMMA PlaceAnswers ==
  ASSUME Orderly, ListInv, NEW i \in 0..Len(order), NEW k, Selects(rows, IdAt(order, i), k)
  PROVE  /\ rows[k].next = IdAt(order, i + 1) \/ Dangling(rows, order, rows[k].next)
         /\ i > 0 => [id |-> rows[k].id, title |-> rows[k].title] = order[i]
<1>1. PICK gone, link :
        /\ Chain(rows, order, gone, link)
        /\ \A j \in 0..Len(order) : link[j] = IdAt(order, j + 1) \/ Dangling(rows, order, link[j])
  BY TableShape
<1>2. i \notin gone
  <2>1. k \in DOMAIN rows /\ rows[k].id = IdAt(order, i)
    BY DEF Selects
  <2>2. PICK j \in 0..Len(order) : j \notin gone /\ rows[k].id = IdAt(order, j)
    BY <1>1, <2>1 DEF Chain
  <2>3. i = j
    <3>1. i \in 0..(Len(order) + 1) /\ j \in 0..(Len(order) + 1)
      BY ReadFacts
    <3>. QED  BY <2>1, <2>2, <3>1, ReadFacts, IdAtInjective
  <2>. QED  BY <2>2, <2>3
<1>3. rows[k].next = link[i] /\ (i > 0 => rows[k].title = order[i].title)
  BY <1>1, <1>2, ReadFacts, SelectChain
<1>4. i > 0 => [id |-> rows[k].id, title |-> rows[k].title] = order[i]
  <2>1. ASSUME i > 0 PROVE order[i] \in Entry /\ rows[k].id = order[i].id
    BY <2>1, ReadFacts DEF Selects
  <2>. QED  BY <1>3, <2>1 DEF Entry
<1>. QED  BY <1>1, <1>3, <1>4

LEMMA RowMissing ==
  ASSUME NEW i \in 0..Len(order), ~ HasRow(rows, IdAt(order, i))
  PROVE  ~ Unbroken(rows, order)
BY DEF Unbroken, Chain, HasRow

LEMMA NoRowNowhere ==
  ASSUME Orderly, ListInv, NEW read, Nowhere(read, order)
  PROVE  ~ HasRow(rows, read.from)
<1>1. PICK gone, link : Chain(rows, order, gone, link)
  BY TableShape
<1>2. \A i \in 0..Len(order) : IdAt(order, i) # read.from
  <2>1. \A i \in 0..Len(order) : i = 0 \/ i \in 1..(Len(order) + 1)
    BY ReadFacts
  <2>. QED  BY <2>1, ReadFacts DEF Nowhere, Places
<1>. QED  BY <1>1, <1>2, NoRowChain

LEMMA ReadBegins ==
  ASSUME Orderly, ListInv, NEW r \in Readers,
         NEW first \in NamedIds \cup {BEGINNING, END}, NEW count \in Counts,
         GetBegin(r, first, count)
  PROVE  Reading(rd'[r], rows, order)
<1>1. PICK new : new = rd'[r]
  OBVIOUS
<1>2. /\ new.pc = IF first \in {END, EMPTY} \/ count = 0 THEN "ok"
                  ELSE IF first = BEGINNING THEN "first" ELSE "row"
      /\ new.from = first /\ new.count = count /\ new.this = first /\ new.got = << >>
  BY <1>1, ReadFacts DEF GetBegin
<1>3. (count \in Nat \/ count = ALL) /\ Len(new.got) = 0
  BY <1>2, ConstantsOK
<1>4. CASE first = END
  <2>1. new.pc = "ok"
    BY <1>2, <1>4
  <2>2. Len(order) + 1 \in 1..(Len(order) + 1)
    BY ReadFacts
  <2>3. StartsAt(new, order, Len(order) + 1)
    BY <1>2, <1>4, ReadFacts DEF StartsAt, BEGINNING, END
  <2>4. GotFrom(new, order, Len(order) + 1)
    BY <1>2, <1>3, ReadFacts DEF GotFrom
  <2>5. Enough(new, order, Len(order) + 1)
    BY <1>2, <1>3, ReadFacts DEF Enough, ALL
  <2>. QED  BY <1>1, <2>1, <2>2, <2>3, <2>4, <2>5 DEF Reading
<1>5. CASE first # END /\ count = 0
  <2>1. new.pc = "ok"
    BY <1>2, <1>5
  <2>. QED  BY <1>1, <1>2, <1>5, <2>1 DEF Reading
<1>6. CASE first = BEGINNING /\ count # 0
  <2>1. new.pc = "first"
    BY <1>2, <1>6 DEF BEGINNING, END, EMPTY
  <2>. QED  BY <1>1, <1>2, <1>6, <2>1 DEF Reading
<1>7. CASE first # BEGINNING /\ first # END /\ count # 0
  <2>1. new.pc = "row"
    <3>1. first # EMPTY
      BY <1>7 DEF NamedIds, EMPTY
    <3>. QED  BY <1>2, <1>7, <3>1
  <2>2. ASSUME ~ Nowhere(new, order)
        PROVE  \E s \in 1..(Len(order) + 1) :
                 /\ StartsAt(new, order, s) /\ GotFrom(new, order, s)
                 /\ new.this = IdAt(order, s + Len(new.got))
    <3>1. PICK s \in 1..(Len(order) + 1) : IdAt(order, s) = first
      BY <1>2, <1>7, <2>2 DEF Nowhere, Places
    <3>2. StartsAt(new, order, s)
      BY <1>2, <1>7, <3>1 DEF StartsAt
    <3>3. GotFrom(new, order, s)
      BY <1>3, ReadFacts DEF GotFrom
    <3>4. s + Len(new.got) = s
      BY <1>3, ReadFacts
    <3>. QED  BY <1>2, <3>1, <3>2, <3>3, <3>4
  <2>. QED  BY <1>1, <1>2, <1>3, <1>7, <2>1, <2>2 DEF Reading
<1>. QED  BY <1>4, <1>5, <1>6, <1>7

LEMMA ReadFirst ==
  ASSUME Orderly, ListInv, NEW r \in Readers, Reading(rd[r], rows, order), GetFirst(r)
  PROVE  Reading(rd'[r], rows, order)
<1>1. PICK k \in DOMAIN rows :
        /\ Selects(rows, BEGINNING, k)
        /\ rd' = [rd EXCEPT ![r].pc = "row", ![r].this = rows[k].next]
  BY DEF GetFirst
<1>2. PICK read, new : read = rd[r] /\ new = rd'[r]
  OBVIOUS
<1>3. /\ read.pc = "first" /\ read \in Read
      /\ new = [read EXCEPT !.pc = "row", !.this = rows[k].next]
  BY <1>1, <1>2, ReadFacts DEF GetFirst
<1>4. /\ new.pc = "row" /\ new.from = BEGINNING /\ new.got = << >> /\ new.count # 0
      /\ new.this = rows[k].next /\ (new.count \in Nat \/ new.count = ALL)
  BY <1>2, <1>3 DEF Reading, Read
<1>5. new.this = IdAt(order, 1) \/ Dangling(rows, order, new.this)
  <2>1. 0 \in 0..Len(order) /\ 0 + 1 = 1 /\ Selects(rows, IdAt(order, 0), k)
    BY <1>1, ReadFacts
  <2>. QED  BY <1>4, <2>1, PlaceAnswers
<1>6. Len(new.got) = 0 /\ 1 + Len(new.got) = 1 /\ 1 \in 1..(Len(order) + 1)
  BY <1>4, ReadFacts
<1>7. StartsAt(new, order, 1) /\ GotFrom(new, order, 1)
  BY <1>4, <1>6, ReadFacts DEF StartsAt, GotFrom
<1>. QED  BY <1>2, <1>4, <1>5, <1>6, <1>7 DEF Reading

\* A SELECT that finds nothing, since a pair is open or the start is no place, or that fails.
LEMMA ReadFails ==
  ASSUME Orderly, ListInv, NEW r \in Readers, Reading(rd[r], rows, order),
         GetFails(r) \/ GetErrs(r)
  PROVE  Reading(rd'[r], rows, order)
<1>1. PICK read, new : read = rd[r] /\ new = rd'[r]
  OBVIOUS
<1>2. /\ read \in Read /\ read.got \in Seq(Entry) /\ Len(read.got) \in Nat
      /\ read.pc \in {"first", "row"} /\ (read.count \in Nat \/ read.count = ALL)
  BY <1>1, ReadFacts DEF GetFails, GetErrs, GetSelects, Read
<1>3. /\ new.pc = "failed" /\ new.from = read.from /\ new.count = read.count
      /\ new.got = read.got /\ (new.erred \/ ~ HasRow(rows, read.this))
  <2>1. CASE GetFails(r)
    <3>1. new = [read EXCEPT !.pc = "failed"]
      BY <1>1, <2>1, ReadFacts DEF GetFails
    <3>. QED  BY <1>1, <1>2, <2>1, <3>1 DEF GetFails, Read
  <2>2. CASE GetErrs(r)
    <3>1. new = [read EXCEPT !.pc = "failed", !.erred = TRUE]
      BY <1>1, <2>2, ReadFacts DEF GetErrs
    <3>. QED  BY <1>2, <3>1 DEF Read
  <2>. QED  BY <2>1, <2>2
<1>4. CASE read.pc = "first"
  <2>1. read.from = BEGINNING /\ read.got = << >> /\ read.count # 0 /\ Len(read.got) = 0
    BY <1>1, <1>4 DEF Reading
  <2>2. StartsAt(new, order, 1) /\ GotFrom(new, order, 1) /\ 1 \in 1..(Len(order) + 1)
    BY <1>3, <2>1, ReadFacts DEF StartsAt, GotFrom
  <2>3. new.erred \/ ~ Unbroken(rows, order)
    <3>1. HasRow(rows, read.this) \/ ~ Unbroken(rows, order)
      <4>1. read.this = BEGINNING
        BY <1>1, <1>4 DEF Reading
      <4>2. 0 \in 0..Len(order)
        BY ReadFacts
      <4>. QED  BY <4>1, <4>2, ReadFacts, RowMissing
    <3>. QED  BY <1>3, <3>1
  <2>4. new.count # ALL => Len(new.got) <= new.count
    BY <1>2, <1>3, <2>1, ConstantsOK DEF ALL
  <2>. QED  BY <1>1, <1>3, <2>1, <2>2, <2>3, <2>4 DEF Reading
<1>5. CASE read.pc = "row"
  <2>1. /\ read.count # 0 /\ (read.count # ALL => Len(read.got) <= read.count)
        /\ \/ Nowhere(read, order) /\ read.got = << >>
           \/ \E s \in 1..(Len(order) + 1) : StartsAt(read, order, s) /\ GotFrom(read, order, s)
    BY <1>1, <1>5 DEF Reading
  <2>2. HasRow(rows, read.this) \/ Nowhere(read, order) \/ ~ Unbroken(rows, order)
    <3>1. ASSUME ~ HasRow(rows, read.this), NEW s \in 1..(Len(order) + 1),
                 GotFrom(read, order, s), read.this = IdAt(order, s + Len(read.got))
          PROVE  ~ Unbroken(rows, order)
      <4>1. read.this # END
        BY <1>1, <1>5, <3>1 DEF GetFails, GetErrs, GetSelects, GetMore
      <4>2. s + Len(read.got) \in 0..Len(order)
        <5>1. s + Len(read.got) # Len(order) + 1
          BY <3>1, <4>1, ReadFacts
        <5>2. s + Len(read.got) <= Len(order) + 1
          BY <3>1 DEF GotFrom
        <5>3. s \in Nat /\ Len(order) \in Nat
          BY ReadFacts
        <5>. QED  BY <1>2, <5>1, <5>2, <5>3
      <4>. QED  BY <3>1, <4>2, RowMissing
    <3>. QED  BY <1>1, <1>5, <3>1 DEF Reading, Dangling
  <2>3. Nowhere(read, order) => Nowhere(new, order)
    BY <1>3 DEF Nowhere
  <2>4. \A s : StartsAt(read, order, s) /\ GotFrom(read, order, s) =>
               StartsAt(new, order, s) /\ GotFrom(new, order, s)
    BY <1>3 DEF StartsAt, GotFrom
  <2>. QED  BY <1>1, <1>3, <2>1, <2>2, <2>3, <2>4 DEF Reading
<1>. QED  BY <1>2, <1>4, <1>5

\* The next entry.
LEMMA ReadRow ==
  ASSUME Orderly, ListInv, NEW r \in Readers, Reading(rd[r], rows, order), GetRow(r)
  PROVE  Reading(rd'[r], rows, order)
<1>1. PICK read, new : read = rd[r] /\ new = rd'[r]
  OBVIOUS
<1>2. /\ read.pc = "row" /\ read \in Read /\ read.this # END
      /\ read.count = ALL \/ Len(read.got) < read.count
      /\ read.got \in Seq(Entry) /\ Len(read.got) \in Nat
      /\ read.count \in Nat \/ read.count = ALL
  BY <1>1, ReadFacts DEF GetRow, GetMore, Read
<1>4. HasRow(rows, read.this)
  BY <1>1 DEF GetRow, Selects, HasRow
<1>5. Reading(rd'[r], rows, order)
  <2>1. PICK k \in DOMAIN rows :
          /\ Selects(rows, read.this, k)
          /\ rd' = [rd EXCEPT ![r].this = rows[k].next,
               ![r].got = Kept(r, [id |-> rows[k].id, title |-> rows[k].title])]
    BY <1>1, <1>4 DEF GetRow
  <2>2. new = [read EXCEPT !.this = rows[k].next,
                 !.got = Kept(r, [id |-> rows[k].id, title |-> rows[k].title])]
    BY <1>1, <2>1, ReadFacts
  <2>3. PICK s \in 1..(Len(order) + 1) :
          /\ StartsAt(read, order, s) /\ GotFrom(read, order, s)
          /\ read.this = IdAt(order, s + Len(read.got))
    <3>1. ~ Nowhere(read, order) \/ read.this # read.from
      BY <1>4, NoRowNowhere
    <3>. QED  BY <1>1, <1>2, <1>4, <3>1 DEF Reading, Dangling
  <2>4. PICK i \in 1..Len(order) : i = s + Len(read.got)
    <3>1. s + Len(read.got) <= Len(order) + 1
      BY <2>3 DEF GotFrom
    <3>2. s + Len(read.got) # Len(order) + 1
      BY <1>2, <2>3, ReadFacts
    <3>3. s \in Nat /\ s >= 1 /\ Len(order) \in Nat
      BY ReadFacts
    <3>4. s + Len(read.got) \in 1..Len(order)
      BY <1>2, <3>1, <3>2, <3>3
    <3>. QED  BY <3>4
  <2>5. /\ rows[k].next = IdAt(order, i + 1) \/ Dangling(rows, order, rows[k].next)
        /\ [id |-> rows[k].id, title |-> rows[k].title] = order[i]
    <3>1. i \in 0..Len(order) /\ i > 0 /\ Selects(rows, IdAt(order, i), k)
      BY <2>1, <2>3, <2>4, ReadFacts, <1>1
    <3>. QED  BY <3>1, PlaceAnswers
  <2>6. /\ new.pc = "row" /\ new.from = read.from /\ new.count = read.count
        /\ new.this = rows[k].next /\ new.got = Append(read.got, order[i])
    <3>1. ASSUME NEW j \in 1..Len(read.got) PROVE read.got[j] # order[i]
      <4>1. s + j - 1 \in 1..Len(order) /\ s + j - 1 # i
        BY <1>2, <2>4
      <4>2. read.got[j] = order[s + j - 1]
        BY <2>3 DEF GotFrom
      <4>. QED  BY <4>1, <4>2, ReadFacts DEF Distinct
    <3>2. Kept(r, order[i]) = Append(read.got, order[i])
      BY <1>1, <3>1 DEF Kept
    <3>. QED  BY <1>2, <2>2, <2>5, <3>2 DEF Read
  <2>7. order[i] \in Entry
    BY ReadFacts
  <2>8. /\ Len(new.got) = Len(read.got) + 1
        /\ \A j \in 1..Len(read.got) : new.got[j] = read.got[j]
        /\ new.got[Len(read.got) + 1] = order[i]
    BY <1>2, <2>6, <2>7
  <2>9. GotFrom(new, order, s)
    <3>1. s + Len(new.got) <= Len(order) + 1
      BY <1>2, <2>4, <2>8, ReadFacts
    <3>2. ASSUME NEW j \in 1..Len(new.got) PROVE new.got[j] = order[s + j - 1]
      <4>1. CASE j \in 1..Len(read.got)
        BY <2>3, <2>8, <4>1 DEF GotFrom
      <4>2. CASE j = Len(read.got) + 1
        <5>1. s + j - 1 = i
          BY <1>2, <2>4, <4>2
        <5>2. new.got[j] = order[i]
          BY <2>8, <4>2
        <5>. QED  BY <5>1, <5>2
      <4>3. j \in 1..Len(read.got) \/ j = Len(read.got) + 1
        <5>1. j \in 1..(Len(read.got) + 1)
          BY <2>8
        <5>. QED  BY <1>2, <5>1
      <4>. QED  BY <4>1, <4>2, <4>3
    <3>. QED  BY <3>1, <3>2 DEF GotFrom
  <2>10. s + Len(new.got) = i + 1 /\ StartsAt(new, order, s)
    BY <1>2, <2>3, <2>4, <2>6, <2>8 DEF StartsAt
  <2>11. /\ new.count # 0 /\ (new.count # ALL => Len(new.got) <= new.count)
    BY <1>1, <1>2, <2>6, <2>8 DEF Reading, ALL
  <2>. QED  BY <1>1, <2>5, <2>6, <2>9, <2>10, <2>11 DEF Reading
<1>. QED  BY <1>5

LEMMA ReadEnds ==
  ASSUME Orderly, ListInv, NEW r \in Readers, Reading(rd[r], rows, order), GetEnd(r)
  PROVE  Reading(rd'[r], rows, order)
<1>1. PICK read, new : read = rd[r] /\ new = rd'[r]
  OBVIOUS
<1>2. /\ read.pc = "row" /\ read \in Read /\ new = [read EXCEPT !.pc = "ok"]
      /\ read.this = END \/ (read.count # ALL /\ ~ (Len(read.got) < read.count))
      /\ read.got \in Seq(Entry) /\ Len(read.got) \in Nat
      /\ read.count \in Nat \/ read.count = ALL
  BY <1>1, ReadFacts DEF GetEnd, GetMore, Read
<1>3. /\ new.pc = "ok" /\ new.from = read.from /\ new.count = read.count /\ new.got = read.got
  BY <1>2 DEF Read
<1>4. PICK s \in 1..(Len(order) + 1) :
        /\ StartsAt(read, order, s) /\ GotFrom(read, order, s)
        /\ read.this = IdAt(order, s + Len(read.got)) \/ read.this # END
  <2>1. ~ (Nowhere(read, order) /\ read.got = << >> /\ read.this = read.from)
    <3>1. ASSUME Nowhere(read, order), read.got = << >>, read.this = read.from PROVE FALSE
      <4>1. read.from # END
        <5>1. Len(order) + 1 \in 1..(Len(order) + 1)
          BY ReadFacts
        <5>. QED  BY <3>1, <5>1, ReadFacts DEF Nowhere, Places
      <4>2. read.count # 0
        BY <1>1, <1>2 DEF Reading
      <4>. QED  BY <1>2, <3>1, <4>1, <4>2
    <3>. QED  BY <3>1
  <2>. QED  BY <1>1, <1>2, <2>1 DEF Reading, Dangling
<1>5. s + Len(read.got) <= Len(order) + 1
  BY <1>4 DEF GotFrom
<1>6. read.this = END => s + Len(read.got) = Len(order) + 1
  <2>1. ASSUME read.this = END, s + Len(read.got) \in 1..Len(order) PROVE FALSE
    BY <1>4, <2>1, ReadFacts DEF END
  <2>2. s \in Nat /\ s >= 1 /\ Len(order) \in Nat
    BY ReadFacts
  <2>. QED  BY <1>2, <1>5, <2>1, <2>2
<1>7. read.count # ALL => Len(read.got) <= read.count
  BY <1>1, <1>2 DEF Reading
<1>8. Enough(new, order, s)
  BY <1>2, <1>3, <1>5, <1>6, <1>7, ReadFacts DEF Enough, ALL
<1>9. StartsAt(new, order, s) /\ GotFrom(new, order, s)
  BY <1>3, <1>4 DEF StartsAt, GotFrom
<1>. QED  BY <1>1, <1>3, <1>8, <1>9 DEF Reading

LEMMA ReadNext == Orderly /\ ListInv /\ ReadInv /\ [Next]_vars => ReadInv'
<1>. SUFFICES ASSUME Orderly, ListInv, ReadInv, [Next]_vars, NEW r \in Readers, rd'[r].quiet
              PROVE  Reading(rd'[r], rows', order')
  BY DEF ReadInv
<1>1. CASE UNCHANGED vars
  BY <1>1 DEF vars, ReadInv
<1>2. ASSUME NEW w \in Writers, WriterStep(w), Disturb
      PROVE  Reading(rd'[r], rows', order')
  <2>1. rows' = rows /\ rd'[r] = rd[r]
    <3>1. rows' = rows
      <4>1. rows' # rows => ~ rd'[r].quiet
        BY <1>2, ReadFacts DEF Disturb, Read
      <4>. QED  BY <4>1
    <3>. QED  BY <1>2, <3>1 DEF Disturb
  <2>2. order' = order
    BY <1>2, <2>1, OrderWithRows
  <2>. QED  BY <2>1, <2>2 DEF ReadInv
<1>3. ASSUME NEW q \in Readers, ReaderStep(q), UNCHANGED <<rows, counter, wvars, order>>
      PROVE  Reading(rd'[r], rows', order')
  <2>1. CASE q # r
    <3>1. rd'[r] = rd[r]
      BY <1>3, <2>1, ReadFacts
         DEF ReaderStep, ReaderGoesOn, GetBegin, GetFirst, GetRow, GetFails, GetErrs, GetEnd
    <3>. QED  BY <1>3, <3>1 DEF ReadInv
  <2>2. CASE q = r
    <3>1. CASE \E first \in NamedIds \cup {BEGINNING, END}, count \in Counts : GetBegin(r, first, count)
      BY <1>3, <3>1, ReadBegins
    <3>2. CASE GetFirst(r) \/ GetRow(r) \/ GetFails(r) \/ GetErrs(r) \/ GetEnd(r)
      <4>1. rd[r].quiet
        <5>1. rd[r] \in Read
          BY ReadFacts
        <5>2. GetFirst(r) => rd[r].quiet
          BY <5>1, ReadFacts DEF GetFirst, Read
        <5>3. GetRow(r) => rd[r].quiet
          <6>1. \A a, g : [rd EXCEPT ![r].this = a, ![r].got = g][r].quiet = rd[r].quiet
            BY <5>1, ReadFacts DEF Read
          <6>2. ASSUME NEW k, rd' = [rd EXCEPT ![r].this = rows[k].next,
                         ![r].got = Kept(r, [id |-> rows[k].id, title |-> rows[k].title])]
                PROVE  rd[r].quiet
            BY <6>1, <6>2, Zenon
          <6>. QED  BY <6>2 DEF GetRow
        <5>4. GetEnd(r) => rd[r].quiet
          BY <5>1, ReadFacts DEF GetEnd, Read
        <5>5. GetFails(r) \/ GetErrs(r) => rd[r].quiet
          <6>1. /\ [rd EXCEPT ![r].pc = "failed"][r].quiet = rd[r].quiet
                /\ [rd EXCEPT ![r].pc = "failed", ![r].erred = TRUE][r].quiet = rd[r].quiet
            BY <5>1, ReadFacts DEF Read
          <6>. QED  BY <6>1, Zenon DEF GetFails, GetErrs
        <5>. QED  BY <3>2, <5>2, <5>3, <5>4, <5>5
      <4>. QED  BY <1>3, <3>2, <4>1, ReadFirst, ReadRow, ReadFails, ReadEnds DEF ReadInv
    <3>. QED  BY <1>3, <2>2, <3>1, <3>2 DEF ReaderStep, ReaderGoesOn
  <2>. QED  BY <2>1, <2>2
<1>. QED  BY <1>1, <1>2, <1>3 DEF Next

\* What was asked for is a slice of the playlist.
LEMMA AskedSlice ==
  ASSUME Orderly, ListInv, NEW r \in Readers, rd[r].count # 0,
         NEW s \in 1..(Len(order) + 1), StartsAt(rd[r], order, s)
  PROVE  \E n \in Nat :
           /\ n = IF rd[r].count = ALL \/ rd[r].count > Len(order) + 1 - s
                  THEN Len(order) + 1 - s ELSE rd[r].count
           /\ s + n <= Len(order) + 1
           /\ Asked(r, order) = SubSeq(order, s, s + n - 1)
           /\ Len(Asked(r, order)) = n /\ Asked(r, order) \in Seq(Entry)
           /\ \A i \in 1..n : Asked(r, order)[i] = order[s + i - 1]
<1>1. s = IF rd[r].from = BEGINNING THEN 1
          ELSE CHOOSE p \in 1..(Len(order) + 1) : IdAt(order, p) = rd[r].from
  <2>1. ASSUME NEW p \in 1..(Len(order) + 1), IdAt(order, p) = IdAt(order, s) PROVE p = s
    <3>1. p \in 0..(Len(order) + 1) /\ s \in 0..(Len(order) + 1)
      BY ReadFacts
    <3>. QED  BY <2>1, <3>1, ReadFacts, IdAtInjective
  <2>2. CASE rd[r].from = BEGINNING
    BY <2>2 DEF StartsAt
  <2>3. CASE rd[r].from # BEGINNING
    <3>1. IdAt(order, s) = rd[r].from
      BY <2>3 DEF StartsAt
    <3>2. \A p \in 1..(Len(order) + 1) : IdAt(order, p) = rd[r].from => p = s
      BY <2>1, <3>1
    <3>. QED  BY <2>3, <3>1, <3>2
  <2>. QED  BY <2>2, <2>3
<1>2. PICK n \in Nat :
        /\ n = IF rd[r].count = ALL \/ rd[r].count > Len(order) + 1 - s
               THEN Len(order) + 1 - s ELSE rd[r].count
        /\ s + n <= Len(order) + 1
  <2>1. (rd[r].count \in Nat \/ rd[r].count = ALL) /\ s \in 1..(Len(order) + 1) /\ Len(order) \in Nat
    BY ReadFacts DEF Read
  <2>2. Len(order) + 1 - s \in Nat /\ s + (Len(order) + 1 - s) = Len(order) + 1
    BY <2>1
  <2>3. CASE rd[r].count = ALL \/ rd[r].count > Len(order) + 1 - s
    BY <2>2, <2>3
  <2>4. CASE ~ (rd[r].count = ALL \/ rd[r].count > Len(order) + 1 - s)
    <3>1. rd[r].count \in Nat /\ s + rd[r].count <= Len(order) + 1
      BY <2>1, <2>4
    <3>. QED  BY <2>4, <3>1
  <2>. QED  BY <2>3, <2>4
<1>3. Asked(r, order) = SubSeq(order, s, s + n - 1)
  <2>. DEFINE start == IF rd[r].from = BEGINNING THEN 1
                    ELSE CHOOSE p \in 1..(Len(order) + 1) : IdAt(order, p) = rd[r].from
  <2>1. Asked(r, order) =
          IF rd[r].count = 0 THEN << >>
          ELSE SubSeq(order, start,
                 start + (IF rd[r].count = ALL \/ rd[r].count > Len(order) + 1 - start
                       THEN Len(order) + 1 - start ELSE rd[r].count) - 1)
    BY Zenon DEF Asked
  <2>2. start = s
    BY <1>1
  <2>. HIDE DEF start
  <2>. QED  BY <1>2, <2>1, <2>2
<1>4. PICK slice : slice = SubSeq(order, s, s + n - 1)
  OBVIOUS
<1>5. slice \in Seq(Entry) /\ Len(slice) = n /\ \A i \in 1..n : slice[i] = order[s + i - 1]
  BY <1>2, <1>4, ReadFacts
<1>. QED  BY <1>2, <1>3, <1>4, <1>5

\* What a finished read has is what was asked for.
LEMMA GotAsked ==
  ASSUME Orderly, ListInv, NEW r \in Readers, Reading(rd[r], rows, order), rd[r].pc = "ok"
  PROVE  rd[r].got = Asked(r, order)
<1>1. PICK read : read = rd[r]
  OBVIOUS
<1>2. read \in Read /\ read.got \in Seq(Entry) /\ (read.count \in Nat \/ read.count = ALL)
  BY <1>1, ReadFacts DEF Read
<1>3. CASE read.count = 0
  <2>1. read.got = << >>
    <3>1. ASSUME NEW s \in 1..(Len(order) + 1), Enough(read, order, s) PROVE Len(read.got) = 0
      BY <1>3, <3>1, ReadFacts DEF Enough, ALL
    <3>. QED  BY <1>1, <1>2, <3>1 DEF Reading
  <2>. QED  BY <1>1, <1>3, <2>1 DEF Asked
<1>4. CASE read.count # 0
  <2>1. PICK s \in 1..(Len(order) + 1) :
          StartsAt(read, order, s) /\ GotFrom(read, order, s) /\ Enough(read, order, s)
    BY <1>1, <1>4 DEF Reading
  <2>2. PICK n \in Nat :
          /\ n = IF read.count = ALL \/ read.count > Len(order) + 1 - s
                 THEN Len(order) + 1 - s ELSE read.count
          /\ Len(Asked(r, order)) = n /\ Asked(r, order) \in Seq(Entry)
          /\ \A i \in 1..n : Asked(r, order)[i] = order[s + i - 1]
    BY <1>1, <1>4, <2>1, AskedSlice
  <2>3. Len(read.got) = n /\ \A i \in 1..n : read.got[i] = order[s + i - 1]
    BY <2>1, <2>2 DEF Enough, GotFrom
  <2>4. \A i \in 1..n : read.got[i] = Asked(r, order)[i]
    BY <2>2, <2>3
  <2>5. read.got = Asked(r, order)
    BY <1>2, <2>2, <2>3, <2>4, SeqEqual
  <2>. QED  BY <1>1, <2>5
<1>. QED  BY <1>3, <1>4

\* What a read has that failed is a beginning of it.
LEMMA GotBegins ==
  ASSUME Orderly, ListInv, NEW r \in Readers, Reading(rd[r], rows, order), rd[r].pc = "failed",
         NEW i \in 1..Len(rd[r].got)
  PROVE  i <= Len(Asked(r, order)) /\ rd[r].got[i] = Asked(r, order)[i]
<1>1. /\ rd[r].got \in Seq(Entry) /\ Len(rd[r].got) \in Nat
      /\ rd[r].count \in Nat \/ rd[r].count = ALL
  BY ReadFacts DEF Read
<1>2. rd[r].got # << >> /\ rd[r].count # 0 /\ (rd[r].count # ALL => Len(rd[r].got) <= rd[r].count)
  BY <1>1 DEF Reading
<1>3. PICK s \in 1..(Len(order) + 1) : StartsAt(rd[r], order, s) /\ GotFrom(rd[r], order, s)
  BY <1>2 DEF Reading
<1>4. PICK n \in Nat :
        /\ n = IF rd[r].count = ALL \/ rd[r].count > Len(order) + 1 - s
               THEN Len(order) + 1 - s ELSE rd[r].count
        /\ Len(Asked(r, order)) = n
        /\ \A j \in 1..n : Asked(r, order)[j] = order[s + j - 1]
  BY <1>2, <1>3, AskedSlice
<1>5. Len(rd[r].got) <= n
  BY <1>1, <1>2, <1>3, <1>4, ReadFacts DEF GotFrom
<1>6. i \in 1..n /\ rd[r].got[i] = order[s + i - 1]
  BY <1>1, <1>3, <1>5 DEF GotFrom
<1>. QED  BY <1>4, <1>6

LEMMA ReadInvExact == Orderly /\ ListInv /\ ReadInv => QuietReadExact
<1>. SUFFICES ASSUME Orderly, ListInv, ReadInv, NEW r \in Readers, rd[r].quiet
              PROVE  /\ rd[r].pc = "ok" => rd[r].got = Asked(r, order)
                     /\ rd[r].pc = "failed" =>
                          /\ \A i \in 1..Len(rd[r].got) :
                               i <= Len(Asked(r, order)) /\ rd[r].got[i] = Asked(r, order)[i]
                          /\ \/ rd[r].erred
                             \/ /\ rd[r].from # BEGINNING
                                /\ \A p \in 1..Len(order) : order[p].id # rd[r].from
                             \/ \E w \in Writers :
                                  pc[w] \in {"insert", "rnext", "rdelete", "rrelink"}
  BY DEF QuietReadExact
<1>1. Reading(rd[r], rows, order)
  BY DEF ReadInv
<1>2. rd[r].pc = "ok" => rd[r].got = Asked(r, order)
  BY <1>1, GotAsked
<1>3. Nowhere(rd[r], order) =>
        rd[r].from # BEGINNING /\ \A p \in 1..Len(order) : order[p].id # rd[r].from
  <2>1. \A p \in 1..Len(order) : order[p].id \in Places(order)
    <3>1. \A p \in 1..Len(order) : p \in 1..(Len(order) + 1) /\ IdAt(order, p) = order[p].id
      BY ReadFacts
    <3>. QED  BY <3>1 DEF Places
  <2>. QED  BY <2>1 DEF Nowhere
<1>4. ~ Unbroken(rows, order) => \E w \in Writers : pc[w] \in {"insert", "rnext", "rdelete", "rrelink"}
  BY DEF Unbroken, ListInv, Closed, Gaps
<1>5. rd[r].pc = "failed" => \A i \in 1..Len(rd[r].got) :
                               i <= Len(Asked(r, order)) /\ rd[r].got[i] = Asked(r, order)[i]
  BY <1>1, GotBegins
<1>6. rd[r].pc = "failed" => rd[r].erred \/ Nowhere(rd[r], order) \/ ~ Unbroken(rows, order)
  BY <1>1 DEF Reading
<1>. QED  BY <1>2, <1>3, <1>4, <1>5, <1>6

\* What mps_playlist_get() gives is the slice of the playlist it was asked for, of however
\* many statements it took, if no write came between them.  When it fails, what it has is a
\* beginning of that slice; and it fails only when one of its SELECTs does, on an id that is
\* in no list, or in the gap a writer has open.
THEOREM QuietReadsExact == Orderly => (Spec => []QuietReadExact)
<1>1. SUFFICES ASSUME Orderly PROVE Spec => []QuietReadExact
  OBVIOUS
<1>2. Init => ListInv /\ ReadInv
  <2>1. Init => ReadInv
    BY DEF Init, NoRead, ReadInv
  <2>. QED  BY <2>1, InitListInv
<1>3. ListInv /\ ReadInv /\ [Next]_vars => ListInv' /\ ReadInv'
  BY <1>1, NextListInv, ReadNext
<1>4. ListInv /\ ReadInv => QuietReadExact
  BY <1>1, ReadInvExact
<1>. QED  BY <1>2, <1>3, <1>4, PTL DEF Spec
=============================================================================
