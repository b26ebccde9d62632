------------------------------ MODULE PlaylistDb ------------------------------
(***************************************************************************)
(* The playlist library at the grain the machine runs it: processes        *)
(* (mps-playlist commands, one per CGI request) that send one SQL          *)
(* statement at a time to the shared table, and no lock between them (the  *)
(* named semaphore of the sources is compiled out).                        *)
(*                                                                         *)
(*   Writers   run mps_playlist_add_after and mps_playlist_remove          *)
(*   Readers   run mps_playlist_get                                        *)
(*                                                                         *)
(* One action is one SQL statement, or one access to the change counter in *)
(* shared memory, with the local code up to the next one.  A statement may *)
(* fail (SQLITE_BUSY after two seconds, a full disk) where FailingSteps    *)
(* says so, and a process may die between two of them.                     *)
(***************************************************************************)
EXTENDS PlaylistTable

CONSTANTS
  Writers, Readers,
  Contents,      \* the elements mps_library_hierarchy_get lists for a folder
  Requests,      \* item lists a command may ask to add
  Counts,        \* counts a remove or a get may carry
  MaxOps,        \* bound: commands started, by writers and readers together
  FailingSteps,  \* the steps of writers and readers whose SQL statement may fail
  Crashes        \* may a writer process die in the middle of a command?

WriterSteps ==
  {"idle", "count", "max", "next", "item", "insert", "bump", "store",
   "rfirst", "rnext", "rdelete", "rrelink"}

ASSUME ConstantsOK ==
  /\ Contents \in [Folders -> Seq(Item)]
  /\ Requests \subseteq Seq(Item)
  /\ Counts \subseteq Nat \cup {ALL}
  /\ MaxOps \in Nat
  /\ FailingSteps \subseteq
       {"count", "max", "next", "item", "insert", "rfirst", "rnext", "rdelete", "rrelink",
        "first", "row"}
  /\ Crashes \in BOOLEAN

VARIABLES
  rows,     \* the table
  counter,  \* playlist_status.change_counter in shared memory
  pc,       \* per writer: its next step
  stack,    \* per writer: the activations of mps_playlist_add_after, innermost last
  highest,  \* per writer: the global highest_entry_id of its process
  rm,       \* per writer: the locals of mps_playlist_remove
  tmp,      \* per writer: the counter value it loaded and will store plus one
  rd,       \* per reader: the locals of mps_playlist_get
  ops,      \* commands started so far
  order     \* history: the playlist that the changes made so far add up to

wvars == <<pc, stack, highest, rm, tmp>>
vars == <<rows, counter, wvars, rd, ops, order>>

Frame  == [first : Int, items : Seq(Item), i : Nat \ {0}, next : Int]
Remove == [first : Int, count : Nat \cup {ALL}, i : Nat, this : Int, next : Int]

Read == [pc : {"idle", "first", "row", "ok", "failed"}, from : Int,
         count : Nat \cup {ALL}, this : Int, got : Seq(Entry),
         quiet : BOOLEAN, erred : BOOLEAN]

NoRemove == [first |-> END, count |-> 0, i |-> 0, this |-> END, next |-> END]
NoRead == [pc |-> "idle", from |-> END, count |-> 0, this |-> END,
           got |-> << >>, quiet |-> FALSE, erred |-> FALSE]

TypeOK ==
  /\ DOMAIN rows \subseteq Nat
  /\ rows \in [DOMAIN rows -> Row]
  /\ counter \in Nat
  /\ pc \in [Writers -> WriterSteps]
  /\ stack \in [Writers -> Seq(Frame)]
  /\ highest \in [Writers -> Int]
  /\ rm \in [Writers -> Remove]
  /\ tmp \in [Writers -> Nat]
  /\ rd \in [Readers -> Read]
  /\ ops \in Nat
  /\ order \in Seq(Entry)

Init ==
  /\ rows = InitialTable
  /\ counter = 0
  /\ pc = [w \in Writers |-> "idle"]
  /\ stack = [w \in Writers |-> << >>]
  /\ highest = [w \in Writers |-> 0]
  /\ rm = [w \in Writers |-> NoRemove]
  /\ tmp = [w \in Writers |-> 0]
  /\ rd = [r \in Readers |-> NoRead]
  /\ ops = 0
  /\ order = << >>

Goto(w, step) == pc' = [pc EXCEPT ![w] = step]
Top(w) == stack[w][Len(stack[w])]
SetTop(s, frame) == [s EXCEPT ![Len(s)] = frame]
Pop(s) == [j \in 1..(Len(s) - 1) |-> s[j]]

StartOp == ops < MaxOps /\ ops' = ops + 1

-----------------------------------------------------------------------------
(***************************************************************************)
(* mps_playlist_add_after(first_id, num_entries, id_list).  A list element *)
(* that is a folder makes the function call itself, through                *)
(* playlist_add_folder_after, with the folder's elements: stack holds the  *)
(* activations, and all of them share the global highest_entry_id.         *)
(***************************************************************************)
NewFrame(first, items) == [first |-> first, items |-> items, i |-> 1, next |-> END]

\* mps-playlist add end | beginning | <id>.
AddBegin(w, first, items) ==
  /\ pc[w] = "idle"
  /\ StartOp
  /\ Goto(w, "count")
  /\ stack' = [stack EXCEPT ![w] = <<NewFrame(first, items)>>]
  /\ highest' = [highest EXCEPT ![w] = 0]
  /\ UNCHANGED <<rows, counter, rm, tmp, order>>

\* Mutant: the highest id is never asked for, new ids restart at 1.
AddCountNoMax(w) ==
  /\ pc[w] = "count"
  /\ highest' = [highest EXCEPT ![w] = 0]
  /\ Goto(w, "next")
  /\ UNCHANGED <<rows, counter, stack, rm, tmp, ops, order>>

\* The count decides whether the highest id is 0 or has to be asked for.
AddCount(w) ==
  /\ pc[w] = "count"
  /\ \/ /\ NoEntries(rows)
        /\ highest' = [highest EXCEPT ![w] = 0]
        /\ Goto(w, "next")
     \/ /\ ~ NoEntries(rows)
        /\ Goto(w, "max")
        /\ UNCHANGED highest
  /\ UNCHANGED <<rows, counter, stack, rm, tmp, ops, order>>

\* Mutant: an off-by-one in the highest id.
AddMaxOffByOne(w) ==
  /\ pc[w] = "max"
  /\ \E m \in RowIds(rows) :
       /\ IsMaxId(rows, m)
       /\ highest' = [highest EXCEPT ![w] = m - 1]
  /\ Goto(w, "next")
  /\ UNCHANGED <<rows, counter, stack, rm, tmp, ops, order>>

AddMax(w) ==
  /\ pc[w] = "max"
  /\ \E m \in RowIds(rows) :
       /\ IsMaxId(rows, m)
       /\ highest' = [highest EXCEPT ![w] = m]
  /\ Goto(w, "next")
  /\ UNCHANGED <<rows, counter, stack, rm, tmp, ops, order>>

SetNext(w, id) == stack' = [stack EXCEPT ![w] = SetTop(@, [Top(w) EXCEPT !.next = id])]

\* The entry the new ones go before: END itself, or what follows first.
AddNext(w) ==
  /\ pc[w] = "next"
  /\ \/ Top(w).first = END /\ SetNext(w, END)
     \/ /\ Top(w).first # END
        /\ \E k \in DOMAIN rows :
             Selects(rows, Top(w).first, k) /\ SetNext(w, rows[k].next)
  /\ Goto(w, "item")
  /\ UNCHANGED <<rows, counter, highest, rm, tmp, ops, order>>

AtItem(w) == pc[w] = "item" /\ Top(w).i <= Len(Top(w).items)
ItemNow(w) == Top(w).items[Top(w).i]
NextItem(s) == SetTop(s, [s[Len(s)] EXCEPT !.i = @ + 1])

AddSkip(w) ==
  /\ AtItem(w)
  /\ ItemNow(w) \in OtherIds
  /\ stack' = [stack EXCEPT ![w] = NextItem(@)]
  /\ UNCHANGED <<rows, counter, pc, highest, rm, tmp, ops, order>>

\* Mutant: every folder of a list is put after first.
AddFolderAfterFirst(w) ==
  /\ AtItem(w)
  /\ ItemNow(w) \in Folders
  /\ stack' = [stack EXCEPT ![w] =
                 Append(@, NewFrame(Top(w).first, Contents[ItemNow(w)]))]
  /\ Goto(w, "count")
  /\ UNCHANGED <<rows, counter, highest, rm, tmp, ops, order>>

\* The first element of a list is put after first, any other folder after the
\* highest id, which the code takes for the entry it added last.
AddFolder(w) ==
  /\ AtItem(w)
  /\ ItemNow(w) \in Folders
  /\ LET after == IF Top(w).i = 1 THEN Top(w).first ELSE highest[w]
     IN stack' = [stack EXCEPT ![w] = Append(@, NewFrame(after, Contents[ItemNow(w)]))]
  /\ Goto(w, "count")
  /\ UNCHANGED <<rows, counter, highest, rm, tmp, ops, order>>

\* First statement of the pair: whoever linked to next links to the new id.
AddRelink(w) ==
  /\ AtItem(w)
  /\ ItemNow(w) \in Titles
  /\ highest' = [highest EXCEPT ![w] = @ + 1]
  /\ rows' = Relink(rows, Top(w).next, highest'[w])
  /\ Goto(w, "insert")
  /\ UNCHANGED <<counter, stack, rm, tmp, ops, order>>

OrderInsert(next, e) ==
  \/ \E p \in 1..(Len(order) + 1) :
       IdAt(order, p) = next /\ order' = InsertAt(order, p, e)
  \/ /\ \A p \in 1..(Len(order) + 1) : IdAt(order, p) # next
     /\ UNCHANGED order

\* Mutant: every new row is linked to END.
AddInsertAtEnd(w) ==
  /\ pc[w] = "insert"
  /\ \E top \in DOMAIN rows :
       /\ IsTopRow(rows, top)
       /\ rows' = Insert(rows, top, [id |-> highest[w], title |-> ItemNow(w), next |-> END])
  /\ OrderInsert(Top(w).next, [id |-> highest[w], title |-> ItemNow(w)])
  /\ stack' = [stack EXCEPT ![w] = NextItem(@)]
  /\ Goto(w, "item")
  /\ UNCHANGED <<counter, highest, rm, tmp, ops>>

\* Second statement of the pair: the new row itself.
AddInsert(w) ==
  /\ pc[w] = "insert"
  /\ \E top \in DOMAIN rows :
       /\ IsTopRow(rows, top)
       /\ rows' = Insert(rows, top,
            [id |-> highest[w], title |-> ItemNow(w), next |-> Top(w).next])
  /\ OrderInsert(Top(w).next, [id |-> highest[w], title |-> ItemNow(w)])
  /\ stack' = [stack EXCEPT ![w] = NextItem(@)]
  /\ Goto(w, "item")
  /\ UNCHANGED <<counter, highest, rm, tmp, ops>>

\* The list is done: count the change.
AddEnd(w) ==
  /\ pc[w] = "item"
  /\ Top(w).i > Len(Top(w).items)
  /\ Goto(w, "bump")
  /\ UNCHANGED <<rows, counter, stack, highest, rm, tmp, ops, order>>

\* Return from the innermost activation: the command ends, or the caller (which
\* ignores the result) goes on with the element after the folder.
Return(w) ==
  IF Len(stack[w]) <= 1
  THEN /\ stack' = [stack EXCEPT ![w] = << >>]
       /\ Goto(w, "idle")
  ELSE /\ stack' = [stack EXCEPT ![w] = NextItem(Pop(@))]
       /\ Goto(w, "item")

\* A statement fails or finds no row: leave without counting a change.  The
\* statements of the pair are separate, so the first one may stay done.
AddFails(w) ==
  /\ pc[w] \in {"count", "max", "next", "item", "insert"}
  /\ pc[w] = "item" => AtItem(w) /\ ItemNow(w) \in Titles
  /\ \/ pc[w] \in FailingSteps /\ (pc[w] = "next" => Top(w).first # END)
     \/ pc[w] = "next" /\ Top(w).first # END /\ ~ HasRow(rows, Top(w).first)
  /\ highest' = [highest EXCEPT ![w] = IF pc[w] = "item" THEN @ + 1 ELSE @]
  /\ Return(w)
  /\ UNCHANGED <<rows, counter, rm, tmp, ops, order>>

\* change_counter++ on memory that other processes also count in.
BumpLoad(w) ==
  /\ pc[w] = "bump"
  /\ tmp' = [tmp EXCEPT ![w] = counter]
  /\ Goto(w, "store")
  /\ UNCHANGED <<rows, counter, stack, highest, rm, ops, order>>

\* Mutant: the counter counts down.
BumpStoreDown(w) ==
  /\ pc[w] = "store"
  /\ counter' = tmp[w] - 1
  /\ Return(w)
  /\ UNCHANGED <<rows, highest, rm, tmp, ops, order>>

BumpStore(w) ==
  /\ pc[w] = "store"
  /\ counter' = tmp[w] + 1
  /\ Return(w)
  /\ UNCHANGED <<rows, highest, rm, tmp, ops, order>>

-----------------------------------------------------------------------------
(***************************************************************************)
(* mps_playlist_remove(first_id, count): delete count rows one statement   *)
(* at a time, then link the predecessor of the first to what follows.      *)
(***************************************************************************)
RemoveAt(w, first) == [rm[w] EXCEPT !.first = first, !.this = first]

RemoveBegin(w, first, count) ==
  /\ pc[w] = "idle"
  /\ StartOp
  /\ rm' = [rm EXCEPT ![w] =
              [first |-> first, count |-> count, i |-> 0, this |-> first, next |-> END]]
  /\ Goto(w, IF first = BEGINNING THEN "rfirst" ELSE "rnext")
  /\ UNCHANGED <<rows, counter, stack, highest, tmp, order>>

RemoveFirst(w) ==
  /\ pc[w] = "rfirst"
  /\ \E k \in DOMAIN rows :
       Selects(rows, BEGINNING, k) /\ rm' = [rm EXCEPT ![w] = RemoveAt(w, rows[k].next)]
  /\ Goto(w, "rnext")
  /\ UNCHANGED <<rows, counter, stack, highest, tmp, ops, order>>

RemoveMore(w) ==
  /\ rm[w].count = ALL \/ rm[w].i < rm[w].count
  /\ rm[w].this # END

RemoveNext(w) ==
  /\ pc[w] = "rnext"
  /\ \/ /\ RemoveMore(w)
        /\ \E k \in DOMAIN rows :
             /\ Selects(rows, rm[w].this, k)
             /\ rm' = [rm EXCEPT ![w].next = rows[k].next]
        /\ Goto(w, "rdelete")
     \/ /\ ~ RemoveMore(w)
        /\ Goto(w, "rrelink")
        /\ UNCHANGED rm
  /\ UNCHANGED <<rows, counter, stack, highest, tmp, ops, order>>

RemoveDelete(w) ==
  /\ pc[w] = "rdelete"
  /\ rows' = Delete(rows, rm[w].this)
  /\ rm' = [rm EXCEPT ![w].i = @ + 1, ![w].this = rm[w].next]
  /\ Goto(w, "rnext")
  /\ UNCHANGED <<counter, stack, highest, tmp, ops, order>>

OrderCut(first, this) ==
  \/ \E a \in 1..(Len(order) + 1), m \in 1..(Len(order) + 1) :
       /\ a <= m
       /\ IdAt(order, a) = first
       /\ IdAt(order, m) = this
       /\ order' = CutSlice(order, a, m)
  \/ /\ \A a \in 1..(Len(order) + 1), m \in 1..(Len(order) + 1) :
          ~ (a <= m /\ IdAt(order, a) = first /\ IdAt(order, m) = this)
     /\ UNCHANGED order

RemoveRelink(w) ==
  /\ pc[w] = "rrelink"
  /\ rows' = Relink(rows, rm[w].first, rm[w].this)
  /\ OrderCut(rm[w].first, rm[w].this)
  /\ Goto(w, "bump")
  /\ UNCHANGED <<counter, stack, highest, rm, tmp, ops>>

\* Mutant: a failed statement does not end the loop.
RemoveFailsRetry(w) ==
  /\ \/ pc[w] \in {"rfirst", "rdelete", "rrelink"} /\ pc[w] \in FailingSteps
     \/ /\ pc[w] = "rnext" /\ RemoveMore(w)
        /\ "rnext" \in FailingSteps \/ ~ HasRow(rows, rm[w].this)
  /\ UNCHANGED <<pc, rows, counter, stack, highest, rm, tmp, ops, order>>

\* A failed statement ends the loop, not the function: what was deleted so far is
\* linked around and counted.  Only the very first SELECT returns at once.
RemoveFails(w) ==
  /\ \/ pc[w] \in {"rfirst", "rdelete", "rrelink"} /\ pc[w] \in FailingSteps
     \/ /\ pc[w] = "rnext" /\ RemoveMore(w)
        /\ "rnext" \in FailingSteps \/ ~ HasRow(rows, rm[w].this)
  /\ Goto(w, CASE pc[w] = "rfirst" -> "idle"
               [] pc[w] = "rrelink" -> "bump"
               [] OTHER -> "rrelink")
  /\ UNCHANGED <<rows, counter, stack, highest, rm, tmp, ops, order>>

-----------------------------------------------------------------------------
\* The process is killed (or follows an unset pointer after a failed folder
\* look-up) and leaves the table and the counter as they are.
Crash(w) ==
  /\ Crashes
  /\ pc[w] # "idle"
  /\ Goto(w, "idle")
  /\ stack' = [stack EXCEPT ![w] = << >>]
  /\ UNCHANGED <<rows, counter, highest, rm, tmp, ops, order>>

\* Places a command line can name: a keyword, or the id of some entry.
NamedIds == {e \in RowIds(rows) : e > 0} \cup {1}

WriterGoesOn(w) ==
  \/ AddCount(w) \/ AddMax(w) \/ AddNext(w) \/ AddSkip(w) \/ AddFolder(w)
  \/ AddRelink(w) \/ AddInsert(w) \/ AddEnd(w) \/ AddFails(w)
  \/ BumpLoad(w) \/ BumpStore(w)
  \/ RemoveFirst(w) \/ RemoveNext(w) \/ RemoveDelete(w) \/ RemoveRelink(w)
  \/ RemoveFails(w)

WriterStep(w) ==
  \/ \E first \in NamedIds \cup {BEGINNING, END}, items \in Requests :
       AddBegin(w, first, items)
  \/ \E first \in NamedIds \cup {BEGINNING}, count \in Counts :
       RemoveBegin(w, first, count)
  \/ WriterGoesOn(w)
  \/ Crash(w)

-----------------------------------------------------------------------------
(***************************************************************************)
(* mps_playlist_get(list, first_id, count): one SELECT per entry.  Two     *)
(* fields are history: quiet, no statement changed the table since the     *)
(* read began, and erred, a SELECT of the read failed.                     *)
(***************************************************************************)
GetBegin(r, first, count) ==
  /\ rd[r].pc \in {"idle", "ok", "failed"}
  /\ StartOp
  /\ rd' = [rd EXCEPT ![r] =
       [pc    |-> IF first \in {END, EMPTY} \/ count = 0 THEN "ok"
                  ELSE IF first = BEGINNING THEN "first" ELSE "row",
        from  |-> first, count |-> count, this |-> first,
        got   |-> << >>, quiet |-> TRUE, erred |-> FALSE]]

GetFirst(r) ==
  /\ rd[r].pc = "first"
  /\ \E k \in DOMAIN rows :
       /\ Selects(rows, BEGINNING, k)
       /\ rd' = [rd EXCEPT ![r].pc = "row", ![r].this = rows[k].next]
  /\ UNCHANGED ops

\* Mutant: one entry too many.
GetMoreOffByOne(r) ==
  /\ rd[r].count = ALL \/ Len(rd[r].got) <= rd[r].count
  /\ rd[r].this # END

GetMore(r) ==
  /\ rd[r].count = ALL \/ Len(rd[r].got) < rd[r].count
  /\ rd[r].this # END

\* Bound: what a get of all meets again, going round in a circle, is kept once.
Kept(r, e) ==
  IF rd[r].count = ALL /\ \E i \in 1..Len(rd[r].got) : rd[r].got[i] = e
  THEN rd[r].got ELSE Append(rd[r].got, e)

GetRow(r) ==
  /\ rd[r].pc = "row"
  /\ GetMore(r)
  /\ \E k \in DOMAIN rows :
       /\ Selects(rows, rd[r].this, k)
       /\ rd' = [rd EXCEPT ![r].this = rows[k].next,
            ![r].got = Kept(r, [id |-> rows[k].id, title |-> rows[k].title])]
  /\ UNCHANGED ops

\* A SELECT of a get is to be sent.
GetSelects(r) == rd[r].pc \in {"first", "row"} /\ (rd[r].pc = "row" => GetMore(r))

\* Mutant: a SELECT without an answer is sent again.
GetFailsRetry(r) ==
  /\ GetSelects(r)
  /\ ~ HasRow(rows, rd[r].this)
  /\ UNCHANGED <<rd, ops>>

\* The SELECT finds no row: the entries got so far stay in the list.
GetFails(r) ==
  /\ GetSelects(r)
  /\ ~ HasRow(rows, rd[r].this)
  /\ rd' = [rd EXCEPT ![r].pc = "failed"]
  /\ UNCHANGED ops

\* The SELECT itself fails: the caller cannot tell this from a missing row.
GetErrs(r) ==
  /\ GetSelects(r)
  /\ rd[r].pc \in FailingSteps
  /\ rd' = [rd EXCEPT ![r].pc = "failed", ![r].erred = TRUE]
  /\ UNCHANGED ops

GetEnd(r) ==
  /\ rd[r].pc = "row"
  /\ ~ GetMore(r)
  /\ rd' = [rd EXCEPT ![r].pc = "ok"]
  /\ UNCHANGED ops

ReaderGoesOn(r) == GetFirst(r) \/ GetRow(r) \/ GetFails(r) \/ GetEnd(r)

ReaderStep(r) ==
  \/ \E first \in NamedIds \cup {BEGINNING, END}, count \in Counts : GetBegin(r, first, count)
  \/ ReaderGoesOn(r)
  \/ GetErrs(r)

\* A write ends the quiet of every read.
Disturb ==
  rd' = [r \in Readers |->
           IF rows' = rows THEN rd[r] ELSE [rd[r] EXCEPT !.quiet = FALSE]]

Next ==
  \/ \E w \in Writers : WriterStep(w) /\ Disturb
  \/ \E r \in Readers : ReaderStep(r) /\ UNCHANGED <<rows, counter, wvars, order>>

Spec == Init /\ [][Next]_vars

\* A command is a process of its own and runs until it exits; it need not ever crash, and
\* no SELECT of a get need ever fail.
FairSpec ==
  /\ Spec
  /\ \A w \in Writers : WF_vars(WriterGoesOn(w) /\ Disturb)
  /\ \A r \in Readers :
       WF_vars(ReaderGoesOn(r) /\ UNCHANGED <<rows, counter, wvars, order>>)

-----------------------------------------------------------------------------
(***************************************************************************)
(* Properties.  One writer at a time is the assumption all but the first   *)
(* need: the code does not enforce it.                                     *)
(***************************************************************************)

\* The SELECT for what row k links to is answered by a row of S.
LinksInto(k, S) == \E l \in S : Selects(rows, rows[k].next, l)

\* The links are all forward: no walk along next_playlist_entry_id comes back to a
\* row it has seen, so the loops of get, remove and play all reach an end.
LinksAllForward ==
  \A S \in SUBSET DOMAIN rows : S # {} => \E k \in S : ~ LinksInto(k, S)

\* The rows are exactly the chain BEGINNING -> list[1] -> ... -> END.
RowsAre(list) ==
  /\ \A k, l \in DOMAIN rows : rows[k].id = rows[l].id => k = l
  /\ \A k \in DOMAIN rows : \E i \in 0..Len(list) : rows[k].id = IdAt(list, i)
  /\ \A i \in 0..Len(list) : \E k \in DOMAIN rows :
       /\ rows[k].id = IdAt(list, i)
       /\ rows[k].next = IdAt(list, i + 1)
       /\ i > 0 => rows[k].title = list[i].title

\* Between two statements of a pair the table is not a list; at every other moment,
\* also inside a command and after one that failed, it is the playlist that the
\* insertions and removals made so far add up to.
ListIntact ==
  (\A w \in Writers : pc[w] \notin {"insert", "rnext", "rdelete", "rrelink"}) => RowsAre(order)

\* The slice a get asks for, when the table holds the list.
Asked(r, list) ==
  LET start == IF rd[r].from = BEGINNING THEN 1
               ELSE CHOOSE p \in 1..(Len(list) + 1) : IdAt(list, p) = rd[r].from
      rest  == Len(list) + 1 - start
      n     == IF rd[r].count = ALL \/ rd[r].count > rest THEN rest ELSE rd[r].count
  IN IF rd[r].count = 0 THEN << >> ELSE SubSeq(list, start, start + n - 1)

\* A get that no write disturbed returns exactly the slice it asked for.  If it fails it
\* leaves the first entries of that slice and nothing else; and unless a SELECT of its own
\* failed, it fails only on an id that is not in the list, or in the gap a writer has open.
QuietReadExact ==
  \A r \in Readers : rd[r].quiet =>
    /\ rd[r].pc = "ok" => rd[r].got = Asked(r, order)
    /\ rd[r].pc = "failed" =>
         /\ \A i \in 1..Len(rd[r].got) :
              i <= Len(Asked(r, order)) /\ rd[r].got[i] = Asked(r, order)[i]
         /\ \/ rd[r].erred
            \/ rd[r].from # BEGINNING /\ \A p \in 1..Len(order) : order[p].id # rd[r].from
            \/ \E w \in Writers : pc[w] \in {"insert", "rnext", "rdelete", "rrelink"}

\* What lies between the entry an add was given and the one that followed it then.
Between(w) ==
  {p \in 1..Len(order) : \E f \in 0..(p - 1), n \in (p + 1)..(Len(order) + 1) :
     IdAt(order, f) = Top(w).first /\ IdAt(order, n) = Top(w).next}

\* A list goes to the place asked for, in the order given: from the first of its entries
\* that lands there all later ones do, those of folders and of folders in folders too, and
\* each behind the one before.  Only a folder with nothing placed before it may go astray:
\* it follows the highest id, whichever entry has that.
AddsInPlace ==
  \A w \in Writers : pc[w] = "item" /\ Len(stack[w]) = 1 =>
    /\ \A p \in Between(w), q \in 1..Len(order) :
         order[q].id > order[p].id => q \in Between(w) /\ q > p
    /\ Top(w).i > 1 /\ Top(w).items[1] \in Titles /\ Top(w).first # END => Between(w) # {}

\* With one writer at a time no id is ever given twice, whatever fails and whenever the
\* writer dies, though nothing in the table forbids it.
IdsDistinct == \A k, l \in DOMAIN rows : rows[k].id = rows[l].id => k = l

\* Every change of the table is one the abstract playlist allows.
Abstract ==
  INSTANCE PlaylistSeq WITH order <- order, Titles <- Titles, Folders <- Folders,
                            OtherIds <- OtherIds
AbstractSpec == Abstract!Spec

\* Every add and every remove comes to its end, whatever the others do and however the
\* table is damaged: a remove deletes what it walks over, so it passes no row twice.
CommandsEnd == \A w \in Writers : pc[w] # "idle" ~> pc[w] = "idle"

\* A get walks only.  It ends while all links go forward; on a table where an UPDATE was left
\* without its INSERT the next add links its row to itself, and a get of all that comes to
\* this row goes round it, and asks for more memory, for ever.
Reads(r) == rd[r].pc \in {"first", "row"}
ReadsEndButInCircles == \A r \in Readers : Reads(r) ~> (~ Reads(r) \/ ~ LinksAllForward)
=============================================================================
