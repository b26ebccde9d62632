---------------------------- MODULE PlaylistTable ----------------------------
(***************************************************************************)
(* The SQLite table mps_playlist of libmpsserver-playlist.c and the SQL    *)
(* statements the library sends to it.                                     *)
(*                                                                         *)
(*   create table mps_playlist (playlist_entry_id int64, title_id int64,   *)
(*                              next_playlist_entry_id int64)              *)
(*                                                                         *)
(* The table has no key, so nothing but its users keeps the ids distinct.  *)
(* It is a function from SQLite's hidden rowid to rows.  A SELECT that     *)
(* reads one row gets the match of least rowid (a table scan), an INSERT   *)
(* takes the rowid after the largest one.  Every statement is a            *)
(* transaction of its own: no caller ever says BEGIN.                      *)
(***************************************************************************)
EXTENDS Integers, Sequences, FiniteSets

CONSTANTS
  Titles,    \* ids that MPS_IS_TITLE_ID accepts
  Folders,   \* ids that MPS_IS_FILE_PATH_ID or MPS_IS_ALBUM_ID accepts
  OtherIds   \* ids none of the three accepts: they are logged and skipped

ASSUME IdRangesDisjoint ==
  /\ Titles \cap Folders = {}
  /\ OtherIds \cap (Titles \cup Folders) = {}

\* libmpsserver.h: entry ids that stand for a place, and the count "all".
EMPTY     == -100
BEGINNING == -101
END       == -102
ALL       == -103
FAILURE   == -1

EntryId == Nat \ {0}
Item    == Titles \cup Folders \cup OtherIds

\* The BEGINNING row carries title_id 0.
NoTitle == "no title"
Row     == [id : Int, title : Titles \cup {NoTitle}, next : Int]

\* mps_playlist_open on a missing file: create the table, add the BEGINNING row.
InitialTable == [k \in {1} |-> [id |-> BEGINNING, title |-> NoTitle, next |-> END]]

RowIds(rows) == {rows[k].id : k \in DOMAIN rows}

\* select ... where playlist_entry_id = id: the row that answers is k.
Selects(rows, id, k) ==
  /\ k \in DOMAIN rows
  /\ rows[k].id = id
  /\ \A j \in DOMAIN rows : rows[j].id = id => k <= j

HasRow(rows, id) == \E k \in DOMAIN rows : rows[k].id = id

\* select count( * ) ... where playlist_entry_id != BEGINNING, as "is it 0".
NoEntries(rows) == \A k \in DOMAIN rows : rows[k].id = BEGINNING

\* select max(playlist_entry_id), over all rows, the BEGINNING row included.
IsMaxId(rows, m) ==
  /\ m \in RowIds(rows)
  /\ \A k \in DOMAIN rows : rows[k].id <= m

\* update ... set next = new where next = old
Relink(rows, old, new) ==
  [k \in DOMAIN rows |->
     IF rows[k].next = old THEN [rows[k] EXCEPT !.next = new] ELSE rows[k]]

\* insert ... values (row); top is the largest rowid in use
Insert(rows, top, row) ==
  [k \in DOMAIN rows \cup {top + 1} |-> IF k = top + 1 THEN row ELSE rows[k]]

IsTopRow(rows, top) ==
  /\ top \in DOMAIN rows
  /\ \A k \in DOMAIN rows : k <= top

\* delete ... where playlist_entry_id = id
Delete(rows, id) ==
  [k \in {j \in DOMAIN rows : rows[j].id # id} |-> rows[k]]

-----------------------------------------------------------------------------
(***************************************************************************)
(* What the rows mean: a playlist is a sequence of entries [id, title].    *)
(***************************************************************************)
Entry == [id : Int, title : Titles \cup {NoTitle}]

\* The ids a playlist links: BEGINNING, then its entries, then END.
IdAt(list, i) ==
  IF i = 0 THEN BEGINNING
  ELSE IF i = Len(list) + 1 THEN END
  ELSE list[i].id

\* The playlist with e put before its p-th entry (p = Len + 1: at the end).
InsertAt(list, p, e) ==
  [i \in 1..(Len(list) + 1) |->
     IF i < p THEN list[i] ELSE IF i = p THEN e ELSE list[i - 1]]

\* The playlist without the entries a .. m-1.
CutSlice(list, a, m) ==
  [i \in 1..(Len(list) - (m - a)) |-> IF i < a THEN list[i] ELSE list[i + (m - a)]]
=============================================================================
