----------------------------- MODULE PlaylistSeq -----------------------------
(***************************************************************************)
(* What the playlist library promises: a sequence of entries with distinct *)
(* positive ids.  One step puts one new entry at some place or takes a run *)
(* of neighbouring entries out; nothing is ever reordered, duplicated or   *)
(* replaced, and an id in the list is never given to a second entry.       *)
(***************************************************************************)
EXTENDS PlaylistTable

VARIABLE order

Init == order = << >>

Fresh(id) == id \in EntryId /\ \A i \in 1..Len(order) : order[i].id < id

Put(p, e) ==
  /\ p \in 1..(Len(order) + 1)
  /\ Fresh(e.id)
  /\ order' = InsertAt(order, p, e)

Take(a, m) ==
  /\ a \in 1..(Len(order) + 1)
  /\ m \in a..(Len(order) + 1)
  /\ order' = CutSlice(order, a, m)

Next ==
  \/ \E p \in 1..(Len(order) + 1), e \in {order'[i] : i \in DOMAIN order'} : Put(p, e)
  \/ \E a, m \in 1..(Len(order) + 1) : Take(a, m)

Spec == Init /\ [][Next]_order
=============================================================================
