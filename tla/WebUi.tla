-------------------------------- MODULE WebUi --------------------------------
(***************************************************************************)
(* The page of the web interface (uiutils.js, mpsutils.js), the CGI        *)
(* commands it requests, and the change counter they talk about.           *)
(*                                                                         *)
(*   page     asks for a summary every second and for the playlist when    *)
(*            the summary says something is new; a press sends a command   *)
(*            and asks for the playlist when that is done                  *)
(*   others   mps-playlist and mps-player commands from elsewhere          *)
(*                                                                         *)
(* Each request is a process of its own: requests are served side by side  *)
(* and answered in any order.  A playlist is the number of changes that    *)
(* led to it; each activation of an add with folders counts, and is one.   *)
(* The changes of the table come one after the other, as in PlaylistDb     *)
(* with one writer; the accesses to the counter, which is no part of the   *)
(* table, do not.  A step that nobody sees apart from the next is not one  *)
(* of its own.  The library half of the page is left out.                  *)
(***************************************************************************)
EXTENDS Integers, Sequences, FiniteSets

CONSTANTS
  Entries,      \* what the player's current entry may be
  First,        \* ... and is when the page is opened
  MaxInFlight,  \* bound: requests of the page under way
  MaxEvents,    \* bound: presses, commands of others, moves of the player
  MaxFailures   \* bound: requests and queries that fail, adds that stop half way

ASSUME WebUiConstantsOK ==
  /\ First \in Entries
  /\ MaxInFlight \in Nat \ {0} /\ MaxEvents \in Nat /\ MaxFailures \in Nat

VARIABLES
  version,   \* changes of the playlist so far
  counter,   \* playlist_status.change_counter
  current,   \* player_status.current_playlist_entry_id
  changing,  \* is a command changing the table?
  counting,  \* commands that have made their change and are to count it
  flight,    \* requests of the page that read, in the order they were sent
  page,      \* what the page shows, and its globals current_id and playlist_change_counter
  events, failures,
  blind      \* history: why the page may show an old or broken list and not notice

vars == <<version, counter, current, changing, counting, flight, page, events, failures, blind>>

\* The page before the first list has come.
NoEntry == "0"

\* ver: the number of the change; seen: the counter loaded.
Count == [ver : Nat, at : {"load", "store"}, seen : Nat]

\* seen: the counter the process read; cur: the current entry; ver, whole: the playlist, if
\* it is one and no mixture of several.
Request == [kind : {"summary", "get"}, at : {"sent", "begun", "answered"}, seen : Nat,
            cur : Entries \cup {NoEntry}, ver : Nat, whole : BOOLEAN]

Get == [kind |-> "get", at |-> "sent", seen |-> 0, cur |-> NoEntry, ver |-> 0, whole |-> TRUE]

TypeOK ==
  /\ version \in 0..MaxEvents /\ counter \in 0..MaxEvents /\ current \in Entries
  /\ changing \in BOOLEAN /\ counting \subseteq Count
  /\ flight \in Seq(Request)
  /\ page \in [ver : -1..version, whole : BOOLEAN, cur : Entries \cup {NoEntry},
               pcc : 0..MaxEvents]
  /\ events \in 0..MaxEvents /\ failures \in 0..MaxFailures
  /\ blind \subseteq {"missed", "backwards"}

\* index.html: the page is opened and asks for the playlist.
Init ==
  /\ version = 0 /\ counter = 0 /\ current = First
  /\ changing = FALSE /\ counting = {}
  /\ flight = <<Get>>
  /\ page = [ver |-> -1, whole |-> TRUE, cur |-> NoEntry, pcc |-> 0]
  /\ events = 0 /\ failures = 0
  /\ blind = {}

Event   == events < MaxEvents /\ events' = events + 1 /\ UNCHANGED failures
Failure == failures < MaxFailures /\ failures' = failures + 1 /\ UNCHANGED events
Free    == UNCHANGED <<events, failures>>

Send(r) == Len(flight) < MaxInFlight /\ flight' = Append(flight, r)
MaybeAsk == UNCHANGED flight \/ Send(Get)
Drop(i) == SubSeq(flight, 1, i - 1) \o SubSeq(flight, i + 1, Len(flight))
Becomes(i, r) == flight' = [flight EXCEPT ![i] = r]
At(i, stage) == i \in DOMAIN flight /\ flight[i].at = stage
Goes(i, stage) == [flight[i] EXCEPT !.at = stage]

Stands == UNCHANGED <<version, counter, changing, counting>>
Reads  == UNCHANGED <<current, page, blind>> /\ Stands /\ Free

-----------------------------------------------------------------------------
(***************************************************************************)
(* Commands that change the playlist, of a button or from elsewhere.       *)
(***************************************************************************)
\* The stop that remove all begins with is a move of the player of its own.
StartChange ==
  /\ Event
  /\ ~ changing
  /\ changing' = TRUE
  /\ UNCHANGED <<version, counter, current, counting, flight, page, blind>>

\* Mutant: the change is not counted.
ChangeUncounted ==
  /\ changing
  /\ changing' = FALSE
  /\ version' = version + 1
  /\ UNCHANGED <<counter, counting, current, flight, page, blind>> /\ Free

Change ==
  /\ changing
  /\ changing' = FALSE
  /\ version' = version + 1
  /\ counting' = counting \cup {[ver |-> version', at |-> "load", seen |-> 0]}
  /\ UNCHANGED <<counter, current, flight, page, blind>> /\ Free

\* An add that fails when some of its entries are in is not counted.
ChangeFails ==
  /\ changing
  /\ Failure
  /\ changing' = FALSE
  /\ version' = version + 1
  /\ blind' = blind \cup {"missed"}
  /\ UNCHANGED <<counter, counting, current, flight, page>>

\* change_counter++: a load and a store.
LoadCounter(c) ==
  /\ c.at = "load"
  /\ counting' = (counting \ {c}) \cup {[c EXCEPT !.at = "store", !.seen = counter]}
  /\ UNCHANGED <<version, counter, current, changing, flight, page, blind>> /\ Free

\* Mutant: an add counts itself and the entry it made.
StoreCounterTwice(c) ==
  /\ c.at = "store"
  /\ counting' = counting \ {c}
  /\ counter' = c.seen + 2
  /\ blind' = IF counter' < counter THEN blind \cup {"backwards"} ELSE blind
  /\ MaybeAsk
  /\ UNCHANGED <<version, current, changing, page>> /\ Free

\* The command ends; the page that pressed a button asks for the list, if the answer comes.
StoreCounter(c) ==
  /\ c.at = "store"
  /\ counting' = counting \ {c}
  /\ counter' = c.seen + 1
  /\ blind' = IF counter' < counter THEN blind \cup {"backwards"} ELSE blind
  /\ MaybeAsk
  /\ UNCHANGED <<version, current, changing, page>> /\ Free

\* The player goes to another entry by itself or by a command; of a button that moves it
\* comes a request for the list, unless it waits for ever for one exact entry to be current.
PlayerMoves ==
  /\ Event
  /\ current' \in Entries
  /\ MaybeAsk
  /\ UNCHANGED <<page, blind>> /\ Stands

ChangeGoesOn == Change \/ \E c \in counting : LoadCounter(c) \/ StoreCounter(c)

-----------------------------------------------------------------------------
(***************************************************************************)
(* Commands that read.                                                     *)
(***************************************************************************)
\* doPeriodicUiUpdate, every second, whatever has become of the requests before: get
\* summary reads the counter first, the player's status last.
Tick ==
  /\ Send([Get EXCEPT !.kind = "summary", !.at = "begun", !.seen = counter])
  /\ Reads

EndSummary(i) ==
  /\ At(i, "begun") /\ flight[i].kind = "summary"
  /\ Becomes(i, [Goes(i, "answered") EXCEPT !.cur = current])
  /\ Reads

BeginGet(i) ==
  /\ At(i, "sent")
  /\ Becomes(i, [Goes(i, "begun") EXCEPT !.cur = current, !.ver = version])
  /\ Reads

\* A get no change disturbed and no query failed in returns the playlist, any other one of
\* those it met or a mixture of them.
EndGet(i) ==
  /\ At(i, "begun") /\ flight[i].kind = "get"
  /\ \/ \E v \in flight[i].ver..version :
          Becomes(i, [Goes(i, "answered") EXCEPT !.ver = v])
     \/ /\ changing \/ flight[i].ver < version
        /\ Becomes(i, [Goes(i, "answered") EXCEPT !.whole = FALSE])
  /\ Reads

\* A SELECT of the get fails, and nobody looks at its result: the entries read before are
\* printed as if they were all.  When it is the first, the pointer to the list is unset, and
\* the process dies of it or prints what is there.
GetFails(i) ==
  /\ At(i, "begun") /\ flight[i].kind = "get"
  /\ Failure
  /\ \/ Becomes(i, [Goes(i, "answered") EXCEPT !.whole = FALSE])
     \/ flight' = Drop(i)
  /\ blind' = blind \cup {"missed"}
  /\ UNCHANGED <<current, page>> /\ Stands

Serve(i) == EndSummary(i) \/ BeginGet(i) \/ EndGet(i)

-----------------------------------------------------------------------------
(***************************************************************************)
(* The page receives.                                                      *)
(***************************************************************************)
\* Mutant: only the counter is compared.
SummaryComparesCounter(i) ==
  /\ At(i, "answered") /\ flight[i].kind = "summary"
  /\ page' = [page EXCEPT !.pcc = flight[i].seen]
  /\ flight' = IF flight[i].seen # page.pcc THEN Append(Drop(i), Get) ELSE Drop(i)
  /\ UNCHANGED <<current, blind>> /\ Stands /\ Free

\* Mutant: only the current entry is compared.
SummaryComparesEntry(i) ==
  /\ At(i, "answered") /\ flight[i].kind = "summary"
  /\ page' = [page EXCEPT !.pcc = flight[i].seen]
  /\ flight' = IF flight[i].cur # page.cur THEN Append(Drop(i), Get) ELSE Drop(i)
  /\ UNCHANGED <<current, blind>> /\ Stands /\ Free

\* The new counter is stored at once, the list it announces is asked for.
Summary(i) ==
  /\ At(i, "answered") /\ flight[i].kind = "summary"
  /\ page' = [page EXCEPT !.pcc = flight[i].seen]
  /\ flight' = IF flight[i].cur # page.cur \/ flight[i].seen # page.pcc
               THEN Append(Drop(i), Get) ELSE Drop(i)
  /\ UNCHANGED <<current, blind>> /\ Stands /\ Free

\* updatePlaylistDisplay shows whatever list comes.
Playlist(i) ==
  /\ At(i, "answered") /\ flight[i].kind = "get"
  /\ LET got == flight[i]
         newest == got.ver = version /\ got.whole
         older == got.ver < page.ver \/ (got.ver = page.ver /\ page.whole /\ ~ got.whole)
     IN /\ page' = [page EXCEPT !.ver = got.ver, !.whole = got.whole, !.cur = got.cur]
        /\ blind' = IF newest THEN blind \cap {"backwards"}
                    ELSE IF older THEN blind \cup {"missed"} ELSE blind
  /\ flight' = Drop(i)
  /\ UNCHANGED current /\ Stands /\ Free

\* No answer, or one with another status than 200: the page does nothing.  A summary that
\* is lost is as one not asked for.
LostGet(i) ==
  /\ At(i, "sent")
  /\ Failure
  /\ flight' = Drop(i)
  /\ blind' = blind \cup {"missed"}
  /\ UNCHANGED <<current, page>> /\ Stands

Deliver(i) == Summary(i) \/ Playlist(i)

Next ==
  \/ StartChange \/ ChangeGoesOn \/ ChangeFails \/ PlayerMoves \/ Tick
  \/ \E i \in DOMAIN flight : Serve(i) \/ Deliver(i) \/ GetFails(i) \/ LostGet(i)

Spec == Init /\ [][Next]_vars

\* The interval timer runs, commands come to their end, and answers arrive: the oldest
\* request is served and delivered.
FairSpec ==
  /\ Spec
  /\ WF_vars(Tick)
  /\ WF_vars(ChangeGoesOn)
  /\ WF_vars(Serve(1)) /\ WF_vars(Deliver(1))

-----------------------------------------------------------------------------
(***************************************************************************)
(* Properties.                                                             *)
(***************************************************************************)
ShowsList == page.ver = version /\ page.whole

\* When the page has the counter's value and no list, press or change is under way, the
\* page shows the playlist - but for a list it asked for and did not get, or got broken off
\* where a query failed, an older one that came after a newer, a change that was not counted,
\* and a counter two processes took back.
Quiet == ~ changing /\ counting = {} /\ \A i \in DOMAIN flight : flight[i].kind = "summary"
ShowsLatest == Quiet /\ page.pcc = counter /\ blind = {} => ShowsList

\* With the same exceptions every change comes to be shown, also when increments of the
\* counter are lost.
ListSettles == <>[](blind = {}) => <>[]ShowsList

\* Of the current entry there is no exception: it is remembered from the list that shows it,
\* so a list that is lost or overtaken is asked for again, and a broken one names it too.
CurrentSettles == <>[](page.cur = current)
=============================================================================
