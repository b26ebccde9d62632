-------------------------------- MODULE Player --------------------------------
(***************************************************************************)
(* mps-server's main loop, the commands of libmpsserver-player.c and the   *)
(* playlist they share.                                                    *)
(*                                                                         *)
(*   server    one process: the outer loop chooses an entry, opens its     *)
(*             file and stays in the inner loop while the track plays      *)
(*   Clients   mps-player processes: they write the one control message in *)
(*             shared memory, raise SIGUSR1 and poll player_status         *)
(*   Writers   mps-playlist processes, as in PlaylistDb                    *)
(*                                                                         *)
(* One action is one access to shared memory, one SQL statement, or one    *)
(* test of the signal flag, with the local code up to the next one.  Two   *)
(* accesses fall together only where no other process can see a            *)
(* difference.  Streams (element_type is never set) are left out.          *)
(***************************************************************************)
EXTENDS PlaylistDb

CONSTANTS
  Clients,
  Unopened,     \* titles whose file is gone from the disk
  FailingQueries,  \* the steps of the server and of clients whose query may fail
  Commands,     \* [op, skip] a client may be asked for
  MaxCommands   \* bound: player commands started

\* player_status.state
Stopped == "stopped"  Paused == "paused"  Playing == "playing"
States == {Stopped, Paused, Playing}
Skips  == {"absolute", "current", "next", "previous"}
Ops    == {"stop", "pause", "play"}

ASSUME PlayerConstantsOK ==
  /\ Unopened \subseteq Titles
  /\ FailingQueries \subseteq
       {"advance", "recount", "row", "last", "lastrow", "count", "title", "expect"}
  /\ Commands \subseteq [op : Ops, skip : Skips]
  /\ MaxCommands \in Nat

VARIABLES
  state, current, previous,       \* player_status in shared memory
  opcode, skipMethod, entryId,    \* the control message in shared memory
  intflag,    \* server: SIGUSR1 came
  at,         \* server: its next step
  skipFlag,   \* server: how to choose the entry to play next
  query,      \* server: the entry id its playlist query is about
  file,       \* server: what fname names
  cl,         \* per client: the locals of its command
  asked,      \* commands started so far
  written,    \* history: the entry ids clients have put into a message
  unread,     \* history: a signal was raised since the server last read the opcode
  missed,     \* history: the outer loop cleared the flag of such a signal
  strayed,    \* history: a SELECT for the entry to play has failed
  calm        \* history: since the track was opened no command came, no row changed and
              \* no SELECT for the entry to play failed

statusvars == <<state, current, previous>>
ctlvars    == <<opcode, skipMethod, entryId>>
srvvars    == <<intflag, at, skipFlag, query, file>>
clvars     == <<cl, asked, written>>
playervars == <<vars, statusvars, ctlvars, srvvars, clvars, unread, missed, strayed, calm>>

ServerSteps ==
  {"signal", "skip", "rewind", "clear", "advance", "recount", "row", "last", "lastrow",
   "count", "title", "open", "play", "command", "turn", "stop"}
ClientSteps ==
  {"idle", "opcode", "skip", "entry", "kill", "expect", "recount", "row", "state", "current"}

\* fname before the first look-up, and after one of a title the library lacks.
NoFile == "no such file"

Client  == [pc : ClientSteps, op : Ops, skip : Skips, id : Int, start : Int, want : Int]

PlayerTypeOK ==
  /\ TypeOK
  /\ state \in States /\ current \in Int /\ previous \in Int
  /\ opcode \in Ops /\ skipMethod \in Skips /\ entryId \in Int
  /\ intflag \in BOOLEAN /\ at \in ServerSteps /\ skipFlag \in Skips /\ query \in Int
  /\ file \in Titles \cup {NoFile}
  /\ cl \in [Clients -> Client]
  /\ asked \in 0..MaxCommands
  /\ written \subseteq Int
  /\ unread \in BOOLEAN /\ missed \in BOOLEAN /\ strayed \in BOOLEAN /\ calm \in BOOLEAN

\* initialize_shared_memory_server: all zero bytes, then state and the two ids.
PlayerInit ==
  /\ Init
  /\ state = Playing /\ current = EMPTY /\ previous = EMPTY
  /\ opcode = "stop" /\ skipMethod = "absolute" /\ entryId = 0
  /\ intflag = FALSE /\ at = "signal" /\ skipFlag = "next" /\ query = EMPTY
  /\ file = NoFile
  /\ cl = [c \in Clients |-> [pc |-> "idle", op |-> "stop", skip |-> "absolute",
                              id |-> 0, start |-> EMPTY, want |-> EMPTY]]
  /\ asked = 0
  /\ written = {}
  /\ unread = FALSE /\ missed = FALSE /\ strayed = FALSE /\ calm = FALSE

-----------------------------------------------------------------------------
(***************************************************************************)
(* mps_playlist_get_next_id, _get_previous_id and _get_last_id: a count,   *)
(* then perhaps a select.  AtOnce(fn, id) is what they answer without the  *)
(* select, ByRow(fn, id) what the select answers.  Any of them may fail: a *)
(* failed count is -1, which is not 0, and the function goes on; a failed  *)
(* select is answered with -1, as is one that finds no row.                *)
(***************************************************************************)
AtOnce(fn, id) ==
  CASE fn = "next" /\ id = END           -> {END}
    [] fn = "previous" /\ id = BEGINNING -> {BEGINNING}
    [] OTHER                             -> IF NoEntries(rows) THEN {EMPTY} ELSE {}

\* The count of a step is not 0.
SeemsFilled(step) == ~ NoEntries(rows) \/ step \in FailingQueries

\* The function needs its select too; of END it asks for the last entry, which counts again.
NeedsRow(step, fn, id) ==
  /\ ~ (fn = "next" /\ id = END) /\ ~ (fn = "previous" /\ id = BEGINNING)
  /\ SeemsFilled(step)
AfterCount(fn, id) == IF fn = "previous" /\ id = END THEN "recount" ELSE "row"

\* The row whose next is id: the first match of the scan.
SelectsLink(id, k) ==
  /\ k \in DOMAIN rows
  /\ rows[k].next = id
  /\ \A j \in DOMAIN rows : rows[j].next = id => k <= j

\* Mutant: the successor is taken from the order of insertion.
NextByRowid(id) ==
  LET from == IF id = EMPTY THEN BEGINNING ELSE id IN
  IF HasRow(rows, from) /\ \E j, k \in DOMAIN rows : Selects(rows, from, j) /\ k > j
  THEN rows[CHOOSE k \in DOMAIN rows :
              \E j \in DOMAIN rows : Selects(rows, from, j) /\ k > j
                 /\ \A l \in DOMAIN rows : l > j => k <= l].id
  ELSE IF HasRow(rows, from) THEN END ELSE FAILURE

NextByRow(id) ==
  LET from == IF id = EMPTY THEN BEGINNING ELSE id IN
  IF HasRow(rows, from)
  THEN rows[CHOOSE k \in DOMAIN rows : Selects(rows, from, k)].next
  ELSE FAILURE

LinkedFrom(id) ==
  IF \E k \in DOMAIN rows : rows[k].next = id
  THEN rows[CHOOSE k \in DOMAIN rows : SelectsLink(id, k)].id
  ELSE FAILURE

PreviousByRow(id) ==
  IF id = END THEN LinkedFrom(END)
  ELSE IF LinkedFrom(id) = BEGINNING THEN id
  ELSE LinkedFrom(id)

ByRow(fn, id) == IF fn = "next" THEN NextByRow(id) ELSE PreviousByRow(id)

-----------------------------------------------------------------------------
(***************************************************************************)
(* The server: top of the outer loop, a command that comes between tracks. *)
(***************************************************************************)
ServerStays == UNCHANGED <<vars, ctlvars, clvars, strayed>>

\* if (intflag): read the opcode and set the state.
Signal ==
  /\ at = "signal"
  /\ \/ /\ ~ intflag
        /\ at' = "advance"
        /\ UNCHANGED <<state, unread>>
     \/ /\ intflag
        /\ state' = CASE opcode = "play" -> Playing [] opcode = "stop" -> Stopped
                      [] opcode = "pause" -> Paused
        /\ at' = CASE opcode = "play" -> "skip" [] opcode = "stop" -> "rewind"
                   [] opcode = "pause" -> "clear"
        /\ unread' = FALSE
  /\ UNCHANGED <<current, previous, intflag, skipFlag, query, file, missed, calm>>
  /\ ServerStays

\* Mutant: the wrong field of the message is read.
ReadSkipFromOpcode ==
  /\ at = "skip"
  /\ skipFlag' = opcode
  /\ at' = "clear"
  /\ UNCHANGED <<statusvars, intflag, query, file, unread, missed, calm>>
  /\ ServerStays

ReadSkip ==
  /\ at = "skip"
  /\ skipFlag' = skipMethod
  /\ at' = "clear"
  /\ UNCHANGED <<statusvars, intflag, query, file, unread, missed, calm>>
  /\ ServerStays

Rewind ==
  /\ at \in {"rewind", "stop"}
  /\ current' = BEGINNING
  /\ at' = IF at = "rewind" THEN "clear" ELSE "signal"
  /\ UNCHANGED <<state, previous, intflag, skipFlag, query, file, unread, missed, calm>>
  /\ ServerStays

\* intflag = FALSE, after the message was read: a signal raised since then is gone.
Clear ==
  /\ at = "clear"
  /\ intflag' = FALSE
  /\ missed' = (missed \/ unread)
  /\ at' = "advance"
  /\ UNCHANGED <<statusvars, skipFlag, query, file, unread, calm>>
  /\ ServerStays

(***************************************************************************)
(* The server: choose the entry.                                           *)
(***************************************************************************)
\* Mutant: at the end of the list the server asks for what follows the end.
AsksCurrent == current

Asks == IF skipFlag = "next" /\ current = END THEN previous ELSE current

\* Mutant: the way to choose is not reset to the next song.
ArriveKeepsSkip(id) ==
  /\ current' = id
  /\ previous' = IF skipFlag = "next" /\ current # END THEN current ELSE previous
  /\ at' = "last"
  /\ UNCHANGED skipFlag

\* The entry is chosen; the one left is remembered, unless the list had ended.
Arrive(id) ==
  /\ current' = id
  /\ previous' = IF skipFlag = "next" /\ current # END THEN current ELSE previous
  /\ skipFlag' = "next"
  /\ at' = "last"

\* Mutant: the entry is chosen without looking at the state.
AdvanceAlways ==
  /\ at = "advance"
  /\ \/ skipFlag = "current" /\ at' = "last" /\ skipFlag' = "next"
        /\ UNCHANGED <<current, previous, query>>
     \/ skipFlag = "absolute" /\ Arrive(entryId) /\ UNCHANGED query
     \/ /\ skipFlag \in {"next", "previous"}
        /\ \/ \E id \in AtOnce(skipFlag, Asks) : Arrive(id) /\ UNCHANGED query
           \/ /\ NeedsRow("advance", skipFlag, Asks)
              /\ query' = Asks
              /\ at' = AfterCount(skipFlag, Asks)
              /\ UNCHANGED <<current, previous, skipFlag>>
  /\ UNCHANGED <<state, intflag, file, unread, missed, calm>>
  /\ ServerStays

Advance ==
  /\ at = "advance"
  /\ \/ /\ state # Playing \/ skipFlag = "current"
        /\ at' = "last" /\ skipFlag' = "next"
        /\ UNCHANGED <<current, previous, query>>
     \/ /\ state = Playing /\ skipFlag = "absolute"
        /\ Arrive(entryId)
        /\ UNCHANGED query
     \/ /\ state = Playing /\ skipFlag \in {"next", "previous"}
        /\ \/ \E id \in AtOnce(skipFlag, Asks) : Arrive(id) /\ UNCHANGED query
           \/ /\ NeedsRow("advance", skipFlag, Asks)
              /\ query' = Asks
              /\ at' = AfterCount(skipFlag, Asks)
              /\ UNCHANGED <<current, previous, skipFlag>>
  /\ UNCHANGED <<state, intflag, file, unread, missed, calm>>
  /\ ServerStays

\* mps_playlist_get_last_id counts for itself.
Recount ==
  /\ at = "recount"
  /\ \/ NoEntries(rows) /\ Arrive(EMPTY)
     \/ SeemsFilled("recount") /\ at' = "row" /\ UNCHANGED <<current, previous, skipFlag>>
  /\ UNCHANGED <<state, intflag, query, file, unread, missed, calm>>
  /\ ServerStays

AdvanceRow ==
  /\ at = "row"
  /\ Arrive(ByRow(skipFlag, query))
  /\ UNCHANGED <<state, intflag, query, file, unread, missed, calm>>
  /\ ServerStays

\* The select fails: its -1 becomes the current entry like any other answer.
AdvanceFails ==
  /\ at = "row"
  /\ "row" \in FailingQueries
  /\ Arrive(FAILURE)
  /\ strayed' = TRUE /\ calm' = FALSE
  /\ UNCHANGED <<state, intflag, query, file, unread, missed>>
  /\ UNCHANGED <<vars, ctlvars, clvars>>

ServerGoes(step) ==
  /\ at' = step
  /\ UNCHANGED <<statusvars, intflag, skipFlag, query, file, unread, missed, calm>>
  /\ ServerStays

\* Has the list ended with its last entry?  Then wait and look again.  The answer of
\* the query only counts when current is END.
AtEnd ==
  /\ at = "last"
  /\ \/ current # END /\ ServerGoes("count")
     \/ current = END /\ SeemsFilled("last") /\ ServerGoes("lastrow")
     \/ /\ current = END /\ NoEntries(rows)
        /\ ServerGoes(IF previous = EMPTY THEN "signal" ELSE "count")

AtEndRow ==
  /\ at = "lastrow"
  /\ \E last \in {LinkedFrom(END)} \cup IF "lastrow" \in FailingQueries THEN {FAILURE} ELSE {} :
       ServerGoes(IF previous = last THEN "signal" ELSE "count")

\* An empty playlist, or a player that is not playing: wait and look again.
CheckCount ==
  /\ at = "count"
  /\ \/ NoEntries(rows) /\ ServerGoes("signal")
     \/ SeemsFilled("count") /\ ServerGoes(IF state # Playing THEN "signal" ELSE "title")

\* The title of the entry and the path of its file.  No row, or a query that fails: -1 is
\* no title id and fname keeps its value.  The BEGINNING row, whose title 0 the library does
\* not have, or a query of the library that fails: the name it appends to fname was never set
\* (empty, or something).
Lookup ==
  /\ at = "title"
  /\ \/ \E k \in DOMAIN rows :
          /\ Selects(rows, current, k)
          /\ file' \in IF rows[k].title = NoTitle THEN {file, NoFile} ELSE {rows[k].title}
     \/ ~ HasRow(rows, current) /\ UNCHANGED file
     \/ "title" \in FailingQueries /\ file' \in {file, NoFile}
  /\ at' = "open"
  /\ UNCHANGED <<statusvars, intflag, skipFlag, query, unread, missed, calm>>
  /\ ServerStays

Whole == \A w \in Writers : pc[w] \notin {"insert", "rnext", "rdelete", "rrelink"}
Ids   == {order[p].id : p \in 1..Len(order)}

\* open_track: a file that cannot be opened sends the server back to choose the next.
Open ==
  /\ at = "open"
  /\ \/ /\ file \in Titles \ Unopened
        /\ at' = "play"
        /\ calm' = (Whole /\ ~ intflag /\ current \in Ids)
     \/ /\ file \notin Titles \ Unopened
        /\ at' = "signal"
        /\ UNCHANGED calm
  /\ UNCHANGED <<statusvars, intflag, skipFlag, query, file, unread, missed>>
  /\ ServerStays

(***************************************************************************)
(* The server: the inner loop, a command that comes during a track.        *)
(***************************************************************************)
\* play_frame has no more: the track has ended.
TrackEnds ==
  /\ at = "play"
  /\ ~ intflag
  /\ state # Paused
  /\ ServerGoes("signal")

\* intflag = FALSE comes first here.
TakeSignal ==
  /\ at = "play"
  /\ intflag
  /\ intflag' = FALSE
  /\ at' = "command"
  /\ UNCHANGED <<statusvars, skipFlag, query, file, unread, missed, calm>>
  /\ ServerStays

Command ==
  /\ at = "command"
  /\ state' = CASE opcode = "play" -> Playing [] opcode = "stop" -> Stopped
                [] opcode = "pause" -> Paused
  /\ at' = CASE opcode = "play" -> "turn" [] opcode = "stop" -> "stop"
             [] opcode = "pause" -> "play"
  /\ unread' = FALSE
  /\ UNCHANGED <<current, previous, intflag, skipFlag, query, file, missed, calm>>
  /\ ServerStays

\* Mutant: the flag is cleared after the message was read, as the outer loop does.
TurnClearsLate ==
  /\ at = "turn"
  /\ intflag' = FALSE
  /\ \/ skipMethod = "current" /\ at' = "play" /\ UNCHANGED skipFlag
     \/ skipMethod # "current" /\ at' = "signal" /\ skipFlag' = skipMethod
  /\ UNCHANGED <<statusvars, query, file, unread, missed, calm>>
  /\ ServerStays

\* play current only unpauses; any other skip ends the track.
Turn ==
  /\ at = "turn"
  /\ \/ skipMethod = "current" /\ at' = "play" /\ UNCHANGED skipFlag
     \/ skipMethod # "current" /\ at' = "signal" /\ skipFlag' = skipMethod
  /\ UNCHANGED <<statusvars, intflag, query, file, unread, missed, calm>>
  /\ ServerStays

ServerStep ==
  \/ Signal \/ ReadSkip \/ Rewind \/ Clear
  \/ Advance \/ Recount \/ AdvanceRow \/ AdvanceFails
  \/ AtEnd \/ AtEndRow \/ CheckCount \/ Lookup \/ Open
  \/ TrackEnds \/ TakeSignal \/ Command \/ Turn

-----------------------------------------------------------------------------
(***************************************************************************)
(* A client: generic_command and generic_play_command.                     *)
(***************************************************************************)
ClientStays == UNCHANGED <<vars, statusvars, at, skipFlag, query, file, missed, strayed>>
Step(c, step) == cl' = [cl EXCEPT ![c].pc = step]
Is(c, step) == cl[c].pc = step

Begin(c, cmd, id) ==
  /\ Is(c, "idle")
  /\ asked < MaxCommands
  /\ asked' = asked + 1
  /\ cl' = [cl EXCEPT ![c] = [pc |-> "opcode", op |-> cmd.op, skip |-> cmd.skip, id |-> id,
                              start |-> IF cmd.op = "play" THEN current ELSE EMPTY,
                              want |-> EMPTY]]
  /\ UNCHANGED <<ctlvars, intflag, written, unread, calm>>
  /\ ClientStays

WriteOpcode(c) ==
  /\ Is(c, "opcode")
  /\ opcode' = cl[c].op
  /\ Step(c, IF cl[c].op = "play" THEN "skip" ELSE "kill")
  /\ UNCHANGED <<skipMethod, entryId, intflag, asked, written, unread, calm>>
  /\ ClientStays

\* Mutant: the entry id is left out of the message.
WriteSkipOnly(c) ==
  /\ Is(c, "skip")
  /\ skipMethod' = cl[c].skip
  /\ Step(c, "kill")
  /\ UNCHANGED <<opcode, entryId, intflag, asked, written, unread, calm>>
  /\ ClientStays

WriteSkip(c) ==
  /\ Is(c, "skip")
  /\ skipMethod' = cl[c].skip
  /\ Step(c, IF cl[c].skip = "absolute" THEN "entry" ELSE "kill")
  /\ UNCHANGED <<opcode, entryId, intflag, asked, written, unread, calm>>
  /\ ClientStays

WriteEntry(c) ==
  /\ Is(c, "entry")
  /\ entryId' = cl[c].id
  /\ written' = written \cup {cl[c].id}
  /\ Step(c, "kill")
  /\ UNCHANGED <<opcode, skipMethod, intflag, asked, unread, calm>>
  /\ ClientStays

\* kill(pid, SIGUSR1): signals do not queue.
Kill(c) ==
  /\ Is(c, "kill")
  /\ intflag' = TRUE
  /\ unread' = TRUE
  /\ calm' = FALSE
  /\ Step(c, IF cl[c].op = "play" THEN "expect" ELSE "state")
  /\ UNCHANGED <<ctlvars, asked, written>>
  /\ ClientStays

ClientLocal(c) ==
  /\ UNCHANGED <<ctlvars, intflag, asked, written, unread, calm>>
  /\ ClientStays

Wants(c, id) ==
  cl' = [cl EXCEPT ![c].pc = "state",
           ![c].want = IF cl[c].skip = "previous" /\ id = BEGINNING THEN cl[c].start ELSE id]

\* The entry the client then waits for, asked of the playlist after the signal.
Expect(c) ==
  /\ Is(c, "expect")
  /\ \/ cl[c].skip = "absolute" /\ Wants(c, cl[c].id)
     \/ cl[c].skip = "current" /\ Wants(c, cl[c].start)
     \/ /\ cl[c].skip \in {"next", "previous"}
        /\ \/ \E id \in AtOnce(cl[c].skip, cl[c].start) : Wants(c, id)
           \/ /\ NeedsRow("expect", cl[c].skip, cl[c].start)
              /\ Step(c, AfterCount(cl[c].skip, cl[c].start))
  /\ ClientLocal(c)

ExpectLast(c) ==
  /\ Is(c, "recount")
  /\ \/ NoEntries(rows) /\ Wants(c, EMPTY)
     \/ SeemsFilled("recount") /\ Step(c, "row")
  /\ ClientLocal(c)

ExpectRow(c) ==
  /\ Is(c, "row")
  /\ \/ Wants(c, ByRow(cl[c].skip, cl[c].start))
     \/ "row" \in FailingQueries /\ Wants(c, FAILURE)
  /\ ClientLocal(c)

Expected(c) == CASE cl[c].op = "play" -> Playing [] cl[c].op = "stop" -> Stopped
                 [] cl[c].op = "pause" -> Paused

SeesState(c) ==
  /\ Is(c, "state")
  /\ state = Expected(c)
  /\ Step(c, IF cl[c].op = "play" THEN "current" ELSE "idle")
  /\ ClientLocal(c)

\* Only generic_command gives up, after MPS_COMMAND_TIMEOUT_SEC, and reports success.
TimesOut(c) ==
  /\ Is(c, "state")
  /\ cl[c].op # "play"
  /\ state # Expected(c)
  /\ Step(c, "idle")
  /\ ClientLocal(c)

SeesCurrent(c) ==
  /\ Is(c, "current")
  /\ current = cl[c].want
  /\ Step(c, "idle")
  /\ ClientLocal(c)

ClientGoesOn(c) ==
  \/ WriteOpcode(c) \/ WriteSkip(c) \/ WriteEntry(c) \/ Kill(c)
  \/ Expect(c) \/ ExpectLast(c) \/ ExpectRow(c)
  \/ SeesState(c) \/ TimesOut(c) \/ SeesCurrent(c)

ClientStep(c) ==
  \/ \E cmd \in Commands :
       \E id \in IF cmd.skip = "absolute" THEN NamedIds ELSE {0} : Begin(c, cmd, id)
  \/ ClientGoesOn(c)

-----------------------------------------------------------------------------
\* A playlist command, as PlaylistDb has it.
PlaylistStep(w, step) ==
  /\ step
  /\ Disturb
  /\ calm' = (calm /\ rows' = rows)
  /\ UNCHANGED <<statusvars, ctlvars, srvvars, clvars, unread, missed, strayed>>

PlayerNext ==
  \/ ServerStep
  \/ \E c \in Clients : ClientStep(c)
  \/ \E w \in Writers : PlaylistStep(w, WriterStep(w))

PlayerSpec == PlayerInit /\ [][PlayerNext]_playervars

\* The server never exits, tracks are finite, and a command runs until it returns.
PlayerFairSpec ==
  /\ PlayerSpec
  /\ WF_playervars(ServerStep)
  /\ \A c \in Clients : WF_playervars(ClientGoesOn(c))
  /\ \A w \in Writers : WF_playervars(PlaylistStep(w, WriterGoesOn(w)))

-----------------------------------------------------------------------------
(***************************************************************************)
(* Properties.                                                             *)
(***************************************************************************)

\* A command signalled while a track plays is read: its flag is cleared before the
\* message is looked at.  Only the outer loop, which does it the other way round,
\* loses one.
SignalKept == unread /\ ~ missed => intflag \/ at = "command"

\* A stopped player stands at the beginning and has no track open, whatever the
\* queries under way when the command came were about.
StopHolds ==
  state = Stopped /\ at \notin {"rewind", "stop"} =>
    current = BEGINNING /\ at \notin {"title", "open", "play", "command", "turn"}

\* While nobody interferes the player moves from each entry to its successor in the
\* playlist and from the last one to the end, and nowhere else, whichever counts and
\* look-ups fail.  Only when the very SELECT for the successor fails does it lose its place.
PlaysOn ==
  [][calm /\ current' # current =>
       \/ \E p \in 1..Len(order) : current = IdAt(order, p) /\ current' = IdAt(order, p + 1)
       \/ AdvanceFails]_playervars

\* Nothing more will come from clients or playlist commands.
Settled ==
  /\ ops = MaxOps /\ \A w \in Writers : pc[w] = "idle"
  /\ asked = MaxCommands /\ \A c \in Clients : cl[c].pc = "idle"

\* A player left alone plays its list to the end, also one that was empty or at its end
\* before entries were added, and then stays behind the last entry.  Counts and look-ups may
\* fail on the way; one failed SELECT for the next entry is enough to keep it from the end.
OnTheList ==
  \/ current \in Ids \cup {EMPTY, BEGINNING}
  \/ current = END /\ previous \in Ids \cup {EMPTY, BEGINNING}
Ended == current = END /\ order # << >> /\ previous = order[Len(order)].id
PlaysThrough ==
  (Settled /\ at = "signal" /\ ~ intflag /\ skipFlag = "next" /\ state = Playing
     /\ order # << >> /\ OnTheList /\ ~ strayed)
    ~> ([]Ended \/ strayed)

\* "the default behavior (play the next song)": a playing player whose list is not
\* empty gets to an entry of it or waits at its end.
NeverStranded ==
  (Settled /\ state = Playing /\ order # << >>)
    ~> (state # Playing \/ current \in Ids \cup {END})

\* Clients write the message field by field with no lock, and a signal raised earlier may
\* have it read in between: the server then goes to an entry nobody asked for.  It does not
\* stay there: the client whose message was torn has its own signal still to raise, or has
\* it raised and not yet read - but for signals the outer loop lost.
Torn == at = "advance" /\ skipFlag = "absolute" /\ state = Playing /\ entryId \notin written
TornIsRepeated ==
  Torn => intflag \/ missed \/ \E c \in Clients : cl[c].pc \in {"skip", "entry", "kill"}
=============================================================================
