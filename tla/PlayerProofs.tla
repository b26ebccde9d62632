---------------------------- MODULE PlayerProofs -----------------------------
(***************************************************************************)
(* Theorems about Player, for any number of clients and playlist writers   *)
(* and whatever they do: the playlist it shares is the one of PlaylistDb,  *)
(* types, the signal flag, the stop command, torn messages; and for one    *)
(* orderly writer, that the player follows the list.                       *)
(***************************************************************************)
EXTENDS Player, PlaylistListProofs

(***************************************************************************)
(* What the server's queries answer.                                       *)
(***************************************************************************)
\* A SELECT by an id that is there has a row to answer with.
LEMMA RowAnswers ==
  ASSUME NEW t, DOMAIN t \subseteq Nat, NEW id, HasRow(t, id)
  PROVE  \E k \in DOMAIN t : Selects(t, id, k)
<1>. DEFINE S == {k \in DOMAIN t : t[k].id = id}
<1>1. S \subseteq Nat /\ S # {}
  BY DEF HasRow
<1>. HIDE DEF S
<1>2. PICK k \in S : \A j \in S : k <= j
  BY <1>1, LeastNat
<1>. QED  BY <1>2 DEF S, Selects

LEMMA LinkAnswers ==
  ASSUME TypeOK, NEW id, \E k \in DOMAIN rows : rows[k].next = id
  PROVE  \E k \in DOMAIN rows : SelectsLink(id, k)
<1>. DEFINE S == {k \in DOMAIN rows : rows[k].next = id}
<1>1. S \subseteq Nat /\ S # {}
  BY DEF TypeOK
<1>. HIDE DEF S
<1>2. PICK k \in S : \A j \in S : k <= j
  BY <1>1, LeastNat
<1>. QED  BY <1>2 DEF S, SelectsLink

\* Whatever the table looks like, the answer is a number.
LEMMA ByRowType ==
  ASSUME TypeOK, NEW fn, NEW id \in Int
  PROVE  ByRow(fn, id) \in Int
<1>1. \A k \in DOMAIN rows : rows[k].id \in Int /\ rows[k].next \in Int
  BY DEF TypeOK, Row
<1>2. FAILURE \in Int /\ BEGINNING \in Int /\ END \in Int /\ EMPTY \in Int
  BY DEF FAILURE, BEGINNING, END, EMPTY
<1>3. NextByRow(id) \in Int
  <2>. DEFINE from == IF id = EMPTY THEN BEGINNING ELSE id
  <2>1. HasRow(rows, from) => Selects(rows, from, CHOOSE k \in DOMAIN rows : Selects(rows, from, k))
    BY RowAnswers DEF TypeOK
  <2>2. HasRow(rows, from) => (CHOOSE k \in DOMAIN rows : Selects(rows, from, k)) \in DOMAIN rows
    BY <2>1 DEF Selects
  <2>. QED  BY <1>1, <1>2, <2>2 DEF NextByRow
<1>4. \A x : LinkedFrom(x) \in Int
  <2>1. TAKE x
  <2>2. CASE \E k \in DOMAIN rows : rows[k].next = x
    <3>1. (CHOOSE k \in DOMAIN rows : SelectsLink(x, k)) \in DOMAIN rows
      BY <2>2, LinkAnswers
    <3>. QED  BY <1>1, <2>2, <3>1 DEF LinkedFrom
  <2>3. CASE ~ \E k \in DOMAIN rows : rows[k].next = x
    BY <1>2, <2>3 DEF LinkedFrom
  <2>. QED  BY <2>2, <2>3
<1>. QED  BY <1>3, <1>4 DEF ByRow, PreviousByRow

LEMMA AtOnceType ==
  ASSUME NEW fn, NEW id
  PROVE  AtOnce(fn, id) \subseteq Int
BY DEF AtOnce, END, BEGINNING, EMPTY

-----------------------------------------------------------------------------
(***************************************************************************)
(* The playlist.                                                           *)
(***************************************************************************)
\* What a step of a client does to what the server keeps to itself.
LEMMA ClientLeaves ==
  ASSUME NEW c, ClientStep(c)
  PROVE  /\ UNCHANGED <<vars, state, current, previous, at, skipFlag, query, file, missed,
                        strayed>>
         /\ \/ UNCHANGED <<intflag, unread, calm>>
            \/ intflag' = TRUE /\ unread' = TRUE /\ calm' = FALSE
BY DEF ClientStep, ClientGoesOn, Begin, WriteOpcode, WriteSkip, WriteEntry, Kill, Expect,
       ExpectLast, ExpectRow, SeesState, TimesOut, SeesCurrent, ClientLocal, ClientStays, statusvars

LEMMA ServerLeaves ==
  ASSUME ServerStep
  PROVE  UNCHANGED <<vars, opcode, skipMethod, entryId, cl, asked, written>>
BY DEF ServerStep, Signal, ReadSkip, Rewind, Clear, Advance, Recount, AdvanceRow, AdvanceFails,
       AtEnd, AtEndRow, CheckCount, Lookup, Open, TrackEnds, TakeSignal, Command, Turn, ServerGoes,
       ServerStays, ctlvars, clvars

LEMMA PlaylistLeaves ==
  ASSUME NEW w, NEW step, PlaylistStep(w, step)
  PROVE  UNCHANGED <<state, current, previous, opcode, skipMethod, entryId, intflag, at,
                     skipFlag, query, file, cl, asked, written, unread, missed, strayed>>
BY DEF PlaylistStep, statusvars, srvvars, ctlvars, clvars

LEMMA StepShares == [PlayerNext]_playervars => [Next]_vars
<1>1. ServerStep => UNCHANGED vars
  BY ServerLeaves
<1>2. \A c : ClientStep(c) => UNCHANGED vars
  BY ClientLeaves
<1>3. \A w : PlaylistStep(w, WriterStep(w)) => WriterStep(w) /\ Disturb
  BY DEF PlaylistStep
<1>4. UNCHANGED playervars => UNCHANGED vars
  BY DEF playervars
<1>. QED  BY <1>1, <1>2, <1>3, <1>4 DEF PlayerNext, Next

\* The player only reads the playlist: what PlaylistDb promises holds beside it too.
THEOREM SharesPlaylist == PlayerSpec => Spec
<1>1. PlayerInit => Init
  BY DEF PlayerInit
<1>. QED  BY <1>1, StepShares, PTL DEF PlayerSpec, Spec

-----------------------------------------------------------------------------
(***************************************************************************)
(* Types.                                                                  *)
(***************************************************************************)
PlayerTypeInv == TypeInv /\ PlayerTypeOK

LEMMA ClientRecords ==
  /\ \A x \in Client, p \in ClientSteps : [x EXCEPT !.pc = p] \in Client
  /\ \A x \in Client, p \in ClientSteps, id \in Int : [x EXCEPT !.pc = p, !.want = id] \in Client
BY DEF Client

LEMMA ClientType ==
  ASSUME PlayerTypeInv, TypeInv', NEW c \in Clients, ClientStep(c)
  PROVE  PlayerTypeOK'
<1>. USE DEF PlayerTypeInv, PlayerTypeOK
<1>1. cl[c] \in Client /\ TypeOK'
  BY DEF TypeInv
<1>2. /\ cl[c].op \in Ops /\ cl[c].skip \in Skips
      /\ cl[c].id \in Int /\ cl[c].start \in Int /\ cl[c].want \in Int
  BY <1>1 DEF Client
<1>3. BEGINNING \in Int /\ EMPTY \in Int
  BY DEF BEGINNING, EMPTY
<1>4. CASE \E cmd \in Commands :
             \E id \in IF cmd.skip = "absolute" THEN NamedIds ELSE {0} : Begin(c, cmd, id)
  <2>0. PICK cmd \in Commands :
          \E id \in IF cmd.skip = "absolute" THEN NamedIds ELSE {0} : Begin(c, cmd, id)
    BY <1>4
  <2>1. PICK id \in NamedIds \cup {0} : Begin(c, cmd, id)
    BY <2>0
  <2>2. id \in Int
    BY <2>1 DEF NamedIds, RowIds, TypeOK, Row
  <2>3. cmd \in [op : Ops, skip : Skips]
    BY PlayerConstantsOK
  <2>. DEFINE new == [pc |-> "opcode", op |-> cmd.op, skip |-> cmd.skip, id |-> id,
                      start |-> IF cmd.op = "play" THEN current ELSE EMPTY, want |-> EMPTY]
  <2>4. new \in Client
    BY <1>3, <2>2, <2>3 DEF Client, ClientSteps
  <2>5. cl' = [cl EXCEPT ![c] = new]
    BY <2>1 DEF Begin
  <2>. HIDE DEF new
  <2>6. cl' \in [Clients -> Client]
    BY <2>4, <2>5
  <2>7. asked' \in 0..MaxCommands
    BY <2>1, PlayerConstantsOK DEF Begin
  <2>. QED  BY <1>1, <2>1, <2>6, <2>7 DEF Begin, ctlvars, ClientStays, statusvars
<1>5. CASE WriteOpcode(c) \/ WriteSkip(c) \/ WriteEntry(c) \/ Kill(c)
  <2>1. \E p \in ClientSteps : cl' = [cl EXCEPT ![c].pc = p]
    BY <1>5 DEF WriteOpcode, WriteSkip, WriteEntry, Kill, Step, ClientSteps
  <2>2. cl' \in [Clients -> Client]
    <3>1. PICK p \in ClientSteps : cl' = [cl EXCEPT ![c] = [cl[c] EXCEPT !.pc = p]]
      BY <2>1
    <3>2. [cl[c] EXCEPT !.pc = p] \in Client
      BY <1>1, ClientRecords
    <3>. QED  BY <3>1, <3>2
  <2>. QED  BY <1>1, <1>2, <1>5, <2>2
            DEF WriteOpcode, WriteSkip, WriteEntry, Kill, ctlvars, ClientStays, statusvars
<1>6. CASE Expect(c) \/ ExpectLast(c) \/ ExpectRow(c) \/ SeesState(c) \/ TimesOut(c) \/ SeesCurrent(c)
  <2>1. ByRow(cl[c].skip, cl[c].start) \in Int /\ EMPTY \in Int /\ FAILURE \in Int
    BY <1>2, ByRowType DEF EMPTY, FAILURE
  <2>2. \A id \in AtOnce(cl[c].skip, cl[c].start) : id \in Int
    BY AtOnceType
  <2>3. \A id \in Int : Wants(c, id) => \E x \in Int : cl' = [cl EXCEPT ![c].pc = "state", ![c].want = x]
    BY <1>2 DEF Wants
  <2>4. \/ \E p \in ClientSteps : cl' = [cl EXCEPT ![c].pc = p]
        \/ \E x \in Int : cl' = [cl EXCEPT ![c].pc = "state", ![c].want = x]
    BY <1>2, <1>6, <2>1, <2>2, <2>3
       DEF Expect, ExpectLast, ExpectRow, SeesState, TimesOut, SeesCurrent, Step,
           AfterCount, ClientSteps
  <2>5. cl' \in [Clients -> Client]
    <3>1. CASE \E p \in ClientSteps : cl' = [cl EXCEPT ![c].pc = p]
      <4>1. PICK p \in ClientSteps : cl' = [cl EXCEPT ![c] = [cl[c] EXCEPT !.pc = p]]
        BY <3>1
      <4>2. [cl[c] EXCEPT !.pc = p] \in Client
        BY <1>1, ClientRecords
      <4>. QED  BY <4>1, <4>2
    <3>2. CASE \E x \in Int : cl' = [cl EXCEPT ![c].pc = "state", ![c].want = x]
      <4>1. PICK x \in Int : cl' = [cl EXCEPT ![c].pc = "state", ![c].want = x]
        BY <3>2
      <4>. DEFINE new == [cl[c] EXCEPT !.pc = "state", !.want = x]
      <4>2. new \in Client
        BY <1>1, <4>1, ClientRecords DEF ClientSteps
      <4>3. cl' = [cl EXCEPT ![c] = new]
        BY <1>1, <4>1 DEF Client
      <4>. HIDE DEF new
      <4>. QED  BY <4>2, <4>3
    <3>. QED  BY <2>4, <3>1, <3>2
  <2>6. ClientLocal(c)
    BY <1>6 DEF Expect, ExpectLast, ExpectRow, SeesState, TimesOut, SeesCurrent
  <2>. QED  BY <1>1, <2>5, <2>6 DEF ClientLocal, ctlvars, ClientStays, statusvars
<1>. QED  BY <1>4, <1>5, <1>6 DEF ClientStep, ClientGoesOn

LEMMA ServerType ==
  ASSUME PlayerTypeInv, TypeInv', ServerStep
  PROVE  PlayerTypeOK'
<1>. USE DEF PlayerTypeInv, PlayerTypeOK
<1>1. /\ TypeOK' /\ UNCHANGED <<vars, opcode, skipMethod, entryId, cl, asked, written>>
      /\ strayed' \in BOOLEAN
  <2>1. strayed' = strayed \/ strayed' = TRUE
    BY DEF ServerStep, Signal, ReadSkip, Rewind, Clear, Advance, Recount, AdvanceRow, AdvanceFails,
           AtEnd, AtEndRow, CheckCount, Lookup, Open, TrackEnds, TakeSignal, Command, Turn,
           ServerGoes, ServerStays
  <2>. QED  BY <2>1, ServerLeaves DEF TypeInv
<1>2. BEGINNING \in Int /\ \A id \in AtOnce(skipFlag, Asks) : id \in Int
  BY AtOnceType DEF BEGINNING
<1>3. Asks \in Int /\ ByRow(skipFlag, query) \in Int
  BY ByRowType DEF Asks
<1>4. \A id \in Int : Arrive(id) => /\ current' \in Int /\ previous' \in Int
                                    /\ skipFlag' \in Skips /\ at' \in ServerSteps
  BY DEF Arrive, Skips, ServerSteps
<1>5. CASE Signal \/ ReadSkip \/ Rewind \/ Clear
  <2>1. CASE Signal
    BY <1>1, <1>2, <2>1 DEF Signal, statusvars, States, Ops, ServerSteps, Playing, Stopped, Paused
  <2>2. CASE ReadSkip
    BY <1>1, <1>2, <2>2 DEF ReadSkip, statusvars, States, Ops, ServerSteps, Playing, Stopped, Paused
  <2>3. CASE Rewind
    BY <1>1, <1>2, <2>3 DEF Rewind, statusvars, States, Ops, ServerSteps, Playing, Stopped, Paused
  <2>4. CASE Clear
    BY <1>1, <1>2, <2>4 DEF Clear, statusvars, States, Ops, ServerSteps, Playing, Stopped, Paused
  <2>. QED  BY <1>5, <2>1, <2>2, <2>3, <2>4
<1>6. CASE Advance
  <2>1. /\ current' \in Int /\ previous' \in Int /\ query' \in Int
        /\ skipFlag' \in Skips /\ at' \in ServerSteps
    BY <1>2, <1>3, <1>4, <1>6 DEF Advance, AfterCount, Skips, ServerSteps
  <2>. QED  BY <1>1, <1>6, <2>1 DEF Advance
<1>7. CASE Recount \/ AdvanceRow \/ AdvanceFails
  <2>1. EMPTY \in Int /\ FAILURE \in Int
    BY DEF EMPTY, FAILURE
  <2>. QED  BY <1>1, <1>3, <1>4, <1>7, <2>1 DEF Recount, AdvanceRow, AdvanceFails, ServerSteps
<1>8. CASE AtEnd \/ AtEndRow \/ CheckCount \/ TrackEnds
  BY <1>1, <1>8 DEF AtEnd, AtEndRow, CheckCount, TrackEnds, ServerGoes, statusvars, ServerSteps
<1>9. CASE Lookup
  <2>1. \A k \in DOMAIN rows : rows[k].title \in Titles \cup {NoTitle}
    BY DEF TypeOK, Row
  <2>2. \A k : Selects(rows, current, k) => k \in DOMAIN rows
    BY DEF Selects
  <2>3. file' \in Titles \cup {NoFile}
    <3>1. CASE file' \in {file, NoFile}
      BY <3>1
    <3>2. CASE \E k \in DOMAIN rows :
                 file' \in IF rows[k].title = NoTitle THEN {file, NoFile} ELSE {rows[k].title}
      <4>1. PICK k \in DOMAIN rows :
              file' \in IF rows[k].title = NoTitle THEN {file, NoFile} ELSE {rows[k].title}
        BY <3>2
      <4>2. rows[k].title \in Titles \/ rows[k].title = NoTitle
        BY <2>1
      <4>3. file' \in {file, NoFile, rows[k].title} /\ (rows[k].title = NoTitle => file' \in {file, NoFile})
        BY <4>1
      <4>. QED  BY <4>2, <4>3
    <3>. QED  BY <1>9, <3>1, <3>2 DEF Lookup
  <2>. QED  BY <1>1, <1>9, <2>3 DEF Lookup, statusvars, ServerSteps
<1>10. CASE Open
  BY <1>1, <1>10 DEF Open, statusvars, ServerSteps, Whole
<1>11. CASE TakeSignal \/ Command \/ Turn
  BY <1>1, <1>11 DEF TakeSignal, Command, Turn, statusvars, States, Ops, ServerSteps,
                     Playing, Stopped, Paused
<1>. QED  BY <1>5, <1>6, <1>7, <1>8, <1>9, <1>10, <1>11 DEF ServerStep

LEMMA InitPlayerType == PlayerInit => PlayerTypeInv
<1>1. SUFFICES ASSUME PlayerInit PROVE PlayerTypeInv
  OBVIOUS
<1>2. TypeInv /\ TypeOK
  BY <1>1, InitTypeInv DEF PlayerInit, TypeInv
<1>3. asked \in 0..MaxCommands
  BY <1>1, PlayerConstantsOK DEF PlayerInit
<1>4. [pc |-> "idle", op |-> "stop", skip |-> "absolute", id |-> 0, start |-> EMPTY,
       want |-> EMPTY] \in Client
  BY DEF Client, ClientSteps, Ops, Skips, EMPTY
<1>5. cl \in [Clients -> Client]
  BY <1>1, <1>4 DEF PlayerInit
<1>6. /\ state = Playing /\ opcode = "stop" /\ skipMethod = "absolute" /\ skipFlag = "next"
      /\ current = EMPTY /\ previous = EMPTY /\ query = EMPTY /\ entryId = 0
      /\ file = NoFile /\ written = {} /\ at = "signal"
      /\ intflag = FALSE /\ unread = FALSE /\ missed = FALSE /\ strayed = FALSE /\ calm = FALSE
  BY <1>1 DEF PlayerInit
<1>7. /\ state \in States /\ current \in Int /\ previous \in Int
      /\ opcode \in Ops /\ skipMethod \in Skips /\ entryId \in Int
      /\ at \in ServerSteps /\ skipFlag \in Skips /\ query \in Int
  BY <1>6 DEF ServerSteps, Ops, Skips, States, Playing, EMPTY
<1>8. /\ file \in Titles \cup {NoFile} /\ written \subseteq Int
      /\ intflag \in BOOLEAN /\ unread \in BOOLEAN /\ missed \in BOOLEAN /\ strayed \in BOOLEAN
      /\ calm \in BOOLEAN
  BY <1>6
<1>. QED  BY <1>2, <1>3, <1>5, <1>7, <1>8 DEF PlayerTypeInv, PlayerTypeOK

LEMMA NextPlayerType == PlayerTypeInv /\ [PlayerNext]_playervars => PlayerTypeInv'
<1>1. SUFFICES ASSUME PlayerTypeInv, [PlayerNext]_playervars PROVE PlayerTypeInv'
  OBVIOUS
<1>2. TypeInv' /\ TypeOK'
  <2>1. TypeInv'
    BY <1>1, StepShares, NextTypeInv DEF PlayerTypeInv
  <2>. QED  BY <2>1 DEF TypeInv
<1>3. CASE ServerStep
  BY <1>1, <1>2, <1>3, ServerType DEF PlayerTypeInv
<1>4. CASE \E c \in Clients : ClientStep(c)
  BY <1>1, <1>2, <1>4, ClientType DEF PlayerTypeInv
<1>5. CASE \E w \in Writers : PlaylistStep(w, WriterStep(w))
  BY <1>1, <1>2, <1>5, PlaylistLeaves DEF PlayerTypeInv, PlayerTypeOK, PlaylistStep
<1>6. CASE UNCHANGED playervars
  BY <1>1, <1>2, <1>6
     DEF PlayerTypeInv, PlayerTypeOK, playervars, statusvars, ctlvars, srvvars, clvars
<1>. QED  BY <1>1, <1>3, <1>4, <1>5, <1>6 DEF PlayerNext

\* Whatever clients and writers do to each other, every variable of the server and of the
\* clients keeps its type: a state read from shared memory is always one of the three, and
\* every answer of the playlist is an id or an error number.
THEOREM PlayerTypeCorrect == PlayerSpec => []PlayerTypeOK
<1>1. PlayerTypeInv => PlayerTypeOK
  BY DEF PlayerTypeInv
<1>. QED  BY <1>1, InitPlayerType, NextPlayerType, PTL DEF PlayerSpec

-----------------------------------------------------------------------------
(***************************************************************************)
(* Signals, and the stop command.                                          *)
(***************************************************************************)
\* Of the server's steps only the clearing of the flag can lose an unread signal: the
\* outer loop's marks it missed, the inner loop's goes on to read the message.
LEMMA ServerKeepsSignal ==
  ASSUME SignalKept, ServerStep
  PROVE  SignalKept'
<1>1. CASE Signal \/ ReadSkip \/ Rewind \/ Clear
  BY <1>1 DEF SignalKept, Signal, ReadSkip, Rewind, Clear
<1>2. CASE Advance \/ Recount \/ AdvanceRow \/ AdvanceFails
  BY <1>2 DEF SignalKept, Advance, Recount, AdvanceRow, AdvanceFails, Arrive
<1>3. CASE AtEnd \/ AtEndRow \/ CheckCount \/ TrackEnds
  BY <1>3 DEF SignalKept, AtEnd, AtEndRow, CheckCount, TrackEnds, ServerGoes
<1>4. CASE Lookup \/ Open
  BY <1>4 DEF SignalKept, Lookup, Open
<1>5. CASE TakeSignal \/ Command \/ Turn
  BY <1>5 DEF SignalKept, TakeSignal, Command, Turn
<1>. QED  BY <1>1, <1>2, <1>3, <1>4, <1>5 DEF ServerStep

\* A signal that the server has not answered by reading the message is still pending,
\* except for those the outer loop drops.
THEOREM SignalsKept == PlayerSpec => []SignalKept
<1>1. PlayerInit => SignalKept
  BY DEF PlayerInit, SignalKept
<1>2. SignalKept /\ [PlayerNext]_playervars => SignalKept'
  <2>1. SUFFICES ASSUME SignalKept, [PlayerNext]_playervars PROVE SignalKept'
    OBVIOUS
  <2>2. CASE ServerStep
    BY <2>1, <2>2, ServerKeepsSignal
  <2>3. CASE \E c \in Clients : ClientStep(c)
    BY <2>1, <2>3, ClientLeaves DEF SignalKept
  <2>4. CASE \E w \in Writers : PlaylistStep(w, WriterStep(w))
    BY <2>1, <2>4, PlaylistLeaves DEF SignalKept
  <2>5. CASE UNCHANGED playervars
    BY <2>1, <2>5 DEF SignalKept, playervars, srvvars
  <2>. QED  BY <2>1, <2>2, <2>3, <2>4, <2>5 DEF PlayerNext
<1>. QED  BY <1>1, <1>2, PTL DEF PlayerSpec

\* StopHolds is not inductive: it must also be known that only a playing server is
\* between the choice of an entry and the opening of its file.
StopInv ==
  /\ PlayerTypeInv
  /\ StopHolds
  /\ at \in {"skip", "recount", "row", "title", "open", "turn"} => state = Playing

LEMMA ServerStops ==
  ASSUME StopInv, ServerStep, PlayerTypeInv'
  PROVE  StopInv'
<1>1. opcode \in {"play", "stop", "pause"}
  BY DEF StopInv, PlayerTypeInv, PlayerTypeOK, Ops
<1>2. state \in {"playing", "stopped", "paused"}
  BY DEF StopInv, PlayerTypeInv, PlayerTypeOK, States, Playing, Stopped, Paused
<1>. USE <1>1, <1>2 DEF StopInv, StopHolds, Stopped, Playing, Paused
<1>3. CASE Signal
  BY <1>3 DEF Signal
<1>4. CASE ReadSkip \/ Clear \/ Rewind
  BY <1>4 DEF ReadSkip, Clear, Rewind, statusvars
<1>5. CASE Advance \/ Recount \/ AdvanceRow \/ AdvanceFails
  BY <1>5 DEF Advance, Recount, AdvanceRow, AdvanceFails, Arrive
<1>6. CASE AtEnd \/ AtEndRow \/ CheckCount \/ TrackEnds
  BY <1>6 DEF AtEnd, AtEndRow, CheckCount, TrackEnds, ServerGoes, statusvars
<1>7. CASE Lookup \/ Open
  BY <1>7 DEF Lookup, Open, statusvars
<1>8. CASE TakeSignal \/ Turn
  BY <1>8 DEF TakeSignal, Turn, statusvars
<1>9. CASE Command
  BY <1>9 DEF Command
<1>. QED  BY <1>3, <1>4, <1>5, <1>6, <1>7, <1>8, <1>9 DEF ServerStep

LEMMA InitStopInv == PlayerInit => StopInv
BY InitPlayerType DEF PlayerInit, StopInv, StopHolds, Stopped, Playing

LEMMA NextStopInv == StopInv /\ [PlayerNext]_playervars => StopInv'
<1>1. SUFFICES ASSUME StopInv, [PlayerNext]_playervars PROVE StopInv'
  OBVIOUS
<1>2. PlayerTypeInv'
  BY <1>1, NextPlayerType DEF StopInv
<1>3. CASE ServerStep
  BY <1>1, <1>2, <1>3, ServerStops
<1>4. CASE \E c \in Clients : ClientStep(c)
  BY <1>1, <1>2, <1>4, ClientLeaves DEF StopInv, StopHolds
<1>5. CASE \E w \in Writers : PlaylistStep(w, WriterStep(w))
  BY <1>1, <1>2, <1>5, PlaylistLeaves DEF StopInv, StopHolds
<1>6. CASE UNCHANGED playervars
  BY <1>1, <1>2, <1>6 DEF StopInv, StopHolds, playervars, statusvars, srvvars
<1>. QED  BY <1>1, <1>3, <1>4, <1>5, <1>6 DEF PlayerNext

\* Whatever was under way when the stop command came, a stopped player stands at the
\* beginning of the list and has no track open.
THEOREM StoppedHolds == PlayerSpec => []StopHolds
<1>1. StopInv => StopHolds
  BY DEF StopInv
<1>. QED  BY <1>1, InitStopInv, NextStopInv, PTL DEF PlayerSpec

-----------------------------------------------------------------------------
(***************************************************************************)
(* Torn messages.  The server may read a message that a client is still    *)
(* writing, and go to an entry id no client gave.  The invariant follows   *)
(* that id from the shared memory to the place where it is used: as long   *)
(* as no client wrote an id, whoever asked for an absolute entry is still  *)
(* about to write it, or has its own signal pending after having changed   *)
(* its skip method.                                                        *)
(***************************************************************************)
Nobodys == entryId \notin written

Writing(steps) == \E c \in Clients : cl[c].pc \in steps

TornInv ==
  /\ PlayerTypeInv
  /\ Nobodys /\ skipMethod = "absolute" /\ (opcode = "play" \/ at \in {"skip", "turn"})
       => Writing({"skip", "entry"})
  /\ at \in {"last", "lastrow", "count", "title", "open", "play", "command", "turn", "stop"}
       => skipFlag = "next"
  /\ at = "rewind" => state # Playing
  /\ Nobodys /\ skipFlag = "absolute" /\ state = Playing /\ at \in {"signal", "clear", "advance"}
       => \/ Writing({"skip", "entry", "kill"}) \/ missed
          \/ intflag /\ (at = "clear" => unread)

LEMMA ServerTorn ==
  ASSUME TornInv, ServerStep, PlayerTypeInv'
  PROVE  TornInv'
<1>1. opcode \in {"play", "stop", "pause"}
  BY DEF TornInv, PlayerTypeInv, PlayerTypeOK, Ops
<1>2. state \in {"playing", "stopped", "paused"}
  BY DEF TornInv, PlayerTypeInv, PlayerTypeOK, States, Playing, Stopped, Paused
<1>3. /\ UNCHANGED <<opcode, skipMethod>> /\ (Nobodys' <=> Nobodys)
      /\ Writing({"skip", "entry"})' <=> Writing({"skip", "entry"})
      /\ Writing({"skip", "entry", "kill"})' <=> Writing({"skip", "entry", "kill"})
  BY ServerLeaves DEF Nobodys, Writing
<1>4. Writing({"skip", "entry"}) => Writing({"skip", "entry", "kill"})
  BY DEF Writing
<1>. USE <1>1, <1>2, <1>3, <1>4 DEF TornInv, Stopped, Playing, Paused
<1>5. CASE Signal
  BY <1>5 DEF Signal
<1>6. CASE ReadSkip \/ Clear \/ Rewind
  BY <1>6 DEF ReadSkip, Clear, Rewind, statusvars
<1>7. CASE Advance \/ Recount \/ AdvanceRow \/ AdvanceFails
  <2>1. \A id : Arrive(id) => skipFlag' = "next" /\ at' = "last"
    BY DEF Arrive
  <2>2. \/ skipFlag' = "next" /\ at' = "last"
        \/ at' \in {"recount", "row"}
    BY <1>7, <2>1 DEF Advance, Recount, AdvanceRow, AdvanceFails, AfterCount
  <2>3. UNCHANGED <<state, missed, intflag, unread>>
    BY <1>7 DEF Advance, Recount, AdvanceRow, AdvanceFails, AfterCount
  <2>4. CASE at' \in {"recount", "row"}
    BY <2>3, <2>4
  <2>5. CASE skipFlag' = "next" /\ at' = "last"
    BY <2>3, <2>5
  <2>. QED  BY <2>2, <2>4, <2>5
<1>8. CASE AtEnd \/ AtEndRow \/ CheckCount \/ TrackEnds
  BY <1>8 DEF AtEnd, AtEndRow, CheckCount, TrackEnds, ServerGoes, statusvars
<1>9. CASE Lookup \/ Open
  BY <1>9 DEF Lookup, Open, statusvars
<1>10. CASE TakeSignal \/ Turn
  BY <1>10 DEF TakeSignal, Turn, statusvars
<1>11. CASE Command
  BY <1>11 DEF Command
<1>. QED  BY <1>5, <1>6, <1>7, <1>8, <1>9, <1>10, <1>11 DEF ServerStep

\* A client that changes its step changes nobody else's.
LEMMA StepOf ==
  ASSUME PlayerTypeInv, NEW c \in Clients, NEW p, cl' = [cl EXCEPT ![c].pc = p]
  PROVE  /\ cl'[c].pc = p
         /\ \A d \in Clients : d # c => cl'[d].pc = cl[d].pc
BY DEF PlayerTypeInv, PlayerTypeOK, Client

LEMMA ClientTorn ==
  ASSUME TornInv, NEW c \in Clients, ClientStep(c), PlayerTypeInv'
  PROVE  TornInv'
<1>1. /\ UNCHANGED <<state, at, skipFlag, missed>>
      /\ \/ UNCHANGED <<intflag, unread>>
         \/ intflag' = TRUE /\ unread' = TRUE
  BY ClientLeaves
<1>2. Nobodys' => Nobodys \/ WriteEntry(c)
  BY DEF Nobodys, ClientStep, ClientGoesOn, Begin, WriteOpcode, WriteSkip, WriteEntry, Kill, Expect,
         ExpectLast, ExpectRow, SeesState, TimesOut, SeesCurrent, ClientLocal, ctlvars
<1>3. PlayerTypeInv
  BY DEF TornInv
<1>4. CASE WriteOpcode(c)
  <2>1. /\ cl[c].pc = "opcode" /\ opcode' = cl[c].op
        /\ UNCHANGED <<skipMethod, entryId, written, intflag, unread>>
        /\ cl' = [cl EXCEPT ![c].pc = IF cl[c].op = "play" THEN "skip" ELSE "kill"]
    BY <1>4 DEF WriteOpcode, Step, Is
  <2>2. /\ cl'[c].pc = IF cl[c].op = "play" THEN "skip" ELSE "kill"
        /\ \A d \in Clients : d # c => cl'[d].pc = cl[d].pc
    BY <1>3, <2>1, StepOf
  <2>. QED  BY <1>1, <2>1, <2>2 DEF TornInv, Writing, Nobodys
<1>5. CASE WriteSkip(c)
  <2>1. /\ cl[c].pc = "skip" /\ skipMethod' = cl[c].skip
        /\ UNCHANGED <<opcode, entryId, written, intflag, unread>>
        /\ cl' = [cl EXCEPT ![c].pc = IF cl[c].skip = "absolute" THEN "entry" ELSE "kill"]
    BY <1>5 DEF WriteSkip, Step, Is
  <2>2. /\ cl'[c].pc = IF cl[c].skip = "absolute" THEN "entry" ELSE "kill"
        /\ \A d \in Clients : d # c => cl'[d].pc = cl[d].pc
    BY <1>3, <2>1, StepOf
  <2>. QED  BY <1>1, <2>1, <2>2 DEF TornInv, Writing, Nobodys
<1>6. CASE WriteEntry(c)
  <2>1. ~ Nobodys'
    BY <1>6 DEF WriteEntry, Nobodys
  <2>. QED  BY <1>1, <2>1 DEF TornInv
<1>7. CASE Kill(c)
  <2>1. /\ cl[c].pc = "kill" /\ intflag' = TRUE /\ unread' = TRUE
        /\ UNCHANGED <<opcode, skipMethod, entryId, written>>
        /\ cl' = [cl EXCEPT ![c].pc = IF cl[c].op = "play" THEN "expect" ELSE "state"]
    BY <1>7 DEF Kill, Step, Is, ctlvars
  <2>2. \A d \in Clients : d # c => cl'[d].pc = cl[d].pc
    BY <1>3, <2>1, StepOf
  <2>. QED  BY <1>1, <2>1, <2>2 DEF TornInv, Writing, Nobodys
<1>8. CASE ~ (WriteOpcode(c) \/ WriteSkip(c) \/ WriteEntry(c) \/ Kill(c))
  <2>1. /\ UNCHANGED <<opcode, skipMethod, entryId, written, intflag, unread>>
        /\ cl[c].pc \notin {"skip", "entry", "kill"}
        /\ \E r : cl' = [cl EXCEPT ![c] = r]
    BY <1>8 DEF ClientStep, ClientGoesOn, Begin, Expect, ExpectLast, ExpectRow, SeesState,
                TimesOut, SeesCurrent, ClientLocal, ctlvars, Is, Step, Wants
  <2>2. \A d \in Clients : d # c => cl'[d].pc = cl[d].pc
    BY <2>1 DEF PlayerTypeInv, PlayerTypeOK
  <2>. QED  BY <1>1, <2>1, <2>2 DEF TornInv, Writing, Nobodys
<1>. QED  BY <1>4, <1>5, <1>6, <1>7, <1>8

\* A server that goes to an entry no client asked for, because it read a message half
\* written, is told again: its client has still to signal, or has, and the server will see
\* that signal - but for those its outer loop drops.
THEOREM TornRepeated == PlayerSpec => []TornIsRepeated
<1>1. PlayerInit => TornInv
  BY InitPlayerType DEF PlayerInit, TornInv, Writing
<1>2. TornInv /\ [PlayerNext]_playervars => TornInv'
  <2>1. SUFFICES ASSUME TornInv, [PlayerNext]_playervars PROVE TornInv'
    OBVIOUS
  <2>2. PlayerTypeInv'
    BY <2>1, NextPlayerType DEF TornInv
  <2>3. CASE ServerStep
    BY <2>1, <2>2, <2>3, ServerTorn
  <2>4. CASE \E c \in Clients : ClientStep(c)
    BY <2>1, <2>2, <2>4, ClientTorn
  <2>5. CASE \E w \in Writers : PlaylistStep(w, WriterStep(w))
    BY <2>1, <2>2, <2>5, PlaylistLeaves DEF TornInv, Nobodys, Writing
  <2>6. CASE UNCHANGED playervars
    BY <2>1, <2>2, <2>6
       DEF TornInv, Nobodys, Writing, playervars, statusvars, srvvars, ctlvars, clvars
  <2>. QED  BY <2>1, <2>3, <2>4, <2>5, <2>6 DEF PlayerNext
<1>3. TornInv => TornIsRepeated
  BY DEF TornInv, TornIsRepeated, Torn, Writing, Nobodys
<1>. QED  BY <1>1, <1>2, <1>3, PTL DEF PlayerSpec

-----------------------------------------------------------------------------
(***************************************************************************)
(* The player follows the list: for one orderly writer, and any number of  *)
(* clients.  While the history variable calm holds the table is a whole    *)
(* playlist also between the writer's statements, the player stands on one *)
(* of its rows or behind the last one, and the query under way is about    *)
(* the entry it will leave.                                                *)
(***************************************************************************)
IsList == Chain(rows, order, {}, Straight(order))

OnRow  == current \in RowIds(rows) \ {BEGINNING}
Behind == current = END /\ \E k \in DOMAIN rows :
                             rows[k].id = previous /\ rows[k].id # BEGINNING /\ rows[k].next = END

Following ==
  /\ state = Playing /\ ~ intflag
  /\ at \in {"signal", "advance", "row", "last", "lastrow", "count", "title", "open", "play"}
  /\ skipFlag = "next"
  /\ IsList
  /\ OnRow \/ Behind
  /\ at = "row" => query = Asks

\* From the choice of an entry to the end of its track the next choice is the default one.
Reset == at \in {"last", "lastrow", "count", "title", "open", "play", "command", "turn", "stop"}
           => skipFlag = "next"

CalmInv ==
  /\ StopInv
  /\ ListInv
  /\ Reset
  /\ calm => Following

\* The ids of a list's rows, and what a SELECT of the row after one of them answers.
LEMMA ListRows ==
  ASSUME ListInv, IsList, NEW k \in DOMAIN rows, rows[k].id # BEGINNING
  PROVE  /\ rows[k].id \notin {EMPTY, END, BEGINNING}
         /\ NextByRow(rows[k].id) = rows[k].next
         /\ \E p \in 1..Len(order) : rows[k].id = IdAt(order, p) /\ rows[k].next = IdAt(order, p + 1)
         /\ rows[k].next = END \/ rows[k].next \in RowIds(rows) \ {BEGINNING}
<1>1. order \in Seq(Entry) /\ Len(order) \in Nat /\ Distinct(order) /\ DOMAIN rows \subseteq Nat
  BY DEF ListInv, TypeInv, TypeOK
<1>2. PICK p \in 0..Len(order) : rows[k].id = IdAt(order, p)
  BY DEF IsList, Chain
<1>3. p \in 1..Len(order)
  BY <1>1, <1>2 DEF IdAt
<1>4. rows[k].id = order[p].id /\ order[p].id > 0
  BY <1>1, <1>2, <1>3 DEF IdAt, Distinct, EntryId
<1>5. rows[k].id \notin {EMPTY, END, BEGINNING}
  <2>1. order[p].id \in Nat
    BY <1>1, <1>3 DEF Distinct, EntryId
  <2>. QED  BY <1>4, <2>1 DEF EMPTY, END, BEGINNING
<1>6. rows[k].next = IdAt(order, p + 1)
  <2>1. PICK l \in DOMAIN rows : /\ rows[l].id = IdAt(order, p)
                                 /\ rows[l].next = Straight(order)[p]
    BY <1>3 DEF IsList, Chain
  <2>2. l = k
    BY <1>2, <2>1 DEF IsList, Chain
  <2>. QED  BY <1>3, <2>1, <2>2 DEF Straight
<1>7. NextByRow(rows[k].id) = rows[k].next
  <2>1. HasRow(rows, rows[k].id)
    BY DEF HasRow
  <2>2. PICK l \in DOMAIN rows : Selects(rows, rows[k].id, l)
    BY <1>1, <2>1, RowAnswers
  <2>3. \A m \in DOMAIN rows : Selects(rows, rows[k].id, m) => m = k
    BY DEF Selects, IsList, Chain
  <2>4. (CHOOSE m \in DOMAIN rows : Selects(rows, rows[k].id, m)) = k
    BY <2>2, <2>3
  <2>. QED  BY <1>5, <2>1, <2>4 DEF NextByRow
<1>8. rows[k].next = END \/ rows[k].next \in RowIds(rows) \ {BEGINNING}
  <2>1. CASE p = Len(order)
    BY <1>1, <1>6, <2>1 DEF IdAt
  <2>2. CASE p < Len(order)
    <3>1. p + 1 \in 1..Len(order)
      BY <1>1, <1>3, <2>2
    <3>2. PICK l \in DOMAIN rows : rows[l].id = IdAt(order, p + 1)
      BY <3>1 DEF IsList, Chain
    <3>3. IdAt(order, p + 1) # BEGINNING
      BY <1>1, <3>1 DEF IdAt, Distinct, EntryId, BEGINNING
    <3>. QED  BY <1>6, <3>2, <3>3 DEF RowIds
  <2>. QED  BY <1>1, <1>3, <2>1, <2>2
<1>. QED  BY <1>2, <1>3, <1>5, <1>6, <1>7, <1>8

\* The entry the server asks about has a row, and it is the row of current or of previous.
LEMMA AsksRow ==
  ASSUME ListInv, Following
  PROVE  \E k \in DOMAIN rows :
           /\ rows[k].id = Asks /\ rows[k].id # BEGINNING
           /\ current # END => Asks = current
           /\ current = END => rows[k].next = END
<1>1. CASE current = END
  <2>1. PICK k \in DOMAIN rows : rows[k].id = previous /\ rows[k].id # BEGINNING /\ rows[k].next = END
    <3>1. ~ OnRow
      BY <1>1, ListRows DEF OnRow, Following, RowIds
    <3>. QED  BY <3>1 DEF Following, Behind
  <2>. QED  BY <1>1, <2>1 DEF Asks, Following
<1>2. CASE current # END
  <2>1. PICK k \in DOMAIN rows : rows[k].id = current /\ rows[k].id # BEGINNING
    BY <1>2 DEF Following, OnRow, Behind, RowIds
  <2>. QED  BY <1>2, <2>1 DEF Asks
<1>. QED  BY <1>1, <1>2

LEMMA CalmAdvance ==
  ASSUME ListInv, Following, Advance
  PROVE  /\ UNCHANGED <<current, previous, skipFlag>>
         /\ at' = "row" /\ query' = Asks
<1>1. PICK k \in DOMAIN rows : rows[k].id = Asks /\ rows[k].id # BEGINNING
  BY AsksRow
<1>2. Asks # END
  BY <1>1, ListRows DEF Following
<1>3. ~ NoEntries(rows)
  BY <1>1 DEF NoEntries
<1>4. AtOnce("next", Asks) = {} /\ AfterCount("next", Asks) = "row"
  BY <1>2, <1>3 DEF AtOnce, AfterCount
<1>. QED  BY <1>4 DEF Advance, Following, Playing

\* The step that chooses the next entry goes one place on, or stays behind the last one.
LEMMA CalmAdvanceRow ==
  ASSUME ListInv, Following, AdvanceRow
  PROVE  /\ current' # current =>
              \E p \in 1..Len(order) : current = IdAt(order, p) /\ current' = IdAt(order, p + 1)
         /\ at' = "last" /\ skipFlag' = "next"
         /\ rows' = rows => OnRow' \/ Behind'
<1>1. PICK k \in DOMAIN rows :
        /\ rows[k].id = Asks /\ rows[k].id # BEGINNING
        /\ current # END => Asks = current
        /\ current = END => rows[k].next = END
  BY AsksRow
<1>2. query = Asks /\ skipFlag = "next" /\ IsList
  BY DEF Following, AdvanceRow
<1>3. current' = NextByRow(Asks) /\ at' = "last" /\ skipFlag' = "next"
      /\ previous' = IF current # END THEN current ELSE previous
  BY <1>2 DEF AdvanceRow, Arrive, ByRow
<1>4. current' = rows[k].next
  BY <1>1, <1>2, <1>3, ListRows
<1>5. CASE current = END
  <2>1. current' = END /\ previous' = previous
    BY <1>1, <1>3, <1>4, <1>5
  <2>2. Asks = previous
    BY <1>2, <1>5 DEF Asks
  <2>. QED  BY <1>1, <1>3, <1>5, <2>1, <2>2 DEF Behind
<1>6. CASE current # END
  <2>1. rows[k].id = current /\ previous' = current
    BY <1>1, <1>3, <1>6
  <2>2. \E p \in 1..Len(order) : rows[k].id = IdAt(order, p) /\ rows[k].next = IdAt(order, p + 1)
    BY <1>1, <1>2, ListRows
  <2>3. rows[k].next = END \/ rows[k].next \in RowIds(rows) \ {BEGINNING}
    BY <1>1, <1>2, ListRows
  <2>. QED  BY <1>1, <1>3, <1>4, <2>1, <2>2, <2>3 DEF OnRow, Behind
<1>. QED  BY <1>5, <1>6

LEMMA ServerReset ==
  ASSUME Reset, ServerStep, PlayerTypeInv
  PROVE  Reset'
<1>0. opcode \in {"play", "stop", "pause"}
  BY DEF PlayerTypeInv, PlayerTypeOK, Ops
<1>. USE <1>0 DEF Reset
<1>1. CASE Signal \/ ReadSkip \/ Clear \/ Rewind
  BY <1>1 DEF Signal, ReadSkip, Clear, Rewind
<1>2. CASE Advance
  <2>1. \A id : Arrive(id) => skipFlag' = "next" /\ at' = "last"
    BY DEF Arrive
  <2>2. skipFlag' = "next" \/ at' \in {"recount", "row"}
    BY <1>2, <2>1 DEF Advance, AfterCount
  <2>. QED  BY <2>2
<1>3. CASE Recount \/ AdvanceRow \/ AdvanceFails
  BY <1>3 DEF Recount, AdvanceRow, AdvanceFails, Arrive
<1>4. CASE AtEnd \/ AtEndRow \/ CheckCount \/ TrackEnds
  BY <1>4 DEF AtEnd, AtEndRow, CheckCount, TrackEnds, ServerGoes
<1>5. CASE Lookup \/ Open
  BY <1>5 DEF Lookup, Open
<1>6. CASE TakeSignal \/ Turn \/ Command
  BY <1>6 DEF TakeSignal, Turn, Command
<1>. QED  BY <1>1, <1>2, <1>3, <1>4, <1>5, <1>6 DEF ServerStep

\* What a track's opening finds, and what Following says of the table, is about the table
\* and the place alone.
LEMMA PlaceKept ==
  ASSUME Following, UNCHANGED <<rows, order, current, previous>>
  PROVE  IsList' /\ (OnRow' \/ Behind')
BY DEF Following, IsList, OnRow, Behind

LEMMA OpenFollows ==
  ASSUME ListInv, Reset, Open, state = Playing, calm', ~ calm
  PROVE  Following'
<1>1. /\ Whole /\ ~ intflag /\ current \in Ids /\ at' = "play"
      /\ UNCHANGED <<state, current, previous, intflag, skipFlag, rows, order>>
      /\ at = "open"
  BY DEF Open, statusvars, ServerStays, vars
<1>2. IsList
  BY <1>1 DEF Whole, ListInv, Closed, IsList, Gaps
<1>3. OnRow
  <2>1. order \in Seq(Entry) /\ Len(order) \in Nat /\ Distinct(order)
    BY DEF ListInv, TypeInv, TypeOK
  <2>2. PICK p \in 1..Len(order) : current = order[p].id
    BY <1>1 DEF Ids
  <2>3. current = IdAt(order, p) /\ current # BEGINNING
    BY <2>1, <2>2 DEF IdAt, Distinct, EntryId, BEGINNING
  <2>4. \E k \in DOMAIN rows : rows[k].id = IdAt(order, p)
    BY <1>2, <2>1, <2>2 DEF IsList, Chain
  <2>. QED  BY <2>3, <2>4 DEF OnRow, RowIds
<1>4. IsList' /\ OnRow'
  BY <1>1, <1>2, <1>3 DEF IsList, OnRow
<1>. QED  BY <1>1, <1>4 DEF Following, Reset

\* A step of the server that leaves a calm player calm keeps it on the list.
LEMMA ServerFollows ==
  ASSUME CalmInv, ServerStep, calm'
  PROVE  /\ Following'
         /\ current' # current =>
              \E p \in 1..Len(order) : current = IdAt(order, p) /\ current' = IdAt(order, p + 1)
<1>1. ListInv /\ Reset /\ (calm => Following) /\ StopInv
  BY DEF CalmInv
<1>2. UNCHANGED <<rows, order>>
  BY ServerLeaves DEF vars
<1>3. CASE Advance
  <2>1. calm
    BY <1>3 DEF Advance
  <2>2. /\ UNCHANGED <<current, previous, skipFlag, state, intflag>>
        /\ at' = "row" /\ query' = Asks
    BY <1>1, <1>3, <2>1, CalmAdvance DEF Advance
  <2>3. Asks' = Asks
    BY <2>2 DEF Asks
  <2>. QED  BY <1>1, <1>2, <2>1, <2>2, <2>3, PlaceKept DEF Following
<1>4. CASE AdvanceRow
  <2>1. calm /\ UNCHANGED <<state, intflag>>
    BY <1>4 DEF AdvanceRow
  <2>2. IsList'
    BY <1>1, <1>2, <2>1 DEF Following, IsList
  <2>. QED  BY <1>1, <1>2, <1>4, <2>1, <2>2, CalmAdvanceRow DEF Following
<1>5. CASE Open
  <2>1. state = Playing
    BY <1>1, <1>5 DEF StopInv, Open
  <2>2. UNCHANGED <<state, current, previous, intflag, skipFlag>> /\ at' \in {"play", "signal"}
    BY <1>5 DEF Open, statusvars
  <2>3. CASE calm
    BY <1>1, <1>2, <2>2, <2>3, PlaceKept DEF Following
  <2>4. CASE ~ calm
    BY <1>1, <1>5, <2>1, <2>2, <2>4, OpenFollows
  <2>. QED  BY <2>3, <2>4
<1>6. CASE ~ (Advance \/ AdvanceRow \/ Open)
  <2>0. ~ AdvanceFails
    BY DEF AdvanceFails
  <2>1. calm
    BY <1>6, <2>0 DEF ServerStep, Signal, ReadSkip, Clear, Rewind, Recount, AtEnd, AtEndRow,
                CheckCount, TrackEnds, Lookup, TakeSignal, Turn, Command, ServerGoes
  <2>2. Following
    BY <1>1, <2>1
  <2>3. ~ (ReadSkip \/ Clear \/ Rewind \/ Recount \/ TakeSignal \/ Turn \/ Command)
    BY <2>2 DEF Following, ReadSkip, Clear, Rewind, Recount, TakeSignal, Turn, Command
  <2>4. Signal \/ AtEnd \/ AtEndRow \/ CheckCount \/ TrackEnds \/ Lookup
    BY <1>6, <2>0, <2>3 DEF ServerStep
  <2>5. /\ UNCHANGED <<state, current, previous, intflag, skipFlag>>
        /\ at' \in {"signal", "advance", "last", "lastrow", "count", "title", "open"}
    BY <2>2, <2>4 DEF Following, Signal, AtEnd, AtEndRow, CheckCount, TrackEnds, Lookup, ServerGoes,
                      statusvars
  <2>. QED  BY <1>2, <2>2, <2>5, PlaceKept DEF Following
<1>. QED  BY <1>3, <1>4, <1>5, <1>6

\* The one writer leaves the history of the playlist alone until its pair is whole.
LEMMA GapOrder ==
  ASSUME Orderly, TypeOK, NEW w \in Writers, WriterStep(w), pc'[w] \in Gaps
  PROVE  order' = order
<1>1. pc \in [Writers -> WriterSteps]
  BY DEF TypeOK
<1>. USE DEF Goto, Gaps
<1>2. ~ AddInsert(w) /\ ~ RemoveRelink(w)
  BY <1>1 DEF AddInsert, RemoveRelink, Return
<1>3. ~ Crash(w)
  BY DEF Crash, Orderly, PairsWhole
<1>. QED  BY <1>2, <1>3
          DEF WriterStep, WriterGoesOn, AddBegin, AddCount, AddMax, AddNext, AddSkip, AddFolder,
              AddRelink, AddEnd, AddFails, BumpLoad, BumpStore, RemoveBegin, RemoveFirst, RemoveNext,
              RemoveDelete, RemoveFails, Return

LEMMA WriterFollows ==
  ASSUME Orderly, CalmInv, ListInv', NEW w \in Writers, PlaylistStep(w, WriterStep(w)), calm'
  PROVE  Following'
<1>1. /\ WriterStep(w) /\ calm /\ rows' = rows
      /\ UNCHANGED <<state, current, previous, intflag, at, skipFlag, query>>
  BY PlaylistLeaves DEF PlaylistStep
<1>2. Following /\ TypeOK
  BY <1>1 DEF CalmInv, ListInv, TypeInv
<1>3. OnRow' \/ Behind'
  BY <1>1, <1>2 DEF Following, OnRow, Behind
<1>4. IsList'
  <2>1. CASE pc'[w] \in Gaps
    <3>1. order' = order
      BY <1>1, <1>2, <2>1, GapOrder
    <3>. QED  BY <1>1, <1>2, <3>1 DEF Following, IsList
  <2>2. CASE pc'[w] \notin Gaps
    <3>1. \A v \in Writers : pc'[v] \notin Gaps
      BY <2>2 DEF Orderly, OneWriter
    <3>. QED  BY <3>1 DEF ListInv, Closed, IsList
  <2>. QED  BY <2>1, <2>2
<1>. QED  BY <1>1, <1>2, <1>3, <1>4 DEF Following, Asks

LEMMA NextCalmInv ==
  ASSUME Orderly, CalmInv, [PlayerNext]_playervars
  PROVE  /\ CalmInv'
         /\ calm /\ current' # current =>
              \/ \E p \in 1..Len(order) : current = IdAt(order, p) /\ current' = IdAt(order, p + 1)
              \/ AdvanceFails
<1>1. StopInv' /\ ListInv'
  BY NextStopInv, StepShares, NextListInv DEF CalmInv
<1>2. Reset /\ StopInv
  BY DEF CalmInv
<1>3. CASE ServerStep
  <2>1. Reset'
    BY <1>2, <1>3, ServerReset DEF StopInv
  <2>2. calm' => Following'
    BY <1>3, ServerFollows
  <2>3. calm /\ current' # current => calm' \/ AdvanceFails
    BY <1>3 DEF ServerStep, Signal, ReadSkip, Clear, Rewind, Advance, Recount, AdvanceRow, AtEnd,
                AtEndRow, CheckCount, TrackEnds, Lookup, Open, TakeSignal, Turn, Command, ServerGoes, statusvars
  <2>. QED  BY <1>1, <1>3, <2>1, <2>2, <2>3, ServerFollows DEF CalmInv
<1>4. CASE \E c \in Clients : ClientStep(c)
  <2>1. /\ UNCHANGED <<vars, state, current, previous, at, skipFlag, query>>
        /\ calm' => calm /\ UNCHANGED intflag
    BY <1>4, ClientLeaves
  <2>2. UNCHANGED <<rows, order>>
    BY <2>1 DEF vars
  <2>. QED  BY <1>1, <2>1, <2>2 DEF CalmInv, Reset, Following, IsList, OnRow, Behind, Asks
<1>5. CASE \E w \in Writers : PlaylistStep(w, WriterStep(w))
  <2>1. PICK w \in Writers : PlaylistStep(w, WriterStep(w))
    BY <1>5
  <2>2. UNCHANGED <<current, at, skipFlag>>
    BY <2>1, PlaylistLeaves
  <2>. QED  BY <1>1, <2>1, <2>2, WriterFollows DEF CalmInv, Reset
<1>6. CASE UNCHANGED playervars
  BY <1>1, <1>6
     DEF CalmInv, Reset, Following, IsList, OnRow, Behind, Asks, playervars, vars, statusvars, srvvars
<1>. QED  BY <1>3, <1>4, <1>5, <1>6 DEF PlayerNext

\* Beside one writer that works alone and whose pairs of statements are whole, a player that
\* was let alone since it opened its track goes from each entry to the one after it in the
\* list, and from the last one behind it, whatever clients did before and whichever of its
\* queries fail.  It goes nowhere else but where the failure of one query leads: when the
\* SELECT for the successor itself fails.
THEOREM FollowsList == Orderly => (PlayerSpec => PlaysOn)
<1>1. SUFFICES ASSUME Orderly PROVE PlayerSpec => PlaysOn
  OBVIOUS
<1>2. PlayerInit => CalmInv
  BY InitStopInv, InitListInv DEF PlayerInit, CalmInv, Reset
<1>3. CalmInv /\ [PlayerNext]_playervars => CalmInv'
  BY <1>1, NextCalmInv
<1>4. CalmInv /\ [PlayerNext]_playervars =>
        [calm /\ current' # current =>
           \/ \E p \in 1..Len(order) : current = IdAt(order, p) /\ current' = IdAt(order, p + 1)
           \/ AdvanceFails]_playervars
  BY <1>1, NextCalmInv
<1>. QED  BY <1>2, <1>3, <1>4, PTL DEF PlayerSpec, PlaysOn
=============================================================================
