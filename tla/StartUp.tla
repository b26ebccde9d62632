------------------------------- MODULE StartUp -------------------------------
(***************************************************************************)
(* How the processes of mpservice come up side by side and find each       *)
(* other: the shared memory region that the server makes and the others    *)
(* attach to, the playlist file that the first command makes, and the      *)
(* configuration file (ConfigFile) the scanner reads its folder from.      *)
(*                                                                         *)
(*   servers   mps-server: initialize_shared_memory_server, and long after *)
(*             it the handler of SIGUSR1                                   *)
(*   tools     mps-shmtool -i: the same function, then the process is gone *)
(*   scanners  mps-librarydbd up to its first state                        *)
(*   players   mps-player: attach, store an opcode, signal the server      *)
(*   adders    mps-playlist add: attach, open the playlist, add an entry   *)
(*   Setters   mps-config set                                              *)
(*                                                                         *)
(* startup.sh starts server and scanner at once and does not wait for      *)
(* either; the web server starts the others whenever a page asks.  Of a    *)
(* playlist only its beginning matters here; PlaylistDb has all of it.     *)
(***************************************************************************)
EXTENDS ConfigFile

CONSTANTS
  Servers, Tools, Scanners, Players, Adders,
  Casts,     \* the sets of processes a behaviour may run
  MediaDir,  \* the name of the parameter the scanner reads
  MaxDeaths  \* bound: processes that are killed or crash

Initialisers == Servers \cup Tools
Clients      == Scanners \cup Players \cup Adders
Procs        == Initialisers \cup Clients
Commands     == Players \cup Adders

NoProc == "nobody"
ASSUME StartUpConstantsOK ==
  /\ Servers \cap Tools = {} /\ Initialisers \cap Clients = {}
  /\ Scanners \cap Players = {} /\ (Scanners \cup Players) \cap Adders = {}
  /\ MediaDir \in Names
  /\ Casts \subseteq SUBSET (Procs \cup Setters)
  /\ NoProc \notin Procs
  /\ MaxDeaths \in Nat

VARIABLES
  cast,      \* the processes of this behaviour
  at,        \* per process: its next step, or how it ended
  name,      \* the region that /dev/shm leads to: its number, or 0
  regions,   \* every region there has been: who still maps one keeps it
  on,        \* per process: the region it has mapped, or 0
  dir,       \* per scanner: the folder it is going to scan
  playlist,  \* the playlist file
  highest,   \* per adder: highest_entry_id
  deaths,
  met        \* history: where the maker of the region was when the process attached

regionVars == <<name, regions, on, met>>
startVars  == <<cast, at, regionVars, dir, playlist, highest, deaths>>
vars       == <<startVars, configVars>>

Making == {"unlink", "create", "size", "clear", "assign", "catch"}
\* failed: it found things unfit for it; broken: a call to sqlite failed.
Ended  == {"dead", "failed", "broken", "done", "killed"}
Steps  == Making \cup Ended \cup
          {"read", "attach", "init", "state", "scanning", "signal", "up",
           "test", "open", "table", "begin", "use", "link", "insert"}

\* size: has it its size?  pid: player_status.pid; lib: library_status.librarydbd_state.
Region == [by : Initialisers \cup {NoProc}, size : BOOLEAN,
           pid : Initialisers \cup {NoProc}, lib : {"INIT", "WAITING"}]

NewRegion(p) == [by |-> p, size |-> FALSE, pid |-> NoProc, lib |-> "INIT"]

\* A region an earlier run has left, with the pid of a process that is gone.
OldRegion == [by |-> NoProc, size |-> TRUE, pid |-> NoProc, lib |-> "WAITING"]

\* begins: rows of BEGINNING; first: the entry BEGINNING leads to; ids: the entries there are.
END == 0
PlaylistFile == [exists : BOOLEAN, table : BOOLEAN, begins : Nat, first : Nat, ids : SUBSET Nat]

StartUpTypeOK ==
  /\ ConfigTypeOK
  /\ cast \in Casts
  /\ at \in [Procs -> Steps]
  /\ regions \in Seq(Region) /\ name \in 0..Len(regions)
  /\ on \in [Procs -> 0..Len(regions)]
  /\ \A p \in Procs : at[p] \in {"size", "clear", "assign", "catch", "up", "init", "state",
                                "scanning", "signal"} => on[p] # 0
  /\ dir \in [Scanners -> Values \cup {Unset}]
  /\ playlist \in PlaylistFile /\ highest \in [Adders -> Nat]
  /\ deaths \in 0..MaxDeaths
  /\ met \in [Procs -> Steps \cup {"nobody"}]

StartUpInit ==
  /\ ConfigInit
  /\ cast \in Casts
  /\ at = [p \in Procs |-> IF p \in Initialisers THEN "unlink"
                           ELSE IF p \in Scanners THEN "read" ELSE "attach"]
  /\ regions = <<OldRegion>> /\ name \in {0, 1}
  /\ on = [p \in Procs |-> 0]
  /\ dir = [p \in Scanners |-> Unset]
  /\ playlist = [exists |-> FALSE, table |-> FALSE, begins |-> 0, first |-> END, ids |-> {}]
  /\ highest = [p \in Adders |-> 0]
  /\ deaths = 0
  /\ met = [p \in Procs |-> NoProc]

Is(p, step) == p \in cast /\ at[p] = step
Goes(p, step) == at' = [at EXCEPT ![p] = step]

-----------------------------------------------------------------------------
(***************************************************************************)
(* initialize_shared_memory_server.                                        *)
(***************************************************************************)
SameRest == UNCHANGED <<cast, dir, playlist, highest, deaths, configVars>>

\* Who has mapped the region keeps it; the next to attach does not find it.
Unlink(p) ==
  /\ Is(p, "unlink") /\ Goes(p, "create")
  /\ name' = 0
  /\ UNCHANGED <<regions, on, met>> /\ SameRest

\* Mutant: the region that is there is taken over.
CreateReuses(p) ==
  /\ Is(p, "create") /\ Goes(p, "size")
  /\ name' = 1
  /\ on' = [on EXCEPT ![p] = name']
  /\ UNCHANGED <<regions, met>> /\ SameRest

\* O_EXCL: of two that have both unlinked only the first goes on.
Create(p) ==
  /\ Is(p, "create")
  /\ name = 0
  /\ Goes(p, "size")
  /\ regions' = Append(regions, NewRegion(p))
  /\ name' = Len(regions')
  /\ on' = [on EXCEPT ![p] = name']
  /\ UNCHANGED met /\ SameRest

\* Mutant: the failure is logged and not returned.
CreateFailsUnseen(p) ==
  /\ Is(p, "create")
  /\ name # 0
  /\ Goes(p, "size")
  /\ UNCHANGED regionVars /\ SameRest

CreateFails(p) ==
  /\ Is(p, "create")
  /\ name # 0
  /\ Goes(p, "failed")
  /\ UNCHANGED regionVars /\ SameRest

Sets(p, from, to, r) ==
  /\ Is(p, from) /\ Goes(p, to)
  /\ regions' = [regions EXCEPT ![on[p]] = r]
  /\ UNCHANGED <<name, on, met>> /\ SameRest

Size(p)  == Sets(p, "size", "clear", [regions[on[p]] EXCEPT !.size = TRUE])
Clear(p) == Sets(p, "clear", "assign", [regions[on[p]] EXCEPT !.pid = NoProc, !.lib = "INIT"])
Assign(p) ==
  Sets(p, "assign", IF p \in Servers THEN "catch" ELSE "done", [regions[on[p]] EXCEPT !.pid = p])

\* Mutant: the region is cleared when everything else is set up.
CatchClears(p) == Sets(p, "catch", "up", [regions[on[p]] EXCEPT !.lib = "INIT"])

\* mpg123 and the output are set up in between; then the main loop begins (Player).
Catch(p) == Sets(p, "catch", "up", regions[on[p]])

Initialise(p) ==
  Unlink(p) \/ Create(p) \/ CreateFails(p) \/ Size(p) \/ Clear(p) \/ Assign(p) \/ Catch(p)

-----------------------------------------------------------------------------
(***************************************************************************)
(* mps_initialize_client, and the first accesses to the region.            *)
(***************************************************************************)
First(p) == IF p \in Scanners THEN "init" ELSE IF p \in Players THEN "signal" ELSE "test"

\* The region the name leads to is mapped, whatever state it is in.
Attach(p) ==
  /\ Is(p, "attach")
  /\ name # 0
  /\ Goes(p, First(p))
  /\ on' = [on EXCEPT ![p] = name]
  /\ met' = [met EXCEPT ![p] = LET maker == regions[name].by
                               IN IF maker = NoProc THEN NoProc ELSE at[maker]]
  /\ UNCHANGED <<name, regions>> /\ SameRest

\* Forty attempts have found no region.
AttachFails(p) ==
  /\ Is(p, "attach")
  /\ name = 0
  /\ Goes(p, "failed")
  /\ UNCHANGED regionVars /\ SameRest

\* The folder to scan, whether the traversal reports success or not.
ReadConfig(p) ==
  /\ Is(p, "read") /\ Goes(p, "attach")
  /\ \E v \in Values \cup {Unset} : Got(MediaDir, v) /\ dir' = [dir EXCEPT ![p] = v]
  /\ UNCHANGED <<cast, regionVars, playlist, highest, deaths, configVars>>

\* An access behind the end of the region kills the process (SIGBUS).
Access(p, from, to, r) ==
  /\ Is(p, from)
  /\ Goes(p, IF regions[on[p]].size THEN to ELSE "dead")
  /\ regions' = IF regions[on[p]].size THEN [regions EXCEPT ![on[p]] = r] ELSE regions
  /\ UNCHANGED <<name, on, met>> /\ SameRest

ScannerInit(p)  == Access(p, "init", "state", [regions[on[p]] EXCEPT !.lib = "INIT"])
ScannerState(p) == Access(p, "state", "scanning", [regions[on[p]] EXCEPT !.lib = "WAITING"])

Running == {q \in Commands \cap cast : at[q] \notin Ended}

\* kill(pid, SIGUSR1): to a server that handles it, to one that does not yet, to nobody, or,
\* while pid is 0, to the sender's whole process group: what the web server or the shell
\* that started it has started besides.
Signal(p) ==
  /\ Is(p, "signal")
  /\ LET r == regions[on[p]]
         own == r.size /\ r.pid = NoProc /\ r.by # NoProc
     IN \E group \in IF own THEN SUBSET Running ELSE {{}} :
          at' = [q \in Procs |->
                   IF q = p THEN IF ~ r.size THEN "dead" ELSE IF own THEN "killed" ELSE "done"
                   ELSE IF q \in group \/ (r.size /\ q = r.pid /\ at[q] = "catch") THEN "killed"
                   ELSE at[q]]
  /\ UNCHANGED regionVars /\ SameRest

-----------------------------------------------------------------------------
(***************************************************************************)
(* mps_playlist_open, and the add it is opened for.                        *)
(***************************************************************************)
PlaylistStep(p, from, to, file) ==
  /\ Is(p, from) /\ Goes(p, to)
  /\ playlist' = file
  /\ UNCHANGED <<cast, regionVars, dir, deaths, configVars>>

Test(p) ==
  /\ PlaylistStep(p, "test", IF playlist.exists THEN "use" ELSE "open", playlist)
  /\ UNCHANGED highest

\* sqlite3_open makes an empty file.
Open(p) ==
  /\ PlaylistStep(p, "open", "table", [playlist EXCEPT !.exists = TRUE])
  /\ UNCHANGED highest

\* Mutant: create table if not exists.
CreateTableIfNone(p) ==
  /\ PlaylistStep(p, "table", "begin", [playlist EXCEPT !.table = TRUE])
  /\ UNCHANGED highest

\* The two statements of tableInitializationStatement are two transactions; a table that is
\* there already is an error and ends the command.
CreateTable(p) ==
  /\ IF playlist.table THEN PlaylistStep(p, "table", "failed", playlist)
     ELSE PlaylistStep(p, "table", "begin", [playlist EXCEPT !.table = TRUE])
  /\ UNCHANGED highest

InsertBeginning(p) ==
  /\ PlaylistStep(p, "begin", "use", [playlist EXCEPT !.begins = @ + 1])
  /\ UNCHANGED highest

\* The number of entries and, when there are some, the highest id; without a table this fails.
TakeId(p) ==
  \/ /\ playlist.table
     /\ PlaylistStep(p, "use", "link", playlist)
     /\ \E m \in playlist.ids \cup {0} :
          /\ \A id \in playlist.ids : id <= m
          /\ highest' = [highest EXCEPT ![p] = m + 1]
  \/ /\ ~ playlist.table
     /\ PlaylistStep(p, "use", "failed", playlist)
     /\ UNCHANGED highest

\* The UPDATE: without a row of BEGINNING, or when another is first, it links nothing here.
Link(p) ==
  /\ PlaylistStep(p, "link", "insert",
       [playlist EXCEPT !.first = IF playlist.begins # 0 /\ @ = END THEN highest[p] ELSE @])
  /\ UNCHANGED highest

InsertEntry(p) ==
  /\ PlaylistStep(p, "insert", "done", [playlist EXCEPT !.ids = @ \cup {highest[p]}])
  /\ UNCHANGED highest

\* The disk is full, the file locked for too long: any of these calls may fail.  What the
\* calls before have done stays; the file that sqlite3_open could not open may be there.
Breaks(p) ==
  /\ \/ \E step \in {"test", "open", "table", "begin", "use", "link", "insert"} :
          PlaylistStep(p, step, "broken", playlist)
     \/ PlaylistStep(p, "open", "broken", [playlist EXCEPT !.exists = TRUE])
  /\ UNCHANGED highest

OpenPlaylist(p) ==
  \/ Test(p) \/ Open(p) \/ CreateTable(p) \/ InsertBeginning(p)
  \/ TakeId(p) \/ Link(p) \/ InsertEntry(p) \/ Breaks(p)

-----------------------------------------------------------------------------
Die(p) ==
  /\ p \in cast /\ at[p] \notin Ended
  /\ deaths < MaxDeaths
  /\ deaths' = deaths + 1
  /\ Goes(p, "dead")
  /\ UNCHANGED <<cast, regionVars, dir, playlist, highest, configVars>>

ConfigStep(p) == p \in cast /\ SetterStep(p) /\ UNCHANGED startVars

Next ==
  \/ \E p \in Initialisers : Initialise(p)
  \/ \E p \in Clients : Attach(p) \/ AttachFails(p)
  \/ \E p \in Scanners : ReadConfig(p) \/ ScannerInit(p) \/ ScannerState(p)
  \/ \E p \in Players : Signal(p)
  \/ \E p \in Adders : OpenPlaylist(p)
  \/ \E p \in Procs : Die(p)
  \/ \E p \in Setters : ConfigStep(p)

Spec == StartUpInit /\ [][Next]_vars

-----------------------------------------------------------------------------
(***************************************************************************)
(* Properties.                                                             *)
(***************************************************************************)
TypeOK == StartUpTypeOK

\* However many commands find no playlist file at once, it gets one BEGINNING row and not
\* two.  A file without one is being made, or a command was broken off on the way: it died,
\* was killed, or a call to sqlite failed.  When all commands have ended and none was broken
\* off, BEGINNING leads to an entry that is there: not all of their adds were lost.
BrokenOff == {"dead", "killed", "broken"}
OneBeginning ==
  /\ playlist.begins <= 1
  /\ playlist.exists /\ playlist.begins = 0 =>
       \E p \in Adders : at[p] \in {"table", "begin"} \cup BrokenOff
  /\ playlist.exists /\ (\A p \in Adders \cap cast : at[p] \in {"failed", "done"}) =>
       playlist.first \in playlist.ids

\* A server that SIGUSR1 kills was signalled by a command that attached to its own region
\* before its handler was there: not by one that knew an earlier server.
KilledEarly ==
  \A q \in Servers : at[q] = "killed" =>
    \E p \in Players : /\ on[p] = on[q]
                       /\ regions[on[p]].by = q
                       /\ met[p] \in {"size", "clear", "assign", "catch"}

\* The state the scanner has set is in the region the name leads to, once it is on that
\* region - unless it attached before the region was cleared.
StateShown ==
  \A p \in Scanners :
    at[p] = "scanning" /\ on[p] = name /\ met[p] \notin {"size", "clear"}
      => regions[name].lib = "WAITING"

\* A scanner goes to a folder the configuration names, however sets overlap with its
\* reading, unless a close failed or a broken line stands before the name.
HasDir(f) == \E j \in DOMAIN f : Matches(f, MediaDir, j)
DirRead ==
  \A p \in Scanners \cap cast :
    at[p] \notin {"read", "dead"} /\ dir[p] = Unset => cut \/ \E f \in FirstFiles : ~ HasDir(f)
=============================================================================
