# mpservice in TLA+

mpservice is a music player for a small Linux box: a player daemon, a daemon that
scans the disk into a SQLite database, command-line programs that a web server runs
as CGI requests, and a web page. This directory holds a formal model of it. Source
paths below are relative to `src/` of the repository.

- [The system](#the-system): components, state, operations, interaction
- [Modules](#modules): what models what, and how to read the states
- [Runs](#runs): what TLC checks, with which bounds
- [Disagreements](#disagreements-between-the-code-and-its-comments) the runs show
- [Proofs](#proofs): what TLAPS proves, from what, and how
- [Not modelled](#not-modelled) and [the plan](#plan)

## The system

| component | state | operations | hard parts |
|---|---|---|---|
| playlist library, `mps-server/libmpsserver-playlist.c` | SQLite table `mps_playlist`, one row per entry, linked by `next_playlist_entry_id`; the global `highest_entry_id`; a change counter in shared memory | `add_after` (calls itself for folders), `remove`, `get`, `get_next_id`, `get_previous_id`, `get_last_id`, `get_count` | every statement is a transaction of its own; several processes write; statements fail; processes die |
| player daemon, `mps-server/mps-server.c` `main` | `player_status` (state, current and previous entry), the signal flag, `skipFlag`, `fname` | the outer loop chooses and opens an entry, the inner loop plays it; both obey commands | a signal in the wrong moment; a playlist that changes under the player |
| player client, `libmpsserver-player.c` | the one `control` message in shared memory | stop, pause, play current / next / previous / absolute; status | no lock (named semaphores are compiled out), signals do not queue, polling with and without time-out |
| commands, `mps-commands/*.c` | none of their own: one process per request | map requests to library calls, print XML | several at once |
| library queries, `libmpsserver-library.c` | reads the library database | folder contents, title information, path of a title, search, random | rows that vanish between two queries |
| scanner, `mps-librarydbd/*.c` | the library database, a persistent copy, a generation counter, caches of the last artist and album | scan, remove what was not seen, copy, wait | crash between copy and counter, caches, directories that cannot be read |
| configuration, `libmpsserver-config.c`, `mps-config.c` | an XML file | get, set, list | read-modify-write without a lock |
| start-up, `initialize_shared_memory_server`, `mps_initialize_client`, `mps_playlist_open`, `mps-shmtool -i` | the region in `/dev/shm`, the playlist file | make, attach, open or create | nobody waits for anybody; restarts leave old regions mapped |
| web page, `www/uiutils.js`, `www/mpsutils.js` | the list and the counters it displays | polls a summary, reloads what changed | answers that overtake each other, requests that fail |

Commands call the libraries directly; everything they share lies in the two databases,
the configuration file and one shared-memory region. The only message is the control
record of that region with `SIGUSR1` as its bell; everything else is polling.

What makes each part correct:

- *playlist*: the rows are one chain from `BEGINNING` to `END` whose ids differ; each
  command makes exactly its change; reads return what was asked; loops end.
- *player*: a signalled command is obeyed; stop means stopped; left alone, the player
  goes through the list in order and waits at its end; it never loses its position.
- *scanner*: the database converges to the disk; ids are never reused for something
  else; a restart loses nothing.
- *configuration*: the file stays whole, and a successful set that no other overlapped is
  what get returns. *Web page*: it eventually shows the list there is.
- *start*: processes that come up in any order, or again, do not take each other for dead
  or alive: one playlist file, one region per server, no signal to a server that cannot
  take it yet but from a command that came too early.

## Modules

| module | models |
|---|---|
| `PlaylistTable` | the table, the SQL statements sent to it, and the sequences it stands for |
| `PlaylistDb` | `mps_playlist_add_after`, `_remove`, `_get` by any number of processes, one statement per action |
| `PlaylistSeq` | the abstract playlist: put one fresh entry somewhere, take a run of entries out |
| `Player` | `main` of the daemon, `generic_command`, `generic_play_command`, the queries they make, over the table that `PlaylistDb`'s writers change |
| `LibraryDb` | the tables of the library database, the statements sent to it, and what a directory tree is |
| `LibraryScan` | `mps-librarydbd`: start, main loop, walk of the tree, stale removal, the saved copy; around it the changing disk, failures and deaths |
| `LibraryQuery` | path, info, folder, artist and album queries of `libmpsserver-library.c`, interleaved with the scanner |
| `WebUi` | the page, its requests and the answers it gets, the change counter, over the playlist seen as a version number |
| `ConfigFile` | get and set of the configuration, line by line and save by save |
| `StartUp` | server, `mps-shmtool`, scanner, commands and sets from their start to their first use of what they share; extends `ConfigFile` |
| `MCPlaylistDb`, `MCPlayer`, `MCLibrary`, `MCLibraryScan`, `MCLibraryQuery`, `MCWebUi`, `MCStartUp` | small instances for TLC |
| `PlaylistDbProofs` | type correctness of `PlaylistDb`; what each SQL statement does to a chain of rows |
| `PlaylistListProofs` | that the table is the playlist, the refinement of `PlaylistSeq`, and that a list goes to the place asked for; that no walk along the links goes round for ever; that ids stay distinct, also under failures and crashes; what an undisturbed read returns |
| `PlayerProofs` | the player's types, its signal flag, stop, torn messages, and that it follows the list |
| `StartUpProofs` | types; the configuration file, the playlist file, the region and the scanner's state at the start |
| `LibraryScanProofs` | the scanner's types; that no id is given twice |
| `LibraryWalkProofs` | the walk of the tree: what it has come to, that paths are whole, that a quiet scan finds all and nothing else, what titles say of artists and albums, that no artist is orphaned, that titles keep their ids |
| `LibraryQueryProofs` | that queries do the scanner no harm, and that the paths, infos and folders they answer are right |
| `WebUiProofs` | the page's types; that it shows the latest list |

**PlaylistTable.** The table is a function from rowid to `[id, title, next]`. A SELECT
answers with the match of least rowid, an INSERT takes the rowid after the largest,
`Relink` is the UPDATE, `Delete` the DELETE. Titles, folders and other ids are three
disjoint sets, for `MPS_IS_TITLE_ID` and its siblings. `IdAt(list, i)` is the id at place
`i` of a list, `BEGINNING` at 0 and `END` behind the last entry.

**PlaylistDb.** A writer's `pc` names the statement it sends next: `count`, `max`, `next`,
`item` (at a list element; for a title the UPDATE), `insert`, `bump`/`store` (load and
store of the change counter) for an add; `rfirst`, `rnext`, `rdelete`, `rrelink` for a
removal; a reader's is `first` and `row`. `stack` holds the activations of `mps_playlist_add_after`, innermost last, since
a folder makes the function call itself; `highest` is the global they share. `AddFails`,
`RemoveFails`, `GetFails` (no row) and `GetErrs` (the SELECT fails, which the code cannot tell
from no row) are the error paths, `FailingSteps` says which statements may fail,
`Crash` ends a writer anywhere. A get that fails keeps the entries it has got; its caller
looks at no result (`WebUi`). A get of all that goes round a circle would grow for ever, so
its list keeps what it meets again once (`Kept`). `order` is history: `OrderInsert` and `OrderCut` apply
to a plain sequence what the last statement of a pair completes. The file is there and
opens; `StartUp` has its creation.

**Player.** Extends `PlaylistDb`, whose variables and steps are the playlist beside the player,
with the server and its clients; what both modules have by nature is called `PlayerInit`, `PlayerNext`,
`PlayerSpec`, `PlayerTypeOK` here. The server's next step is `at`: `signal`, `skip`, `rewind`, `clear` are the outer loop's `if (intflag)`, in the
order of its accesses; `advance`, `recount` and `row` the choice of the entry (a count, for
the last entry a second one, then a SELECT); `last`, `lastrow`, `count`, `title`, `open` the way to the file; `play` one turn of
the inner loop, `command`, `turn`, `stop` its `if (intflag)`. A client writes `opcode`,
`skip_method`, `playlist_entry_id` one after the other, raises the signal, asks the
playlist what to expect and polls. `fname` keeps its value when a look-up fails, as in
the code; for the `BEGINNING` row, whose title the library does not have, the appended
name is unset memory: either nothing or something that does not exist. `FailingQueries` says
at which steps a query may fail. A count that fails is -1, which is not 0, so the function goes
on to its SELECT (`SeemsFilled`); only a SELECT that fails makes the answer -1, and the server
stores that as the current entry (`AdvanceFails`); a failed look-up is like one that found no
row. `unread`, `missed`, `strayed` (a SELECT for the entry to play has failed), `calm` and
`written` are history.

**LibraryDb.** A file's content stands for its length, modification time and tags; the
scanner compares only the first two, so two contents that differ have different ones. A
title's row has the content `stat` saw (`stamp`) and the one its tags were read from (`tags`,
`NoTags` when there were none). Rows are records, tables sets of them; `version` is `db_version`. `TitleFits` is the primary
key and the index `update_lookup`. A database is `none` (no file), `whole`, or `cut`: a
file copied half, or created empty by a reader, in which every statement fails.

**LibraryScan.** `live` is the database as others see it, `db` as the scanner sees it; they
differ inside the transaction of an updating scan only. `scan.pc` is the next operation:
`sample` and `settle` the two `statfs` loops, `begin`, `walk` (one directory entry, or one
return), `tags` (of a new file, after its `stat`), `artist`, `album` and `title`
for it, `end`, then `titles`, `paths`,
`artists`, `albums` of `remove_stale_entries`, `finish` and `copy` (the change counter and
the saved copy), `size` and `counter`. `scan.stack` holds the activations of
`mps_librarydb_traverse_directory`, with the entries `readdir` has still to return and what
the last `stat` left behind: its result is not checked, so an entry that vanished is taken
for what came before it (`Looks`). `cache` is the static variables of
`update_artist_table` and `update_album_table`; it survives scans and rollbacks, not
a restart. Where the code returns from the middle of a directory, the frame loses its
remaining entries and the caller goes on (`GivenUp`). A start may fail to copy, open or read, and
`main` looks at no result: `StartNewFails` leaves it at `INIT` with no ids, `StartAgainFails`
with a highest id, a size or a scan number of 0 wherever one was not read. `steady`, `aged`,
`seen`, `ahead`, `blind` (the tables whose highest id a start could not read) and `slipped` (the
files that changed between `stat` and tags, or could not be read) are history. `Free` gives the free blocks for
every state of the disk.
`Crash(machine)` ends the process, or the machine with it: then `/tmp` and the shared
memory are empty. Simplified: `readdir` returns what was there at `opendir`; the tables are
created all or none; a failing BEGIN or END ends the process and is a `Crash`; a
failure stands for a spell in which the statements of one step fail.

**LibraryQuery.** A query keeps in `query` what the function's locals hold, `next` is its
next SELECT. Nothing but `sqlite3_open` of a missing file changes anything, so one query at
a time stands for any number. `kept` is history: the titles that were there throughout.
A folder whose id is below its range passes for
a title or is no id at all, and the path is not put together (`Climbs`).
`Listed` is the first SELECT of `mps_library_hierarchy_get`, of a folder, all artists, an artist or
an album; only a folder takes a second. Counts, random lists and the search are single
SELECTs of the same tables and not modelled.

**WebUi.** `version` is the number of changes of the playlist so far, `counter` the counter in
shared memory; `counting` holds the commands between their change and their `counter++`,
which is a load (`LoadCounter`) and a store (`StoreCounter`). `flight` is the requests under
way, each at `sent`, `begun` or `answered`; the web server runs them side by side and they
are answered in any order. `page` is what is displayed and the globals of `uiutils.js`:
`cur` is `current_id`, `pcc` is `playlist_change_counter`. `Tick` is the interval timer,
`Summary` the callback that compares and asks, `Playlist` is `updatePlaylistDisplay`. A get
that a change disturbs returns one of the playlists it met or a mixture, which is what
`PlaylistDb` shows of it; one whose SELECT fails prints the entries it has as if they were all,
or dies (`GetFails`). An add with folders counts once for each activation; each of these
is a change of its own here. `blind` is history: what keeps the page from noticing.

**ConfigFile.** The file is a sequence of lines with a name and a value; a line that lacks an
attribute has the name `Broken`. `setter` holds the locals of one `mps-config set`: the tree
it loaded, the line it is at, and the success it will report. `Store` changes a line and
renames the whole tree over the file; `StoreFails` is every reported error; `StoreCutOff` is
the one that only `fclose` reports, whose result nobody reads. mini-xml refuses a file that
is cut off (`whole`). `base` and `saves` count renames, to tell sets that overlapped; `acked`,
`lost` and `cut` are history. A get reads the file in one step, since an open file is not
disturbed by a rename.

**StartUp.** `at` is the next step of each process. A region is never forgotten: `name` says to
which one `/dev/shm` leads, `on` which one a process has mapped, so a process that attached
before a restart goes on with the old one. `Unlink`, `Create`, `Size`, `Clear`, `Assign` are the
steps of `initialize_shared_memory_server`, in its order, and `Catch` the installation of the
signal handler that comes much later. An access before `Size` kills the process (SIGBUS); a
signal before `Assign` goes to process 0, which is the sender's own group, and kills it and
whichever other commands were started with it; one before `Catch`
kills the server. `Test`, `Open`, `CreateTable`, `InsertBeginning` are `mps_playlist_open`;
`TakeId` (count and MAX), `Link` (the UPDATE) and `InsertEntry` are the statements of the add it
is opened for, of which two may take the same id. `Breaks` ends a command at any call to sqlite
that fails, with what the calls before it did left behind. `met` is history: at which step the maker of a region was when a
process attached to it. `Casts` are the sets of processes that may run together.

Definitions named in a comment that starts with `Mutant` are not part of the model: each
is a plausible mistake in the definition after it, used to see that a property notices.

## Runs

| run | instance | shows |
|---|---|---|
| `PlaylistDb` | 1 writer, 1 reader, 3 commands, requests with a title, with an invalid id and a folder of two, with a title and that folder, failures that leave nothing half done, and of any SELECT of a get | `TypeOK`, `LinksAllForward` (no circle), `ListIntact` (outside a pair of statements the rows are the chain of `order`), `QuietReadExact` (an undisturbed get is exact, or where a SELECT of it failed a beginning of that), `AddsInPlace` (what an add has put into the list stays together, in the order given, at the place asked for), `AbstractSpec` (refinement of `PlaylistSeq`) |
| `PlaylistCrash` | 1 writer, 1 reader, 3 commands, every statement may fail, the writer may die anywhere | `IdsDistinct`, `CommandsEnd`, `ReadsEndButInCircles`: a damaged table never gets two entries of one id and no add or remove is caught in it; a get is, but only in a circle of the links |
| `PlaylistTwoWriters` | 2 writers, 1 add each | violates `LinksAllForward` |
| `Player` | 1 client with 2 commands of any kind, 1 writer adding 2 titles; the SELECT for an entry may fail | `PlayerTypeOK`, `SignalKept`, `StopHolds`, `TornIsRepeated` (a torn message is followed by the whole one), `PlaysOn` |
| `PlayerAlone` | no client, 3 playlist changes, one title whose file is gone; any query may fail | `PlaysOn`, and `PlaysThrough`: left alone, it plays to the end and waits there, also after an append and whichever counts and look-ups fail, unless the SELECT for the next entry fails |
| `PlayerStranded` | no client, 2 playlist changes | violates `NeverStranded` |
| `LibraryScan` | a file in the root, one in a folder; 2 changes of the disk, no failures | `TypeOK`, `NoOrphans`, `TagsRight` (but for a file that changed between `stat` and tags), `TitlesKeepIds` (an untouched music file's title keeps its id), `CatchesUp` (the database comes to show the disk) |
| `LibraryRestart` | 1 change, 1 failure (also of the copy, the open or a read at a start), 1 death; also a file that is no music | `QuietScanComplete`, `QuietScanExact`, `PathsWhole`, `IdsFree`, `IdsInRange` (no table mixes ids of two ranges); the last two but for a table whose highest id a start could not read |
| `LibraryStaleCache` | 2 changes | violates `ReferencesGood` |
| `LibraryQuery` | one content for each file, 1 change, 1 failure, 1 query | `QueryTypeOK`, `PathRight`, `InfoRight`, `FolderRight` |
| `WebUi` | 2 requests under way, 3 changes, presses or moves of the player, 1 failure (of a request, an add, or a query of a get) | `TypeOK`, `ShowsLatest`, `ListSettles`, `CurrentSettles`: the page comes to show the playlist, unless a change was not counted, the counter went back, an older list came last, or the list was lost or broken off by a failed query; the current entry always |
| `StartUp` | 5 casts of 3 or 4 processes, 1 death, 1 spoilt save, any call to sqlite may fail | `TypeOK`, `OneBeginning`, `KilledEarly`, `StateShown`, and of the configuration `SetsKept`, `FileKept` |

*Bounds.* Three playlist commands make lists of up to nine entries with gaps in the ids,
entries put at the beginning, at the end and in the middle, nested activations and every
kind of removal (one, all, more than there are, an id that is gone); the hazards listed
in `PROJECT.json` need at most three commands (in `PlaylistCrash` an add that is cut in two, one
that links to itself, and a get that goes round it). Two player commands are the least at which
one signal can fall into the handling of another. `MaxOps` and `MaxCommands` are guards
of the actions that start a command, nothing else is cut off. TLC stops when all commands
were used up, so `CHECK_DEADLOCK` is off.

The files of the library instances have names that `mps_get_file_type` knows (`Files`); what it
does not know is passed over (`PassOver`), which is met here when a folder that vanished is taken
for a file. The instances begin with every tree of two files and a folder, so the first scan
adds as much as there is. Two changes are what it takes to change a file and change it
back during a scan, and to lose an artist whose id is cached; one of each kind of trouble
in `LibraryRestart` suffices for all the hazards listed, and every action fires. `MCFree`
makes any two trees differ in free blocks and `Threshold` is 1 there (5 in the code): a
change below the threshold, or one that leaves the free blocks as they were, is not seen
by the code at all, and `CatchesUp` says nothing of it. `CatchesUp` also excludes the
one case the model shows even so: files changed during a scan and back again.

In `WebUi` two requests are what it takes for one answer to overtake another, and three
events for the counter to lose an increment, go back and be raised again to the value the
page knows: with two, `ShowsLatest` would hold without its exception `backwards`. `MaxInFlight`
also stops the timer and buttons while two requests are out, which the page does not; more
of them repeat what two can do. In `StartUp` the casts are the combinations that meet in
one of the hazards: a start with a page at work, a server started again, `mps-shmtool -i`
under a running server, first adds, sets while the scanner reads. The proofs have any casts.

*Fairness.* The scanner loops for ever: weak fairness on its steps (`FairSpec`), none on the
disk. `CatchesUp` has no restarts or failures in it.

In `WebUi` the interval timer fires (`Tick`), commands that change the list go on to their
end (`ChangeGoesOn`), and the oldest request is served and its answer delivered
(`Serve(1)`, `Deliver(1)`); a request that is lost is a `LostGet`, without fairness. Buttons,
the player and other commands owe nothing.

A command is a process that runs until it exits: weak fairness on the steps
of a command under way, none on starting one. The server loops for ever: weak fairness
on its steps, which includes that a track ends. The weak fairness is on the steps that go on
(`ReaderGoesOn`, and the like for a writer and the server); a failing statement is an action
without fairness, so nothing has to fail, and nothing has to succeed once it was chosen to fail.
`CommandsEnd` and `ReadsEndButInCircles` hold under failures because each failing statement leaves
its loop, and under damage because a remove deletes what it walks over; a get only walks, which
is why it needs links that go forward. They do when no pair of statements is left half done
(`LinksAllForward` in `PlaylistDb`), and then every get ends. `PlaysThrough` leaves off once a SELECT for the next
entry has failed (`strayed`). A crash is an action without fairness: no command ends because it
dies.

*One writer at a time* is what `ListIntact`, `LinksAllForward`, `AbstractSpec` and
`QuietReadExact` need and the code does not enforce: the named semaphore of the sources
is compiled out, and `PlaylistTwoWriters` shows the result.

## Disagreements between the code and its comments

1. **Two adds at once** (`libmpsserver-playlist.c:149`). Both read the same
   `MAX(playlist_entry_id)`. The two entries get one id, and the second UPDATE makes the
   row link to itself. The comment at line 158 says the links are all forward.
2. **The player loses its position** (`mps-server.c:821`). `mps_playlist_get_next_id`
   returns -1 when the entry it is asked about has no row; `main` stores that as the
   current entry and asks about -1 from then on, playing the old file again and again.
   It is enough that an append's UPDATE and INSERT fall around the poll at the end of
   the list; removing the entry that is playing does the same, and so does one SELECT that
   fails (the exception of `PlaysOn` and `PlaysThrough`). A count that fails does no harm.
3. **A stale cached id** (`mps-librarydbd-traverse.c:631`). A file with the artist asked for
   last is removed, `remove_stale_entries` deletes the artist, the file comes back:
   `update_artist_table` answers with the id of the deleted row, and the title refers to no
   artist from then on (the same for the album). The comment at line 611 says the row is
   added if necessary.

One more is not a run of its own. When the INSERT of an add fails after its UPDATE
(`libmpsserver-playlist.c:185`), the next add after that place takes the id the dangling link
names and links to itself, and an `mps-playlist get` of all goes round that row, asking for more
memory, for ever: the exception of `ReadsEndButInCircles`.

What else the models show of the code, stated as the exception of a property that holds:

- *Torn messages* (`libmpsserver-player.c:267`): with two clients the server can obey a play
  absolute before its entry id is written; the whole message follows (`TornIsRepeated`).
- *Ids outside their range* (`mps-librarydbd.c:320`): after a restart on an empty table,
  `max(id)` is read as 0 and the ids of that table start at 1, among those of the titles;
  then all of them do (`IdsInRange`). The same happens, over a table full of rows, when a start
  cannot read the highest id: `mps_librarydbd_init` does not look at the result of `get_max_id`,
  nor `main` at that of `mps_librarydbd_init` (line 153), and ids are given a second time
  (`blind` in `IdsFree` and `IdsInRange`). A scan number that was not read is 0 (`ahead` in
  `PathsWhole`).
- *Ids used again* (`mps-librarydbd.c:782`): the highest id is that of the rows there are, so after
  a restart the ids of the highest rows, if these were removed, are given to other files.
- *Tags of another file* (`mps-librarydbd-traverse.c:138`): a file that is replaced between `stat`
  and the reading of its tags gets a row with the length and time of the one and the tags of the
  other; when it is put back as it was, nothing tells any more (`slipped` in `TagsRight`).
- *A display that stays old* (`uiutils.js:231`): the page stores the counter before the list
  it announces has come, so a lost list, or an older one that comes last, stays until the
  next change; so does a list that a failing SELECT broke off, which `mps-playlist` prints as if it
  were whole (`mps-playlist.c:171`); and two commands that count at once can take the counter back to a value
  the page has seen (`ShowsLatest`, `ListSettles`).
- *A set that reports what it did not do* (`libmpsserver-config.c:259`): with several lines of
  one name, success of one hides the failure of another; and a broken line further on makes
  a set that was stored, or a get that found its value, a failure.
- *A configuration cut off* (`libmpsserver-config.c:253`): if only `fclose` notices that the disk
  is full, what fitted replaces the file, and no get or set works again (`FileKept`).
- *A state that is cleared* (`libmpsserver-player.c:129`): a scanner that attaches between
  `shm_open` and `memset` loses the state it has set (`StateShown`); after a restart of the
  server a running scanner writes to a region nobody reads.
- *An entry in no list* (`libmpsserver-playlist.c:79`): a command that opens the new file
  between the creation of the table and its first row adds an entry that is not linked. When the
  command that makes the file dies or sqlite fails it in between, no later one repairs the file
  (`OneBeginning`).

## Proofs

All theorems hold for every number of writers, readers and clients, every set of titles
and folders, every content of a folder, every tree of files and every bound. The constants
need what `ConstantsOK`, `IdRangesDisjoint`, `PlayerConstantsOK`, `ConfigConstantsOK`,
`UnsetIsNoValue`, `StartUpConstantsOK`, `WebUiConstantsOK`, `TreeOK`, `Depths`, `IdRanges` and
`DiskOK` say, which TLC evaluates in the runs. `Depths` says what a tree is: every name has
a depth, and its directory a smaller one. Four more conditions are hypotheses of the
theorems that need them:

- `OneWriter`: at most one process writes the playlist. The code does not see to it.
- `PairsWhole`: the INSERT of an add and the closing UPDATE of a remove do not fail and
  no writer dies; every other statement may fail.
- `OneScanner`: of the processes that may run together one is a scanner, as `startup.sh`
  starts them.
- `HasRoom`: no count of the library's ids has come to the end of its range.

`Orderly` is the first two. `PlaylistTwoWriters` shows that the first cannot be dropped, the failed
INSERT above that the second cannot.

| theorem | needs | states |
|---|---|---|
| `TypeCorrect` | nothing | `TypeOK` |
| `IdsStayDistinct` | `OneWriter` | `IdsDistinct`, whatever fails and wherever the writer dies |
| `ListStaysIntact` | `Orderly` | `ListIntact` |
| `ImplementsPlaylist` | `Orderly` | `AbstractSpec`: `PlaylistDb` implements `PlaylistSeq` |
| `ListsGoInPlace` | `Orderly` | `AddsInPlace`: a list stays together, in order, at the place asked for |
| `WalksEnd` | `Orderly` | `LinksAllForward`, also between the statements of a pair |
| `SharesPlaylist` | nothing | the playlist beside the player is `PlaylistDb`, so the theorems above hold there |
| `QuietReadsExact` | `Orderly` | `QuietReadExact`: an undisturbed `mps_playlist_get` returns the slice it was asked for, and breaks off only where a SELECT failed, at an id of no entry or in an open gap |
| `PlayerTypeCorrect` | nothing | `PlayerTypeOK` |
| `SignalsKept` | nothing | `SignalKept` |
| `StoppedHolds` | nothing | `StopHolds` |
| `TornRepeated` | nothing | `TornIsRepeated` |
| `FollowsList` | `Orderly` | `PlaysOn`: an undisturbed player goes from each entry to the next, whichever counts and look-ups fail, and loses its place only when the SELECT for the next entry fails |
| `LibraryTypeCorrect` | nothing | `TypeOK` of the scanner |
| `LibraryIdsFree` | nothing | `IdsFree`, however often the scanner dies and whatever fails, for each table whose highest id every start could read |
| `WalkAlways` | nothing | what the recursive walk has come to and what it has not are apart |
| `LibraryPathsWhole` | nothing | `PathsWhole`, at every statement and through every restart |
| `LibraryQuietScanComplete` | nothing | `QuietScanComplete`: a quiet scan of any tree finds every file |
| `LibraryQuietScanExact` | nothing | `QuietScanExact`: and lists nothing else, and nothing twice |
| `LibraryTagsRight` | nothing | `TagsRight`: tags and stamp of a row are of one file, unless it changed in between (`slipped`); within a life of the scanner no title leads to another artist's row |
| `LibraryNoOrphans` | nothing | `NoOrphans`: while nothing fails, no artist and no album is left without a title |
| `LibraryTitlesKeepIds` | nothing | `TitlesKeepIds`: while nothing fails, an untouched music file keeps its title and its id |
| `QueriesDoNoHarm` | nothing | `IdsFree`, `PathsWhole`, `TagsRight`, with their exceptions, with queries at any moment, too |
| `QueryTypeCorrect` | nothing | `QueryTypeOK` |
| `QueryPathRight` | nothing | `PathRight`: a title that stays gets the path it lies at, SELECT by SELECT |
| `QueryInfoRight` | nothing | `InfoRight`: album and artist are those of the row's tags, although read later |
| `QueryFolderRight` | nothing | `FolderRight`: what was in a folder all the time is listed |
| `IdsKeepRanges` | `HasRoom`, always | `IdsInRange`, however often the scanner dies and whatever fails, for each table whose highest id every start could read |
| `PageTypeCorrect` | nothing | `TypeOK` of the page |
| `LatestIsShown` | nothing | `ShowsLatest`, for any number of requests under way, of changes and of failures |
| `StartUpTypeCorrect` | nothing | `TypeOK` of the start |
| `StateIsShown` | `OneScanner` | `StateShown`, whoever starts, dies or attaches |
| `FileIsKept`, `SetsAreKept` | nothing | `FileKept`, `SetsKept`, for any file, sets and failures |
| `FolderIsRead` | nothing | `DirRead`: the scanner finds its folder however sets overlap with its reading |
| `ListBegins` | nothing | `OneBeginning`, for any number of first adds, deaths and failing calls |
| `OnlyEarlySignalsKill` | nothing | `KilledEarly`, for any servers, restarts, tools and clients |

*Type correctness.* `TypeInv` adds `Control` to `TypeOK`: a writer that is adding has an
activation on its stack, one that is removing or idle has none, and what is about to be
inserted is a title. Without it `Top(w)` would be the last element of an empty stack.

*The list.* `Chain(t, list, gone, link)` says that table `t` has one row for each place of
`list` but those in `gone`, and the row of place `i` links to `link[i]`. The lemmas of
`PlaylistDbProofs` carry a chain over each statement: `RelinkChain` (UPDATE of an add),
`InsertChain`, `DeleteChain`, `CutChain` (UPDATE of a remove), `SelectChain` and `NoRowChain`
(what a SELECT finds). `ListIntact` alone is not inductive: it says nothing while a pair of
statements is open, and nothing of what a process remembers. The invariant `ListInv` adds

- `Opened`: between UPDATE and INSERT the table is the chain in which one place links to
  the id to come, which is higher than all others;
- `Cutting`: during a remove the run from `first` up to `this` is gone, or `first` was no
  place and nothing is;
- `PlacesKnown`: every activation on the stack, the ones waiting for a folder included,
  still knows a place of the list to insert before. Insertions of the inner activation
  keep the caller's place, which is why a nested add does not break the outer one;
- `HighestKnown`: `highest_entry_id` bounds the ids of the list, also after an inner
  activation returned early because a statement failed.

`ListInv` was model-checked on the instance of `PlaylistDb.cfg` before it was proved.
`ImplementsPlaylist` reads off the same lemmas that an INSERT is `PlaylistSeq`'s `Put`, the
closing UPDATE its `Take`, and every other step a stutter. `WalksEnd` follows from
`ListInv`: whichever chain the table is at a step, its links lead to later places or to no
row, so among any rows the one of the greatest place links to none of them.

*Places.* `AddsInPlace` speaks of the outermost list only, when it is about to do its next
element, and is far from inductive: it needs to know what the activations for its folders do.
`PlaceInv` says of all activations on the stack

- that the place each inserts before is its caller's, or the one behind the newest entry
  (`Latest`). A folder that comes first follows its list's own `first`, so it has the caller's
  place (`Adjacent`); any other follows the highest id, which is the newest entry's or no
  entry's at all, and then the list goes no further (`Beyond`);
- that between what the list was to follow and what followed it then (`Landing`) a later entry
  is always behind an earlier one, and that from the first entry that lands there all later
  ones do.

The two hold each other up. When an entry is put in, it is the newest, so what was behind the
newest one still is (`InsertLatest`): the inner activation's place remains good for the
outer ones. And an insertion before the list's own place lands where it should, one behind
the newest entry lands there exactly if something landed before (`InsertLanding`). `PlaceInv` was
model-checked before it was proved, with folders two deep, invalid ids before them and every
failure `Orderly` allows.

*Reads.* `QuietReadExact` speaks of finished reads only. `ReadInv` says of a read under way that
what it has got is a run of the playlist from the place it was asked to start at, and that the
id it goes on with is the next place, or an id without a row to which only an open pair can have
led it; or that the start is no place and there is nothing. A SELECT that fails ends the read with
the run it has (`erred`). It leans on `ListInv`: each step of
a read needs to know what the links of the table are, also between the statements of a pair
(`TableShape`), and that the playlist never changes without the table (`OrderWithRows`).

*Ids.* With crashes the table need not be a chain, so `IdsStayDistinct` has an invariant of
its own: `Above` says that the highest id a writer remembers is one, from the moment it
asked for it to the end of the command.

*Player.* `SignalKept` is inductive. `StopHolds` needs that only a playing server is
between choosing an entry and opening its file, and that the opcode in shared memory is
one the server knows even while clients overwrite each other (`StopInv`). `TornInv` follows
an entry id nobody wrote from the shared memory into the server's copy and says who owes it
the rest: a client that is still writing, or a signal that is pending. `CalmInv` adds to the
playlist's `ListInv` where an undisturbed player is: on a row of the list or behind its
last one, with the default choice before it, asking about the entry it will leave
(`Following`). A count that fails leaves it there, since it only leads on to the SELECT; a SELECT
that fails ends the calm.

*Page.* `ShowsLatest` speaks of a page at rest; `Noticed` says at every moment why the last
change is not missed: the page shows it, or its counter differs from the one in shared memory,
or a command has still to count, or a list with it is on its way; or `blind` says why. A list that
a failed SELECT broke off is never taken for the playlist (`whole`), and is in `blind` at once. `Behind` says that nothing the
page has or will get is ahead of the counter as long as the counter did not go back, and
`Bounded` that each command still counting accounts for one change the counter will not exceed.

*Scanner.* `TypeInv` adds to `TypeOK` that a walk has a frame and that every id stored or
cached is one; `IdsInv` adds to `IdsFree` the title whose number is taken and whose row
is not there yet, so that giving the number back after a failed INSERT does no harm. Both leave out
the tables in `blind`, which a start gives a highest id of 0 below the rows they have.

The walk is a recursion over a tree that changes under it. `Walked(U)` says that a set `U` of
names tells what it has still to come to from what it has come to: `U` contains what lies
below its names, the frames' remaining entries are in it, the frames' own directories are
not and differ from each other, and each of them has a row with this scan's number
(`FolderOf`). Each step of the walk takes the name it visits out of `U`; a directory that
is given up or vanished leaves what is below it in `U`, where nothing will ask for it again.
On this rest
- `PathInv`: in each of the three databases, the folder of a row has a number that is not
  below the row's own (`Parented`), no row's number is above the scan's, and when the folders
  are removed no title is older than the scan. So a DELETE by number takes no folder whose
  rows stay, and a rollback or a copy, which is one of the databases as it was, is whole too.
- `CoverInv`: in a quiet scan all that exists outside `U` is known by the database with this
  scan's number, and all that exists in `U` lies below something in `U` or is an entry a
  frame has left. When the stack is empty nothing existing is in `U`, else one of least
  depth would be in no frame (`NoneLeft`, with `Depths`): the walk has come to all.
- `ExactInv`: in a quiet scan with a new number the rows of that number are those of music
  outside `U` (or of a file in `slipped`), no two of one name; what DELETE leaves are those.
- `UniqueInv`: the unique index `update_lookup` holds in every database; `TreeInv` and
  `LiveInv`: the disk is a tree, and readers see the scanner's tables outside a scan.
- `TagInv`: an id that is cached, that a title refers to, or that the file being looked at was
  given leads to the row it was given for, or to none (`CacheTrue`, `Agree`, `TrackTrue`). The tags
  are those read; that they are of the stamp as well is `SlipInv`, which says it of every row
  (`Traced`) and of the file being looked at, but for those in `slipped`.
  What makes it so is that within a life no id is given twice (`IdsInv`), even when the
  row it was given for was removed and its id stays in the cache.
- `OrphanInv`: while nothing fails, each artist and album has a title, or is the one of the file
  being looked at, or is on the list `remove_stale_entries` works through. A row put in
  for a title would be left behind if the title's INSERT were refused; it is not, since in the first
  scan the table has no title of a name still to come (`FirstScan`), and in a later one
  the file was looked up before it was taken for new (`NoSuchTitle`).
- `KeepInv`: while nothing fails, no two folders have one name, the folder of every folder has a
  row that is not older, and a first scan meets no folder it has a row of. So a directory that is
  looked up by its parent's id is found again and marked, with all of its titles, and what
  DELETE by number takes are not those (`StillThere`: what readers see is still there in
  the scanner's tables when the new ones are shown).

TLC checked each of them as an invariant of the instances of the runs before it was
proved, and found what the first form of `PathsWhole` lacked. In 57 steps: the write of the
counter fails (`mps-librarydbd.c:480`, where nobody looks at the result), the scanner goes on
with the number it has in memory, a copy with the lower one is restored, a folder's row
is set back to it, and the next scan removes the folder while a title below it, of
a directory that could not be read, keeps the higher number. `ahead` is this case.

*Queries.* A query shares no variable with the scanner but the tables it reads, and each of its
SELECTs may see another state of them. What it answers is right because some things stand
still while the rest changes, and `AnswerInv` says which:

- `ScanInv` is the scanner's invariants with queries about. They survive since a query
  writes in one case only: it creates an empty file where there is none, which happens before
  the first start or after a lost file, never under a scanner (`FileInv`).
- `LifeInv` holds until the scanner first dies, or cannot read a highest id at its start (`OneLife`). What readers see and what the scanner sees
  inside its transaction are two databases, and `Steadfast` relates them: an id stands for one
  folder, with one name in one place, in both (`FoldersAlike`); so for titles (`OneTitle`);
  the folder a row refers to has the name the row's file lies in (`InPlace`); every id is above the start of its
  range (`Ranged`, and the ids that are cached or about to be written, `ScanRanged`); the artist
  and the album a title refers to, or any title that was there once, lead to its own names or
  to no row (`RefTrue`), and a row that has gone does not come back (`NoReturn`).
- `KeptLive`: the titles that the history of the query keeps are there.
- `PathsInv`: the walk from a title up to the root is an induction over the depth of the tree,
  which the prover cannot do. `Above(at, t)` replaces it: `at` belongs to *every* set of ids that
  contains the folder of `t` and is closed under going up. Going up a folder keeps this; it gives that
  the next folder has a row, with the set of all folders; and it survives a DELETE of
  other folders, with the set of those that stay.
- `InfoInv`: the row read first is `RefTrue` until the answer, also when the title, its artist or
  album have gone meanwhile. `FolderInv`: the answer shows what it has to, and goes on doing so.

The three answers are right as long as `OneLife` is. After that they need not be: a
restored copy is older, its ids are given again, and a query that was under way reads another's
row; or a table is found empty and its ids are those of titles. `FolderRight` also says nothing
once the ids of artists or albums have run into the next range (`RangesLast`).

*Ranges.* Nothing in the code watches the end of a range, so `IdsInRange` is a fact about
libraries that fit. `HasRoom` says what fits is: no count of ids reaches the end of its range,
and a count that a restart began at 0 (`get_max_id` of an empty table) does not come to the first
artist's id, where the rows below all ranges would meet the ranges. With the ranges of the code
that is a million ids. `RangeInv` ties each count to its table: both are in the range, or both
below all (`OneRange`); a file cut off by a full disk counts from 0, but nothing can be written
to it. A table in `blind` is left out: its count is 0 and its rows are not. The copy on disk has its own part, since the next start may restore it. `RangeInv` and
`HasRoom` are both invariants of the instance of `LibraryRestart`, as TLC finds.

*Configuration.* `ConfigInv` says that every tree a set has in memory has the names of some
first file, in order; so has whatever it renames. `SetInv` ties a set's tree to the file: as
long as no set renamed over another, the tree of one whose `base` is the number of renames
is the file, but for saves that failed, and the lines it has passed hold its value (`Knows`).

*Start-up.* `PlaceInv` is what types need: a process at work has mapped a region, which is
one that was made. `ClearedInv` says that a scanner which attached after the region was cleared has a
maker past the clearing, and that its state is still there. `MakerInv` says who has created the table and not yet inserted `BEGINNING`:
`CreateTable` succeeds once, so one process at most is there; or that one was broken off, by death,
by a signal to its group or by a failing call, and then it stays so. As long as none was,
`FirstComes` follows the first entry: who sends the first UPDATE with `BEGINNING` there links it,
and its INSERT is still to come or done. `RegionInv` says that a region
has one maker, whose pid it holds or none, that the maker stays on it, and that who has
mapped it while the maker was still starting attached then. A pid that leads to a starting
server was thus read from that server's own region.

*Only model-checked.* Liveness (`CommandsEnd`, `ReadsEndButInCircles`, `PlaysThrough`, `CatchesUp`,
`ListSettles`, `CurrentSettles`): ENABLED is out of the prover's reach.

## Not modelled

Decoding and audio output, option parsing, XML and CGI printing, the stream branch of
`main` (`element_type` is never set to a stream), browser detection, cookies, build and
installation files, the patches to boa, taglib, mini-xml and mDNSResponder. Of the page: the
library half, the pause button's display, the HTML. Of the configuration: the layout of the
XML, and a file without the element `parameters`. Of `mps-playlist get`: that its output is cut at
64 KB (`mps-playlist.c:161`), and the wrong strings it prints for an entry whose title's info
cannot be had. A get that goes round a circle is in `PlaylistDb`, not in `WebUi`. Of the scanner: decoding of
tags and conversion of their text, and a creation of the tables that made only some of them. Of the library
queries: counts, random lists and the search.

## Plan

In this order, the most important first:

1. done: `PlaylistTable`, `PlaylistDb`, `PlaylistSeq`, `Player`, their runs, and the
   theorems above;
2. done: `LibraryDb`, `LibraryScan`, `LibraryQuery` and their runs;
3. done: `WebUi`; the placement of folders in a list (`AddsInPlace`);
4. done: `ConfigFile` and `StartUp` with their proofs;
5. done: proofs of the player, the page, the start and the scanner;
6. done: the proofs of `AddsInPlace`, of the queries and of the ids' ranges;
7. to do: the search of the library, and the library half of the page.
