----------------------------- MODULE LibraryScan -----------------------------
(***************************************************************************)
(* mps-librarydbd, the process that keeps the library database in step     *)
(* with the media directory: it compares the free blocks of the file       *)
(* system every ten seconds, and when they changed walks the tree, marks   *)
(* or adds what it finds with the number of the scan (dbVersion), removes  *)
(* the rows that kept an older number, and saves a copy of the database.   *)
(*                                                                         *)
(* Around it the disk changes at any moment, SQL statements and file       *)
(* operations fail, and the process dies and is started again.             *)
(***************************************************************************)
EXTENDS LibraryDb

CONSTANTS
  Holds,        \* the contents a file may get
  Free,         \* the free blocks of the file system when the disk is a given one
  Threshold,    \* LIBRARYDB_FS_CHANGE_SIZE_THRESHOLD_BLOCKS
  MaxChanges,   \* bound: changes of the disk
  MaxFailures,  \* bound: operations that fail
  MaxCrashes    \* bound: deaths of the scanner

Absent == "absent"
Dir    == "directory"
Unset  == "unset"

ASSUME DiskOK ==
  /\ Holds \in [Files -> SUBSET Contents]
  /\ Free \in [[Names -> Contents \cup {Dir, Absent}] -> Nat]
  /\ {Threshold, MaxChanges, MaxFailures, MaxCrashes} \subseteq Nat
  /\ {Absent, Dir, Unset} \cap Contents = {}

VARIABLES
  disk,           \* what each name of the media directory is
  live,           \* the live database as the other processes see it
  db,             \* the same as the scanner sees it, in its transaction
  saved,          \* the persistent copy
  state,          \* library_status.librarydbd_state in shared memory
  changeCounter,  \* library_status.change_counter in shared memory
  scan,           \* the variables of the scanner process
  steady,         \* history: the disk stayed as it is since the scan began
  aged,           \* history: that scan began with a number above every row's
  seen,           \* history: the disk when the free blocks were last found changed
  ahead,          \* history: a start went on from a number below that of some row
  blind,          \* history: the tables a start went on with without their highest id
  slipped,        \* history: the names whose tags may not be of the content stat saw
  spent           \* changes, failures and crashes so far

vars == <<disk, live, db, saved, state, changeCounter, scan, steady, aged, seen, ahead,
          blind, slipped, spent>>

shared  == <<state, changeCounter>>
tables  == <<live, db, saved>>
history == <<steady, aged, seen, ahead, blind, slipped>>

\* An activation of mps_librarydb_traverse_directory: the directory, its path id, the
\* entries readdir has still to return, and what the last stat left in statStructure.
Frame == [dir : Names \cup {Root}, id : Nat, left : SUBSET Names,
          last : Contents \cup {Dir, Unset}]

\* The file that is to be added, with what was found of it so far.
Track == [name : Names, stamp : Contents, tags : Audio \cup {NoTags},
          artist : ArtistNames, album : AlbumNames, artistId : Id]

\* The static variables of update_artist_table and update_album_table.
NothingCached == [artist |-> NoName, artistId |-> 0, album |-> NoName, albumArtist |-> 0, albumId |-> 0]

NoTrack == <<>>

\* The highest ids before they are looked up, or when that fails.
Tables == {"titles", "artists", "albums", "paths"}
NoHighest == [titles |-> 0, artists |-> 0, albums |-> 0, paths |-> 0]

Scanner ==
  [pc : {"down", "sample", "settle", "begin", "walk", "tags", "artist", "album", "title",
         "end", "titles", "paths", "artists", "albums", "finish", "copy", "size", "counter"},
   stack : Seq(Frame), track : Track \cup {NoTrack},
   cache : [artist : ArtistNames \cup {NoName}, artistId : Id,
            album : AlbumNames \cup {NoName}, albumArtist : Id, albumId : Id],
   highest : [titles : Nat, artists : Nat, albums : Nat, paths : Nat],
   albumId : Id, dbVersion : Nat, oldfree : Nat, newfree : Nat, changed : BOOLEAN,
   deadArtists : SUBSET Id, deadAlbums : SUBSET Id]

Down ==
  [pc |-> "down", stack |-> <<>>, track |-> NoTrack, cache |-> NothingCached,
   highest |-> NoHighest,
   albumId |-> 0, dbVersion |-> 0, oldfree |-> 0, newfree |-> 0, changed |-> FALSE,
   deadArtists |-> {}, deadAlbums |-> {}]

TypeOK ==
  /\ {disk, seen} \subseteq [Names -> Contents \cup {Dir, Absent}]
  /\ {live, db, saved} \subseteq Database
  /\ state \in {"INIT", "CREATINGDB", "UPDATINGDB", "WAITING", "SETTLING"}
  /\ changeCounter \in Nat
  /\ scan \in Scanner
  /\ {steady, aged, ahead} \subseteq BOOLEAN
  /\ blind \subseteq Tables
  /\ slipped \subseteq Names
  /\ spent \in [{"change", "failure", "crash"} -> Nat]

-----------------------------------------------------------------------------
(***************************************************************************)
(* The disk.                                                               *)
(***************************************************************************)
Exists(n) == disk[n] # Absent
HasPlace(n) == In[n] \in Dirs => disk[In[n]] = Dir
Entries(d) == {n \in Names : In[n] = d /\ disk[n] # Absent}

\* statfs: the blocks that are free
FreeBlocks == Free[disk]

Used(what) ==
  /\ spent[what] < [change |-> MaxChanges, failure |-> MaxFailures, crash |-> MaxCrashes][what]
  /\ spent' = [spent EXCEPT ![what] = @ + 1]

\* A change between the stat of a file and the reading of its tags is one the row will not
\* tell of.
ChangeTo(newDisk) ==
  /\ Used("change")
  /\ disk' = newDisk
  /\ steady' = FALSE
  /\ slipped' = slipped \cup
       {n \in Names : scan.pc = "tags" /\ n = scan.track.name /\ newDisk[n] # disk[n]}
  /\ UNCHANGED <<tables, shared, scan, aged, seen, ahead, blind>>

\* A file is written, replaced or deleted.
PutFile(f, c) ==
  /\ HasPlace(f)
  /\ disk[f] # c
  /\ ChangeTo([disk EXCEPT ![f] = c])

RemoveFile(f) ==
  /\ Exists(f)
  /\ ChangeTo([disk EXCEPT ![f] = Absent])

\* A directory is made, or moved away with the files in it.
MakeDir(d) ==
  /\ HasPlace(d)
  /\ ~Exists(d)
  /\ ChangeTo([disk EXCEPT ![d] = Dir])

MoveDirAway(d) ==
  /\ Exists(d)
  /\ \A e \in Dirs : In[e] = d => ~Exists(e)
  /\ ChangeTo([n \in Names |-> IF n = d \/ In[n] = d THEN Absent ELSE disk[n]])

DiskStep ==
  \/ \E f \in Files : RemoveFile(f) \/ \E c \in Holds[f] : PutFile(f, c)
  \/ \E d \in Dirs : MakeDir(d) \/ MoveDirAway(d)

-----------------------------------------------------------------------------
(***************************************************************************)
(* mps_librarydbd_init.                                                    *)
(***************************************************************************)
\* The file the live database is when init has copied the saved one over it; the copy may
\* fail, before or after it began.
Restored == IF saved.file = "none" THEN live ELSE saved
MayBeRestored == IF saved.file = "none" THEN {live} ELSE {saved, live, CutOff}

\* The first start, or one after the live file was lost: the tables are created.
StartNew ==
  /\ scan.pc = "down"
  /\ \E d \in MayBeRestored :
       /\ d.file = "none"
       /\ IF d = Restored THEN UNCHANGED spent ELSE Used("failure")
  /\ live' = EmptyDatabase
  /\ db' = EmptyDatabase
  /\ state' = "CREATINGDB"
  /\ scan' = [Down EXCEPT !.pc = "sample",
       !.highest = [titles |-> 0, artists |-> MinArtistId,
                    albums |-> MinAlbumId, paths |-> MinPathId]]
  /\ UNCHANGED <<disk, saved, changeCounter, history>>

\* The tables cannot be created, or are and the PRAGMAs fail: init gives up, main does not.
StartNewFails ==
  /\ scan.pc = "down"
  /\ Used("failure")
  /\ \E d \in MayBeRestored : d.file = "none"
  /\ live' \in {EmptyDatabase, CutOff}
  /\ db' = live'
  /\ state' = "INIT"
  /\ scan' = [Down EXCEPT !.pc = "sample"]
  /\ blind' = Tables
  /\ UNCHANGED <<disk, saved, changeCounter, steady, aged, seen, ahead, slipped>>

\* Mutant: the highest ids are not looked up.
HighestAtStart(d) ==
  [titles |-> 0, artists |-> MinArtistId, albums |-> MinAlbumId, paths |-> MinPathId]

\* Mutant: the highest id of the titles is taken for every table.
HighestOfTitles(d) ==
  [titles |-> MaxId(d.titles), artists |-> MaxId(d.titles),
   albums |-> MaxId(d.titles), paths |-> MaxId(d.titles)]

\* get_max_id of each table
HighestIn(d) ==
  [titles |-> MaxId(d.titles), artists |-> MaxId(d.artists),
   albums |-> MaxId(d.albums), paths |-> MaxId(d.paths)]

\* The scanner goes on with what it could read.
StartsWith(d, highest, size, number) ==
  /\ live' = d /\ db' = d
  /\ scan' = [Down EXCEPT !.pc = "sample",
       !.highest = highest, !.oldfree = size, !.dbVersion = number]
  /\ ahead' = (ahead \/ \E r \in d.titles \cup d.paths : r.version > number)
  /\ UNCHANGED <<disk, saved, changeCounter, steady, aged, seen, slipped>>

\* A start with a database: the highest ids are those in its tables.
StartAgain ==
  /\ scan.pc = "down"
  /\ Restored.file # "none"
  /\ StartsWith(Restored, HighestIn(Restored), Restored.size, Restored.counter)
  /\ state' = "WAITING"
  /\ UNCHANGED <<blind, spent>>

\* The copy, sqlite3_open, the PRAGMAs, or any of the SELECTs fails.  main looks at the
\* result of none of them: a number that was not read is 0, those of init all of them when
\* it gave up before.
StartAgainFails ==
  /\ scan.pc = "down"
  /\ Used("failure")
  /\ \E d \in MayBeRestored, unread \in SUBSET Tables :
       LET highest == [t \in Tables |-> IF t \in unread THEN 0 ELSE HighestIn(d)[t]] IN
       /\ d.file # "none"
       /\ \E size \in {0, d.size}, number \in {0, d.counter} : StartsWith(d, highest, size, number)
       /\ blind' = blind \cup {t \in unread : HighestIn(d)[t] # 0}
       /\ state' \in IF unread = Tables THEN {"INIT", "WAITING"} ELSE {"WAITING"}

\* The process dies: sqlite rolls its transaction back.  With the whole machine the
\* live file in /tmp and the shared memory go too.
Crash(machine) ==
  /\ scan.pc # "down"
  /\ Used("crash")
  /\ scan' = Down
  /\ live' = IF machine THEN NoFile ELSE live
  /\ db' = live'
  /\ state' = IF machine THEN "INIT" ELSE state
  /\ changeCounter' = IF machine THEN 0 ELSE changeCounter
  /\ steady' = FALSE
  /\ UNCHANGED <<disk, saved, aged, seen, ahead, blind, slipped>>

-----------------------------------------------------------------------------
(***************************************************************************)
(* The head of mps_librarydbd_mainloop: has the disk changed, and has it   *)
(* stopped to?                                                             *)
(***************************************************************************)
Differs(a, b) == a - b >= Threshold \/ b - a >= Threshold

\* statfs, every ten seconds.  What was free is forgotten, also when no scan follows.
SampleSame ==
  /\ scan.pc = "sample"
  /\ ~Differs(scan.oldfree, FreeBlocks)
  /\ scan' = [scan EXCEPT !.newfree = FreeBlocks, !.oldfree = FreeBlocks]
  /\ state' = "WAITING"
  /\ UNCHANGED <<disk, tables, changeCounter, history, spent>>

SampleChanged ==
  /\ scan.pc = "sample"
  /\ Differs(scan.oldfree, FreeBlocks)
  /\ scan' = [scan EXCEPT !.newfree = FreeBlocks,
                          !.pc = IF state = "CREATINGDB" THEN "begin" ELSE "settle"]
  /\ state' = IF state = "CREATINGDB" THEN state ELSE "SETTLING"
  /\ seen' = disk
  /\ UNCHANGED <<disk, tables, changeCounter, steady, aged, ahead, blind, slipped, spent>>

\* wait_for_changes_to_settle: until two samples five seconds apart are equal.
Settle ==
  /\ scan.pc = "settle"
  /\ scan' = [scan EXCEPT !.newfree = FreeBlocks,
                          !.pc = IF FreeBlocks = scan.newfree THEN "begin" ELSE @]
  /\ seen' = disk
  /\ UNCHANGED <<disk, tables, shared, steady, aged, ahead, blind, slipped, spent>>

\* An operation that fails: always on a cut-off file, else as often as the bound allows.
Fails == (db.file = "cut" /\ UNCHANGED spent) \/ (db.file # "cut" /\ Used("failure"))
Works == db.file # "cut" /\ UNCHANGED spent
Smooth == UNCHANGED history
Rough  == steady' = FALSE /\ UNCHANGED <<aged, seen, ahead, blind, slipped>>

\* opendir of a directory with path id id: the frames the walk goes on with.
Opened(stack, d, id) ==
  Append(stack, [dir |-> d, id |-> id, left |-> Entries(d), last |-> Unset])

\* BEGIN TRANSACTION (a failure of it ends the process: Crash), and opendir of the root.
Begin ==
  /\ scan.pc = "begin"
  /\ state' = IF state = "CREATINGDB" THEN state ELSE "UPDATINGDB"
  /\ aged' = \A r \in db.titles \cup db.paths : r.version < scan.dbVersion
  /\ \/ /\ scan' = [scan EXCEPT !.pc = "walk", !.changed = FALSE,
                                !.stack = Opened(<<>>, Root, MinPathId)]
        /\ steady' = TRUE
        /\ UNCHANGED spent
     \/ /\ Used("failure")
        /\ scan' = [scan EXCEPT !.pc = "end", !.changed = FALSE]
        /\ steady' = FALSE
  /\ UNCHANGED <<disk, tables, changeCounter, seen, ahead, blind, slipped>>

-----------------------------------------------------------------------------
(***************************************************************************)
(* mps_librarydb_traverse_directory.                                       *)
(***************************************************************************)
InTransaction == state = "UPDATINGDB" /\ scan.pc \in {"walk", "tags", "artist", "album", "title"}

\* The scanner writes d: at once for all, or into its transaction.
Write(d) ==
  /\ db' = d
  /\ live' = IF InTransaction THEN live ELSE d
  /\ UNCHANGED saved

Top == scan.stack[Len(scan.stack)]
OnTop(frame) == [scan.stack EXCEPT ![Len(scan.stack)] = frame]

\* The stack after entry n was looked at, and after the function gave up its directory.
\* (A return in the middle of the loop: the caller ignores the result and goes on.)
After(n, looks) == OnTop([Top EXCEPT !.left = @ \ {n}, !.last = looks])
GivenUp == OnTop([Top EXCEPT !.left = {}])

\* What stat says of entry n.  Its result is not checked: when n is gone, statStructure
\* is what the entry before left in it, "." and ".." included, or nothing yet.
Looks(n) ==
  IF Exists(n) THEN {disk[n]}
  ELSE IF Top.last = Unset THEN Contents \cup {Dir}
  ELSE {Top.last, Dir}

Visits(n, looks) ==
  /\ scan.pc = "walk"
  /\ scan.stack # <<>>
  /\ n \in Top.left
  /\ looks \in Looks(n)

Marked(rows) == state = "UPDATINGDB" /\ rows # {}

\* A regular file whose name is not that of music.
PassOver(n) == \E looks \in Contents :
  /\ Visits(n, looks)
  /\ n \notin Files
  /\ scan' = [scan EXCEPT !.stack = After(n, looks)]
  /\ UNCHANGED <<disk, tables, shared, history, spent>>

\* A file the database knows as it is: its row gets the number of this scan.
MarkFile(n) == \E looks \in Contents :
  LET known == TitlesOf(db, looks, Top.id, n)
  IN /\ Visits(n, looks)
     /\ n \in Files
     /\ Marked(known) /\ Works
     /\ Write([db EXCEPT !.titles = Touch(@, known, scan.dbVersion)])
     /\ scan' = [scan EXCEPT !.stack = After(n, looks)]
     /\ UNCHANGED <<disk, shared, history>>

\* A file it does not know.  Its length and time are kept for the row.
NewFile(n) == \E looks \in Contents :
  /\ Visits(n, looks)
  /\ n \in Files
  /\ ~Marked(TitlesOf(db, looks, Top.id, n))
  /\ state = "UPDATINGDB" => db.file # "cut"
  /\ scan' = [scan EXCEPT
       !.pc = "tags", !.stack = After(n, looks),
       !.track = [name |-> n, stamp |-> looks, tags |-> NoTags, artistId |-> 0,
                  artist |-> UnknownArtist, album |-> UnknownAlbum]]
  /\ slipped' = IF Exists(n) THEN slipped ELSE slipped \cup {n}
  /\ UNCHANGED <<disk, tables, shared, steady, aged, seen, ahead, blind, spent>>

\* The UPDATE of the row fails.
MarkFails(n) == \E looks \in Contents \cup {Dir} :
  /\ Visits(n, looks)
  /\ looks = Dir \/ n \in Files
  /\ state = "UPDATINGDB"
  /\ Fails
  /\ scan' = [scan EXCEPT !.stack = GivenUp]
  /\ Rough
  /\ UNCHANGED <<disk, tables, shared>>

GotTags(tags) ==
  scan' = [scan EXCEPT !.pc = "artist", !.highest.titles = @ + 1, !.track.tags = tags,
             !.track.artist = TagArtist(tags), !.track.album = TagAlbum(tags)]

NotMusic == scan' = [scan EXCEPT !.pc = "walk", !.track = NoTrack]

\* get_track_info, of the file as it is by now; the next title id is taken.  TagLib has no
\* tags for what is no music; for a file that is gone it has empty ones, or none.
ReadTags ==
  LET found == disk[scan.track.name]
  IN /\ scan.pc = "tags"
     /\ \/ found \in Audio /\ GotTags(found)
        \/ found = Absent /\ GotTags(NoTags)
        \/ found \notin Audio /\ NotMusic
     /\ UNCHANGED <<disk, tables, shared, history, spent>>

\* The file is there and cannot be read.
ReadTagsFails ==
  /\ scan.pc = "tags"
  /\ Used("failure")
  /\ GotTags(NoTags) \/ NotMusic
  /\ slipped' = slipped \cup {scan.track.name}
  /\ steady' = FALSE
  /\ UNCHANGED <<disk, tables, shared, aged, seen, ahead, blind>>

\* The stack with the directory entered, or not when opendir fails.
Entered(n, id, opens) ==
  IF opens /\ disk[n] = Dir THEN Opened(After(n, Dir), n, id) ELSE After(n, Dir)

\* opendir works on what is there, unless it fails (too many files, no permission).
OpensOrNot(opens) ==
  \/ opens /\ UNCHANGED spent /\ Smooth
  \/ ~opens /\ Used("failure") /\ Rough

\* A directory the database knows: its row gets the number of this scan, and the walk
\* goes on below it with the id the row has.
MarkDir(n) ==
  LET known == PathsOf(db, Top.id, n)
  IN /\ Visits(n, Dir)
     /\ Marked(known) /\ db.file # "cut"
     /\ Write([db EXCEPT !.paths = Touch(@, known, scan.dbVersion)])
     /\ \E p \in known, opens \in BOOLEAN :
          /\ OpensOrNot(opens)
          /\ scan' = [scan EXCEPT !.stack = Entered(n, p.id, opens)]
     /\ UNCHANGED <<disk, shared>>

\* The row is marked, but its id cannot be read back.
MarkDirNoId(n) ==
  LET known == PathsOf(db, Top.id, n)
  IN /\ Visits(n, Dir)
     /\ Marked(known) /\ db.file # "cut"
     /\ Used("failure") /\ Rough
     /\ Write([db EXCEPT !.paths = Touch(@, known, scan.dbVersion)])
     /\ scan' = [scan EXCEPT !.stack = GivenUp]
     /\ UNCHANGED <<disk, shared>>

\* A directory it does not know gets a row with the next path id ...
NewDir(n) ==
  LET id == scan.highest.paths + 1
  IN /\ Visits(n, Dir)
     /\ ~Marked(PathsOf(db, Top.id, n))
     /\ db.file # "cut" /\ id \notin Ids(db.paths)
     /\ Write([db EXCEPT !.paths = @ \cup
          {[id |-> id, parent |-> Top.id, name |-> n, version |-> scan.dbVersion]}])
     /\ \E opens \in BOOLEAN :
          /\ OpensOrNot(opens)
          /\ scan' = [scan EXCEPT !.stack = Entered(n, id, opens),
                                  !.highest.paths = id, !.changed = TRUE]
     /\ UNCHANGED <<disk, shared>>

\* ... or the INSERT fails, and the directory that holds it is given up.
NewDirFails(n) ==
  /\ Visits(n, Dir)
  /\ ~Marked(PathsOf(db, Top.id, n))
  /\ Fails \/ (scan.highest.paths + 1 \in Ids(db.paths) /\ UNCHANGED spent)
  /\ Rough
  /\ scan' = [scan EXCEPT !.stack = GivenUp]
  /\ UNCHANGED <<disk, tables, shared>>

\* readdir has no more entries: back to the caller.
LeaveDir ==
  /\ scan.pc = "walk"
  /\ scan.stack # <<>>
  /\ Top.left = {}
  /\ scan' = [scan EXCEPT !.stack = SubSeq(@, 1, Len(@) - 1), !.pc = IF Len(scan.stack) = 1 THEN "end" ELSE @]
  /\ UNCHANGED <<disk, tables, shared, history, spent>>

\* Mutant: whatever is cached is taken for the name.
ArtistCachedAny ==
  /\ scan.pc = "artist"
  /\ scan.cache.artist # NoName
  /\ scan' = [scan EXCEPT !.pc = "album", !.track.artistId = scan.cache.artistId]
  /\ UNCHANGED <<disk, tables, shared, history, spent>>

\* update_artist_table.  The name it was last asked for is answered from the cache.
ArtistCached ==
  /\ scan.pc = "artist"
  /\ scan.track.artist = scan.cache.artist
  /\ scan' = [scan EXCEPT !.pc = "album", !.track.artistId = scan.cache.artistId]
  /\ UNCHANGED <<disk, tables, shared, history, spent>>

GotArtist(id, highest, added) ==
  scan' = [scan EXCEPT !.pc = "album", !.track.artistId = id, !.highest.artists = highest,
                       !.cache.artist = scan.track.artist, !.cache.artistId = id,
                       !.changed = @ \/ added]

ArtistFound ==
  /\ scan.pc = "artist"
  /\ scan.track.artist # scan.cache.artist
  /\ Works
  /\ \E a \in ArtistsNamed(db, scan.track.artist) : GotArtist(a.id, scan.highest.artists, FALSE)
  /\ UNCHANGED <<disk, tables, shared, history>>

\* No row found, or the SELECT breaks off, which mps_librarydb_get_long takes for the same.
NotFound(rows) ==
  /\ db.file # "cut"
  /\ \/ rows = {} /\ UNCHANGED spent /\ Smooth
     \/ rows # {} /\ Used("failure") /\ Rough

ArtistAdded ==
  LET id == scan.highest.artists + 1
  IN /\ scan.pc = "artist"
     /\ scan.track.artist # scan.cache.artist
     /\ NotFound(ArtistsNamed(db, scan.track.artist))
     /\ id \notin Ids(db.artists)
     /\ Write([db EXCEPT !.artists = @ \cup {[id |-> id, name |-> scan.track.artist]}])
     /\ GotArtist(id, id, TRUE)
     /\ UNCHANGED <<disk, shared>>

\* The SELECT fails: the id is the 0 rv started with.  The INSERT fails: it is FAILURE.
\* Both are used for the title, and cached.
ArtistFails ==
  /\ scan.pc = "artist"
  /\ scan.track.artist # scan.cache.artist
  /\ \E id \in {0, FAILURE} :
       /\ \/ Fails
          \/ /\ id = FAILURE /\ ArtistsNamed(db, scan.track.artist) = {}
             /\ scan.highest.artists + 1 \in Ids(db.artists) /\ UNCHANGED spent
       /\ GotArtist(id, scan.highest.artists, FALSE)
  /\ Rough
  /\ UNCHANGED <<disk, tables, shared>>

\* Mutant: the cache is keyed by the name alone.
AlbumNameCached == scan.track.album = scan.cache.album

\* update_album_table: an album belongs to an artist id.
AlbumIsCached ==
  /\ scan.track.album = scan.cache.album
  /\ scan.track.artistId = scan.cache.albumArtist

AlbumsOfTrack == AlbumsNamed(db, scan.track.album, scan.track.artistId)

GotAlbum(id, highest, added) ==
  scan' = [scan EXCEPT !.pc = "title", !.albumId = id, !.highest.albums = highest,
                       !.cache.album = scan.track.album,
                       !.cache.albumArtist = scan.track.artistId, !.cache.albumId = id,
                       !.changed = @ \/ added]

AlbumCached ==
  /\ scan.pc = "album"
  /\ AlbumIsCached
  /\ scan' = [scan EXCEPT !.pc = "title", !.albumId = scan.cache.albumId]
  /\ UNCHANGED <<disk, tables, shared, history, spent>>

AlbumFound ==
  /\ scan.pc = "album"
  /\ ~AlbumIsCached
  /\ Works
  /\ \E a \in AlbumsOfTrack : GotAlbum(a.id, scan.highest.albums, FALSE)
  /\ UNCHANGED <<disk, tables, shared, history>>

AlbumAdded ==
  LET id == scan.highest.albums + 1
  IN /\ scan.pc = "album"
     /\ ~AlbumIsCached
     /\ NotFound(AlbumsOfTrack)
     /\ id \notin Ids(db.albums)
     /\ Write([db EXCEPT !.albums = @ \cup
          {[id |-> id, artist |-> scan.track.artistId, name |-> scan.track.album]}])
     /\ GotAlbum(id, id, TRUE)
     /\ UNCHANGED <<disk, shared>>

\* The SELECT fails: 0, cached.  The INSERT fails: FAILURE, not cached.
AlbumFails ==
  /\ scan.pc = "album"
  /\ ~AlbumIsCached
  /\ \/ Fails /\ GotAlbum(0, scan.highest.albums, FALSE)
     \/ /\ \/ Fails
           \/ AlbumsOfTrack = {} /\ scan.highest.albums + 1 \in Ids(db.albums) /\ UNCHANGED spent
        /\ scan' = [scan EXCEPT !.pc = "title", !.albumId = FAILURE]
  /\ Rough
  /\ UNCHANGED <<disk, tables, shared>>

NewTitle ==
  [id |-> scan.highest.titles, version |-> scan.dbVersion, stamp |-> scan.track.stamp,
   tags |-> scan.track.tags, parent |-> Top.id, name |-> scan.track.name,
   album |-> scan.albumId, artist |-> scan.track.artistId]

InsertTitle ==
  /\ scan.pc = "title"
  /\ Works /\ TitleFits(db, NewTitle)
  /\ Write([db EXCEPT !.titles = @ \cup {NewTitle}])
  /\ scan' = [scan EXCEPT !.pc = "walk", !.track = NoTrack, !.albumId = 0, !.changed = TRUE]
  /\ UNCHANGED <<disk, shared, history>>

InsertTitleFails ==
  /\ scan.pc = "title"
  /\ Fails \/ (~TitleFits(db, NewTitle) /\ UNCHANGED spent)
  /\ scan' = [scan EXCEPT !.pc = "walk", !.track = NoTrack, !.albumId = 0,
                          !.highest.titles = @ - 1, !.stack = GivenUp]
  /\ Rough
  /\ UNCHANGED <<disk, tables, shared>>

-----------------------------------------------------------------------------
(***************************************************************************)
(* END TRANSACTION, remove_stale_entries, the saved copy, the new number.  *)
(***************************************************************************)
EndWalk ==
  /\ scan.pc = "end"
  /\ live' = db
  /\ scan' = [scan EXCEPT !.pc = "titles"]
  /\ UNCHANGED <<disk, db, saved, shared, history, spent>>

\* The artists and albums of stale titles are noted, and the titles deleted.  A SELECT that
\* breaks off leaves a part of the list; one that cannot begin leaves its head unset, which
\* is an empty list where the stack held a NULL (and a Crash where it did not).
DropTitles ==
  LET stale == Stale(db.titles, scan.dbVersion)
  IN /\ scan.pc = "titles"
     /\ db.file # "cut"
     /\ \E artists \in SUBSET ArtistsOf(stale), albums \in SUBSET AlbumsOf(stale) :
          /\ \/ /\ artists = ArtistsOf(stale) /\ albums = AlbumsOf(stale)
                /\ UNCHANGED spent /\ Smooth
             \/ Used("failure") /\ Rough
          /\ scan' = [scan EXCEPT !.pc = "paths", !.changed = @ \/ stale # {},
                                  !.deadArtists = artists, !.deadAlbums = albums]
     /\ Write([db EXCEPT !.titles = @ \ stale])
     /\ UNCHANGED <<disk, shared>>

DropPaths ==
  LET stale == Stale(db.paths, scan.dbVersion)
  IN /\ scan.pc = "paths"
     /\ Works
     /\ Write([db EXCEPT !.paths = @ \ stale])
     /\ scan' = [scan EXCEPT !.pc = "artists", !.changed = @ \/ stale # {}]
     /\ UNCHANGED <<disk, shared, history>>

\* select count( * ) of the titles: where it fails, the number is one of before.
Counted(orphan, isOrphan) ==
  \/ orphan = isOrphan /\ UNCHANGED spent /\ Smooth
  \/ Used("failure") /\ Rough

\* For each noted artist: is there a title left?  If not, the row goes.
DropArtist ==
  /\ scan.pc = "artists"
  /\ db.file # "cut"
  /\ \E id \in scan.deadArtists, orphan \in BOOLEAN :
       /\ Counted(orphan, \A t \in db.titles : t.artist # id)
       /\ Write([db EXCEPT !.artists =
                   IF orphan THEN {a \in @ : a.id # id} ELSE @])
       /\ scan' = [scan EXCEPT !.deadArtists = @ \ {id}, !.changed = @ \/ orphan]
  /\ UNCHANGED <<disk, shared>>

ArtistsDropped ==
  /\ scan.pc = "artists"
  /\ scan.deadArtists = {}
  /\ scan' = [scan EXCEPT !.pc = "albums"]
  /\ UNCHANGED <<disk, tables, shared, history, spent>>

DropAlbum ==
  /\ scan.pc = "albums"
  /\ db.file # "cut"
  /\ \E id \in scan.deadAlbums, orphan \in BOOLEAN :
       /\ Counted(orphan, \A t \in db.titles : t.album # id)
       /\ Write([db EXCEPT !.albums =
                   IF orphan THEN {a \in @ : a.id # id} ELSE @])
       /\ scan' = [scan EXCEPT !.deadAlbums = @ \ {id}, !.changed = @ \/ orphan]
  /\ UNCHANGED <<disk, shared>>

AlbumsDropped ==
  /\ scan.pc = "albums"
  /\ scan.deadAlbums = {}
  /\ scan' = [scan EXCEPT !.pc = "finish"]
  /\ UNCHANGED <<disk, tables, shared, history, spent>>

\* Mutant: the paths are deleted although the titles could not be.
DropGoesOn ==
  /\ scan.pc \in {"titles", "paths", "artists", "albums"}
  /\ Fails
  /\ scan' = [scan EXCEPT !.pc = IF @ = "titles" THEN "paths" ELSE "finish",
                          !.deadArtists = {}, !.deadAlbums = {}]
  /\ Rough
  /\ UNCHANGED <<disk, tables, shared>>

\* A DELETE fails: the rest of the removal is left out.
DropFails ==
  /\ scan.pc \in {"titles", "paths", "artists", "albums"}
  /\ scan.pc = "artists" => scan.deadArtists # {}
  /\ scan.pc = "albums" => scan.deadAlbums # {}
  /\ Fails
  /\ scan' = [scan EXCEPT !.pc = "finish", !.deadArtists = {}, !.deadAlbums = {},
                          !.changed = @ \/ scan.pc \in {"artists", "albums"}]
  /\ Rough
  /\ UNCHANGED <<disk, tables, shared>>

\* Mutant: the number of the scan before is announced.
AnnounceLast ==
  /\ scan.pc = "finish"
  /\ scan.changed
  /\ changeCounter' = scan.dbVersion - 1
  /\ saved' = CutOff /\ UNCHANGED spent /\ scan' = [scan EXCEPT !.pc = "copy"]
  /\ UNCHANGED <<disk, live, db, state, history>>

\* Something changed: clients are told, and the copy is begun, which empties the old one.
Announce ==
  /\ scan.pc = "finish"
  /\ scan.changed
  /\ changeCounter' = scan.dbVersion
  /\ \/ saved' = CutOff /\ UNCHANGED spent /\ scan' = [scan EXCEPT !.pc = "copy"]
     \/ saved' = saved /\ Used("failure") /\ scan' = [scan EXCEPT !.pc = "size"]
  /\ UNCHANGED <<disk, live, db, state, history>>

NothingToAnnounce ==
  /\ scan.pc = "finish"
  /\ ~scan.changed
  /\ scan' = [scan EXCEPT !.pc = "size"]
  /\ UNCHANGED <<disk, tables, shared, history, spent>>

\* copy_unix_file comes to its end, or fails and leaves a cut-off file.
CopyDone ==
  /\ scan.pc = "copy"
  /\ \/ saved' = db /\ UNCHANGED spent
     \/ saved' = saved /\ Used("failure")
  /\ scan' = [scan EXCEPT !.pc = "size"]
  /\ UNCHANGED <<disk, live, db, shared, history>>

\* mps_librarydb_set_long: its errors are ignored.  The size kept is the one before.
SaveSize ==
  /\ scan.pc = "size"
  /\ \/ Works /\ Write([db EXCEPT !.size = scan.oldfree])
     \/ Fails /\ UNCHANGED tables
  /\ scan' = [scan EXCEPT !.pc = "counter", !.dbVersion = @ + 1]
  /\ UNCHANGED <<disk, shared, history>>

\* Mutant: the free blocks are sampled again when the scan is over.
SampleAfterScan ==
  /\ scan.pc = "counter"
  /\ Works /\ Write([db EXCEPT !.counter = scan.dbVersion])
  /\ scan' = [scan EXCEPT !.pc = "sample", !.oldfree = FreeBlocks, !.changed = FALSE]
  /\ state' = "WAITING"
  /\ UNCHANGED <<disk, changeCounter, history>>

\* The number of the next scan is kept; ten seconds later it all begins again.
SaveCounter ==
  /\ scan.pc = "counter"
  /\ \/ Works /\ Write([db EXCEPT !.counter = scan.dbVersion])
     \/ Fails /\ UNCHANGED tables
  /\ scan' = [scan EXCEPT !.pc = "sample", !.oldfree = scan.newfree, !.changed = FALSE]
  /\ state' = "WAITING"
  /\ UNCHANGED <<disk, changeCounter, history>>

-----------------------------------------------------------------------------
Walk ==
  \/ \E n \in Names : \/ PassOver(n) \/ MarkFile(n) \/ NewFile(n) \/ MarkFails(n)
                      \/ MarkDir(n) \/ MarkDirNoId(n) \/ NewDir(n) \/ NewDirFails(n)
  \/ LeaveDir
  \/ ReadTags \/ ReadTagsFails
  \/ ArtistCached \/ ArtistFound \/ ArtistAdded \/ ArtistFails
  \/ AlbumCached \/ AlbumFound \/ AlbumAdded \/ AlbumFails
  \/ InsertTitle \/ InsertTitleFails

RemoveStale ==
  \/ DropTitles \/ DropPaths
  \/ DropArtist \/ ArtistsDropped
  \/ DropAlbum \/ AlbumsDropped
  \/ DropFails

Main ==
  \/ StartNew \/ StartNewFails \/ StartAgain \/ StartAgainFails
  \/ SampleSame \/ SampleChanged \/ Settle
  \/ Begin \/ Walk \/ EndWalk
  \/ RemoveStale
  \/ Announce \/ NothingToAnnounce \/ CopyDone
  \/ SaveSize \/ SaveCounter

Next ==
  \/ Main
  \/ DiskStep
  \/ \E machine \in BOOLEAN : Crash(machine)

Trees ==
  {t \in [Names -> Contents \cup {Dir, Absent}] :
     /\ \A f \in Files : t[f] \in Holds[f] \cup {Absent}
     /\ \A d \in Dirs : t[d] \in {Dir, Absent}
     /\ \A n \in Names : t[n] # Absent /\ In[n] \in Dirs => t[In[n]] = Dir}

\* A disk with any tree of files, no database, and nothing running.
Init ==
  /\ disk \in Trees
  /\ live = NoFile /\ db = NoFile /\ saved = NoFile
  /\ state = "INIT" /\ changeCounter = 0
  /\ scan = Down
  /\ steady = FALSE /\ aged = FALSE /\ seen = disk /\ ahead = FALSE
  /\ blind = {} /\ slipped = {}
  /\ spent = [change |-> 0, failure |-> 0, crash |-> 0]

Spec == Init /\ [][Next]_vars

\* The scanner runs on its own; the disk and the failures do as they like.
FairSpec == Spec /\ WF_vars(Main)

-----------------------------------------------------------------------------
(***************************************************************************)
(* What the scanner promises.                                              *)
(***************************************************************************)
Music(n) == IsMusic(n, disk[n])

\* The id rows of directory d give as the parent of what lies in it.
IdOf(d, rows) == IF d = Root THEN {MinPathId} ELSE {p.id : p \in {q \in rows : q.name = d}}

\* The file n is in the database as it is on the disk.
IsListed(n) == \E t \in live.titles :
  t.name = n /\ t.stamp = disk[n] /\ t.parent \in IdOf(In[n], live.paths)

\* After a scan during which the disk stayed as it is and nothing failed, every music
\* file on the disk is in the database.  Restarts make no exception.
QuietScanComplete ==
  scan.pc = "sample" /\ steady => \A n \in Names : Music(n) => IsListed(n)

\* After such a scan the database has no title for anything else, and none twice - unless
\* the scan had the number of the one before, as it has after the saved copy was restored.
\* What is no music may be listed where a scan once met the file in the middle of a change.
QuietScanExact ==
  scan.pc = "sample" /\ steady /\ aged =>
    /\ \A t \in live.titles : t.stamp = disk[t.name] /\ (Music(t.name) \/ t.name \in slipped)
    /\ \A t, u \in live.titles : t.name = u.name => t = u

\* At every moment, for every reader: a title's folder is in the database, and that
\* folder's folder, up to the root; so the path of a title can be put together - unless a
\* scan went on from a number below that of rows it found, as it does when the number could
\* not be stored and a copy of the database without it is restored, or when a start could
\* not read it.
PathsWhole ==
  ~ahead =>
    \A r \in live.titles \cup live.paths : r.parent \in Ids(live.paths) \cup {MinPathId}

\* The ids given next are free, also after failures and restarts - but for a table whose
\* highest id a start could not read: then they are counted from 1 below the rows it has.
IdsFree ==
  scan.pc # "down" =>
    /\ "titles" \notin blind => \A t \in db.titles : t.id <= scan.highest.titles
    /\ "artists" \notin blind => \A a \in db.artists : a.id <= scan.highest.artists
    /\ "albums" \notin blind => \A a \in db.albums : a.id <= scan.highest.albums
    /\ "paths" \notin blind => \A p \in db.paths : p.id <= scan.highest.paths

\* While nothing fails, no artist and no album without a title outlives a scan.
NoOrphans ==
  scan.pc = "sample" /\ spent.failure = 0 /\ spent.crash = 0 =>
    /\ \A a \in live.artists : \E t \in live.titles : t.artist = a.id
    /\ \A a \in live.albums : \E t \in live.titles : t.album = a.id

\* A title's tags are of the content its length and time are of, unless the file changed
\* between the stat and the reading, or could not be read.  Within a life of the scanner: the
\* artist a title refers to, where its row is there, has the name in those tags, and so has
\* its album, which is one of that artist's.
TagsRight ==
  \A t \in live.titles :
    /\ t.tags = t.stamp \/ t.name \in slipped
    /\ spent.crash = 0 =>
         /\ \A x \in live.artists : t.artist = x.id => x.name = TagArtist(t.tags)
         /\ \A x \in live.albums : t.album = x.id =>
              x.artist = t.artist /\ x.name = TagAlbum(t.tags)

\* A title whose file, of music, is left alone keeps its row, so its id in playlists stays good.
TitlesKeepIds ==
  [][spent'.failure = 0 /\ spent'.crash = 0 /\ steady' =>
       \A t \in live.titles :
         Music(t.name) /\ disk[t.name] = t.stamp
           /\ t.parent \in IdOf(In[t.name], live.paths) /\ HasPlace(t.name)
           => \E u \in live'.titles : u.id = t.id /\ u.name = t.name]_vars

\* Every title refers to an artist and an album that are in the database.
ReferencesGood ==
  scan.pc = "sample" =>
    \A t \in live.titles : t.artist \in Ids(live.artists) /\ t.album \in Ids(live.albums)

\* The ids of titles, artists, albums and folders are in ranges of their own; the queries
\* know by the range which table to ask.  A start that finds a table empty counts its ids
\* from 1, and then all rows of the table are below its range: no table ever mixes the two,
\* and no table leaves its range while the scanner lives - but for a table whose highest id
\* a start could not read: its ids are counted from 1 beside the rows it has.
InRange(table, min, max) ==
  \/ \A r \in table : r.id >= min /\ r.id < max
  \/ spent.crash > 0 /\ \A r \in table : r.id > 0 /\ r.id < MinArtistId
IdsInRange ==
  /\ \A t \in live.titles : t.id > 0 /\ t.id < MinArtistId
  /\ "artists" \notin blind => InRange(live.artists, MinArtistId, MinAlbumId)
  /\ "albums" \notin blind => InRange(live.albums, MinAlbumId, MinPathId)
  /\ "paths" \notin blind => InRange(live.paths, MinPathId, MinPathId + MinArtistId)

Mirrors ==
  {<<t.name, t.stamp>> : t \in live.titles} =
  {<<n, disk[n]>> : n \in {m \in Names : Music(m)}}

\* When the disk is left alone and nothing fails, the database comes to show it.  One
\* exception is real: files that changed during the scan, and back to what they were, leave
\* the free blocks what they were, and no scan corrects what this one saw.
ChangedAndBack == ~steady /\ \A f \in Files : disk[f] = seen[f]
CatchesUp == <>[](Mirrors \/ ChangedAndBack \/ spent.failure > 0)
=============================================================================
