----------------------------- MODULE LibraryQuery -----------------------------
(***************************************************************************)
(* The queries of libmpsserver-library.c, sent by an mps-library command   *)
(* or by the player, while the scanner works.  A query is several SELECTs, *)
(* with no transaction around them, and each sees what the scanner has     *)
(* committed by then.  A SELECT may fail, when the scanner holds the file  *)
(* for longer than two seconds.                                            *)
(*                                                                         *)
(* The queries change nothing but a missing file, so one at a time stands  *)
(* for any number of them.                                                 *)
(***************************************************************************)
EXTENDS LibraryScan

CONSTANTS
  Mp3,         \* the files whose file_type is 1: folders list no others
  Asked,       \* ids clients ask for
  MaxQueries   \* bound: queries

ASSUME QueryOK == Mp3 \subseteq Files /\ Asked \subseteq Nat /\ MaxQueries \in Nat

VARIABLES
  query,    \* the locals of the query that runs
  queries   \* queries so far

qvars == <<vars, query, queries>>
scanvars == vars

NoRow == <<>>

Query ==
  [op : {"none", "path", "info", "folder"},
   next : {"begin", "row", "album", "artist", "folders", "titles"},
   rv : {"running", "SUCCESS", "FAILURE", "garbage"},
   id : Nat, at : Nat, names : Seq(Names), row : TitleRow \cup {NoRow},
   album : AlbumNames \cup {NoName}, artist : ArtistNames \cup {NoName},
   elements : SUBSET Nat, missed : BOOLEAN,
   kept : SUBSET TitleRow]

\* What of a title an answer depends on: all but the number of the scan, for the path of it
\* the id, the folder and the name.
Fixed(t) == IF query.op = "folder" THEN [t EXCEPT !.version = 0] ELSE <<t.id, t.parent, t.name>>

NoQuery ==
  [op |-> "none", next |-> "begin", rv |-> "SUCCESS", id |-> 0, at |-> 0, names |-> <<>>,
   row |-> NoRow, album |-> NoName, artist |-> NoName, elements |-> {},
   missed |-> FALSE, kept |-> {}]

QueryTypeOK == TypeOK /\ query \in Query /\ queries \in 0..MaxQueries

QueryInit == Init /\ query = NoQuery /\ queries = 0

\* One SELECT.  missed: it failed (most queries take that for a missing row).
Selecting(step) == query.rv = "running" /\ query.next = step
Seen == live.file = "whole" /\ UNCHANGED spent
Missed == (live.file = "cut" /\ UNCHANGED spent) \/ Used("failure")

\* A SELECT that begins and breaks off: what it found so far is taken for all there is.
BreaksOff == live.file = "whole" /\ Used("failure")

Reads == UNCHANGED <<disk, live, db, saved, shared, scan, history, queries>>

-----------------------------------------------------------------------------
\* sqlite3_open on a missing file makes an empty one, and the scanner that comes later
\* takes it for its database.
Ask(op, id) ==
  /\ query.rv # "running"
  /\ queries < MaxQueries
  /\ queries' = queries + 1
  /\ live' = IF live.file = "none" THEN CutOff ELSE live
  /\ db' = IF live.file = "none" THEN CutOff ELSE db
  /\ query' = [NoQuery EXCEPT !.op = op, !.rv = "running", !.id = id, !.at = id,
                              !.kept = live.titles,
                              !.next = IF id \in {MinArtistId, MinPathId} THEN "folders" ELSE "row"]
  /\ UNCHANGED <<disk, saved, shared, scan, history, spent>>

IsTitleId(id)  == id < MinArtistId
IsArtistId(id) == id >= MinArtistId /\ id < MinAlbumId
IsPathId(id)   == id >= MinPathId

\* mps_library_get_file_path_from_id: from the title up to the root, a SELECT for each.
AskPath(id) == IsTitleId(id) /\ Ask("path", id)

\* mps_library_title_get_info.
AskInfo(id) == IsTitleId(id) /\ Ask("info", id)

\* mps_library_hierarchy_get of a folder of the file system, an artist or an album; the root
\* of the folders and that of the artists have no row.
AskFolder(id) == ~ IsTitleId(id) /\ Ask("folder", id)

RowsAt(id) == IF IsTitleId(id) THEN {t \in live.titles : t.id = id}
              ELSE {p \in live.paths : p.id = id}

\* A folder's id below its range is taken for that of a title, whose path is then put
\* together, or for that of an artist or an album.  Where the title lies in that very folder,
\* the function calls itself until the stack is full.
Climbs(parent) ==
  IF parent = MinPathId THEN "SUCCESS" ELSE IF IsPathId(parent) THEN "running" ELSE "garbage"

\* Mutant: the parts are joined the wrong way round.
PathStepBackwards ==
  /\ query.op = "path" /\ Selecting("row")
  /\ Seen
  /\ \E r \in RowsAt(query.at) :
       query' = [query EXCEPT !.names = @ \o <<r.name>>, !.at = r.parent,
                              !.rv = Climbs(r.parent)]
  /\ Reads

\* get_file_path_from_id: the name is put before the path of the parent; the root's is
\* the media directory of the configuration.
PathStep ==
  /\ query.op = "path" /\ Selecting("row")
  /\ Seen
  /\ \E r \in RowsAt(query.at) :
       query' = [query EXCEPT !.names = <<r.name>> \o @, !.at = r.parent,
                              !.rv = Climbs(r.parent)]
  /\ Reads

\* Without a row the id of the parent and the name are what the stack held.
PathLost ==
  /\ query.op = "path" /\ Selecting("row")
  /\ \/ Seen /\ RowsAt(query.at) = {} /\ query' = [query EXCEPT !.rv = "garbage"]
     \/ Missed /\ query' = [query EXCEPT !.rv = IF live.file = "cut" THEN "FAILURE" ELSE "garbage",
                                         !.missed = TRUE]
  /\ Reads

InfoRow ==
  /\ query.op = "info" /\ Selecting("row")
  /\ \/ /\ Seen
        /\ \E t \in RowsAt(query.id) : query' = [query EXCEPT !.row = t, !.next = "album"]
     \/ Seen /\ RowsAt(query.id) = {} /\ query' = [query EXCEPT !.rv = "FAILURE"]
     \/ Missed /\ query' = [query EXCEPT !.rv = "FAILURE", !.missed = TRUE]
  /\ Reads

\* Mutant: the name of the artist is put where that of the album belongs.
InfoArtistAsAlbum ==
  /\ query.op = "info" /\ Selecting("album")
  /\ Seen
  /\ \E x \in live.artists : /\ x.id = query.row.artist
                             /\ query' = [query EXCEPT !.next = "artist", !.album = x.name]
  /\ Reads

\* A missing album or artist makes the answer a FAILURE, but the next is still asked for.
InfoAlbum ==
  /\ query.op = "info" /\ Selecting("album")
  /\ \/ /\ Seen
        /\ \E x \in live.albums : /\ x.id = query.row.album
                                  /\ query' = [query EXCEPT !.next = "artist", !.album = x.name]
     \/ /\ Seen
        /\ query.row.album \notin Ids(live.albums)
        /\ query' = [query EXCEPT !.next = "artist"]
     \/ Missed /\ query' = [query EXCEPT !.next = "artist", !.missed = TRUE]
  /\ Reads

Answer(artist, missed) ==
  query' = [query EXCEPT !.artist = artist, !.missed = @ \/ missed,
              !.rv = IF artist = NoName \/ query.album = NoName THEN "FAILURE" ELSE "SUCCESS"]

InfoArtist ==
  /\ query.op = "info" /\ Selecting("artist")
  /\ \/ /\ Seen
        /\ \E x \in live.artists : x.id = query.row.artist /\ Answer(x.name, FALSE)
     \/ Seen /\ query.row.artist \notin Ids(live.artists) /\ Answer(NoName, FALSE)
     \/ Missed /\ Answer(NoName, TRUE)
  /\ Reads

HasFolder(id) == IF IsPathId(id) THEN id \in Ids(live.paths)
                 ELSE IF IsArtistId(id) THEN id \in Ids(live.artists)
                 ELSE id \in Ids(live.albums)

\* The folder's own row, then the folders in it, then the MP3 files in it.
FolderRow ==
  /\ query.op = "folder" /\ Selecting("row")
  /\ \/ Seen /\ HasFolder(query.id) /\ query' = [query EXCEPT !.next = "folders"]
     \/ Seen /\ ~ HasFolder(query.id) /\ query' = [query EXCEPT !.rv = "FAILURE"]
     \/ Missed /\ query' = [query EXCEPT !.rv = "FAILURE", !.missed = TRUE]
  /\ Reads

Mp3Ids(titles) == {t.id : t \in {u \in titles : u.name \in Mp3}}

\* The folders of a folder, all artists, the albums of an artist, the MP3 files of an album.
Listed(id) ==
  IF IsPathId(id) THEN Ids({p \in live.paths : p.parent = id})
  ELSE IF id = MinArtistId THEN Ids(live.artists)
  ELSE IF IsArtistId(id) THEN Ids({x \in live.albums : x.artist = id})
  ELSE Mp3Ids({t \in live.titles : t.album = id})

\* Only a folder of the file system takes a second SELECT.
Further == IF IsPathId(query.id) THEN [query EXCEPT !.next = "titles"]
         ELSE [query EXCEPT !.rv = "SUCCESS"]

\* Mutant: only the first of the two queries is run.
FolderFoldersOnly ==
  /\ query.op = "folder" /\ Selecting("folders")
  /\ Seen
  /\ query' = [query EXCEPT !.rv = "SUCCESS", !.elements = Listed(query.id)]
  /\ Reads

FolderFolders ==
  /\ query.op = "folder" /\ Selecting("folders")
  /\ \/ Seen /\ query' = [Further EXCEPT !.elements = Listed(query.id)]
     \/ Missed /\ query' = [query EXCEPT !.rv = "FAILURE", !.missed = TRUE]
     \/ BreaksOff /\ query' = [Further EXCEPT !.missed = TRUE]
  /\ Reads

FolderTitles ==
  /\ query.op = "folder" /\ Selecting("titles")
  /\ \/ /\ Seen
        /\ query' = [query EXCEPT !.rv = "SUCCESS", !.elements = @ \cup
                       Mp3Ids({t \in live.titles : t.parent = query.id})]
     \/ Missed /\ query' = [query EXCEPT !.rv = "FAILURE", !.missed = TRUE]
     \/ BreaksOff /\ query' = [query EXCEPT !.rv = "SUCCESS", !.missed = TRUE]
  /\ Reads

-----------------------------------------------------------------------------
\* mps-library get root, path, artists, albums, titles and info; the player asks for paths.
Request == \E id \in Asked : AskPath(id) \/ AskInfo(id) \/ AskFolder(id)

QueryStep ==
  \/ Request
  \/ PathStep \/ PathLost
  \/ InfoRow \/ InfoAlbum \/ InfoArtist
  \/ FolderRow \/ FolderFolders \/ FolderTitles

\* A step of the scanner or the disk; the query's history is kept up to date.
ScanStep ==
  /\ Next
  /\ query' = [query EXCEPT !.kept = {t \in @ : \E u \in live'.titles : Fixed(u) = Fixed(t)}]
  /\ UNCHANGED queries

QuerySpec == QueryInit /\ [][ScanStep \/ QueryStep]_qvars

-----------------------------------------------------------------------------
Answered(op) == query.op = op /\ query.rv # "running" /\ ~query.missed

\* The ids of a life of the scanner are never used twice; a later one may count those of
\* folders, artists and albums from 1, and give them those of titles, as one does that could
\* not set them at its start.
OneLife == spent.crash = 0 /\ blind = {}

\* A title that stayed in the database while its path was put together gets its path,
\* whatever the scanner removed meanwhile.
IsPath(names) ==
  \A i \in DOMAIN names : In[names[i]] = IF i = 1 THEN Root ELSE names[i - 1]

PathRight ==
  OneLife /\ Answered("path") =>
    \A t \in query.kept : t.id = query.id =>
      /\ query.rv = "SUCCESS"
      /\ IsPath(query.names)
      /\ query.names[Len(query.names)] = t.name

\* Album and artist of an answer are those of the tags the title's row is of, although
\* they are read later than the row; and these are the tags of the file with the row's length
\* and time, unless it changed while it was added.
InfoRight ==
  OneLife /\ Answered("info") /\ query.rv = "SUCCESS" =>
    /\ query.artist = TagArtist(query.row.tags)
    /\ query.album = TagAlbum(query.row.tags)
    /\ query.row.tags = query.row.stamp \/ query.row.name \in slipped

\* An answered folder or album lists each MP3 title that was in it all the time; the artists
\* and the albums of an artist are listed with each title that refers to them all the time,
\* so the page leads down to it.  (A title whose artist or album has no row is the matter of
\* ReferencesGood.)  As long as the ids of artists and albums have not run into the next
\* range, which nothing in the code watches.
RangesLast == scan.highest.artists < MinAlbumId /\ scan.highest.albums < MinPathId
FolderRight ==
  OneLife /\ RangesLast /\ Answered("folder") /\ query.rv = "SUCCESS" =>
    \A t \in query.kept :
      /\ query.id \in {t.parent, t.album} /\ t.name \in Mp3 => t.id \in query.elements
      /\ query.id = MinArtistId /\ t.artist \in Ids(live.artists) => t.artist \in query.elements
      /\ query.id = t.artist /\ t.album \in Ids(live.albums) => t.album \in query.elements
=============================================================================
