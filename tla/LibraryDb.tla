------------------------------ MODULE LibraryDb ------------------------------
(***************************************************************************)
(* The SQLite database of the music library: the tables the scanner        *)
(* creates, the SQL statements it and the query library send, and the      *)
(* directory tree they describe.                                           *)
(*                                                                         *)
(* A file's content stands for its length, its modification time and its   *)
(* tags; two contents never have the same length and time (the scanner     *)
(* compares nothing else).  A title row keeps of them what the properties  *)
(* need: the content stat saw, the content its tags were read from, its    *)
(* folder, its name, and the album and artist ids.                         *)
(***************************************************************************)
EXTENDS Integers, Sequences, FiniteSets, FiniteSetsExt

CONSTANTS
  Files, Dirs,   \* the names below the media directory; those of Files are of music
  Root,          \* the media directory itself
  In,            \* the directory each of them lies in
  Contents,      \* contents of files
  Audio,         \* those TagLib reads tags from
  ArtistOf, AlbumOf,     \* their tags
  MinArtistId, MinAlbumId, MinPathId   \* where the id ranges begin

Names == Files \cup Dirs

\* What the scanner puts for a file whose tags cannot be read.
UnknownArtist == "Unknown Artist"
UnknownAlbum  == "Unknown Album"
ArtistNames == {ArtistOf[c] : c \in Audio} \cup {UnknownArtist}
AlbumNames  == {AlbumOf[c] : c \in Audio} \cup {UnknownAlbum}

\* What a string variable holds before a name was put in it.
NoName == ""

\* The tags of a file that could not be read, and the names that are put for tags.
NoTags == "unknown"
TagArtist(tags) == IF tags \in Audio THEN ArtistOf[tags] ELSE UnknownArtist
TagAlbum(tags)  == IF tags \in Audio THEN AlbumOf[tags] ELSE UnknownAlbum

\* A regular file whose name mps_get_file_type knows, with tags.
IsMusic(n, content) == n \in Files /\ content \in Audio

ASSUME TreeOK ==
  /\ Files \cap Dirs = {} /\ Root \notin Names
  /\ In \in [Names -> Dirs \cup {Root}]
  /\ Audio \subseteq Contents /\ NoTags \notin Contents
  /\ DOMAIN ArtistOf = Audio /\ DOMAIN AlbumOf = Audio

\* Every name lies at some depth below the media directory.
ASSUME Depths ==
  \E depth \in [Names \cup {Root} -> 0..Cardinality(Names)] :
    \A n \in Names : depth[In[n]] < depth[n]

ASSUME IdRanges ==
  /\ {MinArtistId, MinAlbumId, MinPathId} \subseteq Nat \ {0}
  /\ MinArtistId < MinAlbumId /\ MinAlbumId < MinPathId

\* Ids may also be the error values the scanner stores: 0 and MPS_LIBRARYDBD_FAILURE.
FAILURE == -1
Id == Nat \cup {FAILURE}

TitleRow  == [id : Nat, version : Nat, stamp : Contents, tags : Audio \cup {NoTags},
              parent : Nat, name : Names, album : Id, artist : Id]
ArtistRow == [id : Nat, name : ArtistNames]
AlbumRow  == [id : Nat, artist : Id, name : AlbumNames]
PathRow   == [id : Nat, parent : Nat, name : Names, version : Nat]

\* file: is there a file, and has it its tables?  On one that was cut off while it was
\* copied every statement fails.
Database ==
  [titles : SUBSET TitleRow, artists : SUBSET ArtistRow, albums : SUBSET AlbumRow,
   paths : SUBSET PathRow, size : Nat, counter : Nat,
   file : {"none", "whole", "cut"}]

\* The "create table" and "insert into ..._status" statements of mps_librarydbd_init.
EmptyDatabase ==
  [titles |-> {}, artists |-> {}, albums |-> {}, paths |-> {},
   size |-> 0, counter |-> 0, file |-> "whole"]

CutOff == [EmptyDatabase EXCEPT !.file = "cut"]
NoFile == [EmptyDatabase EXCEPT !.file = "none"]

Ids(rows) == {r.id : r \in rows}

\* select max(id): an empty table answers NULL, which the code reads as 0.
MaxId(rows) == IF rows = {} THEN 0 ELSE Max(Ids(rows))

\* update mps_library_titles set db_version where length, time, folder and name match
\* Mutant: length and time are not compared.
SameName(t, stamp, parent, name) == t.parent = parent /\ t.name = name

SameFile(t, stamp, parent, name) == t.stamp = stamp /\ t.parent = parent /\ t.name = name
TitlesOf(db, stamp, parent, name) == {t \in db.titles : SameFile(t, stamp, parent, name)}

\* the same for a folder
PathsOf(db, parent, name) == {p \in db.paths : p.parent = parent /\ p.name = name}

\* rows with those of touched given the number of the scan
Touch(rows, touched, version) ==
  (rows \ touched) \cup {[r EXCEPT !.version = version] : r \in touched}

\* The keys of mps_library_titles: title_id, and the unique index update_lookup.
TitleFits(db, row) ==
  /\ row.id \notin Ids(db.titles)
  /\ TitlesOf(db, row.stamp, row.parent, row.name) = {}

\* Mutant: the list of albums is filled from the wrong column.
AlbumsOfArtistColumn(titles) == {t.artist : t \in titles}

\* select distinct artist_id, album_id
ArtistsOf(titles) == {t.artist : t \in titles}
AlbumsOf(titles)  == {t.album : t \in titles}

ArtistsNamed(db, name) == {a \in db.artists : a.name = name}
AlbumsNamed(db, name, artist) == {a \in db.albums : a.name = name /\ a.artist = artist}

\* Mutants: the rows of this scan go too; those of the last one stay.
StaleOrSeen(rows, version) == {r \in rows : r.version <= version}
LongStale(rows, version) == {r \in rows : r.version + 1 < version}

\* delete ... where db_version < version
Stale(rows, version) == {r \in rows : r.version < version}
=============================================================================
