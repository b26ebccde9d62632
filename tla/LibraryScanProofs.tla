-------------------------- MODULE LibraryScanProofs --------------------------
(***************************************************************************)
(* Theorems about LibraryScan, for any tree of files, any free blocks and  *)
(* any number of changes, failures and deaths.                             *)
(***************************************************************************)
EXTENDS LibraryScan, WellFoundedInduction, TLAPS

\* A set of numbers has a least one.
LEMMA NatLeast ==
  ASSUME NEW S \in SUBSET Nat, S # {}
  PROVE  \E k \in S : \A m \in S : k <= m
<1>1. PICK k \in S : \A m \in S : <<m, k>> \notin OpToRel(<, Nat)
  BY NatLessThanWellFounded, WFMin
<1>2. \A m \in S : ~ (m < k)
  <2>1. \A m \in S : <<m, k>> \in Nat \X Nat
    OBVIOUS
  <2>. QED  BY <1>1, <2>1 DEF OpToRel
<1>. QED  BY <1>2

\* get_max_id finds the highest id of a table whose ids are bounded.
LEMMA HighestId ==
  ASSUME NEW rows, \A r \in rows : r.id \in Nat,
         NEW n \in Nat, \A r \in rows : r.id <= n
  PROVE  /\ MaxId(rows) \in Nat /\ \A r \in rows : r.id <= MaxId(rows)
         /\ rows # {} => \E r \in rows : r.id = MaxId(rows)
<1>1. CASE rows = {}
  BY <1>1 DEF MaxId
<1>2. CASE rows # {}
  <2> DEFINE S == {k \in Nat : \A r \in rows : r.id <= k}
  <2>1. PICK k \in S : \A m \in S : k <= m
    BY NatLeast
  <2>2. k \in Ids(rows)
    <3>1. SUFFICES ASSUME \A r \in rows : r.id # k PROVE FALSE
      BY DEF Ids
    <3>2. PICK r \in rows : r.id <= k /\ r.id # k
      BY <1>2, <3>1
    <3>3. k - 1 \in Nat /\ \A q \in rows : q.id <= k - 1
      BY <3>1, <3>2
    <3>. QED  BY <2>1, <3>3
  <2>3. \A x \in Ids(rows) : k >= x
    BY DEF Ids
  <2>4. \E m \in Ids(rows) : \A x \in Ids(rows) : m >= x
    BY <2>2, <2>3
  <2>5. Max(Ids(rows)) \in Ids(rows) /\ \A x \in Ids(rows) : Max(Ids(rows)) >= x
    BY <2>4 DEF Max
  <2>. QED  BY <1>2, <2>5 DEF MaxId, Ids
<1>. QED  BY <1>1, <1>2

-----------------------------------------------------------------------------
\* TypeOK is not inductive: a start looks up the highest ids, so there must be highest ones;
\* and while a file or a folder is looked at there is one the walk is in.
Bounded(d) ==
  \E n \in Nat : \A r \in UNION {d.titles, d.artists, d.albums, d.paths} : r.id <= n

Walking == {"walk", "tags", "artist", "album", "title"}

TypeInv ==
  /\ TypeOK
  /\ Bounded(live) /\ Bounded(db) /\ Bounded(saved)
  /\ scan.pc \in Walking <=> scan.stack # <<>>
  /\ scan.pc = "tags" => scan.track # NoTrack
  /\ scan.pc \in {"artist", "album", "title"} => scan.track # NoTrack /\ scan.highest.titles >= 1

Tree == [Names -> Contents \cup {Dir, Absent}]
States == {"INIT", "CREATINGDB", "UPDATINGDB", "WAITING", "SETTLING"}
Spent == [{"change", "failure", "crash"} -> Nat]

LEMMA ScannerFields ==
  ASSUME NEW s \in Scanner
  PROVE  /\ s.pc \in {"down", "sample", "settle", "begin", "walk", "tags", "artist", "album", "title", "end",
                      "titles", "paths", "artists", "albums", "finish", "copy", "size", "counter"}
         /\ s.stack \in Seq(Frame) /\ s.track \in Track \cup {NoTrack}
         /\ s.cache.artist \in ArtistNames \cup {NoName} /\ s.cache.artistId \in Id
         /\ s.cache.album \in AlbumNames \cup {NoName} /\ s.cache.albumArtist \in Id
         /\ s.cache.albumId \in Id
         /\ s.highest.titles \in Nat /\ s.highest.artists \in Nat
         /\ s.highest.albums \in Nat /\ s.highest.paths \in Nat
         /\ s.albumId \in Id /\ s.dbVersion \in Nat /\ s.oldfree \in Nat /\ s.newfree \in Nat
         /\ s.changed \in BOOLEAN /\ s.deadArtists \in SUBSET Id /\ s.deadAlbums \in SUBSET Id
BY DEF Scanner

LEMMA SpentTyped ==
  ASSUME TypeOK, NEW w \in {"change", "failure", "crash"}, Used(w) \/ UNCHANGED spent
  PROVE  spent' \in Spent
BY DEF TypeOK, Used, Spent

LEMMA FreeTyped == TypeOK => FreeBlocks \in Nat
BY DiskOK DEF TypeOK, FreeBlocks

\* What keeps TypeInv, put together.
LEMMA TypesKept ==
  ASSUME disk' \in Tree, seen' \in Tree,
         live' \in Database, db' \in Database, saved' \in Database,
         Bounded(live)', Bounded(db)', Bounded(saved)',
         state' \in States, changeCounter' \in Nat, scan' \in Scanner,
         steady' \in BOOLEAN, aged' \in BOOLEAN, ahead' \in BOOLEAN, spent' \in Spent,
         blind' \subseteq Tables, slipped' \subseteq Names,
         scan'.pc \in Walking <=> scan'.stack # <<>>,
         scan'.pc = "tags" => scan'.track # NoTrack,
         scan'.pc \in {"artist", "album", "title"}
           => scan'.track # NoTrack /\ scan'.highest.titles >= 1
  PROVE  TypeInv'
BY DEF TypeInv, TypeOK, Tree, States, Spent, Bounded

\* The same for a step of the scanner, which may write its database.
LEMMA TypesKeptInStep ==
  ASSUME TypeInv, disk' = disk, seen' \in {seen, disk},
         NEW d \in Database, Bounded(d),
         Write(d) \/ UNCHANGED tables,
         state' \in States, changeCounter' \in Nat, scan' \in Scanner,
         steady' \in BOOLEAN, aged' \in BOOLEAN, ahead' \in BOOLEAN,
         blind' \subseteq Tables, slipped' \subseteq Names,
         NEW w \in {"change", "failure", "crash"}, Used(w) \/ UNCHANGED spent,
         scan'.pc \in Walking <=> scan'.stack # <<>>,
         scan'.pc = "tags" => scan'.track # NoTrack,
         scan'.pc \in {"artist", "album", "title"}
           => scan'.track # NoTrack /\ scan'.highest.titles >= 1
  PROVE  TypeInv'
<1>1. spent' \in Spent
  BY SpentTyped DEF TypeInv
<1>2. /\ live' \in {live, d} /\ db' \in {db, d} /\ saved' = saved
  BY DEF Write, tables
<1>3. /\ live' \in Database /\ db' \in Database /\ saved' \in Database
      /\ Bounded(live)' /\ Bounded(db)' /\ Bounded(saved)'
  BY <1>2 DEF TypeInv, TypeOK, Bounded
<1>4. disk' \in Tree /\ seen' \in Tree
  BY DEF TypeInv, TypeOK, Tree
<1>. QED  BY <1>1, <1>3, <1>4, TypesKept

\* Frames and stacks.
LEMMA NoEntries == ASSUME NEW S, NEW s \in Seq(S) PROVE s = <<>> <=> Len(s) = 0
<1>1. ASSUME Len(s) = 0 PROVE s = <<>>
  BY <1>1
<1>. QED  BY <1>1

LEMMA TopTyped ==
  ASSUME TypeInv, scan.stack # <<>>
  PROVE  /\ Len(scan.stack) \in Nat \ {0} /\ Top \in Frame
         /\ \A f \in Frame : /\ OnTop(f) \in Seq(Frame) /\ Len(OnTop(f)) = Len(scan.stack)
                             /\ OnTop(f) # <<>>
                             /\ \A i \in 1..Len(scan.stack) :
                                  OnTop(f)[i] = IF i = Len(scan.stack) THEN f ELSE scan.stack[i]
<1>1. scan.stack \in Seq(Frame)
  BY ScannerFields DEF TypeInv, TypeOK
<1>2. Len(scan.stack) \in Nat \ {0}
  BY <1>1
<1>. QED  BY <1>1, <1>2 DEF Top, OnTop

LEMMA StackTyped ==
  ASSUME TypeInv, scan.stack # <<>>,
         NEW n, NEW looks \in Contents \cup {Dir}
  PROVE  /\ After(n, looks) \in Seq(Frame) /\ After(n, looks) # <<>>
         /\ GivenUp \in Seq(Frame) /\ GivenUp # <<>>
         /\ Top.dir \in Names \cup {Root} /\ Top.id \in Nat /\ Top.left \in SUBSET Names
<1>1. Top \in Frame
  BY TopTyped
<1>2. [Top EXCEPT !.left = @ \ {n}, !.last = looks] \in Frame
  BY <1>1 DEF Frame
<1>3. [Top EXCEPT !.left = {}] \in Frame
  BY <1>1 DEF Frame
<1>. QED  BY <1>1, <1>2, <1>3, TopTyped DEF After, GivenUp, Frame

LEMMA OpenedTyped ==
  ASSUME NEW stack \in Seq(Frame), NEW d \in Names \cup {Root}, NEW id \in Nat
  PROVE  Opened(stack, d, id) \in Seq(Frame) /\ Opened(stack, d, id) # <<>>
<1>1. [dir |-> d, id |-> id, left |-> Entries(d), last |-> Unset] \in Frame
  BY DEF Frame, Entries
<1>. QED  BY <1>1 DEF Opened

LEMMA EnteredTyped ==
  ASSUME TypeInv, scan.stack # <<>>, NEW n \in Names, NEW id \in Nat, NEW opens
  PROVE  Entered(n, id, opens) \in Seq(Frame) /\ Entered(n, id, opens) # <<>>
<1>1. After(n, Dir) \in Seq(Frame) /\ After(n, Dir) # <<>>
  BY StackTyped
<1>2. Opened(After(n, Dir), n, id) \in Seq(Frame) /\ Opened(After(n, Dir), n, id) # <<>>
  BY <1>1, OpenedTyped
<1>. QED  BY <1>1, <1>2 DEF Entered

\* Rows.
LEMMA Touched ==
  ASSUME NEW rows, NEW touched \in SUBSET rows, NEW v
  PROVE  /\ \A r \in Touch(rows, touched, v) :
              \/ r \in rows /\ r \notin touched
              \/ \E o \in touched : r = [o EXCEPT !.version = v]
         /\ \A o \in rows : \/ o \in Touch(rows, touched, v)
                            \/ o \in touched /\ [o EXCEPT !.version = v] \in Touch(rows, touched, v)
BY DEF Touch

\* A database with ids of db and one more.
LEMMA BoundedStill ==
  ASSUME TypeInv, NEW d, NEW m \in Nat,
         \A r \in UNION {d.titles, d.artists, d.albums, d.paths} :
           r.id <= m \/ \E o \in UNION {db.titles, db.artists, db.albums, db.paths} : r.id = o.id,
         \A r \in UNION {d.titles, d.artists, d.albums, d.paths} : r.id \in Nat
  PROVE  Bounded(d)
<1>1. PICK n \in Nat :
        \A r \in UNION {db.titles, db.artists, db.albums, db.paths} : r.id <= n
  BY DEF TypeInv, Bounded
<1>2. \A r \in UNION {d.titles, d.artists, d.albums, d.paths} : r.id <= n + m
  BY <1>1
<1>. QED  BY <1>2, n + m \in Nat DEF Bounded

LEMMA DbTyped ==
  ASSUME TypeOK
  PROVE  /\ db \in Database
         /\ \A r \in UNION {db.titles, db.artists, db.albums, db.paths} : r.id \in Nat
BY DEF TypeOK, Database, TitleRow, ArtistRow, AlbumRow, PathRow

LEMMA NewTitles ==
  ASSUME TypeInv, NEW rows \in SUBSET TitleRow, NEW m \in Nat,
         \A r \in rows : r.id <= m \/ \E o \in db.titles : r.id = o.id
  PROVE  [db EXCEPT !.titles = rows] \in Database /\ Bounded([db EXCEPT !.titles = rows])
<1> DEFINE d == [db EXCEPT !.titles = rows]
<1>1. /\ d \in Database /\ d.titles = rows /\ d.artists = db.artists /\ d.albums = db.albums
      /\ d.paths = db.paths
  BY DbTyped DEF Database, TypeInv
<1>2. \A r \in UNION {d.titles, d.artists, d.albums, d.paths} : r.id \in Nat
  BY <1>1, DbTyped DEF TypeInv, TitleRow
<1>3. \A r \in UNION {d.titles, d.artists, d.albums, d.paths} :
        r.id <= m \/ \E o \in UNION {db.titles, db.artists, db.albums, db.paths} : r.id = o.id
  BY <1>1
<1> HIDE DEF d
<1>4. Bounded(d)
  BY <1>2, <1>3, BoundedStill
<1>. QED  BY <1>1, <1>4 DEF d

LEMMA NewPaths ==
  ASSUME TypeInv, NEW rows \in SUBSET PathRow, NEW m \in Nat,
         \A r \in rows : r.id <= m \/ \E o \in db.paths : r.id = o.id
  PROVE  [db EXCEPT !.paths = rows] \in Database /\ Bounded([db EXCEPT !.paths = rows])
<1> DEFINE d == [db EXCEPT !.paths = rows]
<1>1. /\ d \in Database /\ d.paths = rows /\ d.artists = db.artists /\ d.albums = db.albums
      /\ d.titles = db.titles
  BY DbTyped DEF Database, TypeInv
<1>2. \A r \in UNION {d.titles, d.artists, d.albums, d.paths} : r.id \in Nat
  BY <1>1, DbTyped DEF TypeInv, PathRow
<1>3. \A r \in UNION {d.titles, d.artists, d.albums, d.paths} :
        r.id <= m \/ \E o \in UNION {db.titles, db.artists, db.albums, db.paths} : r.id = o.id
  BY <1>1
<1> HIDE DEF d
<1>4. Bounded(d)
  BY <1>2, <1>3, BoundedStill
<1>. QED  BY <1>1, <1>4 DEF d

LEMMA NewArtists ==
  ASSUME TypeInv, NEW rows \in SUBSET ArtistRow, NEW m \in Nat,
         \A r \in rows : r.id <= m \/ \E o \in db.artists : r.id = o.id
  PROVE  [db EXCEPT !.artists = rows] \in Database /\ Bounded([db EXCEPT !.artists = rows])
<1> DEFINE d == [db EXCEPT !.artists = rows]
<1>1. /\ d \in Database /\ d.artists = rows /\ d.titles = db.titles /\ d.albums = db.albums
      /\ d.paths = db.paths
  BY DbTyped DEF Database, TypeInv
<1>2. \A r \in UNION {d.titles, d.artists, d.albums, d.paths} : r.id \in Nat
  BY <1>1, DbTyped DEF TypeInv, ArtistRow
<1>3. \A r \in UNION {d.titles, d.artists, d.albums, d.paths} :
        r.id <= m \/ \E o \in UNION {db.titles, db.artists, db.albums, db.paths} : r.id = o.id
  BY <1>1
<1> HIDE DEF d
<1>4. Bounded(d)
  BY <1>2, <1>3, BoundedStill
<1>. QED  BY <1>1, <1>4 DEF d

LEMMA NewAlbums ==
  ASSUME TypeInv, NEW rows \in SUBSET AlbumRow, NEW m \in Nat,
         \A r \in rows : r.id <= m \/ \E o \in db.albums : r.id = o.id
  PROVE  [db EXCEPT !.albums = rows] \in Database /\ Bounded([db EXCEPT !.albums = rows])
<1> DEFINE d == [db EXCEPT !.albums = rows]
<1>1. /\ d \in Database /\ d.albums = rows /\ d.titles = db.titles /\ d.artists = db.artists
      /\ d.paths = db.paths
  BY DbTyped DEF Database, TypeInv
<1>2. \A r \in UNION {d.titles, d.artists, d.albums, d.paths} : r.id \in Nat
  BY <1>1, DbTyped DEF TypeInv, AlbumRow
<1>3. \A r \in UNION {d.titles, d.artists, d.albums, d.paths} :
        r.id <= m \/ \E o \in UNION {db.titles, db.artists, db.albums, db.paths} : r.id = o.id
  BY <1>1
<1> HIDE DEF d
<1>4. Bounded(d)
  BY <1>2, <1>3, BoundedStill
<1>. QED  BY <1>1, <1>4 DEF d

LEMMA TitlesTouched ==
  ASSUME TypeInv, NEW known \in SUBSET db.titles, NEW v \in Nat
  PROVE  LET d == [db EXCEPT !.titles = Touch(@, known, v)]
         IN d \in Database /\ Bounded(d)
<1> DEFINE rows == Touch(db.titles, known, v)
<1>1. db.titles \in SUBSET TitleRow
  BY DEF TypeInv, TypeOK, Database
<1>2. \A o \in TitleRow : [o EXCEPT !.version = v] \in TitleRow /\ [o EXCEPT !.version = v].id = o.id
  BY DEF TitleRow
<1>3. \A r \in rows : r \in TitleRow /\ \E o \in db.titles : r.id = o.id
  BY <1>1, <1>2 DEF Touch
<1> HIDE DEF rows
<1>4. [db EXCEPT !.titles = rows] \in Database /\ Bounded([db EXCEPT !.titles = rows])
  BY <1>3, NewTitles, 0 \in Nat
<1>. QED  BY <1>4 DEF rows

LEMMA PathsTouched ==
  ASSUME TypeInv, NEW known \in SUBSET db.paths, NEW v \in Nat
  PROVE  LET d == [db EXCEPT !.paths = Touch(@, known, v)]
         IN d \in Database /\ Bounded(d)
<1> DEFINE rows == Touch(db.paths, known, v)
<1>1. db.paths \in SUBSET PathRow
  BY DEF TypeInv, TypeOK, Database
<1>2. \A o \in PathRow : [o EXCEPT !.version = v] \in PathRow /\ [o EXCEPT !.version = v].id = o.id
  BY DEF PathRow
<1>3. \A r \in rows : r \in PathRow /\ \E o \in db.paths : r.id = o.id
  BY <1>1, <1>2 DEF Touch
<1> HIDE DEF rows
<1>4. [db EXCEPT !.paths = rows] \in Database /\ Bounded([db EXCEPT !.paths = rows])
  BY <1>3, NewPaths, 0 \in Nat
<1>. QED  BY <1>4 DEF rows

LEMMA TypesStart == Init => TypeInv
<1>. SUFFICES ASSUME Init PROVE TypeInv
  OBVIOUS
<1>1. NoFile \in Database /\ Bounded(NoFile)
  BY DEF NoFile, EmptyDatabase, Database, Bounded
<1>2. Down \in Scanner
  BY DEF Down, Scanner, NothingCached, NoHighest, Id
<1>3. disk \in [Names -> Contents \cup {Dir, Absent}]
  BY DEF Init, Trees
<1>4. spent \in [{"change", "failure", "crash"} -> Nat]
  BY DEF Init
<1>. QED  BY <1>1, <1>2, <1>3, <1>4 DEF Init, TypeInv, TypeOK, Down, Walking

LEMMA TypesDisk == TypeInv /\ DiskStep => TypeInv'
<1>. SUFFICES ASSUME TypeInv, DiskStep PROVE TypeInv'
  OBVIOUS
<1>1. \E d \in Tree : ChangeTo(d)
  <2>1. disk \in Tree /\ \A f \in Files : Holds[f] \subseteq Contents
    BY DiskOK DEF TypeInv, TypeOK, Tree
  <2>2. \A f \in Files : f \in Names
    BY DEF Names
  <2>3. \A f \in Files, c \in Contents \cup {Absent} : [disk EXCEPT ![f] = c] \in Tree
    BY <2>1, <2>2 DEF Tree
  <2>4. \A d \in Dirs : [disk EXCEPT ![d] = Dir] \in Tree
    BY <2>1 DEF Tree, Names
  <2>5. \A d \in Dirs : [n \in Names |-> IF n = d \/ In[n] = d THEN Absent ELSE disk[n]] \in Tree
    BY <2>1 DEF Tree
  <2>. QED  BY <2>1, <2>3, <2>4, <2>5 DEF DiskStep, PutFile, RemoveFile, MakeDir, MoveDirAway
<1>2. PICK d \in Tree : ChangeTo(d)
  BY <1>1
<1>3. spent' \in Spent
  BY <1>2, SpentTyped DEF ChangeTo, TypeInv
<1>4. slipped' \subseteq Names
  BY <1>2 DEF ChangeTo, TypeInv, TypeOK
<1>. QED  BY <1>2, <1>3, <1>4 DEF ChangeTo, tables, shared, TypeInv, TypeOK, Bounded, Tree, Spent, Walking

LEMMA TypesCrash == ASSUME TypeInv, NEW machine \in BOOLEAN, Crash(machine) PROVE TypeInv'
<1>1. NoFile \in Database /\ Bounded(NoFile)
  BY DEF NoFile, EmptyDatabase, Database, Bounded
<1>2. live' \in Database /\ Bounded(live)' /\ db' = live'
  BY <1>1 DEF Crash, TypeInv, TypeOK, Bounded
<1>3. scan' = Down /\ Down \in Scanner
  <2>1. Down \in Scanner
    BY DEF Down, Scanner, NothingCached, NoHighest, Id
  <2>. QED  BY <2>1 DEF Crash
<1>4. spent' \in Spent
  BY SpentTyped DEF Crash, TypeInv
<1>5. /\ disk' \in Tree /\ seen' \in Tree /\ saved' \in Database /\ Bounded(saved)'
      /\ state' \in States /\ changeCounter' \in Nat
      /\ steady' \in BOOLEAN /\ aged' \in BOOLEAN /\ ahead' \in BOOLEAN
      /\ blind' \subseteq Tables /\ slipped' \subseteq Names
  BY DEF Crash, TypeInv, TypeOK, Tree, States, Bounded
<1>6. Bounded(db)'
  BY <1>2 DEF Bounded
<1>. QED  BY <1>2, <1>3, <1>4, <1>5, <1>6, TypesKept DEF Down, Walking

LEMMA RestoredTyped ==
  ASSUME TypeInv
  PROVE  /\ Restored \in Database /\ Bounded(Restored)
         /\ \A d \in MayBeRestored : d \in Database /\ Bounded(d)
<1>1. CutOff \in Database /\ Bounded(CutOff)
  BY DEF CutOff, EmptyDatabase, Database, Bounded
<1>. QED  BY <1>1 DEF Restored, MayBeRestored, TypeInv, TypeOK

LEMMA HighestTyped ==
  ASSUME NEW d \in Database, Bounded(d)
  PROVE  /\ MaxId(d.titles) \in Nat /\ \A r \in d.titles : r.id <= MaxId(d.titles)
         /\ MaxId(d.artists) \in Nat /\ \A r \in d.artists : r.id <= MaxId(d.artists)
         /\ MaxId(d.albums) \in Nat /\ \A r \in d.albums : r.id <= MaxId(d.albums)
         /\ MaxId(d.paths) \in Nat /\ \A r \in d.paths : r.id <= MaxId(d.paths)
<1>1. PICK n \in Nat : \A r \in UNION {d.titles, d.artists, d.albums, d.paths} : r.id <= n
  BY DEF Bounded
<1>2. /\ \A r \in d.titles : r.id \in Nat
      /\ \A r \in d.artists : r.id \in Nat
      /\ \A r \in d.albums : r.id \in Nat
      /\ \A r \in d.paths : r.id \in Nat
  BY DEF Database, TitleRow, ArtistRow, AlbumRow, PathRow
<1>3. /\ \A r \in d.titles : r.id <= n
      /\ \A r \in d.artists : r.id <= n
      /\ \A r \in d.albums : r.id <= n
      /\ \A r \in d.paths : r.id <= n
  BY <1>1
<1>. QED  BY <1>2, <1>3, HighestId

Highests == [titles : Nat, artists : Nat, albums : Nat, paths : Nat]

LEMMA HighestsTyped == ASSUME NEW h \in [Tables -> Nat] PROVE h \in Highests
BY DEF Tables, Highests

LEMMA TypesStartsWith ==
  ASSUME TypeInv, NEW d \in Database, Bounded(d), NEW highest \in Highests,
         NEW size \in Nat, NEW number \in Nat, StartsWith(d, highest, size, number),
         state' \in States, blind' \subseteq Tables, Used("failure") \/ UNCHANGED spent
  PROVE  TypeInv'
<1>1. Down \in Scanner /\ Down.stack = <<>>
  BY DEF Down, Scanner, NothingCached, NoHighest, Id
<1>2. scan' \in Scanner /\ scan'.pc = "sample" /\ scan'.stack = <<>>
  BY <1>1 DEF StartsWith, Scanner, Highests
<1>3. /\ disk' \in Tree /\ seen' \in Tree /\ saved' \in Database /\ Bounded(saved)'
      /\ changeCounter' \in Nat /\ steady' \in BOOLEAN /\ aged' \in BOOLEAN
      /\ slipped' \subseteq Names
  BY DEF StartsWith, TypeInv, TypeOK, Tree, Bounded
<1>4. live' = d /\ db' = d /\ ahead' \in BOOLEAN
  BY DEF StartsWith, TypeInv, TypeOK
<1>5. spent' \in Spent
  BY SpentTyped DEF TypeInv
<1>. QED  BY <1>2, <1>3, <1>4, <1>5, TypesKept DEF Walking, Bounded

\* What a start reads of a database, and what it goes on with when some of it is not read.
LEMMA ReadAtStart ==
  ASSUME TypeInv, NEW d \in Database, Bounded(d), NEW unread \in SUBSET Tables
  PROVE  /\ HighestIn(d) \in Highests /\ HighestIn(d) \in [Tables -> Nat]
         /\ [t \in Tables |-> IF t \in unread THEN 0 ELSE HighestIn(d)[t]] \in Highests
         /\ d.size \in Nat /\ d.counter \in Nat
<1>1. HighestIn(d) \in Highests
  BY HighestTyped DEF HighestIn, Highests
<1>2. HighestIn(d) \in [Tables -> Nat]
  BY HighestTyped DEF HighestIn, Tables
<1>3. [t \in Tables |-> IF t \in unread THEN 0 ELSE HighestIn(d)[t]] \in [Tables -> Nat]
  BY <1>2
<1>4. d.size \in Nat /\ d.counter \in Nat
  BY DEF Database
<1>. QED  BY <1>1, <1>2, <1>3, <1>4, HighestsTyped

LEMMA TypesBegin ==
  TypeInv /\ (StartNew \/ StartNewFails \/ StartAgain \/ StartAgainFails) => TypeInv'
<1>. SUFFICES ASSUME TypeInv, StartNew \/ StartNewFails \/ StartAgain \/ StartAgainFails
              PROVE  TypeInv'
  OBVIOUS
<1>1. CASE StartNew \/ StartNewFails
  <2>1. /\ EmptyDatabase \in Database /\ Bounded(EmptyDatabase)
        /\ CutOff \in Database /\ Bounded(CutOff)
    BY DEF CutOff, EmptyDatabase, Database, Bounded
  <2>2. spent' \in Spent
    <3>1. Used("failure") \/ UNCHANGED spent
      BY <1>1 DEF StartNew, StartNewFails
    <3>. QED  BY <3>1, SpentTyped DEF TypeInv
  <2>3. scan' \in Scanner /\ scan'.pc = "sample" /\ scan'.stack = <<>>
    <3>1. Down \in Scanner /\ Down.stack = <<>>
      BY DEF Down, Scanner, NothingCached, NoHighest, Id
    <3>2. CASE StartNew
      BY <3>1, <3>2, IdRanges DEF StartNew, Scanner
    <3>3. CASE StartNewFails
      BY <3>1, <3>3 DEF StartNewFails, Scanner
    <3>. QED  BY <1>1, <3>2, <3>3
  <2>4. live' \in {EmptyDatabase, CutOff} /\ db' = live' /\ saved' = saved
    BY <1>1 DEF StartNew, StartNewFails
  <2>5. /\ disk' \in Tree /\ seen' \in Tree /\ saved' \in Database /\ Bounded(saved)'
        /\ state' \in States /\ changeCounter' \in Nat
        /\ steady' \in BOOLEAN /\ aged' \in BOOLEAN /\ ahead' \in BOOLEAN
        /\ blind' \subseteq Tables /\ slipped' \subseteq Names
    BY <1>1 DEF StartNew, StartNewFails, TypeInv, TypeOK, Tree, States, history, Bounded
  <2>. QED  BY <2>1, <2>2, <2>3, <2>4, <2>5, TypesKept DEF Walking, Bounded
<1>2. CASE StartAgain
  <2>1. Restored \in Database /\ Bounded(Restored)
    BY RestoredTyped
  <2>2. /\ HighestIn(Restored) \in Highests
        /\ Restored.size \in Nat /\ Restored.counter \in Nat
    BY <2>1, ReadAtStart, {} \in SUBSET Tables
  <2>3. StartsWith(Restored, HighestIn(Restored), Restored.size, Restored.counter)
    BY <1>2 DEF StartAgain
  <2>4. state' \in States /\ blind' \subseteq Tables /\ UNCHANGED spent
    BY <1>2 DEF StartAgain, States, TypeInv, TypeOK
  <2>. QED  BY <2>1, <2>2, <2>3, <2>4, TypesStartsWith
<1>3. CASE StartAgainFails
  <2>1. PICK d \in MayBeRestored, unread \in SUBSET Tables :
          /\ \E size \in {0, d.size}, number \in {0, d.counter} :
               StartsWith(d, [t \in Tables |-> IF t \in unread THEN 0 ELSE HighestIn(d)[t]],
                          size, number)
          /\ blind' = blind \cup {t \in unread : HighestIn(d)[t] # 0}
          /\ state' \in IF unread = Tables THEN {"INIT", "WAITING"} ELSE {"WAITING"}
    BY <1>3 DEF StartAgainFails
  <2>2. d \in Database /\ Bounded(d)
    BY RestoredTyped
  <2>3. PICK size \in {0, d.size}, number \in {0, d.counter} :
          StartsWith(d, [t \in Tables |-> IF t \in unread THEN 0 ELSE HighestIn(d)[t]],
                     size, number)
    BY <2>1
  <2>4. /\ [t \in Tables |-> IF t \in unread THEN 0 ELSE HighestIn(d)[t]] \in Highests
        /\ size \in Nat /\ number \in Nat
    BY <2>2, ReadAtStart
  <2>5. state' \in States /\ blind' \subseteq Tables /\ Used("failure")
    BY <1>3, <2>1 DEF StartAgainFails, States, TypeInv, TypeOK
  <2>. QED  BY <2>2, <2>3, <2>4, <2>5, TypesStartsWith
<1>. QED  BY <1>1, <1>2, <1>3

\* The head of the main loop, and the begin of a scan.
LEMMA TypesHead == TypeInv /\ (SampleSame \/ SampleChanged \/ Settle \/ Begin) => TypeInv'
<1>. SUFFICES ASSUME TypeInv, SampleSame \/ SampleChanged \/ Settle \/ Begin PROVE TypeInv'
  OBVIOUS
<1>1. /\ scan \in Scanner /\ FreeBlocks \in Nat /\ state \in States /\ changeCounter \in Nat
      /\ steady \in BOOLEAN /\ aged \in BOOLEAN /\ ahead \in BOOLEAN /\ db \in Database /\ Bounded(db)
      /\ blind \subseteq Tables /\ slipped \subseteq Names
      /\ "failure" \in {"change", "failure", "crash"}
  BY FreeTyped DEF TypeInv, TypeOK, States
<1>2. CASE SampleSame \/ SampleChanged \/ Settle
  <2>1. /\ scan' \in Scanner /\ scan'.stack = scan.stack /\ scan'.pc \in {"sample", "settle", "begin"}
        /\ scan.pc \in {"sample", "settle"}
    <3>1. CASE SampleSame
      BY <1>1, <3>1 DEF SampleSame, Scanner
    <3>2. CASE SampleChanged
      <4>1. scan' = [scan EXCEPT !.newfree = FreeBlocks, !.pc = "begin"]
            \/ scan' = [scan EXCEPT !.newfree = FreeBlocks, !.pc = "settle"]
        BY <3>2 DEF SampleChanged
      <4>. QED  BY <1>1, <3>2, <4>1 DEF SampleChanged, Scanner
    <3>3. CASE Settle
      <4>1. scan' = [scan EXCEPT !.newfree = FreeBlocks, !.pc = "begin"]
            \/ scan' = [scan EXCEPT !.newfree = FreeBlocks]
        BY <1>1, <3>3 DEF Settle, Scanner
      <4>. QED  BY <1>1, <3>3, <4>1 DEF Settle, Scanner
    <3>. QED  BY <1>2, <3>1, <3>2, <3>3
  <2>2. state' \in States
    BY <1>1, <1>2 DEF SampleSame, SampleChanged, Settle, States, shared
  <2>3. /\ disk' = disk /\ seen' \in {seen, disk} /\ UNCHANGED tables /\ changeCounter' \in Nat
        /\ steady' \in BOOLEAN /\ aged' \in BOOLEAN /\ ahead' \in BOOLEAN /\ UNCHANGED spent
        /\ blind' \subseteq Tables /\ slipped' \subseteq Names
    BY <1>1, <1>2 DEF SampleSame, SampleChanged, Settle, history, shared
  <2>4. scan.stack = <<>>
    BY <2>1 DEF TypeInv, Walking
  <2>. QED  BY <1>1, <2>1, <2>2, <2>3, <2>4, TypesKeptInStep DEF Walking
<1>3. CASE Begin
  <2>1. /\ disk' = disk /\ seen' = seen /\ UNCHANGED tables /\ changeCounter' \in Nat
        /\ steady' \in BOOLEAN /\ aged' \in BOOLEAN /\ ahead' \in BOOLEAN
        /\ blind' \subseteq Tables /\ slipped' \subseteq Names
        /\ Used("failure") \/ UNCHANGED spent
        /\ state' \in States
    BY <1>1, <1>3 DEF Begin, States
  <2>2. Opened(<<>>, Root, MinPathId) \in Seq(Frame) /\ Opened(<<>>, Root, MinPathId) # <<>>
    <3>1. <<>> \in Seq(Frame) /\ Root \in Names \cup {Root} /\ MinPathId \in Nat
      BY IdRanges
    <3>. QED  BY <3>1, OpenedTyped
  <2>3. scan.stack = <<>>
    BY <1>3 DEF Begin, TypeInv, Walking
  <2>4. scan' \in Scanner /\ \/ scan'.pc = "walk" /\ scan'.stack # <<>>
                             \/ scan'.pc = "end" /\ scan'.stack = <<>>
    <3> DEFINE opened == Opened(<<>>, Root, MinPathId)
    <3>1. \/ scan' = [scan EXCEPT !.pc = "walk", !.changed = FALSE, !.stack = opened]
          \/ scan' = [scan EXCEPT !.pc = "end", !.changed = FALSE]
      BY <1>3 DEF Begin
    <3> HIDE DEF opened
    <3>2. CASE scan' = [scan EXCEPT !.pc = "walk", !.changed = FALSE, !.stack = opened]
      BY <1>1, <2>2, <3>2 DEF Scanner, opened
    <3>3. CASE scan' = [scan EXCEPT !.pc = "end", !.changed = FALSE]
      BY <1>1, <2>3, <3>3 DEF Scanner
    <3>. QED  BY <3>1, <3>2, <3>3
  <2>. QED  BY <1>1, <2>1, <2>4, TypesKeptInStep DEF Walking
<1>. QED  BY <1>2, <1>3

\* For the steps of a scan, which leave the shared memory alone.
LEMMA TypesKeptInScan ==
  ASSUME TypeInv, disk' = disk, UNCHANGED shared, Smooth \/ Rough,
         NEW d \in Database, Bounded(d),
         Write(d) \/ UNCHANGED tables,
         Used("failure") \/ UNCHANGED spent,
         scan' \in Scanner,
         scan'.pc \in Walking <=> scan'.stack # <<>>,
         scan'.pc = "tags" => scan'.track # NoTrack,
         scan'.pc \in {"artist", "album", "title"}
           => scan'.track # NoTrack /\ scan'.highest.titles >= 1
  PROVE  TypeInv'
<1>1. /\ seen' \in {seen, disk} /\ state' \in States /\ changeCounter' \in Nat
      /\ steady' \in BOOLEAN /\ aged' \in BOOLEAN /\ ahead' \in BOOLEAN
      /\ blind' \subseteq Tables /\ slipped' \subseteq Names
  BY DEF Smooth, Rough, history, shared, TypeInv, TypeOK, States
<1>2. "failure" \in {"change", "failure", "crash"}
  OBVIOUS
<1>. QED  BY <1>1, <1>2, TypesKeptInStep

\* The stack changes, and the highest path id.
LEMMA TypesKeptInWalk ==
  ASSUME TypeInv, scan.pc = "walk", disk' = disk, UNCHANGED shared, Smooth \/ Rough,
         NEW d \in Database, Bounded(d),
         Write(d) \/ UNCHANGED tables,
         Used("failure") \/ UNCHANGED spent,
         NEW stack \in Seq(Frame), stack # <<>>,
         \/ scan' = [scan EXCEPT !.stack = stack]
         \/ \E id \in Nat :
              scan' = [scan EXCEPT !.stack = stack, !.highest.paths = id, !.changed = TRUE]
  PROVE  TypeInv'
<1>1. scan \in Scanner /\ scan.highest \in [titles : Nat, artists : Nat, albums : Nat, paths : Nat]
  BY DEF TypeInv, TypeOK, Scanner
<1>2. scan' \in Scanner /\ scan'.pc = "walk" /\ scan'.stack = stack
  <2>1. CASE scan' = [scan EXCEPT !.stack = stack]
    BY <1>1, <2>1 DEF Scanner
  <2>2. ASSUME NEW id \in Nat,
               scan' = [scan EXCEPT !.stack = stack, !.highest.paths = id, !.changed = TRUE]
        PROVE  scan' \in Scanner /\ scan'.pc = "walk" /\ scan'.stack = stack
    <3> DEFINE h == [scan.highest EXCEPT !.paths = id]
    <3>1. h \in [titles : Nat, artists : Nat, albums : Nat, paths : Nat]
      BY <1>1
    <3>2. scan' = [scan EXCEPT !.stack = stack, !.highest = h, !.changed = TRUE]
      BY <1>1, <2>2 DEF Scanner
    <3> HIDE DEF h
    <3>. QED  BY <1>1, <3>1, <3>2 DEF Scanner
  <2>. QED  BY <2>1, <2>2
<1>. QED  BY <1>2, TypesKeptInScan DEF Walking

LEMMA TypesLookAtFile ==
  ASSUME TypeInv, NEW n \in Names, PassOver(n) \/ MarkFile(n) \/ MarkFails(n)
  PROVE  TypeInv'
<1>1. PICK looks \in Contents \cup {Dir} :
        /\ Visits(n, looks)
        /\ \/ /\ scan' = [scan EXCEPT !.stack = After(n, looks)]
              /\ UNCHANGED <<disk, shared, history>>
              /\ UNCHANGED spent
              /\ \/ UNCHANGED tables
                 \/ Write([db EXCEPT !.titles = Touch(@, TitlesOf(db, looks, Top.id, n), scan.dbVersion)])
           \/ /\ scan' = [scan EXCEPT !.stack = GivenUp]
              /\ Rough /\ UNCHANGED <<disk, tables, shared>>
              /\ Used("failure") \/ UNCHANGED spent
  <2>1. CASE PassOver(n)
    BY <2>1 DEF PassOver
  <2>2. CASE MarkFile(n)
    BY <2>2 DEF MarkFile, Works
  <2>3. CASE MarkFails(n)
    BY <2>3 DEF MarkFails, Fails
  <2>. QED  BY <2>1, <2>2, <2>3
<1>2. scan.pc = "walk" /\ scan.stack # <<>> /\ scan \in Scanner
  BY <1>1 DEF Visits, TypeInv, TypeOK
<1>3. /\ After(n, looks) \in Seq(Frame) /\ After(n, looks) # <<>>
      /\ GivenUp \in Seq(Frame) /\ GivenUp # <<>>
  BY <1>2, StackTyped
<1>4. db \in Database /\ Bounded(db)
  BY DEF TypeInv, TypeOK
<1>5. CASE /\ scan' = [scan EXCEPT !.stack = After(n, looks)]
           /\ UNCHANGED <<disk, shared, history>>
           /\ UNCHANGED spent
           /\ \/ UNCHANGED tables
              \/ Write([db EXCEPT !.titles = Touch(@, TitlesOf(db, looks, Top.id, n), scan.dbVersion)])
  <2> DEFINE d == [db EXCEPT !.titles = Touch(@, TitlesOf(db, looks, Top.id, n), scan.dbVersion)]
  <2>1. d \in Database /\ Bounded(d)
    BY <1>2, TitlesTouched DEF TitlesOf, Scanner
  <2> HIDE DEF d
  <2>2. Write(d) \/ UNCHANGED tables
    BY <1>5 DEF d
  <2>. QED  BY <1>2, <1>3, <1>5, <2>1, <2>2, TypesKeptInWalk DEF Smooth
<1>6. CASE /\ scan' = [scan EXCEPT !.stack = GivenUp]
           /\ Rough /\ UNCHANGED <<disk, tables, shared>>
           /\ Used("failure") \/ UNCHANGED spent
  BY <1>2, <1>3, <1>4, <1>6, TypesKeptInWalk
<1>. QED  BY <1>1, <1>5, <1>6

\* For the steps around the tags of a file, which write nothing.
LEMMA TypesKeptAtTags ==
  ASSUME TypeInv, UNCHANGED <<disk, tables, shared, aged, seen, ahead, blind>>,
         steady' \in {steady, FALSE}, slipped' \subseteq Names,
         Used("failure") \/ UNCHANGED spent,
         scan' \in Scanner, scan'.stack # <<>>,
         scan'.pc \in {"walk", "tags", "artist"},
         scan'.pc = "tags" => scan'.track # NoTrack,
         scan'.pc = "artist" => scan'.track # NoTrack /\ scan'.highest.titles >= 1
  PROVE  TypeInv'
<1>1. db \in Database /\ Bounded(db)
  BY DEF TypeInv, TypeOK
<1>2. /\ disk' = disk /\ seen' \in {seen, disk} /\ UNCHANGED tables
      /\ state' \in States /\ changeCounter' \in Nat
      /\ steady' \in BOOLEAN /\ aged' \in BOOLEAN /\ ahead' \in BOOLEAN
      /\ blind' \subseteq Tables
  BY DEF shared, TypeInv, TypeOK, States
<1>3. "failure" \in {"change", "failure", "crash"}
  OBVIOUS
<1>. QED  BY <1>1, <1>2, <1>3, TypesKeptInStep DEF Walking

LEMMA TypesNewFile == ASSUME TypeInv, NEW n \in Names, NewFile(n) PROVE TypeInv'
<1> DEFINE trackOf(looks) ==
      [name |-> n, stamp |-> looks, tags |-> NoTags, artistId |-> 0,
       artist |-> UnknownArtist, album |-> UnknownAlbum]
<1>1. PICK looks \in Contents :
        /\ Visits(n, looks)
        /\ scan' = [scan EXCEPT !.pc = "tags", !.stack = After(n, looks), !.track = trackOf(looks)]
  BY DEF NewFile
<1>2. scan.stack # <<>> /\ scan \in Scanner
  BY <1>1 DEF Visits, TypeInv, TypeOK
<1>3. After(n, looks) \in Seq(Frame) /\ After(n, looks) # <<>>
  BY <1>2, StackTyped
<1> DEFINE track == trackOf(looks)
           stack == After(n, looks)
<1>4. track \in Track /\ track # NoTrack
  BY DEF Track, ArtistNames, AlbumNames, NoTrack, Id
<1> HIDE DEF track, stack
<1>5. scan' = [scan EXCEPT !.pc = "tags", !.stack = stack, !.track = track]
  BY <1>1 DEF track, stack
<1>6. scan' \in Scanner /\ scan'.pc = "tags" /\ scan'.stack = stack /\ scan'.track = track
  BY <1>2, <1>3, <1>4, <1>5 DEF Scanner, stack
<1>7. slipped' \subseteq Names /\ UNCHANGED <<disk, tables, shared, aged, seen, ahead, blind, spent>>
      /\ steady' = steady
  BY DEF NewFile, TypeInv, TypeOK
<1>. QED  BY <1>3, <1>4, <1>6, <1>7, TypesKeptAtTags DEF stack

LEMMA TypesLookAtDir ==
  ASSUME TypeInv, NEW n \in Names,
         MarkDir(n) \/ MarkDirNoId(n) \/ NewDir(n) \/ NewDirFails(n)
  PROVE  TypeInv'
<1>1. scan.pc = "walk" /\ scan.stack # <<>> /\ scan \in Scanner /\ scan.dbVersion \in Nat
      /\ scan.highest.paths \in Nat /\ db.paths \subseteq PathRow
  BY DEF MarkDir, MarkDirNoId, NewDir, NewDirFails, Visits, TypeInv, TypeOK, Scanner, Database
<1>2. /\ \A id \in Nat, opens \in BOOLEAN :
           Entered(n, id, opens) \in Seq(Frame) /\ Entered(n, id, opens) # <<>>
      /\ GivenUp \in Seq(Frame) /\ GivenUp # <<>>
      /\ Top.id \in Nat
  BY <1>1, EnteredTyped, StackTyped
<1>3. db \in Database /\ Bounded(db)
  BY DEF TypeInv, TypeOK
<1> DEFINE known == PathsOf(db, Top.id, n)
           d == [db EXCEPT !.paths = Touch(@, known, scan.dbVersion)]
<1>4. d \in Database /\ Bounded(d)
  BY <1>1, PathsTouched DEF PathsOf
<1>5. CASE MarkDir(n)
  <2>1. PICK p \in known, opens \in BOOLEAN :
          OpensOrNot(opens) /\ scan' = [scan EXCEPT !.stack = Entered(n, p.id, opens)]
    BY <1>5 DEF MarkDir
  <2>2. p.id \in Nat
    BY <1>1 DEF PathsOf, PathRow
  <2>3. Write(d) /\ UNCHANGED <<disk, shared>>
    BY <1>5 DEF MarkDir
  <2> HIDE DEF d
  <2>. QED  BY <1>1, <1>2, <1>4, <2>1, <2>2, <2>3, TypesKeptInWalk DEF OpensOrNot
<1>6. CASE MarkDirNoId(n)
  <2>1. /\ Write(d) /\ UNCHANGED <<disk, shared>> /\ Used("failure") /\ Rough
        /\ scan' = [scan EXCEPT !.stack = GivenUp]
    BY <1>6 DEF MarkDirNoId
  <2> HIDE DEF d
  <2>. QED  BY <1>1, <1>2, <1>4, <2>1, TypesKeptInWalk
<1>7. CASE NewDir(n)
  <2> DEFINE id == scan.highest.paths + 1
             row == [id |-> id, parent |-> Top.id, name |-> n, version |-> scan.dbVersion]
             rows == db.paths \cup {row}
             e == [db EXCEPT !.paths = rows]
  <2>1. id \in Nat /\ row \in PathRow /\ row.id = id
    BY <1>1, <1>2 DEF PathRow
  <2> HIDE DEF row
  <2>2. rows \in SUBSET PathRow /\ \A r \in rows : r.id <= id \/ \E o \in db.paths : r.id = o.id
    BY <1>1, <2>1
  <2> HIDE DEF rows
  <2>3. e \in Database /\ Bounded(e)
    BY <2>1, <2>2, NewPaths
  <2>4. Write(e) /\ UNCHANGED <<disk, shared>>
    BY <1>7 DEF NewDir, rows, row
  <2>5. PICK opens \in BOOLEAN :
          /\ OpensOrNot(opens)
          /\ scan' = [scan EXCEPT !.stack = Entered(n, id, opens),
                                  !.highest.paths = id, !.changed = TRUE]
    BY <1>7 DEF NewDir
  <2> HIDE DEF e
  <2>. QED  BY <1>1, <1>2, <2>1, <2>3, <2>4, <2>5, TypesKeptInWalk DEF OpensOrNot
<1>8. CASE NewDirFails(n)
  BY <1>1, <1>2, <1>3, <1>8, TypesKeptInWalk DEF NewDirFails, Fails
<1>. QED  BY <1>5, <1>6, <1>7, <1>8

LEMMA TypesLeave == TypeInv /\ LeaveDir => TypeInv'
<1>. SUFFICES ASSUME TypeInv, LeaveDir PROVE TypeInv'
  OBVIOUS
<1>1. /\ scan \in Scanner /\ scan.stack \in Seq(Frame) /\ scan.pc = "walk"
      /\ Len(scan.stack) \in Nat \ {0}
  BY TopTyped DEF TypeInv, TypeOK, LeaveDir, Scanner
<1> DEFINE stack == SubSeq(scan.stack, 1, Len(scan.stack) - 1)
           pc == IF Len(scan.stack) = 1 THEN "end" ELSE scan.pc
<1>2. stack \in Seq(Frame) /\ Len(stack) = Len(scan.stack) - 1
  BY <1>1
<1>3. scan' = [scan EXCEPT !.stack = stack, !.pc = pc]
  BY DEF LeaveDir
<1>4. (pc = "end" /\ stack = <<>>) \/ (pc = "walk" /\ stack # <<>>)
  <2> HIDE DEF stack
  <2>2. stack = <<>> <=> Len(stack) = 0
    BY <1>2, NoEntries
  <2>1. stack = <<>> <=> Len(scan.stack) = 1
    BY <1>1, <1>2, <2>2
  <2>. QED  BY <1>1, <2>1
<1> HIDE DEF stack, pc
<1>5. scan' \in Scanner /\ scan'.pc = pc /\ scan'.stack = stack
  BY <1>1, <1>2, <1>3, <1>4 DEF Scanner
<1>6. db \in Database /\ Bounded(db)
  BY DEF TypeInv, TypeOK
<1>. QED  BY <1>4, <1>5, <1>6, TypesKeptInScan DEF LeaveDir, Walking, Smooth

\* A file that is looked up.
LEMMA TrackTyped ==
  ASSUME TypeInv, scan.pc \in {"tags", "artist", "album", "title"}
  PROVE  /\ scan \in Scanner /\ scan.stack # <<>>
         /\ scan.track \in Track /\ scan.track # NoTrack
         /\ scan.track.name \in Names /\ scan.track.stamp \in Contents
         /\ scan.track.tags \in Audio \cup {NoTags}
         /\ scan.track.artist \in ArtistNames /\ scan.track.album \in AlbumNames
         /\ scan.track.artistId \in Id
         /\ scan.highest \in [titles : Nat, artists : Nat, albums : Nat, paths : Nat]
         /\ scan.highest.titles \in Nat
         /\ scan.pc # "tags" => scan.highest.titles \in Nat \ {0}
         /\ scan.cache \in [artist : ArtistNames \cup {NoName}, artistId : Id,
                            album : AlbumNames \cup {NoName}, albumArtist : Id, albumId : Id]
         /\ scan.cache.artistId \in Id /\ scan.cache.albumId \in Id
         /\ Top.id \in Nat
<1>1. /\ scan \in Scanner /\ scan.stack # <<>> /\ scan.track # NoTrack
      /\ scan.pc # "tags" => scan.highest.titles >= 1
  BY DEF TypeInv, TypeOK, Walking
<1>2. scan.track \in Track
  BY <1>1 DEF Scanner
<1>3. Top.id \in Nat
  BY <1>1, StackTyped
<1>4. /\ scan.highest \in [titles : Nat, artists : Nat, albums : Nat, paths : Nat]
      /\ scan.cache \in [artist : ArtistNames \cup {NoName}, artistId : Id,
                         album : AlbumNames \cup {NoName}, albumArtist : Id, albumId : Id]
  BY <1>1 DEF Scanner
<1>5. /\ scan.track.name \in Names /\ scan.track.stamp \in Contents
      /\ scan.track.tags \in Audio \cup {NoTags}
      /\ scan.track.artist \in ArtistNames /\ scan.track.album \in AlbumNames
      /\ scan.track.artistId \in Id
  BY <1>2 DEF Track
<1>6. scan.cache.artistId \in Id /\ scan.cache.albumId \in Id
  BY <1>4
<1>7. scan.highest.titles \in Nat /\ (scan.pc # "tags" => scan.highest.titles \in Nat \ {0})
  BY <1>1, <1>4
<1>. QED  BY <1>1, <1>2, <1>3, <1>4, <1>5, <1>6, <1>7

LEMMA NoTrackIsNone == ASSUME NEW t \in Track PROVE t # NoTrack
BY DEF Track, NoTrack

LEMMA TagsNamed ==
  ASSUME NEW tags PROVE TagArtist(tags) \in ArtistNames /\ TagAlbum(tags) \in AlbumNames
BY DEF TagArtist, TagAlbum, ArtistNames, AlbumNames

LEMMA GotTagsTyped ==
  ASSUME TypeInv, scan.pc = "tags", NEW tags \in Audio \cup {NoTags}, GotTags(tags)
  PROVE  /\ scan' \in Scanner /\ scan'.pc = "artist" /\ scan'.stack = scan.stack
         /\ scan'.track \in Track
         /\ scan'.track = [scan.track EXCEPT !.tags = tags, !.artist = TagArtist(tags),
                                            !.album = TagAlbum(tags)]
         /\ scan'.highest = [scan.highest EXCEPT !.titles = @ + 1]
         /\ scan'.highest.titles = scan.highest.titles + 1
         /\ scan'.cache = scan.cache /\ scan'.dbVersion = scan.dbVersion
<1> DEFINE t == [scan.track EXCEPT !.tags = tags, !.artist = TagArtist(tags),
                                   !.album = TagAlbum(tags)]
           h == [scan.highest EXCEPT !.titles = @ + 1]
<1>1. /\ scan.track \in Track /\ scan \in Scanner
      /\ scan.highest \in [titles : Nat, artists : Nat, albums : Nat, paths : Nat]
  BY TrackTyped
<1>2. t \in Track
  BY <1>1, TagsNamed DEF Track
<1>3. h \in [titles : Nat, artists : Nat, albums : Nat, paths : Nat]
      /\ h.titles = scan.highest.titles + 1
  BY <1>1
<1>4. scan' = [scan EXCEPT !.pc = "artist", !.track = t, !.highest = h]
  BY <1>1 DEF GotTags, Scanner, Track
<1> HIDE DEF t, h
<1>5. /\ scan' \in Scanner /\ scan'.pc = "artist" /\ scan'.stack = scan.stack
      /\ scan'.track = t /\ scan'.highest = h
      /\ scan'.cache = scan.cache /\ scan'.dbVersion = scan.dbVersion
  BY <1>1, <1>2, <1>3, <1>4 DEF Scanner
<1>. QED  BY <1>2, <1>3, <1>5 DEF t, h

LEMMA NotMusicTyped ==
  ASSUME TypeInv, scan.pc = "tags", NotMusic
  PROVE  /\ scan' \in Scanner /\ scan'.pc = "walk" /\ scan'.stack = scan.stack
         /\ scan'.highest = scan.highest /\ scan'.track = NoTrack
         /\ scan'.cache = scan.cache /\ scan'.dbVersion = scan.dbVersion
<1>1. scan \in Scanner
  BY TrackTyped
<1>. QED  BY <1>1 DEF NotMusic, Scanner

\* What reading the tags of a file comes to.
LEMMA TagsCome ==
  ASSUME TypeInv, ReadTags \/ ReadTagsFails
  PROVE  /\ scan.pc = "tags"
         /\ NotMusic \/ \E tags \in Audio \cup {NoTags} : GotTags(tags)
         /\ UNCHANGED <<disk, tables, shared, aged, seen, ahead, blind>>
         /\ steady' \in {steady, FALSE}
         /\ slipped \subseteq slipped' /\ slipped' \subseteq Names
         /\ Used("failure") \/ UNCHANGED spent
<1>1. scan.pc = "tags"
  BY DEF ReadTags, ReadTagsFails
<1>2. scan.track.name \in Names /\ slipped \subseteq Names
  BY <1>1, TrackTyped DEF TypeInv, TypeOK
<1>. QED  BY <1>1, <1>2 DEF ReadTags, ReadTagsFails, history

LEMMA TypesTags == ASSUME TypeInv, ReadTags \/ ReadTagsFails PROVE TypeInv'
<1>1. scan.pc = "tags" /\ scan.stack # <<>> /\ scan.highest.titles \in Nat
  BY TagsCome, TrackTyped
<1>2. CASE NotMusic
  BY <1>1, <1>2, TagsCome, NotMusicTyped, TypesKeptAtTags
<1>3. ASSUME NEW tags \in Audio \cup {NoTags}, GotTags(tags) PROVE TypeInv'
  <2>1. /\ scan' \in Scanner /\ scan'.pc = "artist" /\ scan'.stack = scan.stack
        /\ scan'.track \in Track /\ scan'.highest.titles = scan.highest.titles + 1
    BY <1>1, <1>3, GotTagsTyped
  <2>2. scan'.track # NoTrack /\ scan'.highest.titles >= 1
    BY <1>1, <2>1, NoTrackIsNone
  <2>. QED  BY <1>1, <2>1, <2>2, TagsCome, TypesKeptAtTags
<1>. QED  BY <1>2, <1>3, TagsCome

LEMMA GotArtistTyped ==
  ASSUME TypeInv, scan.pc = "artist", NEW id \in Id, NEW k \in Nat, NEW added \in BOOLEAN,
         GotArtist(id, k, added)
  PROVE  /\ scan' \in Scanner /\ scan'.pc = "album" /\ scan'.stack = scan.stack
         /\ scan'.track \in Track
         /\ scan'.track = [scan.track EXCEPT !.artistId = id]
         /\ scan'.highest = [scan.highest EXCEPT !.artists = k]
         /\ scan'.highest.titles = scan.highest.titles
         /\ scan'.cache = [scan.cache EXCEPT !.artist = scan.track.artist, !.artistId = id]
         /\ scan'.dbVersion = scan.dbVersion
<1> DEFINE t == [scan.track EXCEPT !.artistId = id]
           h == [scan.highest EXCEPT !.artists = k]
           c == [scan.cache EXCEPT !.artist = scan.track.artist, !.artistId = id]
           g == scan.changed \/ added
<1>1. t \in Track /\ h \in [titles : Nat, artists : Nat, albums : Nat, paths : Nat]
  BY TrackTyped DEF Track
<1>6. h.titles = scan.highest.titles
  <2>1. scan.highest \in [titles : Nat, artists : Nat, albums : Nat, paths : Nat]
    BY TrackTyped
  <2>. QED  BY <2>1
<1>2. c \in [artist : ArtistNames \cup {NoName}, artistId : Id,
             album : AlbumNames \cup {NoName}, albumArtist : Id, albumId : Id]
  BY TrackTyped
<1>3. g \in BOOLEAN /\ scan \in Scanner
  BY TrackTyped DEF Scanner
<1>4. scan' = [scan EXCEPT !.pc = "album", !.track = t, !.highest = h, !.cache = c, !.changed = g]
  BY <1>3 DEF GotArtist, Scanner
<1> HIDE DEF t, h, c, g
<1>5. /\ scan' \in Scanner /\ scan'.pc = "album" /\ scan'.stack = scan.stack
      /\ scan'.track = t /\ scan'.highest = h /\ scan'.cache = c /\ scan'.dbVersion = scan.dbVersion
  BY <1>1, <1>2, <1>3, <1>4 DEF Scanner
<1>. QED  BY <1>1, <1>5, <1>6 DEF t, h, c

LEMMA GotAlbumTyped ==
  ASSUME TypeInv, scan.pc = "album", NEW id \in Id, NEW k \in Nat, NEW added \in BOOLEAN,
         GotAlbum(id, k, added)
  PROVE  /\ scan' \in Scanner /\ scan'.pc = "title" /\ scan'.stack = scan.stack
         /\ scan'.track = scan.track /\ scan'.albumId = id
         /\ scan'.highest = [scan.highest EXCEPT !.albums = k]
         /\ scan'.highest.titles = scan.highest.titles
         /\ scan'.cache = [scan.cache EXCEPT !.album = scan.track.album,
                                             !.albumArtist = scan.track.artistId, !.albumId = id]
         /\ scan'.dbVersion = scan.dbVersion
<1> DEFINE h == [scan.highest EXCEPT !.albums = k]
           c == [scan.cache EXCEPT !.album = scan.track.album,
                                   !.albumArtist = scan.track.artistId, !.albumId = id]
           g == scan.changed \/ added
<1>1. h \in [titles : Nat, artists : Nat, albums : Nat, paths : Nat]
  BY TrackTyped
<1>6. h.titles = scan.highest.titles
  <2>1. scan.highest \in [titles : Nat, artists : Nat, albums : Nat, paths : Nat]
    BY TrackTyped
  <2>. QED  BY <2>1
<1>2. c \in [artist : ArtistNames \cup {NoName}, artistId : Id,
             album : AlbumNames \cup {NoName}, albumArtist : Id, albumId : Id]
  BY TrackTyped
<1>3. g \in BOOLEAN /\ scan \in Scanner
  BY TrackTyped DEF Scanner
<1>4. scan' = [scan EXCEPT !.pc = "title", !.albumId = id, !.highest = h, !.cache = c, !.changed = g]
  BY <1>3 DEF GotAlbum, Scanner
<1> HIDE DEF h, c, g
<1>5. /\ scan' \in Scanner /\ scan'.pc = "title" /\ scan'.stack = scan.stack
      /\ scan'.track = scan.track /\ scan'.albumId = id /\ scan'.highest = h /\ scan'.cache = c
      /\ scan'.dbVersion = scan.dbVersion
  BY <1>1, <1>2, <1>3, <1>4 DEF Scanner
<1>. QED  BY <1>5, <1>6 DEF h, c

LEMMA TypesArtist ==
  ASSUME TypeInv, ArtistCached \/ ArtistFound \/ ArtistAdded \/ ArtistFails
  PROVE  TypeInv'
<1>1. scan.pc = "artist" /\ scan.highest.artists \in Nat /\ db \in Database /\ Bounded(db)
      /\ db.artists \in SUBSET ArtistRow
  BY TrackTyped DEF ArtistCached, ArtistFound, ArtistAdded, ArtistFails, TypeInv, TypeOK, Database
<1>2. ASSUME NEW id \in Id, NEW k \in Nat, NEW added \in BOOLEAN, GotArtist(id, k, added),
             disk' = disk, UNCHANGED shared, Smooth \/ Rough,
             NEW d \in Database, Bounded(d), Write(d) \/ UNCHANGED tables,
             Used("failure") \/ UNCHANGED spent
      PROVE  TypeInv'
  <2>1. scan' \in Scanner /\ scan'.pc = "album" /\ scan'.stack = scan.stack
    BY <1>1, <1>2, GotArtistTyped
  <2>4. scan'.highest.titles = scan.highest.titles
    BY <1>1, <1>2, GotArtistTyped
  <2>5. scan'.track \in Track
    BY <1>1, <1>2, GotArtistTyped
  <2>2. scan'.track \in Track /\ scan'.highest.titles >= 1 /\ scan.stack # <<>>
    BY <1>1, <1>2, <2>1, <2>4, <2>5, TrackTyped
  <2>3. scan'.track # NoTrack
    BY <2>2, NoTrackIsNone
  <2>. QED  BY <1>2, <2>1, <2>2, <2>3, TypesKeptInScan DEF Walking
<1>3. CASE ArtistCached
  <2> DEFINE t == [scan.track EXCEPT !.artistId = scan.cache.artistId]
  <2>1. t \in Track /\ t # NoTrack
    BY <1>1, TrackTyped, NoTrackIsNone DEF Track
  <2>2. scan' = [scan EXCEPT !.pc = "album", !.track = t] /\ scan \in Scanner
    BY <1>1, <1>3, TrackTyped DEF ArtistCached, Scanner
  <2> HIDE DEF t
  <2>3. /\ scan' \in Scanner /\ scan'.pc = "album" /\ scan'.stack = scan.stack /\ scan'.track = t
        /\ scan'.highest = scan.highest
    BY <2>1, <2>2 DEF Scanner
  <2>. QED  BY <1>1, <1>3, <2>1, <2>3, TrackTyped, TypesKeptInScan DEF ArtistCached, Walking, Smooth
<1>4. CASE ArtistFound
  <2>1. PICK a \in ArtistsNamed(db, scan.track.artist) :
          GotArtist(a.id, scan.highest.artists, FALSE)
    BY <1>4 DEF ArtistFound
  <2>2. a.id \in Id
    BY <1>1 DEF ArtistsNamed, ArtistRow, Id
  <2>. QED  BY <1>1, <1>2, <1>4, <2>1, <2>2 DEF ArtistFound, Works, Smooth
<1>5. CASE ArtistAdded
  <2> DEFINE id == scan.highest.artists + 1
             row == [id |-> id, name |-> scan.track.artist]
             rows == db.artists \cup {row}
             d == [db EXCEPT !.artists = rows]
  <2>1. id \in Nat /\ id \in Id /\ row \in ArtistRow /\ row.id = id
    BY <1>1, TrackTyped DEF ArtistRow, Id
  <2>2. rows \in SUBSET ArtistRow /\ \A r \in rows : r.id <= id \/ \E o \in db.artists : r.id = o.id
    BY <1>1, <2>1
  <2>3. d \in Database /\ Bounded(d)
    <3> HIDE DEF rows
    <3>. QED  BY <2>1, <2>2, NewArtists
  <2>4. /\ Write(d) /\ GotArtist(id, id, TRUE) /\ disk' = disk /\ UNCHANGED shared
        /\ (Smooth \/ Rough) /\ (Used("failure") \/ UNCHANGED spent)
    BY <1>5 DEF ArtistAdded, NotFound
  <2> HIDE DEF d
  <2>. QED  BY <1>2, <2>1, <2>3, <2>4
<1>6. CASE ArtistFails
  <2>1. PICK id \in {0, FAILURE} : GotArtist(id, scan.highest.artists, FALSE)
                                  /\ (Used("failure") \/ UNCHANGED spent)
    BY <1>6 DEF ArtistFails, Fails
  <2>2. id \in Id
    BY DEF Id
  <2>. QED  BY <1>1, <1>2, <1>6, <2>1, <2>2 DEF ArtistFails
<1>. QED  BY <1>3, <1>4, <1>5, <1>6

LEMMA TypesAlbum ==
  ASSUME TypeInv, AlbumCached \/ AlbumFound \/ AlbumAdded \/ AlbumFails
  PROVE  TypeInv'
<1>1. scan.pc = "album" /\ scan.highest.albums \in Nat /\ db \in Database /\ Bounded(db)
      /\ db.albums \in SUBSET AlbumRow
  BY TrackTyped DEF AlbumCached, AlbumFound, AlbumAdded, AlbumFails, TypeInv, TypeOK, Database
<1>2. ASSUME NEW id \in Id, NEW k \in Nat, NEW added \in BOOLEAN, GotAlbum(id, k, added),
             disk' = disk, UNCHANGED shared, Smooth \/ Rough,
             NEW d \in Database, Bounded(d), Write(d) \/ UNCHANGED tables,
             Used("failure") \/ UNCHANGED spent
      PROVE  TypeInv'
  <2>1. scan' \in Scanner /\ scan'.pc = "title" /\ scan'.stack = scan.stack
        /\ scan'.track = scan.track
    BY <1>1, <1>2, GotAlbumTyped
  <2>3. scan'.highest.titles = scan.highest.titles
    BY <1>1, <1>2, GotAlbumTyped
  <2>2. scan'.track # NoTrack /\ scan'.highest.titles >= 1 /\ scan.stack # <<>>
    BY <1>1, <1>2, <2>1, <2>3, TrackTyped
  <2>. QED  BY <1>2, <2>1, <2>2, TypesKeptInScan DEF Walking
<1>3. ASSUME NEW id \in Id, scan' = [scan EXCEPT !.pc = "title", !.albumId = id],
             disk' = disk, UNCHANGED shared, Smooth \/ Rough, UNCHANGED tables,
             Used("failure") \/ UNCHANGED spent
      PROVE  TypeInv'
  <2>1. /\ scan' \in Scanner /\ scan'.pc = "title" /\ scan'.stack = scan.stack
        /\ scan'.track = scan.track /\ scan'.highest = scan.highest
    BY <1>1, <1>3, TrackTyped DEF Scanner
  <2>. QED  BY <1>1, <1>3, <2>1, TrackTyped, TypesKeptInScan DEF Walking
<1>4. CASE AlbumCached
  BY <1>1, <1>3, <1>4, TrackTyped DEF AlbumCached, Smooth
<1>5. CASE AlbumFound
  <2>1. PICK a \in AlbumsOfTrack : GotAlbum(a.id, scan.highest.albums, FALSE)
    BY <1>5 DEF AlbumFound
  <2>2. a.id \in Id
    BY <1>1 DEF AlbumsOfTrack, AlbumsNamed, AlbumRow, Id
  <2>. QED  BY <1>1, <1>2, <1>5, <2>1, <2>2 DEF AlbumFound, Works, Smooth
<1>6. CASE AlbumAdded
  <2> DEFINE id == scan.highest.albums + 1
             row == [id |-> id, artist |-> scan.track.artistId, name |-> scan.track.album]
             rows == db.albums \cup {row}
             d == [db EXCEPT !.albums = rows]
  <2>1. id \in Nat /\ id \in Id /\ row \in AlbumRow /\ row.id = id
    BY <1>1, TrackTyped DEF AlbumRow, Id
  <2>2. rows \in SUBSET AlbumRow /\ \A r \in rows : r.id <= id \/ \E o \in db.albums : r.id = o.id
    BY <1>1, <2>1
  <2>3. d \in Database /\ Bounded(d)
    <3> HIDE DEF rows
    <3>. QED  BY <2>1, <2>2, NewAlbums
  <2>4. /\ Write(d) /\ GotAlbum(id, id, TRUE) /\ disk' = disk /\ UNCHANGED shared
        /\ (Smooth \/ Rough) /\ (Used("failure") \/ UNCHANGED spent)
    BY <1>6 DEF AlbumAdded, NotFound
  <2> HIDE DEF d
  <2>. QED  BY <1>2, <2>1, <2>3, <2>4
<1>7. CASE AlbumFails
  <2>1. /\ 0 \in Id /\ FAILURE \in Id /\ disk' = disk /\ UNCHANGED shared /\ Rough /\ UNCHANGED tables
        /\ Used("failure") \/ UNCHANGED spent
    BY <1>7 DEF AlbumFails, Fails, Id
  <2>2. CASE GotAlbum(0, scan.highest.albums, FALSE)
    BY <1>1, <1>2, <2>1, <2>2
  <2>3. CASE scan' = [scan EXCEPT !.pc = "title", !.albumId = FAILURE]
    BY <1>3, <2>1, <2>3
  <2>. QED  BY <1>7, <2>2, <2>3 DEF AlbumFails
<1>. QED  BY <1>4, <1>5, <1>6, <1>7

LEMMA TypesTitle ==
  ASSUME TypeInv, InsertTitle \/ InsertTitleFails
  PROVE  TypeInv'
<1>1. scan.pc = "title" /\ scan \in Scanner /\ scan.stack # <<>>
      /\ db \in Database /\ Bounded(db) /\ db.titles \in SUBSET TitleRow
      /\ scan.albumId \in Id /\ scan.dbVersion \in Nat /\ 0 \in Id
  BY TrackTyped DEF InsertTitle, InsertTitleFails, TypeInv, TypeOK, Database, Scanner, Id
<1>2. CASE InsertTitle
  <2> DEFINE rows == db.titles \cup {NewTitle}
             d == [db EXCEPT !.titles = rows]
  <2>1. NewTitle \in TitleRow /\ NewTitle.id = scan.highest.titles /\ scan.highest.titles \in Nat
    BY <1>1, TrackTyped DEF NewTitle, TitleRow
  <2>2. rows \in SUBSET TitleRow
        /\ \A r \in rows : r.id <= scan.highest.titles \/ \E o \in db.titles : r.id = o.id
    BY <1>1, <2>1
  <2>3. d \in Database /\ Bounded(d)
    <3> HIDE DEF rows
    <3>. QED  BY <2>1, <2>2, NewTitles
  <2>4. /\ Write(d) /\ disk' = disk /\ UNCHANGED shared /\ Smooth /\ UNCHANGED spent
        /\ scan' = [scan EXCEPT !.pc = "walk", !.track = NoTrack, !.albumId = 0, !.changed = TRUE]
    BY <1>2 DEF InsertTitle, Works, Smooth
  <2>5. scan' \in Scanner /\ scan'.pc = "walk" /\ scan'.stack = scan.stack
    BY <1>1, <2>4 DEF Scanner
  <2> HIDE DEF d
  <2>. QED  BY <1>1, <2>3, <2>4, <2>5, TypesKeptInScan DEF Walking
<1>3. CASE InsertTitleFails
  <2> DEFINE h == [scan.highest EXCEPT !.titles = @ - 1]
  <2>1. h \in [titles : Nat, artists : Nat, albums : Nat, paths : Nat]
    BY <1>1, TrackTyped
  <2>2. scan' = [scan EXCEPT !.pc = "walk", !.track = NoTrack, !.albumId = 0,
                             !.highest = h, !.stack = GivenUp]
    BY <1>1, <1>3 DEF InsertTitleFails, Scanner
  <2> HIDE DEF h
  <2>3. GivenUp \in Seq(Frame) /\ GivenUp # <<>>
    BY <1>1, StackTyped
  <2>4. scan' \in Scanner /\ scan'.pc = "walk" /\ scan'.stack = GivenUp
    BY <1>1, <2>1, <2>2, <2>3 DEF Scanner
  <2>. QED  BY <1>1, <1>3, <2>3, <2>4, TypesKeptInScan DEF InsertTitleFails, Fails, Walking
<1>. QED  BY <1>2, <1>3

-----------------------------------------------------------------------------
(***************************************************************************)
(* The end of a scan.  No folder is being looked at any more.              *)
(***************************************************************************)
Ending == {"end", "titles", "paths", "artists", "albums", "finish", "copy", "size", "counter"}

\* A step at the end of a scan goes on to another, or to the next sample.
LEMMA TypesKeptAtEnd ==
  ASSUME TypeInv, scan.pc \in Ending, disk' = disk,
         NEW d \in Database, Bounded(d),
         Write(d) \/ UNCHANGED tables,
         state' \in States, changeCounter' \in Nat,
         Smooth \/ Rough,
         Used("failure") \/ UNCHANGED spent,
         scan' \in Scanner, scan'.pc \in Ending \cup {"sample"}, scan'.stack = scan.stack
  PROVE  TypeInv'
<1>1. scan.stack = <<>>
  BY DEF TypeInv, Ending, Walking
<1>2. "failure" \in {"change", "failure", "crash"}
  OBVIOUS
<1>3. /\ steady' \in BOOLEAN /\ aged' \in BOOLEAN /\ ahead' \in BOOLEAN /\ seen' = seen
      /\ blind' \subseteq Tables /\ slipped' \subseteq Names
  BY DEF Smooth, Rough, history, TypeInv, TypeOK
<1>. QED  BY <1>1, <1>2, <1>3, TypesKeptInStep DEF Ending, Walking

\* What the steps below start from.
LEMMA AtEnd ==
  ASSUME TypeInv
  PROVE  /\ scan \in Scanner /\ db \in Database /\ Bounded(db)
         /\ state \in States /\ changeCounter \in Nat /\ scan.dbVersion \in Nat
         /\ steady \in BOOLEAN /\ aged \in BOOLEAN /\ ahead \in BOOLEAN
         /\ scan.deadArtists \in SUBSET Id /\ scan.deadAlbums \in SUBSET Id
         /\ scan.changed \in BOOLEAN /\ scan.oldfree \in Nat /\ scan.newfree \in Nat
         /\ (Smooth \/ Rough => steady' \in BOOLEAN /\ aged' \in BOOLEAN /\ ahead' \in BOOLEAN
                                /\ seen' = seen)
         /\ (UNCHANGED shared => state' \in States /\ changeCounter' \in Nat)
BY DEF TypeInv, TypeOK, Scanner, States, Smooth, Rough, history, shared

LEMMA TypesDropTitles == TypeInv /\ DropTitles => TypeInv'
<1>. SUFFICES ASSUME TypeInv, DropTitles PROVE TypeInv'
  OBVIOUS
<1> DEFINE stale == Stale(db.titles, scan.dbVersion)
           rows == db.titles \ stale
           d == [db EXCEPT !.titles = rows]
<1>1. /\ scan.pc = "titles" /\ Write(d) /\ UNCHANGED <<disk, shared>>
      /\ (Smooth \/ Rough) /\ (Used("failure") \/ UNCHANGED spent)
  BY DEF DropTitles
<1>2. db.titles \in SUBSET TitleRow
  BY AtEnd DEF Database
<1>3. d \in Database /\ Bounded(d)
  <2>1. rows \in SUBSET TitleRow /\ \A r \in rows : r.id <= 0 \/ \E o \in db.titles : r.id = o.id
    BY <1>2
  <2> HIDE DEF rows
  <2>. QED  BY <2>1, NewTitles, 0 \in Nat
<1>4. PICK artists \in SUBSET ArtistsOf(stale), albums \in SUBSET AlbumsOf(stale) :
        scan' = [scan EXCEPT !.pc = "paths", !.changed = @ \/ stale # {},
                             !.deadArtists = artists, !.deadAlbums = albums]
  BY DEF DropTitles
<1>5. artists \in SUBSET Id /\ albums \in SUBSET Id
  BY <1>2 DEF ArtistsOf, AlbumsOf, Stale, TitleRow
<1> DEFINE g == scan.changed \/ stale # {}
<1>6. g \in BOOLEAN
  BY AtEnd
<1>7. scan' = [scan EXCEPT !.pc = "paths", !.changed = g,
                           !.deadArtists = artists, !.deadAlbums = albums]
  BY <1>4, AtEnd DEF Scanner
<1> HIDE DEF d, g
<1>8. scan' \in Scanner /\ scan'.pc = "paths" /\ scan'.stack = scan.stack
  BY <1>5, <1>6, <1>7, AtEnd DEF Scanner
<1>. QED  BY <1>1, <1>3, <1>8, AtEnd, TypesKeptAtEnd DEF Ending

LEMMA TypesDropPaths == TypeInv /\ DropPaths => TypeInv'
<1>. SUFFICES ASSUME TypeInv, DropPaths PROVE TypeInv'
  OBVIOUS
<1> DEFINE stale == Stale(db.paths, scan.dbVersion)
           rows == db.paths \ stale
           d == [db EXCEPT !.paths = rows]
           g == scan.changed \/ stale # {}
<1>1. /\ scan.pc = "paths" /\ Write(d) /\ UNCHANGED <<disk, shared>>
      /\ Smooth /\ UNCHANGED spent
      /\ scan' = [scan EXCEPT !.pc = "artists", !.changed = g]
  BY AtEnd DEF DropPaths, Works, Smooth, Scanner
<1>2. d \in Database /\ Bounded(d)
  <2>1. rows \in SUBSET PathRow /\ \A r \in rows : r.id <= 0 \/ \E o \in db.paths : r.id = o.id
    BY AtEnd DEF Database
  <2> HIDE DEF rows
  <2>. QED  BY <2>1, NewPaths, 0 \in Nat
<1>3. g \in BOOLEAN
  BY AtEnd
<1> HIDE DEF d, g
<1>4. scan' \in Scanner /\ scan'.pc = "artists" /\ scan'.stack = scan.stack
  BY <1>1, <1>3, AtEnd DEF Scanner
<1>. QED  BY <1>1, <1>2, <1>4, AtEnd, TypesKeptAtEnd DEF Ending

LEMMA TypesDropArtist == TypeInv /\ (DropArtist \/ ArtistsDropped) => TypeInv'
<1>. SUFFICES ASSUME TypeInv, DropArtist \/ ArtistsDropped PROVE TypeInv'
  OBVIOUS
<1>1. CASE DropArtist
  <2>1. PICK id \in scan.deadArtists, orphan \in BOOLEAN :
          /\ Counted(orphan, \A t \in db.titles : t.artist # id)
          /\ Write([db EXCEPT !.artists = IF orphan THEN {a \in @ : a.id # id} ELSE @])
          /\ scan' = [scan EXCEPT !.deadArtists = @ \ {id}, !.changed = @ \/ orphan]
    BY <1>1 DEF DropArtist
  <2> DEFINE rows == IF orphan THEN {a \in db.artists : a.id # id} ELSE db.artists
             d == [db EXCEPT !.artists = rows]
             g == scan.changed \/ orphan
             dead == scan.deadArtists \ {id}
  <2>2. scan.pc = "artists" /\ UNCHANGED <<disk, shared>> /\ Write(d)
        /\ (Smooth \/ Rough) /\ (Used("failure") \/ UNCHANGED spent)
    BY <1>1, <2>1 DEF DropArtist, Counted
  <2>3. rows \in SUBSET ArtistRow /\ \A r \in rows : r.id <= 0 \/ \E o \in db.artists : r.id = o.id
    BY AtEnd DEF Database
  <2> HIDE DEF rows
  <2>4. d \in Database /\ Bounded(d)
    BY <2>3, NewArtists, 0 \in Nat
  <2>5. g \in BOOLEAN /\ dead \in SUBSET Id
        /\ scan' = [scan EXCEPT !.deadArtists = dead, !.changed = g]
    BY <2>1, AtEnd DEF Scanner
  <2> HIDE DEF d, g, dead
  <2>6. scan' \in Scanner /\ scan'.pc = "artists" /\ scan'.stack = scan.stack
    BY <2>2, <2>5, AtEnd DEF Scanner
  <2>. QED  BY <2>2, <2>4, <2>6, AtEnd, TypesKeptAtEnd DEF Ending
<1>2. CASE ArtistsDropped
  <2>1. scan' \in Scanner /\ scan'.pc = "albums" /\ scan'.stack = scan.stack
    BY <1>2, AtEnd DEF ArtistsDropped, Scanner
  <2>. QED  BY <1>2, <2>1, AtEnd, TypesKeptAtEnd DEF ArtistsDropped, Ending, Smooth
<1>. QED  BY <1>1, <1>2

LEMMA TypesDropAlbum == TypeInv /\ (DropAlbum \/ AlbumsDropped) => TypeInv'
<1>. SUFFICES ASSUME TypeInv, DropAlbum \/ AlbumsDropped PROVE TypeInv'
  OBVIOUS
<1>1. CASE DropAlbum
  <2>1. PICK id \in scan.deadAlbums, orphan \in BOOLEAN :
          /\ Counted(orphan, \A t \in db.titles : t.album # id)
          /\ Write([db EXCEPT !.albums = IF orphan THEN {a \in @ : a.id # id} ELSE @])
          /\ scan' = [scan EXCEPT !.deadAlbums = @ \ {id}, !.changed = @ \/ orphan]
    BY <1>1 DEF DropAlbum
  <2> DEFINE rows == IF orphan THEN {a \in db.albums : a.id # id} ELSE db.albums
             d == [db EXCEPT !.albums = rows]
             g == scan.changed \/ orphan
             dead == scan.deadAlbums \ {id}
  <2>2. scan.pc = "albums" /\ UNCHANGED <<disk, shared>> /\ Write(d)
        /\ (Smooth \/ Rough) /\ (Used("failure") \/ UNCHANGED spent)
    BY <1>1, <2>1 DEF DropAlbum, Counted
  <2>3. rows \in SUBSET AlbumRow /\ \A r \in rows : r.id <= 0 \/ \E o \in db.albums : r.id = o.id
    BY AtEnd DEF Database
  <2> HIDE DEF rows
  <2>4. d \in Database /\ Bounded(d)
    BY <2>3, NewAlbums, 0 \in Nat
  <2>5. g \in BOOLEAN /\ dead \in SUBSET Id
        /\ scan' = [scan EXCEPT !.deadAlbums = dead, !.changed = g]
    BY <2>1, AtEnd DEF Scanner
  <2> HIDE DEF d, g, dead
  <2>6. scan' \in Scanner /\ scan'.pc = "albums" /\ scan'.stack = scan.stack
    BY <2>2, <2>5, AtEnd DEF Scanner
  <2>. QED  BY <2>2, <2>4, <2>6, AtEnd, TypesKeptAtEnd DEF Ending
<1>2. CASE AlbumsDropped
  <2>1. scan' \in Scanner /\ scan'.pc = "finish" /\ scan'.stack = scan.stack
    BY <1>2, AtEnd DEF AlbumsDropped, Scanner
  <2>. QED  BY <1>2, <2>1, AtEnd, TypesKeptAtEnd DEF AlbumsDropped, Ending, Smooth
<1>. QED  BY <1>1, <1>2

LEMMA TypesDropFails == TypeInv /\ DropFails => TypeInv'
<1>. SUFFICES ASSUME TypeInv, DropFails PROVE TypeInv'
  OBVIOUS
<1> DEFINE g == scan.changed \/ scan.pc \in {"artists", "albums"}
<1>1. /\ g \in BOOLEAN
      /\ scan' = [scan EXCEPT !.pc = "finish", !.deadArtists = {}, !.deadAlbums = {}, !.changed = g]
  BY AtEnd DEF DropFails, Scanner
<1>2. scan.pc \in Ending /\ UNCHANGED <<disk, tables, shared>> /\ Rough
      /\ (Used("failure") \/ UNCHANGED spent)
  BY DEF DropFails, Fails, Ending
<1> HIDE DEF g
<1>3. scan' \in Scanner /\ scan'.pc = "finish" /\ scan'.stack = scan.stack
  BY <1>1, AtEnd DEF Scanner
<1>. QED  BY <1>2, <1>3, AtEnd, TypesKeptAtEnd DEF Ending

\* The end of the transaction, and the copy: what readers and the saved file get is what the
\* scanner has.
LEMMA TypesCopies == TypeInv /\ (EndWalk \/ Announce \/ NothingToAnnounce \/ CopyDone) => TypeInv'
<1>. SUFFICES ASSUME TypeInv, EndWalk \/ Announce \/ NothingToAnnounce \/ CopyDone
     PROVE  TypeInv'
  OBVIOUS
<1>1. CutOff \in Database /\ Bounded(CutOff)
  BY DEF CutOff, EmptyDatabase, Database, Bounded
<1>2. /\ scan.pc \in {"end", "finish", "copy"} /\ UNCHANGED <<disk, db, state, history>>
      /\ live' \in {live, db} /\ saved' \in {saved, CutOff, db}
      /\ (Used("failure") \/ UNCHANGED spent)
      /\ changeCounter' \in {changeCounter, scan.dbVersion}
      /\ \/ scan' = [scan EXCEPT !.pc = "titles"]
         \/ scan' = [scan EXCEPT !.pc = "copy"]
         \/ scan' = [scan EXCEPT !.pc = "size"]
  BY DEF EndWalk, Announce, NothingToAnnounce, CopyDone, tables, shared
<1>3. scan' \in Scanner /\ scan'.pc \in {"titles", "copy", "size"} /\ scan'.stack = <<>>
  <2>1. scan.stack = <<>>
    BY <1>2 DEF TypeInv, Walking
  <2>. QED  BY <1>2, <2>1, AtEnd DEF Scanner
<1>4. /\ live' \in Database /\ db' \in Database /\ saved' \in Database
      /\ Bounded(live)' /\ Bounded(db)' /\ Bounded(saved)'
  BY <1>1, <1>2 DEF TypeInv, TypeOK, Bounded
<1>5. spent' \in Spent
  BY <1>2, SpentTyped DEF TypeInv
<1>6. /\ disk' \in Tree /\ seen' \in Tree /\ state' \in States /\ changeCounter' \in Nat
      /\ steady' \in BOOLEAN /\ aged' \in BOOLEAN /\ ahead' \in BOOLEAN
      /\ blind' \subseteq Tables /\ slipped' \subseteq Names
  BY <1>2, AtEnd DEF TypeInv, TypeOK, Tree, States, history
<1>. QED  BY <1>3, <1>4, <1>5, <1>6, TypesKept DEF Walking

LEMMA TypesSave == TypeInv /\ (SaveSize \/ SaveCounter) => TypeInv'
<1>. SUFFICES ASSUME TypeInv, SaveSize \/ SaveCounter PROVE TypeInv'
  OBVIOUS
<1>1. ASSUME NEW x \in Nat
      PROVE  /\ [db EXCEPT !.size = x] \in Database /\ Bounded([db EXCEPT !.size = x])
             /\ [db EXCEPT !.counter = x] \in Database /\ Bounded([db EXCEPT !.counter = x])
  <2> DEFINE d == [db EXCEPT !.size = x]
             e == [db EXCEPT !.counter = x]
  <2>1. /\ d \in Database /\ d.titles = db.titles /\ d.artists = db.artists
        /\ d.albums = db.albums /\ d.paths = db.paths
    BY AtEnd DEF Database
  <2>2. /\ e \in Database /\ e.titles = db.titles /\ e.artists = db.artists
        /\ e.albums = db.albums /\ e.paths = db.paths
    BY AtEnd DEF Database
  <2> HIDE DEF d, e
  <2>3. Bounded(d) /\ Bounded(e)
    BY <2>1, <2>2, AtEnd DEF Bounded
  <2>. QED  BY <2>1, <2>2, <2>3 DEF d, e
<1>2. CASE SaveSize
  <2> DEFINE d == [db EXCEPT !.size = scan.oldfree]
  <2>1. /\ d \in Database /\ Bounded(d) /\ (Write(d) \/ UNCHANGED tables)
        /\ (Used("failure") \/ UNCHANGED spent) /\ UNCHANGED <<disk, shared, history>>
        /\ scan.pc = "size"
    BY <1>1, <1>2, AtEnd DEF SaveSize, Works, Fails
  <2> DEFINE v == scan.dbVersion + 1
  <2>3. v \in Nat /\ scan' = [scan EXCEPT !.pc = "counter", !.dbVersion = v]
    BY <1>2, AtEnd DEF SaveSize, Scanner
  <2> HIDE DEF v
  <2>2. scan' \in Scanner /\ scan'.pc = "counter" /\ scan'.stack = scan.stack
    BY <1>2, <2>3, AtEnd DEF SaveSize, Scanner
  <2> HIDE DEF d
  <2>. QED  BY <2>1, <2>2, AtEnd, TypesKeptAtEnd DEF Ending, Smooth
<1>3. CASE SaveCounter
  <2> DEFINE d == [db EXCEPT !.counter = scan.dbVersion]
  <2>1. /\ d \in Database /\ Bounded(d) /\ (Write(d) \/ UNCHANGED tables)
        /\ (Used("failure") \/ UNCHANGED spent) /\ UNCHANGED <<disk, changeCounter, history>>
        /\ scan.pc = "counter" /\ state' \in States
    BY <1>1, <1>3, AtEnd DEF SaveCounter, Works, Fails, States
  <2>2. scan' \in Scanner /\ scan'.pc = "sample" /\ scan'.stack = scan.stack
    BY <1>3, AtEnd DEF SaveCounter, Scanner
  <2> HIDE DEF d
  <2>. QED  BY <2>1, <2>2, AtEnd, TypesKeptAtEnd DEF Ending, Smooth
<1>. QED  BY <1>2, <1>3

LEMMA TypesNext == TypeInv /\ [Next]_vars => TypeInv'
<1>. SUFFICES ASSUME TypeInv, [Next]_vars PROVE TypeInv'
  OBVIOUS
<1>1. CASE Main
  BY <1>1, TypesBegin, TypesHead, TypesLookAtFile, TypesNewFile, TypesLookAtDir, TypesLeave,
     TypesTags, TypesArtist, TypesAlbum, TypesTitle, TypesCopies, TypesDropTitles, TypesDropPaths, TypesDropArtist,
     TypesDropAlbum, TypesDropFails, TypesSave DEF Main, Walk, RemoveStale
<1>2. CASE DiskStep
  BY <1>2, TypesDisk
<1>3. CASE \E machine \in BOOLEAN : Crash(machine)
  BY <1>3, TypesCrash
<1>4. CASE UNCHANGED vars
  BY <1>4 DEF vars, TypeInv, TypeOK, Bounded, Walking
<1>. QED  BY <1>1, <1>2, <1>3, <1>4 DEF Next

\* TypeInv holds at every moment.
THEOREM TypesAlways == Spec => []TypeInv
BY TypesStart, TypesNext, PTL DEF Spec

\* Every row, every id kept or stored and every frame of the walk has its type, whatever the
\* disk does and whatever fails (the tables of mps-librarydbd.c, the locals of
\* mps-librarydbd-traverse.c).
THEOREM LibraryTypeCorrect == Spec => []TypeOK
<1>1. TypeInv => TypeOK
  BY DEF TypeInv
<1>. QED  BY <1>1, TypesAlways, PTL

-----------------------------------------------------------------------------
(***************************************************************************)
(* What the steps do to the variables of the scanner whose updates reach   *)
(* into a record in a record.                                              *)
(***************************************************************************)
LEMMA NewFileDoes ==
  ASSUME TypeInv, NEW n \in Names, NewFile(n)
  PROVE  \E looks \in Contents :
           /\ Visits(n, looks) /\ n \in Files
           /\ ~Marked(TitlesOf(db, looks, Top.id, n))
           /\ state = "UPDATINGDB" => db.file # "cut"
           /\ scan'.pc = "tags" /\ scan'.stack = After(n, looks)
           /\ scan'.highest = scan.highest
           /\ scan'.track.name = n /\ scan'.track.stamp = looks
           /\ scan'.cache = scan.cache /\ scan'.albumId = scan.albumId
           /\ scan'.dbVersion = scan.dbVersion /\ scan'.deadArtists = scan.deadArtists
           /\ scan'.deadAlbums = scan.deadAlbums
<1> DEFINE trackOf(looks) ==
      [name |-> n, stamp |-> looks, tags |-> NoTags, artistId |-> 0,
       artist |-> UnknownArtist, album |-> UnknownAlbum]
<1>1. PICK looks \in Contents :
        /\ Visits(n, looks) /\ n \in Files
        /\ ~Marked(TitlesOf(db, looks, Top.id, n))
        /\ state = "UPDATINGDB" => db.file # "cut"
        /\ scan' = [scan EXCEPT !.pc = "tags", !.stack = After(n, looks), !.track = trackOf(looks)]
  BY DEF NewFile
<1> DEFINE track == trackOf(looks)
           stack == After(n, looks)
<1>2. scan \in Scanner
  BY DEF TypeInv, TypeOK
<1>3. scan' = [scan EXCEPT !.pc = "tags", !.stack = stack, !.track = track]
  BY <1>1
<1>4. track.name = n /\ track.stamp = looks
  OBVIOUS
<1> HIDE DEF track, stack
<1>5. /\ scan'.pc = "tags" /\ scan'.stack = stack /\ scan'.highest = scan.highest
      /\ scan'.track = track
      /\ scan'.cache = scan.cache /\ scan'.albumId = scan.albumId
      /\ scan'.dbVersion = scan.dbVersion /\ scan'.deadArtists = scan.deadArtists
      /\ scan'.deadAlbums = scan.deadAlbums
  BY <1>2, <1>3 DEF Scanner
<1>. QED  BY <1>1, <1>4, <1>5 DEF stack

\* What of the scanner stays when the tags of a file were read, or it is none of music.
LEMMA GotTagsDoes ==
  ASSUME TypeInv, scan.pc = "tags", NEW tags \in Audio \cup {NoTags}, GotTags(tags)
  PROVE  /\ scan'.pc = "artist" /\ scan'.stack = scan.stack
         /\ scan'.highest.titles = scan.highest.titles + 1
         /\ scan'.highest.artists = scan.highest.artists
         /\ scan'.highest.albums = scan.highest.albums
         /\ scan'.highest.paths = scan.highest.paths
         /\ scan'.track.name = scan.track.name /\ scan'.track.stamp = scan.track.stamp
         /\ scan'.track.tags = tags
         /\ scan'.track.artist = TagArtist(tags) /\ scan'.track.album = TagAlbum(tags)
         /\ scan'.cache = scan.cache /\ scan'.albumId = scan.albumId
         /\ scan'.dbVersion = scan.dbVersion /\ scan'.deadArtists = scan.deadArtists
         /\ scan'.deadAlbums = scan.deadAlbums
<1> DEFINE t == [scan.track EXCEPT !.tags = tags, !.artist = TagArtist(tags),
                                   !.album = TagAlbum(tags)]
           h == [scan.highest EXCEPT !.titles = @ + 1]
<1>1. /\ scan.track \in Track /\ scan \in Scanner
      /\ scan.highest \in [titles : Nat, artists : Nat, albums : Nat, paths : Nat]
  BY TrackTyped
<1>2. /\ t.name = scan.track.name /\ t.stamp = scan.track.stamp /\ t.tags = tags
      /\ t.artist = TagArtist(tags) /\ t.album = TagAlbum(tags)
  BY <1>1 DEF Track
<1>3. /\ h.titles = scan.highest.titles + 1 /\ h.artists = scan.highest.artists
      /\ h.albums = scan.highest.albums /\ h.paths = scan.highest.paths
  BY <1>1
<1>4. scan' = [scan EXCEPT !.pc = "artist", !.track = t, !.highest = h]
  BY <1>1 DEF GotTags, Scanner, Track
<1> HIDE DEF t, h
<1>5. /\ scan'.pc = "artist" /\ scan'.stack = scan.stack
      /\ scan'.track = t /\ scan'.highest = h
      /\ scan'.cache = scan.cache /\ scan'.albumId = scan.albumId
      /\ scan'.dbVersion = scan.dbVersion /\ scan'.deadArtists = scan.deadArtists
      /\ scan'.deadAlbums = scan.deadAlbums
  BY <1>1, <1>4 DEF Scanner
<1>. QED  BY <1>2, <1>3, <1>5

LEMMA NotMusicDoes ==
  ASSUME TypeInv, scan.pc = "tags", NotMusic
  PROVE  /\ scan'.pc = "walk" /\ scan'.stack = scan.stack
         /\ scan'.highest = scan.highest /\ scan'.track = NoTrack
         /\ scan'.cache = scan.cache /\ scan'.albumId = scan.albumId
         /\ scan'.dbVersion = scan.dbVersion /\ scan'.deadArtists = scan.deadArtists
         /\ scan'.deadAlbums = scan.deadAlbums
<1>1. scan \in Scanner
  BY TrackTyped
<1>. QED  BY <1>1 DEF NotMusic, Scanner

LEMMA NewDirDoes ==
  ASSUME TypeInv, NEW n \in Names, NewDir(n)
  PROVE  \E opens \in BOOLEAN :
           /\ OpensOrNot(opens)
           /\ scan'.pc = "walk" /\ scan'.stack = Entered(n, scan.highest.paths + 1, opens)
           /\ scan'.highest.paths = scan.highest.paths + 1
           /\ scan'.highest.titles = scan.highest.titles
           /\ scan'.highest.artists = scan.highest.artists
           /\ scan'.highest.albums = scan.highest.albums
           /\ scan'.track = scan.track /\ scan'.cache = scan.cache
           /\ scan'.dbVersion = scan.dbVersion /\ scan'.deadArtists = scan.deadArtists
           /\ scan'.deadAlbums = scan.deadAlbums
<1> DEFINE id == scan.highest.paths + 1
           h == [scan.highest EXCEPT !.paths = id]
<1>1. PICK opens \in BOOLEAN :
        /\ OpensOrNot(opens)
        /\ scan' = [scan EXCEPT !.stack = Entered(n, id, opens), !.highest.paths = id,
                                !.changed = TRUE]
  BY DEF NewDir
<1>2. /\ scan \in Scanner /\ scan.highest \in [titles : Nat, artists : Nat, albums : Nat, paths : Nat]
      /\ scan.pc = "walk"
  BY DEF TypeInv, TypeOK, Scanner, NewDir, Visits
<1>3. scan' = [scan EXCEPT !.stack = Entered(n, id, opens), !.highest = h, !.changed = TRUE]
  BY <1>1, <1>2 DEF Scanner
<1>4. /\ h.titles = scan.highest.titles /\ h.artists = scan.highest.artists
      /\ h.albums = scan.highest.albums /\ h.paths = id
  BY <1>2
<1> HIDE DEF h, id
<1>5. /\ scan'.pc = "walk" /\ scan'.stack = Entered(n, id, opens) /\ scan'.highest = h
      /\ scan'.track = scan.track /\ scan'.cache = scan.cache
      /\ scan'.dbVersion = scan.dbVersion /\ scan'.deadArtists = scan.deadArtists
      /\ scan'.deadAlbums = scan.deadAlbums
  BY <1>2, <1>3 DEF Scanner
<1>. QED  BY <1>1, <1>4, <1>5 DEF id

\* What of the scanner stays when an artist or an album was found.
LEMMA GotArtistDoes ==
  ASSUME TypeInv, scan.pc = "artist", NEW id \in Id, NEW k \in Nat, NEW added \in BOOLEAN,
         GotArtist(id, k, added)
  PROVE  /\ scan'.pc = "album" /\ scan'.stack = scan.stack
         /\ scan'.track.artistId = id /\ scan'.track.name = scan.track.name
         /\ scan'.track.stamp = scan.track.stamp /\ scan'.track.tags = scan.track.tags
         /\ scan'.track.artist = scan.track.artist
         /\ scan'.track.album = scan.track.album /\ scan'.cache.album = scan.cache.album
         /\ scan'.highest.artists = k /\ scan'.highest.titles = scan.highest.titles
         /\ scan'.highest.albums = scan.highest.albums /\ scan'.highest.paths = scan.highest.paths
         /\ scan'.cache.artist = scan.track.artist /\ scan'.cache.artistId = id
         /\ scan'.cache.albumArtist = scan.cache.albumArtist
         /\ scan'.cache.albumId = scan.cache.albumId
         /\ scan'.dbVersion = scan.dbVersion /\ scan'.deadArtists = scan.deadArtists
         /\ scan'.deadAlbums = scan.deadAlbums
<1> DEFINE t == [scan.track EXCEPT !.artistId = id]
           h == [scan.highest EXCEPT !.artists = k]
           c == [scan.cache EXCEPT !.artist = scan.track.artist, !.artistId = id]
           g == scan.changed \/ added
<1>1. /\ scan \in Scanner /\ scan.track \in Track
      /\ scan.highest \in [titles : Nat, artists : Nat, albums : Nat, paths : Nat]
      /\ scan.cache \in [artist : ArtistNames \cup {NoName}, artistId : Id,
                         album : AlbumNames \cup {NoName}, albumArtist : Id, albumId : Id]
  BY TrackTyped
<1>2. scan' = [scan EXCEPT !.pc = "album", !.track = t, !.highest = h, !.cache = c, !.changed = g]
  BY <1>1 DEF GotArtist, Scanner
<1>3. /\ t.artistId = id /\ t.name = scan.track.name /\ t.stamp = scan.track.stamp
      /\ t.tags = scan.track.tags /\ t.artist = scan.track.artist /\ t.album = scan.track.album
  BY <1>1 DEF Track
<1>4. /\ h.artists = k /\ h.titles = scan.highest.titles /\ h.albums = scan.highest.albums
      /\ h.paths = scan.highest.paths
  BY <1>1
<1>5. /\ c.artist = scan.track.artist /\ c.artistId = id
      /\ c.albumArtist = scan.cache.albumArtist /\ c.albumId = scan.cache.albumId
      /\ c.album = scan.cache.album
  BY <1>1
<1> HIDE DEF t, h, c, g
<1>6. /\ scan'.pc = "album" /\ scan'.stack = scan.stack
      /\ scan'.track = t /\ scan'.highest = h /\ scan'.cache = c
      /\ scan'.dbVersion = scan.dbVersion /\ scan'.deadArtists = scan.deadArtists
      /\ scan'.deadAlbums = scan.deadAlbums
  BY <1>1, <1>2 DEF Scanner
<1>. QED  BY <1>3, <1>4, <1>5, <1>6

LEMMA GotAlbumDoes ==
  ASSUME TypeInv, scan.pc = "album", NEW id \in Id, NEW k \in Nat, NEW added \in BOOLEAN,
         GotAlbum(id, k, added)
  PROVE  /\ scan'.pc = "title" /\ scan'.stack = scan.stack
         /\ scan'.track = scan.track /\ scan'.albumId = id
         /\ scan'.highest.albums = k /\ scan'.highest.titles = scan.highest.titles
         /\ scan'.highest.artists = scan.highest.artists /\ scan'.highest.paths = scan.highest.paths
         /\ scan'.cache.artist = scan.cache.artist /\ scan'.cache.artistId = scan.cache.artistId
         /\ scan'.cache.albumArtist = scan.track.artistId /\ scan'.cache.albumId = id
         /\ scan'.cache.album = scan.track.album
         /\ scan'.dbVersion = scan.dbVersion /\ scan'.deadArtists = scan.deadArtists
         /\ scan'.deadAlbums = scan.deadAlbums
<1> DEFINE h == [scan.highest EXCEPT !.albums = k]
           c == [scan.cache EXCEPT !.album = scan.track.album,
                                   !.albumArtist = scan.track.artistId, !.albumId = id]
           g == scan.changed \/ added
<1>1. /\ scan \in Scanner
      /\ scan.highest \in [titles : Nat, artists : Nat, albums : Nat, paths : Nat]
      /\ scan.cache \in [artist : ArtistNames \cup {NoName}, artistId : Id,
                         album : AlbumNames \cup {NoName}, albumArtist : Id, albumId : Id]
  BY TrackTyped
<1>2. scan' = [scan EXCEPT !.pc = "title", !.albumId = id, !.highest = h, !.cache = c, !.changed = g]
  BY <1>1 DEF GotAlbum, Scanner
<1>4. /\ h.albums = k /\ h.titles = scan.highest.titles /\ h.artists = scan.highest.artists
      /\ h.paths = scan.highest.paths
  BY <1>1
<1>5. /\ c.artist = scan.cache.artist /\ c.artistId = scan.cache.artistId
      /\ c.albumArtist = scan.track.artistId /\ c.albumId = id /\ c.album = scan.track.album
  BY <1>1
<1> HIDE DEF h, c, g
<1>6. /\ scan'.pc = "title" /\ scan'.stack = scan.stack /\ scan'.albumId = id
      /\ scan'.track = scan.track /\ scan'.highest = h /\ scan'.cache = c
      /\ scan'.dbVersion = scan.dbVersion /\ scan'.deadArtists = scan.deadArtists
      /\ scan'.deadAlbums = scan.deadAlbums
  BY <1>1, <1>2 DEF Scanner
<1>. QED  BY <1>4, <1>5, <1>6

LEMMA InsertFailsDoes ==
  ASSUME TypeInv, InsertTitleFails
  PROVE  /\ scan'.pc = "walk" /\ scan'.stack = GivenUp /\ scan'.track = NoTrack
         /\ scan'.highest.titles = scan.highest.titles - 1
         /\ scan'.highest.artists = scan.highest.artists
         /\ scan'.highest.albums = scan.highest.albums /\ scan'.highest.paths = scan.highest.paths
         /\ scan'.cache = scan.cache
         /\ scan'.dbVersion = scan.dbVersion /\ scan'.deadArtists = scan.deadArtists
         /\ scan'.deadAlbums = scan.deadAlbums
<1> DEFINE h == [scan.highest EXCEPT !.titles = @ - 1]
<1>1. scan \in Scanner /\ scan.highest \in [titles : Nat, artists : Nat, albums : Nat, paths : Nat]
  BY DEF TypeInv, TypeOK, Scanner
<1>2. scan' = [scan EXCEPT !.pc = "walk", !.track = NoTrack, !.albumId = 0,
                           !.highest = h, !.stack = GivenUp]
  BY <1>1 DEF InsertTitleFails, Scanner
<1>3. /\ h.titles = scan.highest.titles - 1 /\ h.artists = scan.highest.artists
      /\ h.albums = scan.highest.albums /\ h.paths = scan.highest.paths
  BY <1>1
<1> HIDE DEF h
<1>4. /\ scan'.pc = "walk" /\ scan'.stack = GivenUp /\ scan'.track = NoTrack
      /\ scan'.highest = h /\ scan'.cache = scan.cache
      /\ scan'.dbVersion = scan.dbVersion /\ scan'.deadArtists = scan.deadArtists
      /\ scan'.deadAlbums = scan.deadAlbums
  BY <1>1, <1>2 DEF Scanner
<1>. QED  BY <1>3, <1>4

LEMMA DropTitlesDoes ==
  ASSUME TypeInv, DropTitles
  PROVE  /\ scan.pc = "titles" /\ scan'.pc = "paths"
         /\ db'.titles = db.titles \ Stale(db.titles, scan.dbVersion)
         /\ db'.artists = db.artists /\ db'.albums = db.albums /\ db'.paths = db.paths
         /\ db'.file = db.file /\ db'.size = db.size /\ db'.counter = db.counter
         /\ scan'.highest = scan.highest /\ scan'.stack = scan.stack /\ scan'.track = scan.track
         /\ scan'.cache = scan.cache /\ scan'.dbVersion = scan.dbVersion
         /\ scan'.deadArtists \in SUBSET ArtistsOf(Stale(db.titles, scan.dbVersion))
         /\ scan'.deadAlbums \in SUBSET AlbumsOf(Stale(db.titles, scan.dbVersion))
         /\ \/ /\ scan'.deadArtists = ArtistsOf(Stale(db.titles, scan.dbVersion))
               /\ scan'.deadAlbums = AlbumsOf(Stale(db.titles, scan.dbVersion))
               /\ UNCHANGED spent /\ Smooth
            \/ Used("failure") /\ Rough
<1> DEFINE stale == Stale(db.titles, scan.dbVersion)
           rows == db.titles \ stale
           g == scan.changed \/ stale # {}
<1>1. scan \in Scanner /\ db \in Database
  BY DEF TypeInv, TypeOK
<1>2. PICK artists \in SUBSET ArtistsOf(stale), albums \in SUBSET AlbumsOf(stale) :
        /\ \/ /\ artists = ArtistsOf(stale) /\ albums = AlbumsOf(stale)
              /\ UNCHANGED spent /\ Smooth
           \/ Used("failure") /\ Rough
        /\ scan' = [scan EXCEPT !.pc = "paths", !.changed = @ \/ stale # {},
                                !.deadArtists = artists, !.deadAlbums = albums]
  BY DEF DropTitles
<1>3. scan' = [scan EXCEPT !.pc = "paths", !.changed = g,
                           !.deadArtists = artists, !.deadAlbums = albums]
  BY <1>1, <1>2 DEF Scanner
<1>4. db' = [db EXCEPT !.titles = rows] /\ scan.pc = "titles"
  BY DEF DropTitles, Write
<1> HIDE DEF stale, rows, g
<1>5. /\ scan'.pc = "paths" /\ scan'.highest = scan.highest /\ scan'.stack = scan.stack
      /\ scan'.track = scan.track /\ scan'.cache = scan.cache /\ scan'.dbVersion = scan.dbVersion
      /\ scan'.deadArtists = artists /\ scan'.deadAlbums = albums
  BY <1>1, <1>3 DEF Scanner
<1>6. /\ db'.titles = rows /\ db'.artists = db.artists /\ db'.albums = db.albums
      /\ db'.paths = db.paths /\ db'.file = db.file
      /\ db'.size = db.size /\ db'.counter = db.counter
  BY <1>1, <1>4 DEF Database
<1>. QED  BY <1>2, <1>4, <1>5, <1>6 DEF rows, stale

LEMMA DropPathsDoes ==
  ASSUME TypeInv, DropPaths
  PROVE  /\ scan.pc = "paths" /\ scan'.pc = "artists"
         /\ db'.paths = db.paths \ Stale(db.paths, scan.dbVersion)
         /\ db'.artists = db.artists /\ db'.albums = db.albums /\ db'.titles = db.titles
         /\ db'.file = db.file /\ db'.size = db.size /\ db'.counter = db.counter
         /\ scan'.highest = scan.highest /\ scan'.stack = scan.stack /\ scan'.track = scan.track
         /\ scan'.cache = scan.cache /\ scan'.dbVersion = scan.dbVersion
         /\ scan'.deadArtists = scan.deadArtists /\ scan'.deadAlbums = scan.deadAlbums
<1> DEFINE stale == Stale(db.paths, scan.dbVersion)
           rows == db.paths \ stale
           g == scan.changed \/ stale # {}
<1>1. scan \in Scanner /\ db \in Database
  BY DEF TypeInv, TypeOK
<1>2. scan' = [scan EXCEPT !.pc = "artists", !.changed = g]
  BY <1>1 DEF DropPaths, Scanner
<1>3. db' = [db EXCEPT !.paths = rows] /\ scan.pc = "paths"
  BY DEF DropPaths, Write
<1> HIDE DEF stale, rows, g
<1>4. /\ scan'.pc = "artists" /\ scan'.highest = scan.highest /\ scan'.stack = scan.stack
      /\ scan'.track = scan.track /\ scan'.cache = scan.cache /\ scan'.dbVersion = scan.dbVersion
      /\ scan'.deadArtists = scan.deadArtists /\ scan'.deadAlbums = scan.deadAlbums
  BY <1>1, <1>2 DEF Scanner
<1>5. /\ db'.paths = rows /\ db'.artists = db.artists /\ db'.albums = db.albums
      /\ db'.titles = db.titles /\ db'.file = db.file
      /\ db'.size = db.size /\ db'.counter = db.counter
  BY <1>1, <1>3 DEF Database
<1>. QED  BY <1>3, <1>4, <1>5 DEF rows, stale

LEMMA DropArtistDoes ==
  ASSUME TypeInv, DropArtist
  PROVE  \E id \in scan.deadArtists, orphan \in BOOLEAN :
           /\ Counted(orphan, \A t \in db.titles : t.artist # id)
           /\ db'.artists = IF orphan THEN {a \in db.artists : a.id # id} ELSE db.artists
           /\ db'.titles = db.titles /\ db'.albums = db.albums /\ db'.paths = db.paths
           /\ db'.file = db.file /\ db'.size = db.size /\ db'.counter = db.counter
           /\ scan.pc = "artists" /\ scan'.pc = "artists"
           /\ scan'.highest = scan.highest /\ scan'.stack = scan.stack /\ scan'.track = scan.track
           /\ scan'.cache = scan.cache /\ scan'.dbVersion = scan.dbVersion
           /\ scan'.deadArtists = scan.deadArtists \ {id} /\ scan'.deadAlbums = scan.deadAlbums
<1>1. PICK id \in scan.deadArtists, orphan \in BOOLEAN :
        /\ Counted(orphan, \A t \in db.titles : t.artist # id)
        /\ Write([db EXCEPT !.artists = IF orphan THEN {a \in @ : a.id # id} ELSE @])
        /\ scan' = [scan EXCEPT !.deadArtists = @ \ {id}, !.changed = @ \/ orphan]
  BY DEF DropArtist
<1> DEFINE rows == IF orphan THEN {a \in db.artists : a.id # id} ELSE db.artists
           g == scan.changed \/ orphan
           dead == scan.deadArtists \ {id}
<1>2. scan \in Scanner /\ db \in Database /\ scan.pc = "artists"
  BY DEF TypeInv, TypeOK, DropArtist
<1>3. scan' = [scan EXCEPT !.deadArtists = dead, !.changed = g]
  BY <1>1, <1>2 DEF Scanner
<1>4. db' = [db EXCEPT !.artists = rows]
  BY <1>1 DEF Write
<1> HIDE DEF rows, g, dead
<1>5. /\ scan'.pc = "artists" /\ scan'.highest = scan.highest /\ scan'.stack = scan.stack
      /\ scan'.track = scan.track /\ scan'.cache = scan.cache /\ scan'.dbVersion = scan.dbVersion
      /\ scan'.deadArtists = dead /\ scan'.deadAlbums = scan.deadAlbums
  BY <1>2, <1>3 DEF Scanner
<1>6. /\ db'.artists = rows /\ db'.titles = db.titles /\ db'.albums = db.albums
      /\ db'.paths = db.paths /\ db'.file = db.file
      /\ db'.size = db.size /\ db'.counter = db.counter
  BY <1>2, <1>4 DEF Database
<1>. QED  BY <1>1, <1>2, <1>5, <1>6 DEF rows, dead

LEMMA DropAlbumDoes ==
  ASSUME TypeInv, DropAlbum
  PROVE  \E id \in scan.deadAlbums, orphan \in BOOLEAN :
           /\ Counted(orphan, \A t \in db.titles : t.album # id)
           /\ db'.albums = IF orphan THEN {a \in db.albums : a.id # id} ELSE db.albums
           /\ db'.titles = db.titles /\ db'.artists = db.artists /\ db'.paths = db.paths
           /\ db'.file = db.file /\ db'.size = db.size /\ db'.counter = db.counter
           /\ scan.pc = "albums" /\ scan'.pc = "albums"
           /\ scan'.highest = scan.highest /\ scan'.stack = scan.stack /\ scan'.track = scan.track
           /\ scan'.cache = scan.cache /\ scan'.dbVersion = scan.dbVersion
           /\ scan'.deadAlbums = scan.deadAlbums \ {id} /\ scan'.deadArtists = scan.deadArtists
<1>1. PICK id \in scan.deadAlbums, orphan \in BOOLEAN :
        /\ Counted(orphan, \A t \in db.titles : t.album # id)
        /\ Write([db EXCEPT !.albums = IF orphan THEN {a \in @ : a.id # id} ELSE @])
        /\ scan' = [scan EXCEPT !.deadAlbums = @ \ {id}, !.changed = @ \/ orphan]
  BY DEF DropAlbum
<1> DEFINE rows == IF orphan THEN {a \in db.albums : a.id # id} ELSE db.albums
           g == scan.changed \/ orphan
           dead == scan.deadAlbums \ {id}
<1>2. scan \in Scanner /\ db \in Database /\ scan.pc = "albums"
  BY DEF TypeInv, TypeOK, DropAlbum
<1>3. scan' = [scan EXCEPT !.deadAlbums = dead, !.changed = g]
  BY <1>1, <1>2 DEF Scanner
<1>4. db' = [db EXCEPT !.albums = rows]
  BY <1>1 DEF Write
<1> HIDE DEF rows, g, dead
<1>5. /\ scan'.pc = "albums" /\ scan'.highest = scan.highest /\ scan'.stack = scan.stack
      /\ scan'.track = scan.track /\ scan'.cache = scan.cache /\ scan'.dbVersion = scan.dbVersion
      /\ scan'.deadAlbums = dead /\ scan'.deadArtists = scan.deadArtists
  BY <1>2, <1>3 DEF Scanner
<1>6. /\ db'.albums = rows /\ db'.titles = db.titles /\ db'.artists = db.artists
      /\ db'.paths = db.paths /\ db'.file = db.file
      /\ db'.size = db.size /\ db'.counter = db.counter
  BY <1>2, <1>4 DEF Database
<1>. QED  BY <1>1, <1>2, <1>5, <1>6 DEF rows, dead

LEMMA SaveDoes ==
  ASSUME TypeInv, SaveSize \/ SaveCounter
  PROVE  /\ db'.titles = db.titles /\ db'.artists = db.artists /\ db'.albums = db.albums
         /\ db'.paths = db.paths /\ db'.file = db.file
         /\ scan'.highest = scan.highest /\ scan'.stack = scan.stack /\ scan'.track = scan.track
         /\ scan'.cache = scan.cache
         /\ scan'.deadArtists = scan.deadArtists /\ scan'.deadAlbums = scan.deadAlbums
         /\ saved' = saved
         /\ \/ /\ SaveSize /\ scan.pc = "size" /\ scan'.pc = "counter"
               /\ scan'.dbVersion = scan.dbVersion + 1 /\ db'.counter = db.counter
               /\ UNCHANGED shared
            \/ /\ SaveCounter /\ scan.pc = "counter" /\ scan'.pc = "sample" /\ state' = "WAITING"
               /\ scan'.dbVersion = scan.dbVersion
               /\ \/ db'.counter = scan.dbVersion
                  \/ UNCHANGED tables /\ Fails
<1>1. scan \in Scanner /\ db \in Database
  BY DEF TypeInv, TypeOK
<1>2. CASE SaveSize
  <2>1. /\ db' = [db EXCEPT !.size = scan.oldfree] \/ db' = db
        /\ scan' = [scan EXCEPT !.pc = "counter", !.dbVersion = @ + 1]
        /\ saved' = saved /\ UNCHANGED shared /\ scan.pc = "size"
    BY <1>2 DEF SaveSize, Write, tables
  <2>2. /\ scan'.highest = scan.highest /\ scan'.stack = scan.stack /\ scan'.track = scan.track
        /\ scan'.cache = scan.cache /\ scan'.dbVersion = scan.dbVersion + 1
        /\ scan'.deadArtists = scan.deadArtists /\ scan'.deadAlbums = scan.deadAlbums
        /\ scan'.pc = "counter"
    BY <1>1, <2>1 DEF Scanner
  <2>3. /\ db'.titles = db.titles /\ db'.artists = db.artists /\ db'.albums = db.albums
        /\ db'.paths = db.paths /\ db'.file = db.file /\ db'.counter = db.counter
    BY <1>1, <2>1 DEF Database
  <2>. QED  BY <1>2, <2>1, <2>2, <2>3
<1>3. CASE SaveCounter
  <2>1. /\ db' = [db EXCEPT !.counter = scan.dbVersion] \/ (UNCHANGED tables /\ Fails)
        /\ scan' = [scan EXCEPT !.pc = "sample", !.oldfree = scan.newfree, !.changed = FALSE]
        /\ saved' = saved /\ scan.pc = "counter" /\ state' = "WAITING"
    BY <1>3 DEF SaveCounter, Write, tables
  <2>2. /\ scan'.highest = scan.highest /\ scan'.stack = scan.stack /\ scan'.track = scan.track
        /\ scan'.cache = scan.cache /\ scan'.dbVersion = scan.dbVersion
        /\ scan'.deadArtists = scan.deadArtists /\ scan'.deadAlbums = scan.deadAlbums
        /\ scan'.pc = "sample"
    BY <1>1, <2>1 DEF Scanner
  <2>3. /\ db'.titles = db.titles /\ db'.artists = db.artists /\ db'.albums = db.albums
        /\ db'.paths = db.paths /\ db'.file = db.file
        /\ db'.counter = scan.dbVersion \/ (UNCHANGED tables /\ Fails)
    BY <1>1, <2>1 DEF Database, tables
  <2>. QED  BY <1>3, <2>1, <2>2, <2>3
<1>. QED  BY <1>2, <1>3

-----------------------------------------------------------------------------
(***************************************************************************)
(* The ids given next are free.                                            *)
(***************************************************************************)
\* While a new file is looked up, the title id kept as the highest is already its own.
IdsInv ==
  scan.pc # "down" =>
    /\ "titles" \notin blind => \A t \in db.titles :
         /\ t.id <= scan.highest.titles
         /\ scan.pc \in {"artist", "album", "title"} => t.id # scan.highest.titles
    /\ "artists" \notin blind => \A a \in db.artists : a.id <= scan.highest.artists
    /\ "albums" \notin blind => \A a \in db.albums : a.id <= scan.highest.albums
    /\ "paths" \notin blind => \A p \in db.paths : p.id <= scan.highest.paths

\* The ids in the tables, and the highest ones, are numbers.
LEMMA IdNumbers ==
  ASSUME TypeInv
  PROVE  /\ \A t \in db.titles : t.id \in Nat
         /\ \A a \in db.artists : a.id \in Nat
         /\ \A a \in db.albums : a.id \in Nat
         /\ \A p \in db.paths : p.id \in Nat
         /\ scan.highest.titles \in Nat /\ scan.highest.artists \in Nat
         /\ scan.highest.albums \in Nat /\ scan.highest.paths \in Nat
         /\ scan \in Scanner /\ db \in Database
BY DEF TypeInv, TypeOK, Database, TitleRow, ArtistRow, AlbumRow, PathRow, Scanner

\* A step that gives no new id.
LEMMA IdsKept ==
  ASSUME TypeInv, IdsInv, scan.pc # "down", blind' = blind,
         \A t \in db'.titles : \E o \in db.titles : t.id = o.id,
         \A a \in db'.artists : \E o \in db.artists : a.id = o.id,
         \A a \in db'.albums : \E o \in db.albums : a.id = o.id,
         \A p \in db'.paths : \E o \in db.paths : p.id = o.id,
         scan'.highest = scan.highest,
         scan'.pc \in {"artist", "album", "title"} => scan.pc \in {"artist", "album", "title"}
  PROVE  IdsInv'
BY DEF IdsInv

\* The tables the steps of the walk and of the removal leave behind.
LEMMA TouchedIds ==
  ASSUME TypeInv, NEW known, NEW v
  PROVE  /\ known \in SUBSET db.titles =>
              LET d == [db EXCEPT !.titles = Touch(@, known, v)]
              IN /\ d.artists = db.artists /\ d.albums = db.albums /\ d.paths = db.paths
                 /\ \A t \in d.titles : \E o \in db.titles : t.id = o.id
         /\ known \in SUBSET db.paths =>
              LET d == [db EXCEPT !.paths = Touch(@, known, v)]
              IN /\ d.artists = db.artists /\ d.albums = db.albums /\ d.titles = db.titles
                 /\ \A p \in d.paths : \E o \in db.paths : p.id = o.id
<1>1. db \in Database /\ db.titles \in SUBSET TitleRow /\ db.paths \in SUBSET PathRow
  BY DEF TypeInv, TypeOK, Database
<1>2. ASSUME known \in SUBSET db.titles, NEW t \in Touch(db.titles, known, v)
      PROVE  \E o \in db.titles : t.id = o.id
  <2>1. \A o \in TitleRow : [o EXCEPT !.version = v].id = o.id
    BY DEF TitleRow
  <2>. QED  BY <1>1, <1>2, <2>1 DEF Touch
<1>3. ASSUME known \in SUBSET db.paths, NEW p \in Touch(db.paths, known, v)
      PROVE  \E o \in db.paths : p.id = o.id
  <2>1. \A o \in PathRow : [o EXCEPT !.version = v].id = o.id
    BY DEF PathRow
  <2>. QED  BY <1>1, <1>3, <2>1 DEF Touch
<1>4. /\ [db EXCEPT !.titles = Touch(@, known, v)].titles = Touch(db.titles, known, v)
      /\ [db EXCEPT !.titles = Touch(@, known, v)].artists = db.artists
      /\ [db EXCEPT !.titles = Touch(@, known, v)].albums = db.albums
      /\ [db EXCEPT !.titles = Touch(@, known, v)].paths = db.paths
      /\ [db EXCEPT !.paths = Touch(@, known, v)].paths = Touch(db.paths, known, v)
      /\ [db EXCEPT !.paths = Touch(@, known, v)].artists = db.artists
      /\ [db EXCEPT !.paths = Touch(@, known, v)].albums = db.albums
      /\ [db EXCEPT !.paths = Touch(@, known, v)].titles = db.titles
  BY <1>1 DEF Database
<1>. QED  BY <1>2, <1>3, <1>4

\* Only a start learns of new tables it could not read.
LEMMA BlindStays ==
  ASSUME [Next]_vars, ~(StartNewFails \/ StartAgainFails) PROVE blind' = blind
<1>1. CASE StartNew \/ StartAgain \/ SampleSame \/ SampleChanged \/ Settle \/ Begin
  BY <1>1 DEF StartNew, StartAgain, StartsWith, SampleSame, SampleChanged, Settle, Begin, history
<1>2. CASE \E n \in Names : PassOver(n) \/ MarkFile(n) \/ NewFile(n) \/ MarkFails(n)
  BY <1>2 DEF PassOver, MarkFile, NewFile, MarkFails, Rough, history
<1>3. CASE \E n \in Names : MarkDir(n) \/ MarkDirNoId(n) \/ NewDir(n) \/ NewDirFails(n)
  BY <1>3 DEF MarkDir, MarkDirNoId, NewDir, NewDirFails, OpensOrNot, Smooth, Rough, history
<1>4. CASE LeaveDir \/ ReadTags \/ ReadTagsFails
  BY <1>4 DEF LeaveDir, ReadTags, ReadTagsFails, history
<1>5. CASE ArtistCached \/ ArtistFound \/ ArtistAdded \/ ArtistFails
  BY <1>5 DEF ArtistCached, ArtistFound, ArtistAdded, ArtistFails, NotFound, Smooth, Rough, history
<1>6. CASE AlbumCached \/ AlbumFound \/ AlbumAdded \/ AlbumFails
  BY <1>6 DEF AlbumCached, AlbumFound, AlbumAdded, AlbumFails, NotFound, Smooth, Rough, history
<1>7. CASE InsertTitle \/ InsertTitleFails \/ EndWalk
  BY <1>7 DEF InsertTitle, InsertTitleFails, EndWalk, Rough, history
<1>8. CASE RemoveStale
  BY <1>8 DEF RemoveStale, DropTitles, DropPaths, DropArtist, ArtistsDropped, DropAlbum,
     AlbumsDropped, DropFails, Counted, Smooth, Rough, history
<1>9. CASE Announce \/ NothingToAnnounce \/ CopyDone \/ SaveSize \/ SaveCounter
  BY <1>9 DEF Announce, NothingToAnnounce, CopyDone, SaveSize, SaveCounter, history
<1>10. CASE DiskStep
  BY <1>10 DEF DiskStep, PutFile, RemoveFile, MakeDir, MoveDirAway, ChangeTo
<1>11. CASE \E machine \in BOOLEAN : Crash(machine)
  BY <1>11 DEF Crash
<1>12. CASE UNCHANGED vars
  BY <1>12 DEF vars
<1>. QED  BY <1>1, <1>2, <1>3, <1>4, <1>5, <1>6, <1>7, <1>8, <1>9, <1>10, <1>11, <1>12
          DEF Next, Main, Walk

LEMMA IdsStart ==
  TypeInv /\ (StartNew \/ StartNewFails \/ StartAgain \/ StartAgainFails) => IdsInv'
<1>. SUFFICES ASSUME TypeInv, StartNew \/ StartNewFails \/ StartAgain \/ StartAgainFails
              PROVE  IdsInv'
  OBVIOUS
<1>1. CASE StartNew \/ StartNewFails
  BY <1>1 DEF StartNew, StartNewFails, EmptyDatabase, CutOff, IdsInv
<1>2. CASE StartAgain
  <2>1. Restored \in Database /\ Bounded(Restored)
    BY RestoredTyped
  <2>2. /\ scan'.highest = HighestIn(Restored) /\ scan'.pc = "sample" /\ db' = Restored
    BY <1>2 DEF StartAgain, StartsWith, Down
  <2>. QED  BY <2>1, <2>2, HighestTyped DEF HighestIn, IdsInv
<1>3. CASE StartAgainFails
  <2>1. PICK d \in MayBeRestored, unread \in SUBSET Tables :
          /\ \E size \in {0, d.size}, number \in {0, d.counter} :
               StartsWith(d, [t \in Tables |-> IF t \in unread THEN 0 ELSE HighestIn(d)[t]],
                          size, number)
          /\ blind' = blind \cup {t \in unread : HighestIn(d)[t] # 0}
    BY <1>3 DEF StartAgainFails
  <2> DEFINE h == [t \in Tables |-> IF t \in unread THEN 0 ELSE HighestIn(d)[t]]
  <2>2. d \in Database /\ Bounded(d)
    BY RestoredTyped
  <2>3. scan'.highest = h /\ scan'.pc = "sample" /\ db' = d
    BY <2>1 DEF StartsWith, Down
  <2>4. /\ HighestIn(d).titles = MaxId(d.titles) /\ HighestIn(d).artists = MaxId(d.artists)
        /\ HighestIn(d).albums = MaxId(d.albums) /\ HighestIn(d).paths = MaxId(d.paths)
    BY DEF HighestIn
  <2>5. /\ "titles" \notin blind' => h.titles = MaxId(d.titles)
        /\ "artists" \notin blind' => h.artists = MaxId(d.artists)
        /\ "albums" \notin blind' => h.albums = MaxId(d.albums)
        /\ "paths" \notin blind' => h.paths = MaxId(d.paths)
    BY <2>1, <2>4 DEF Tables
  <2> HIDE DEF h
  <2>. QED  BY <2>2, <2>3, <2>5, HighestTyped DEF IdsInv
<1>. QED  BY <1>1, <1>2, <1>3

LEMMA IdsWalk ==
  ASSUME TypeInv, IdsInv, blind' = blind, NEW n \in Names,
         \/ PassOver(n) \/ MarkFile(n) \/ NewFile(n) \/ MarkFails(n)
         \/ MarkDir(n) \/ MarkDirNoId(n) \/ NewDir(n) \/ NewDirFails(n)
  PROVE  IdsInv'
<1>1. scan.pc = "walk" /\ scan \in Scanner
  BY IdNumbers DEF PassOver, MarkFile, NewFile, MarkFails, MarkDir, MarkDirNoId, NewDir,
     NewDirFails, Visits
<1>2. CASE PassOver(n) \/ MarkFails(n) \/ NewDirFails(n)
  <2>1. PICK stack : scan' = [scan EXCEPT !.stack = stack]
    BY <1>2 DEF PassOver, MarkFails, NewDirFails
  <2>2. db' = db
    BY <1>2 DEF PassOver, MarkFails, NewDirFails, tables
  <2>3. scan'.highest = scan.highest /\ scan'.pc = "walk"
    BY <1>1, <2>1 DEF Scanner
  <2>. QED  BY <1>1, <2>2, <2>3, IdsKept
<1>3. CASE MarkFile(n)
  <2>1. PICK looks \in Contents :
          /\ db' = [db EXCEPT !.titles = Touch(@, TitlesOf(db, looks, Top.id, n), scan.dbVersion)]
          /\ scan' = [scan EXCEPT !.stack = After(n, looks)]
    BY <1>3 DEF MarkFile, Write
  <2>2. TitlesOf(db, looks, Top.id, n) \in SUBSET db.titles
    BY DEF TitlesOf
  <2>3. scan'.highest = scan.highest /\ scan'.pc = "walk"
    BY <1>1, <2>1 DEF Scanner
  <2>. QED  BY <1>1, <2>1, <2>2, <2>3, TouchedIds, IdsKept
<1>4. CASE MarkDir(n) \/ MarkDirNoId(n)
  <2>1. /\ db' = [db EXCEPT !.paths = Touch(@, PathsOf(db, Top.id, n), scan.dbVersion)]
        /\ \E stack : scan' = [scan EXCEPT !.stack = stack]
    BY <1>4 DEF MarkDir, MarkDirNoId, Write
  <2>2. PathsOf(db, Top.id, n) \in SUBSET db.paths
    BY DEF PathsOf
  <2>3. scan'.highest = scan.highest /\ scan'.pc = "walk"
    BY <1>1, <2>1 DEF Scanner
  <2>. QED  BY <1>1, <2>1, <2>2, <2>3, TouchedIds, IdsKept
<1>5. CASE NewFile(n)
  <2>1. scan'.pc = "tags" /\ scan'.highest = scan.highest
    BY <1>5, NewFileDoes
  <2>2. db' = db
    BY <1>5 DEF NewFile, tables
  <2>. QED  BY <1>1, <2>1, <2>2, IdsKept
<1>6. CASE NewDir(n)
  <2> DEFINE id == scan.highest.paths + 1
             row == [id |-> id, parent |-> Top.id, name |-> n, version |-> scan.dbVersion]
  <2>1. db' = [db EXCEPT !.paths = @ \cup {row}]
    BY <1>6 DEF NewDir, Write
  <2>2. row.id = id
    OBVIOUS
  <2> HIDE DEF row
  <2>3. /\ db'.titles = db.titles /\ db'.artists = db.artists /\ db'.albums = db.albums
        /\ db'.paths = db.paths \cup {row}
    BY <2>1, IdNumbers DEF Database
  <2>4. /\ scan'.pc = "walk" /\ scan'.highest.titles = scan.highest.titles
        /\ scan'.highest.artists = scan.highest.artists
        /\ scan'.highest.albums = scan.highest.albums
        /\ scan'.highest.paths = scan.highest.paths + 1
    BY <1>6, NewDirDoes
  <2>. QED  BY <1>1, <2>2, <2>3, <2>4, IdNumbers DEF IdsInv
<1>. QED  BY <1>2, <1>3, <1>4, <1>5, <1>6

LEMMA IdsTags ==
  ASSUME TypeInv, IdsInv, blind' = blind, ReadTags \/ ReadTagsFails
  PROVE  IdsInv'
<1>1. scan.pc = "tags" /\ db' = db
  BY TagsCome DEF tables
<1>2. CASE NotMusic
  BY <1>1, <1>2, NotMusicDoes, IdsKept
<1>3. ASSUME NEW tags \in Audio \cup {NoTags}, GotTags(tags) PROVE IdsInv'
  <2>1. /\ scan'.pc = "artist" /\ scan'.highest.titles = scan.highest.titles + 1
        /\ scan'.highest.artists = scan.highest.artists
        /\ scan'.highest.albums = scan.highest.albums /\ scan'.highest.paths = scan.highest.paths
    BY <1>1, <1>3, GotTagsDoes
  <2>. QED  BY <1>1, <2>1, IdNumbers DEF IdsInv
<1>. QED  BY <1>2, <1>3, TagsCome

LEMMA IdsOfFile ==
  ASSUME TypeInv, IdsInv, blind' = blind,
         \/ ArtistCached \/ ArtistFound \/ ArtistAdded \/ ArtistFails
         \/ AlbumCached \/ AlbumFound \/ AlbumAdded \/ AlbumFails
         \/ InsertTitle \/ InsertTitleFails
  PROVE  IdsInv'
<1>1. scan.pc \in {"artist", "album", "title"} /\ scan \in Scanner /\ db \in Database
  BY IdNumbers DEF ArtistCached, ArtistFound, ArtistAdded, ArtistFails, AlbumCached, AlbumFound,
     AlbumAdded, AlbumFails, InsertTitle, InsertTitleFails
<1>2. CASE ArtistCached
  <2> DEFINE t == [scan.track EXCEPT !.artistId = scan.cache.artistId]
  <2>1. scan' = [scan EXCEPT !.pc = "album", !.track = t] /\ db' = db
    BY <1>1, <1>2 DEF ArtistCached, tables, Scanner
  <2> HIDE DEF t
  <2>2. scan'.pc = "album" /\ scan'.highest = scan.highest
    BY <1>1, <2>1 DEF Scanner
  <2>. QED  BY <1>1, <2>1, <2>2, IdsKept
<1>3. CASE ArtistFound \/ ArtistFails
  <2>1. PICK id \in Id : GotArtist(id, scan.highest.artists, FALSE) /\ db' = db /\ scan.pc = "artist"
    <3>1. CASE ArtistFound
      BY <3>1, IdNumbers DEF ArtistFound, tables, ArtistsNamed, Id
    <3>2. CASE ArtistFails
      BY <3>2 DEF ArtistFails, tables, Id
    <3>. QED  BY <1>3, <3>1, <3>2
  <2>2. /\ scan'.pc = "album" /\ scan'.highest.titles = scan.highest.titles
        /\ scan'.highest.artists = scan.highest.artists
        /\ scan'.highest.albums = scan.highest.albums /\ scan'.highest.paths = scan.highest.paths
    BY <2>1, IdNumbers, GotArtistDoes
  <2>. QED  BY <1>1, <2>1, <2>2, IdNumbers DEF IdsInv
<1>4. CASE ArtistAdded
  <2> DEFINE id == scan.highest.artists + 1
             row == [id |-> id, name |-> scan.track.artist]
  <2>1. db' = [db EXCEPT !.artists = @ \cup {row}] /\ GotArtist(id, id, TRUE) /\ scan.pc = "artist"
    BY <1>4 DEF ArtistAdded, Write
  <2>2. row.id = id /\ id \in Nat /\ id \in Id
    BY IdNumbers DEF Id
  <2>3. /\ scan'.pc = "album" /\ scan'.highest.titles = scan.highest.titles
        /\ scan'.highest.artists = id
        /\ scan'.highest.albums = scan.highest.albums /\ scan'.highest.paths = scan.highest.paths
    BY <2>1, <2>2, GotArtistDoes
  <2> HIDE DEF row
  <2>4. /\ db'.titles = db.titles /\ db'.artists = db.artists \cup {row} /\ db'.albums = db.albums
        /\ db'.paths = db.paths
    BY <1>1, <2>1 DEF Database
  <2>. QED  BY <1>1, <2>2, <2>3, <2>4, IdNumbers DEF IdsInv
<1>5. CASE AlbumCached
  <2>1. scan'.pc = "title" /\ scan'.highest = scan.highest /\ db' = db
    BY <1>1, <1>5 DEF AlbumCached, tables, Scanner
  <2>. QED  BY <1>1, <2>1, IdsKept
<1>6. CASE AlbumFound \/ AlbumFails
  <2>1. scan.pc = "album" /\ db' = db
        /\ \/ \E id \in Id : GotAlbum(id, scan.highest.albums, FALSE)
           \/ scan' = [scan EXCEPT !.pc = "title", !.albumId = FAILURE]
    <3>1. CASE AlbumFound
      BY <3>1, IdNumbers DEF AlbumFound, tables, AlbumsOfTrack, AlbumsNamed, Id
    <3>2. CASE AlbumFails
      BY <3>2 DEF AlbumFails, tables, Id
    <3>. QED  BY <1>6, <3>1, <3>2
  <2>2. /\ scan'.pc = "title" /\ scan'.highest.titles = scan.highest.titles
        /\ scan'.highest.artists = scan.highest.artists
        /\ scan'.highest.albums = scan.highest.albums /\ scan'.highest.paths = scan.highest.paths
    <3>1. CASE scan' = [scan EXCEPT !.pc = "title", !.albumId = FAILURE]
      BY <1>1, <3>1 DEF Scanner
    <3>2. CASE \E id \in Id : GotAlbum(id, scan.highest.albums, FALSE)
      BY <2>1, <3>2, IdNumbers, GotAlbumDoes
    <3>. QED  BY <2>1, <3>1, <3>2
  <2>. QED  BY <1>1, <2>1, <2>2, IdNumbers DEF IdsInv
<1>7. CASE AlbumAdded
  <2> DEFINE id == scan.highest.albums + 1
             row == [id |-> id, artist |-> scan.track.artistId, name |-> scan.track.album]
  <2>1. db' = [db EXCEPT !.albums = @ \cup {row}] /\ GotAlbum(id, id, TRUE) /\ scan.pc = "album"
    BY <1>7 DEF AlbumAdded, Write
  <2>2. row.id = id /\ id \in Nat /\ id \in Id
    BY IdNumbers DEF Id
  <2>3. /\ scan'.pc = "title" /\ scan'.highest.titles = scan.highest.titles
        /\ scan'.highest.artists = scan.highest.artists
        /\ scan'.highest.albums = id /\ scan'.highest.paths = scan.highest.paths
    BY <2>1, <2>2, GotAlbumDoes
  <2> HIDE DEF row
  <2>4. /\ db'.titles = db.titles /\ db'.artists = db.artists /\ db'.albums = db.albums \cup {row}
        /\ db'.paths = db.paths
    BY <1>1, <2>1 DEF Database
  <2>. QED  BY <1>1, <2>2, <2>3, <2>4, IdNumbers DEF IdsInv
<1>8. CASE InsertTitle
  <2>1. NewTitle.id = scan.highest.titles
    BY DEF NewTitle
  <2>2. /\ db' = [db EXCEPT !.titles = @ \cup {NewTitle}]
        /\ scan' = [scan EXCEPT !.pc = "walk", !.track = NoTrack, !.albumId = 0, !.changed = TRUE]
    BY <1>8 DEF InsertTitle, Write
  <2>3. /\ db'.titles = db.titles \cup {NewTitle} /\ db'.artists = db.artists
        /\ db'.albums = db.albums /\ db'.paths = db.paths
    BY <1>1, <2>2 DEF Database
  <2>4. scan'.pc = "walk" /\ scan'.highest = scan.highest
    BY <1>1, <2>2 DEF Scanner
  <2>. QED  BY <1>1, <2>1, <2>3, <2>4, IdNumbers DEF IdsInv
<1>9. CASE InsertTitleFails
  <2>1. db' = db
    BY <1>9 DEF InsertTitleFails, tables
  <2>2. /\ scan'.pc = "walk" /\ scan'.highest.titles = scan.highest.titles - 1
        /\ scan'.highest.artists = scan.highest.artists
        /\ scan'.highest.albums = scan.highest.albums /\ scan'.highest.paths = scan.highest.paths
    BY <1>9, InsertFailsDoes
  <2>. QED  BY <1>1, <2>1, <2>2, IdNumbers DEF IdsInv
<1>. QED  BY <1>2, <1>3, <1>4, <1>5, <1>6, <1>7, <1>8, <1>9

\* A step that only goes on.
LEMMA GoesOn ==
  ASSUME TypeInv, NEW p \in {"walk", "titles", "albums", "finish", "size"},
         scan' = [scan EXCEPT !.pc = p]
  PROVE  /\ scan'.pc = p /\ scan'.highest = scan.highest /\ scan'.cache = scan.cache
         /\ scan'.stack = scan.stack /\ scan'.track = scan.track
         /\ scan'.dbVersion = scan.dbVersion
         /\ scan'.deadArtists = scan.deadArtists /\ scan'.deadAlbums = scan.deadAlbums
BY IdNumbers DEF Scanner

\* Steps that leave the highest ids alone and no id in the tables that was not there.
LEMMA IdsElsewhere ==
  ASSUME TypeInv, IdsInv, blind' = blind,
         \/ SampleSame \/ SampleChanged \/ Settle \/ Begin \/ LeaveDir \/ EndWalk
         \/ DropTitles \/ DropPaths \/ DropArtist \/ ArtistsDropped \/ DropAlbum
         \/ AlbumsDropped \/ DropFails \/ Announce \/ NothingToAnnounce \/ CopyDone
         \/ SaveSize \/ SaveCounter
  PROVE  IdsInv'
<1>1. scan \in Scanner /\ db \in Database
  BY IdNumbers
<1>2. scan'.highest = scan.highest /\ scan.pc # "down"
      /\ scan'.pc \notin {"artist", "album", "title"}
  <2>1. CASE EndWalk \/ ArtistsDropped \/ AlbumsDropped \/ NothingToAnnounce \/ CopyDone
    <3>1. scan.pc # "down" /\ \E p \in {"titles", "albums", "finish", "size"} :
                                  scan' = [scan EXCEPT !.pc = p]
      BY <2>1 DEF EndWalk, ArtistsDropped, AlbumsDropped, NothingToAnnounce, CopyDone
    <3>. QED  BY <3>1, GoesOn
  <2>8. CASE SampleSame
    BY <1>1, <2>8 DEF Scanner, SampleSame
  <2>9. CASE Settle
    BY <1>1, <2>9 DEF Scanner, Settle
  <2>10. CASE LeaveDir
    BY <1>1, <2>10 DEF Scanner, LeaveDir
  <2>2. CASE SampleChanged
    BY <1>1, <2>2 DEF Scanner, SampleChanged
  <2>3. CASE Begin
    BY <1>1, <2>3 DEF Scanner, Begin
  <2>4. CASE DropTitles \/ DropPaths \/ DropArtist \/ DropAlbum
    BY <2>4, DropTitlesDoes, DropPathsDoes, DropArtistDoes, DropAlbumDoes
  <2>5. CASE DropFails
    BY <1>1, <2>5 DEF Scanner, DropFails
  <2>7. CASE SaveSize \/ SaveCounter
    BY <2>7, SaveDoes
  <2>6. CASE Announce
    BY <1>1, <2>6 DEF Scanner, Announce
  <2>. QED  BY <2>1, <2>2, <2>3, <2>4, <2>5, <2>6, <2>7, <2>8, <2>9, <2>10
<1>3. /\ \A t \in db'.titles : \E o \in db.titles : t.id = o.id
      /\ \A a \in db'.artists : \E o \in db.artists : a.id = o.id
      /\ \A a \in db'.albums : \E o \in db.albums : a.id = o.id
      /\ \A p \in db'.paths : \E o \in db.paths : p.id = o.id
  <2>1. CASE db' = db
    BY <2>1
  <2>2. CASE DropTitles \/ DropPaths \/ SaveSize \/ SaveCounter
    BY <2>2, DropTitlesDoes, DropPathsDoes, SaveDoes
  <2>3. CASE DropArtist
    BY <2>3, DropArtistDoes
  <2>4. CASE DropAlbum
    BY <2>4, DropAlbumDoes
  <2>. QED  BY <2>1, <2>2, <2>3, <2>4 DEF SampleSame, SampleChanged, Settle,
       Begin, LeaveDir, EndWalk, ArtistsDropped, AlbumsDropped, DropFails, Announce,
       NothingToAnnounce, CopyDone, tables
<1>. QED  BY <1>2, <1>3, IdsKept

LEMMA IdsNext == TypeInv /\ IdsInv /\ [Next]_vars => IdsInv'
<1>. SUFFICES ASSUME TypeInv, IdsInv, [Next]_vars PROVE IdsInv'
  OBVIOUS
<1>1. CASE Main
  <2>1. StartNewFails \/ StartAgainFails \/ blind' = blind
    BY BlindStays
  <2>. QED  BY <1>1, <2>1, IdsStart, IdsWalk, IdsTags, IdsOfFile, IdsElsewhere
            DEF Main, Walk, RemoveStale
<1>2. CASE DiskStep
  BY <1>2 DEF DiskStep, PutFile, RemoveFile, MakeDir, MoveDirAway, ChangeTo, tables, IdsInv
<1>3. CASE \E machine \in BOOLEAN : Crash(machine)
  BY <1>3 DEF Crash, Down, IdsInv
<1>4. CASE UNCHANGED vars
  BY <1>4 DEF vars, IdsInv
<1>. QED  BY <1>1, <1>2, <1>3, <1>4 DEF Next

\* The ids given next are above those in the tables, whatever fails and however often the
\* scanner dies: what get_max_id looked up at the start, and what each failed INSERT gives
\* back, is never below an id in the table - but for a table whose highest id a start could
\* not read (mps-librarydbd.c 320-327, mps-librarydbd-traverse.c).
THEOREM LibraryIdsFree == Spec => []IdsFree
<1>1. Init => IdsInv
  BY DEF Init, Down, IdsInv
<1>2. IdsInv => IdsFree
  BY DEF IdsInv, IdsFree
<1>. QED  BY <1>1, <1>2, IdsNext, TypesAlways, PTL DEF Spec
=============================================================================
