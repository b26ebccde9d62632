-------------------------- MODULE LibraryQueryProofs --------------------------
(***************************************************************************)
(* Theorems about LibraryQuery: the queries do the scanner's database no   *)
(* harm, and what they answer is right, whatever the scanner does between  *)
(* two of their SELECTs.                                                   *)
(***************************************************************************)
EXTENDS LibraryQuery, LibraryWalkProofs

QueryNext == [ScanStep \/ QueryStep]_qvars

-----------------------------------------------------------------------------
(***************************************************************************)
(* What the queries touch: a file that is not there, and the count of      *)
(* failures.                                                               *)
(***************************************************************************)
\* Between a start and the next death the database has a file, and without one it is empty.
FileInv ==
  /\ scan.pc # "down" => live.file # "none" /\ db.file # "none"
  /\ live.file = "none" => live.titles = {}

\* A failing or slow SELECT counts as a failure, never as a death.
LEMMA FailureSpent ==
  ASSUME TypeInv, Used("failure") \/ UNCHANGED spent
  PROVE  spent' \in Spent /\ spent'.crash = spent.crash
BY DEF TypeInv, TypeOK, Used, Spent

LEMMA ReadsOnly ==
  ASSUME TypeInv, QueryStep, ~Request
  PROVE  /\ UNCHANGED <<disk, live, db, saved, shared, scan, history, queries>>
         /\ spent' \in Spent /\ spent'.crash = spent.crash
<1>1. CASE PathStep \/ PathLost
  BY <1>1, FailureSpent DEF PathStep, PathLost, Reads, Seen, Missed
<1>2. CASE InfoRow \/ InfoAlbum \/ InfoArtist
  BY <1>2, FailureSpent DEF InfoRow, InfoAlbum, InfoArtist, Reads, Seen, Missed
<1>3. CASE FolderRow \/ FolderFolders \/ FolderTitles
  BY <1>3, FailureSpent DEF FolderRow, FolderFolders, FolderTitles, Reads, Seen, Missed, BreaksOff
<1>. QED  BY <1>1, <1>2, <1>3 DEF QueryStep

\* What a request sets.
LEMMA RequestDoes ==
  ASSUME Request
  PROVE  \E op \in {"path", "info", "folder"}, id \in Asked :
           /\ op = "folder" <=> ~IsTitleId(id)
           /\ Ask(op, id)
BY DEF Request, AskPath, AskInfo, AskFolder

LEMMA Touches ==
  ASSUME TypeInv, QueryStep
  PROVE  /\ UNCHANGED <<disk, saved, shared, scan, history>>
         /\ \/ UNCHANGED <<live, db>>
            \/ live.file = "none" /\ live' = CutOff /\ db' = CutOff
         /\ spent' \in Spent /\ spent'.crash = spent.crash
<1>1. CASE Request
  <2>1. PICK op, id : Ask(op, id)
    BY <1>1, RequestDoes
  <2>2. UNCHANGED <<disk, saved, shared, scan, history, spent>>
    BY <2>1 DEF Ask
  <2>3. \/ UNCHANGED <<live, db>>
        \/ live.file = "none" /\ live' = CutOff /\ db' = CutOff
    BY <2>1 DEF Ask
  <2>. QED  BY <2>2, <2>3, FailureSpent
<1>2. CASE ~Request
  BY <1>2, ReadsOnly
<1>. QED  BY <1>1, <1>2

\* The invariants of the scanner that hold with queries, too.
ScanInv ==
  TypeInv /\ IdsInv /\ WalkInv /\ PathInv /\ LiveInv /\ TagInv /\ SlipInv /\ FileInv

LEMMA EmptyFile ==
  /\ CutOff \in Database /\ Bounded(CutOff)
  /\ CutOff.titles = {} /\ CutOff.artists = {} /\ CutOff.albums = {} /\ CutOff.paths = {}
  /\ CutOff.file = "cut"
BY DEF CutOff, EmptyDatabase, Database, Bounded

LEMMA TouchedTypes ==
  ASSUME TypeInv, QueryStep
  PROVE  TypeInv'
<1>1. /\ UNCHANGED <<disk, saved, scan, state, changeCounter, steady, aged, seen, ahead,
                     blind, slipped>>
      /\ spent' \in Spent
  BY Touches DEF shared, history
<1>2. /\ live' \in {live, CutOff} /\ db' \in {db, CutOff}
  BY Touches
<1>3. /\ live' \in Database /\ db' \in Database /\ Bounded(live)' /\ Bounded(db)'
  BY <1>2, EmptyFile DEF TypeInv, TypeOK, Bounded
<1>. QED  BY <1>1, <1>3, TypesKept DEF TypeInv, TypeOK, Tree, States

LEMMA TouchedInv ==
  ASSUME ScanInv, QueryStep
  PROVE  ScanInv'
<1>1. /\ TypeInv /\ IdsInv /\ WalkInv /\ PathInv /\ LiveInv /\ TagInv /\ SlipInv /\ FileInv
      /\ TypeInv'
  BY TouchedTypes DEF ScanInv
<1>2. /\ UNCHANGED <<disk, saved, shared, scan, history>>
      /\ spent'.crash = spent.crash
  BY <1>1, Touches
<1>3. CASE UNCHANGED <<live, db>>
  <2>1. IdsInv' /\ LiveInv' /\ FileInv'
    BY <1>1, <1>2, <1>3 DEF IdsInv, LiveInv, FileInv, history
  <2>2. WalkInv'
    BY <1>1, <1>2, <1>3 DEF WalkInv, Walked, FolderOf, Top
  <2>3. PathInv'
    BY <1>1, <1>2, <1>3 DEF PathInv, history
  <2>4. TagInv'
    BY <1>1, <1>2, <1>3 DEF TagInv, Agree, FirstLife, OneForEachId, CacheTrue, TrackTrue
  <2>5. SlipInv'
    BY <1>1, <1>2, <1>3 DEF SlipInv, Traced, history
  <2>. QED  BY <1>1, <2>1, <2>2, <2>3, <2>4, <2>5 DEF ScanInv
<1>4. CASE live.file = "none" /\ live' = CutOff /\ db' = CutOff
  <2>1. scan.pc = "down" /\ scan'.pc = "down"
    BY <1>1, <1>2, <1>4 DEF FileInv
  <2>2. IdsInv' /\ LiveInv' /\ FileInv' /\ WalkInv'
    BY <1>4, <2>1, EmptyFile DEF IdsInv, LiveInv, FileInv, WalkInv, Walking
  <2>3. Parented(CutOff)
    BY EmptyFile DEF Parented
  <2>4. PathInv'
    BY <1>1, <1>2, <1>4, <2>1, <2>3 DEF PathInv, history
  <2>5. Agree(CutOff)
    BY EmptyFile DEF Agree
  <2>6. TagInv'
    BY <1>1, <1>2, <1>4, <2>1, <2>5 DEF TagInv, FirstLife
  <2>7. SlipInv'
    BY <1>1, <1>2, <1>4, <2>1, EmptyFile DEF SlipInv, Traced, history
  <2>. QED  BY <1>1, <2>2, <2>4, <2>6, <2>7 DEF ScanInv
<1>. QED  BY <1>1, <1>3, <1>4, Touches

\* A step of the scanner or the disk while the scanner lives, and goes on to.
Onward == [Next]_vars /\ scan.pc # "down" /\ ~(\E machine \in BOOLEAN : Crash(machine))

\* What a step of the scanner that is up may write.
LEMMA WritesWithin ==
  ASSUME TypeInv, Onward
  PROVE  /\ db'.file = db.file /\ live' \in {live, db'} /\ scan'.pc # "down"
         /\ ahead' = ahead
<1>. USE DEF Onward
<1>1. CASE Start \/ Tags
  BY <1>1, StartDoes, TagsDoes
<1>2. CASE \E n \in Names : Visit(n)
  BY <1>2, VisitIn, VisitKeeps
<1>3. CASE LookUp
  BY <1>3, LookUpDoes DEF LookUp
<1>4. CASE InsertTitle
  BY <1>4, InsertDoes DEF history
<1>5. CASE InsertTitleFails
  BY <1>5, InsertFailsDoes, InsertFailsLeaves
<1>6. CASE LeaveDir
  <2>1. UNCHANGED <<db, live, ahead>>
    BY <1>6 DEF LeaveDir, tables, history
  <2>. QED  BY <1>6, <2>1, LeftDoes
<1>7. CASE Begin
  BY <1>7, BeginDoes
<1>8. CASE Rest
  BY <1>8, RestDoes, RestKeeps, RestTables DEF Rest
<1>9. CASE DiskStep \/ UNCHANGED vars
  BY <1>9 DEF DiskStep, PutFile, RemoveFile, MakeDir, MoveDirAway, ChangeTo, tables, vars
<1>. QED  BY <1>1, <1>2, <1>3, <1>4, <1>5, <1>6, <1>7, <1>8, <1>9, Steps DEF Next

\* Without a scanner, only the disk changes, until one starts.
LEMMA DownSteps ==
  ASSUME TypeInv, [Next]_vars, scan.pc = "down"
  PROVE  Start \/ UNCHANGED <<scan, live, db, saved, ahead, blind>>
<1>1. ~(\E machine \in BOOLEAN : Crash(machine))
  BY DEF Crash
<1>2. DiskStep \/ UNCHANGED vars => UNCHANGED <<scan, live, db, saved, ahead, blind>>
  BY DEF DiskStep, PutFile, RemoveFile, MakeDir, MoveDirAway, ChangeTo, tables, vars
<1>3. ~(\E n \in Names : Visit(n)) /\ ~LeaveDir /\ ~Begin
  BY VisitIn DEF LeaveDir, Begin
<1>4. ~LookUp /\ ~InsertTitle /\ ~InsertTitleFails /\ ~Tags
  BY LookUpDoes, InsertFailsLeaves, TagsDoes DEF LookUp, InsertTitle
<1>5. ~Rest
  BY RestDoes DEF Rest
<1>. QED  BY <1>1, <1>2, <1>3, <1>4, <1>5, Steps DEF Next

\* A start leaves a file.
LEMMA StartsFile == ASSUME Start PROVE db' = live' /\ live'.file # "none"
<1>1. EmptyDatabase.file # "none" /\ CutOff.file # "none"
  BY DEF EmptyDatabase, CutOff
<1>2. CASE StartNew
  BY <1>1, <1>2 DEF StartNew
<1>3. CASE StartNewFails
  BY <1>1, <1>3 DEF StartNewFails
<1>4. CASE StartAgain
  BY <1>4 DEF StartAgain, StartsWith
<1>5. CASE StartAgainFails
  BY <1>5 DEF StartAgainFails, StartsWith
<1>. QED  BY <1>2, <1>3, <1>4, <1>5 DEF Start

LEMMA FileNext == TypeInv /\ FileInv /\ [Next]_vars => FileInv'
<1>. SUFFICES ASSUME TypeInv, FileInv, [Next]_vars PROVE FileInv'
  OBVIOUS
<1>1. CASE \E machine \in BOOLEAN : Crash(machine)
  <2>1. scan.pc # "down" /\ live' \in {live, NoFile} /\ scan'.pc = "down"
    BY <1>1 DEF Crash, Down
  <2>2. NoFile.titles = {}
    BY DEF NoFile, EmptyDatabase
  <2>. QED  BY <2>1, <2>2 DEF FileInv
<1>2. CASE scan.pc # "down" /\ ~(\E machine \in BOOLEAN : Crash(machine))
  BY <1>2, WritesWithin DEF FileInv, Onward
<1>3. CASE Start
  <2>1. db' = live' /\ live'.file # "none"
    BY <1>3, StartsFile
  <2>. QED  BY <2>1 DEF FileInv
<1>4. CASE UNCHANGED <<scan, live, db, saved, ahead, blind>>
  BY <1>4 DEF FileInv
<1>. QED  BY <1>1, <1>2, <1>3, <1>4, DownSteps

LEMMA ScanInvNext == ScanInv /\ QueryNext => ScanInv'
<1>. SUFFICES ASSUME ScanInv, QueryNext PROVE ScanInv'
  OBVIOUS
<1>1. CASE QueryStep
  BY <1>1, TouchedInv
<1>2. CASE [Next]_vars
  BY <1>2, TypesNext, IdsNext, WalkNext, PathsNext, LiveNext, TagsNext, SlipNext,
     FileNext DEF ScanInv
<1>. QED  BY <1>1, <1>2 DEF QueryNext, ScanStep, qvars

LEMMA ScanInvStart == Init => ScanInv
<1>1. /\ Down.pc = "down" /\ NoFile.titles = {} /\ NoFile.paths = {}
      /\ NoFile.artists = {} /\ NoFile.albums = {}
  BY DEF Down, NoFile, EmptyDatabase
<1>2. Init => PathInv /\ IdsInv /\ WalkInv /\ LiveInv /\ FileInv
  BY <1>1 DEF Init, PathInv, Parented, IdsInv, WalkInv, LiveInv, FileInv, Walking
<1>3. Init => TagInv
  BY <1>1 DEF Init, TagInv, Agree, FirstLife
<1>. QED  BY <1>2, <1>3, TypesStart, SlipStart DEF ScanInv

\* The queries do no harm: with them, too, the ids the scanner gives next are free, no title
\* loses its folder, each is under the artist and the album its tags name, and these are the
\* tags of its file - each with the exception stated there, which no query adds to: a table
\* whose highest id was not read (blind), a number below that of the rows (ahead), a file that
\* changed between its stat and the reading of its tags (slipped).  (libmpsserver-library.c
\* opens the scanner's database to read it, and sqlite3_open creates the file where there is
\* none.)
THEOREM QueriesDoNoHarm == QuerySpec => [](IdsFree /\ PathsWhole /\ TagsRight)
<1>1. QueryInit => ScanInv
  BY ScanInvStart DEF QueryInit
<1>2. ScanInv => IdsFree /\ PathsWhole /\ TagsRight
  <2>1. PathInv => PathsWhole
    BY DEF PathInv, PathsWhole, Parented, Ids
  <2>2. TagInv /\ SlipInv => TagsRight
    BY DEF TagInv, Agree, SlipInv, Traced, TagsRight
  <2>3. IdsInv => IdsFree
    BY DEF IdsInv, IdsFree
  <2>. QED  BY <2>1, <2>2, <2>3 DEF ScanInv
<1>. QED  BY <1>1, <1>2, ScanInvNext, PTL DEF QuerySpec, QueryNext

-----------------------------------------------------------------------------
(***************************************************************************)
(* Types.                                                                  *)
(***************************************************************************)
LEMMA QueryFields ==
  ASSUME query \in Query
  PROVE  /\ query.op \in {"none", "path", "info", "folder"}
         /\ query.next \in {"begin", "row", "album", "artist", "folders", "titles"}
         /\ query.rv \in {"running", "SUCCESS", "FAILURE", "garbage"}
         /\ query.id \in Nat /\ query.at \in Nat /\ query.names \in Seq(Names)
         /\ query.row \in TitleRow \cup {NoRow}
         /\ query.album \in AlbumNames \cup {NoName} /\ query.artist \in ArtistNames \cup {NoName}
         /\ query.elements \in SUBSET Nat /\ query.missed \in BOOLEAN
         /\ query.kept \in SUBSET TitleRow
BY DEF Query

\* The rows readers see.
LEMMA LiveRows ==
  ASSUME TypeInv
  PROVE  /\ live.titles \subseteq TitleRow /\ live.artists \subseteq ArtistRow
         /\ live.albums \subseteq AlbumRow /\ live.paths \subseteq PathRow
BY DEF TypeInv, TypeOK, Database

LEMMA ListedTyped ==
  ASSUME TypeInv, NEW id
  PROVE  Listed(id) \in SUBSET Nat /\ \A S : Mp3Ids({t \in live.titles : t.parent = S}) \in SUBSET Nat
<1>1. /\ \A t \in live.titles : t.id \in Nat
      /\ \A x \in live.artists : x.id \in Nat
      /\ \A x \in live.albums : x.id \in Nat
      /\ \A p \in live.paths : p.id \in Nat
  BY LiveRows DEF TitleRow, ArtistRow, AlbumRow, PathRow
<1>2. Ids({p \in live.paths : p.parent = id}) \in SUBSET Nat
  BY <1>1 DEF Ids
<1>3. Ids(live.artists) \in SUBSET Nat
  BY <1>1 DEF Ids
<1>4. Ids({x \in live.albums : x.artist = id}) \in SUBSET Nat
  BY <1>1 DEF Ids
<1>5. Mp3Ids({t \in live.titles : t.album = id}) \in SUBSET Nat
  BY <1>1 DEF Mp3Ids
<1>6. \A S : Mp3Ids({t \in live.titles : t.parent = S}) \in SUBSET Nat
  BY <1>1 DEF Mp3Ids
<1>. QED  BY <1>2, <1>3, <1>4, <1>5, <1>6 DEF Listed

\* Which ids each query is about, and which SELECT may come next.
Shape ==
  /\ query.op \in {"path", "info"} => IsTitleId(query.id)
  /\ query.op = "folder" => ~IsTitleId(query.id)
  /\ query.rv = "running" =>
       /\ query.op = "path" => query.next = "row" /\ ~query.missed
       /\ query.op = "info" => query.next \in {"row", "album", "artist"}
       /\ query.op = "folder" => query.next \in {"row", "folders", "titles"}
       /\ query.op = "folder" /\ query.next = "titles" => IsPathId(query.id)

LEMMA QueryTyped ==
  ASSUME TypeInv, query \in Query, Shape, QueryStep
  PROVE  query' \in Query
<1>1. CASE Request
  <2>1. PICK op \in {"path", "info", "folder"}, id \in Asked : Ask(op, id)
    BY <1>1, RequestDoes
  <2>2. id \in Nat /\ live.titles \subseteq TitleRow
    BY QueryOK, LiveRows
  <2>3. NoQuery \in Query
    <3>1. <<>> \in Seq(Names)
      OBVIOUS
    <3>. QED  BY <3>1 DEF NoQuery, Query
  <2>4. PICK next \in {"folders", "row"} :
          query' = [NoQuery EXCEPT !.op = op, !.rv = "running", !.id = id, !.at = id,
                                   !.kept = live.titles, !.next = next]
    BY <2>1 DEF Ask
  <2>. QED  BY <2>2, <2>3, <2>4 DEF Query
<1>2. CASE PathStep
  <2>1. PICK r \in RowsAt(query.at) :
          query' = [query EXCEPT !.names = <<r.name>> \o @, !.at = r.parent,
                                 !.rv = Climbs(r.parent)]
    BY <1>2 DEF PathStep
  <2>2. r.name \in Names /\ r.parent \in Nat
    BY LiveRows DEF RowsAt, TitleRow, PathRow
  <2>3. PICK names, rv : /\ names = <<r.name>> \o query.names
                         /\ rv = Climbs(r.parent)
    OBVIOUS
  <2>4. names \in Seq(Names) /\ rv \in {"running", "SUCCESS", "FAILURE", "garbage"}
    BY <2>2, <2>3, QueryFields DEF Climbs
  <2>5. query' = [query EXCEPT !.names = names, !.at = r.parent, !.rv = rv]
    BY <2>1, <2>3 DEF Query
  <2>. QED  BY <2>2, <2>4, <2>5 DEF Query
<1>3. CASE PathLost
  BY ZenonT(60), <1>3 DEF PathLost, Query
<1>4. CASE InfoRow
  <2>1. \A t \in RowsAt(query.id) : t \in TitleRow
    BY <1>4, LiveRows DEF InfoRow, RowsAt, Shape
  <2>2. CASE \E t \in TitleRow : query' = [query EXCEPT !.row = t, !.next = "album"]
    BY ZenonT(60), <2>2 DEF Query
  <2>3. CASE \/ query' = [query EXCEPT !.rv = "FAILURE"]
             \/ query' = [query EXCEPT !.rv = "FAILURE", !.missed = TRUE]
    BY ZenonT(60), <2>3 DEF Query
  <2>. QED  BY <1>4, <2>1, <2>2, <2>3 DEF InfoRow
<1>5. CASE InfoAlbum
  <2>1. \A x \in live.albums : x.name \in AlbumNames
    BY LiveRows DEF AlbumRow
  <2>2. CASE \E a \in AlbumNames : query' = [query EXCEPT !.next = "artist", !.album = a]
    BY ZenonT(60), <2>2 DEF Query
  <2>3. CASE \/ query' = [query EXCEPT !.next = "artist"]
             \/ query' = [query EXCEPT !.next = "artist", !.missed = TRUE]
    BY ZenonT(60), <2>3 DEF Query
  <2>. QED  BY <1>5, <2>1, <2>2, <2>3 DEF InfoAlbum
<1>6. CASE InfoArtist
  <2>1. \A x \in live.artists : x.name \in ArtistNames
    BY LiveRows DEF ArtistRow
  <2>2. PICK artist \in ArtistNames \cup {NoName}, missed \in BOOLEAN : Answer(artist, missed)
    BY <1>6, <2>1 DEF InfoArtist
  <2>. QED  BY ZenonT(60), <2>2 DEF Answer, Query
<1>7. CASE FolderRow
  <2>1. \/ query' = [query EXCEPT !.next = "folders"]
        \/ query' = [query EXCEPT !.rv = "FAILURE"]
        \/ query' = [query EXCEPT !.rv = "FAILURE", !.missed = TRUE]
    BY <1>7 DEF FolderRow
  <2>2. CASE query' = [query EXCEPT !.next = "folders"]
    BY ZenonT(60), <2>2 DEF Query
  <2>3. CASE query' = [query EXCEPT !.rv = "FAILURE"]
    BY ZenonT(60), <2>3 DEF Query
  <2>4. CASE query' = [query EXCEPT !.rv = "FAILURE", !.missed = TRUE]
    BY ZenonT(60), <2>4 DEF Query
  <2>. QED  BY <2>1, <2>2, <2>3, <2>4
<1>8. CASE FolderFolders
  <2>1. Further \in Query
    BY DEF Further, Query
  <2>2. Listed(query.id) \in SUBSET Nat
    BY ListedTyped
  <2>. QED  BY ZenonT(60), <1>8, <2>1, <2>2 DEF FolderFolders, Query
<1>9. CASE FolderTitles
  <2>1. Mp3Ids({t \in live.titles : t.parent = query.id}) \in SUBSET Nat
    BY ListedTyped
  <2>2. PICK more \in SUBSET Nat :
          more = query.elements \cup Mp3Ids({t \in live.titles : t.parent = query.id})
    BY <2>1, QueryFields
  <2>3. \/ query' = [query EXCEPT !.rv = "SUCCESS", !.elements = more]
        \/ \E rv \in {"FAILURE", "SUCCESS"} : query' = [query EXCEPT !.rv = rv, !.missed = TRUE]
    BY <1>9, <2>2 DEF FolderTitles, Query
  <2>4. CASE query' = [query EXCEPT !.rv = "SUCCESS", !.elements = more]
    BY <2>2, <2>4 DEF Query
  <2>5. CASE \E rv \in {"FAILURE", "SUCCESS"} : query' = [query EXCEPT !.rv = rv, !.missed = TRUE]
    BY ZenonT(60), <2>5 DEF Query
  <2>. QED  BY <2>3, <2>4, <2>5
<1>. QED  BY <1>1, <1>2, <1>3, <1>4, <1>5, <1>6, <1>7, <1>8, <1>9 DEF QueryStep

\* Every step of a query but its first keeps what was asked, and what stayed since.
LEMMA AskedStays ==
  ASSUME query \in Query, QueryStep, ~Request
  PROVE  /\ query.rv = "running"
         /\ query'.op = query.op /\ query'.id = query.id /\ query'.kept = query.kept
<1>1. CASE PathStep
  BY <1>1 DEF PathStep, Selecting, Query
<1>2. CASE PathLost
  BY <1>2 DEF PathLost, Selecting, Query
<1>3. CASE InfoRow
  BY <1>3 DEF InfoRow, Selecting, Query
<1>4. CASE InfoAlbum
  BY <1>4 DEF InfoAlbum, Selecting, Query
<1>5. CASE InfoArtist
  BY <1>5 DEF InfoArtist, Answer, Selecting, Query
<1>6. CASE FolderRow
  BY <1>6 DEF FolderRow, Selecting, Query
<1>7. CASE FolderFolders
  BY <1>7 DEF FolderFolders, Further, Selecting, Query
<1>8. CASE FolderTitles
  BY <1>8 DEF FolderTitles, Selecting, Query
<1>. QED  BY <1>1, <1>2, <1>3, <1>4, <1>5, <1>6, <1>7, <1>8 DEF QueryStep

\* What a step of the scanner or the disk does to a query: titles may go.
LEMMA ScanKeeps ==
  ASSUME query \in Query, ScanStep \/ UNCHANGED qvars
  PROVE  /\ [Next]_vars /\ query' \in Query /\ queries' = queries
         /\ query'.op = query.op /\ query'.next = query.next /\ query'.rv = query.rv
         /\ query'.id = query.id /\ query'.at = query.at /\ query'.names = query.names
         /\ query'.row = query.row /\ query'.album = query.album /\ query'.artist = query.artist
         /\ query'.elements = query.elements /\ query'.missed = query.missed
         /\ query'.kept \subseteq query.kept
         /\ ScanStep => \A t \in query'.kept : \E u \in live'.titles : Fixed(u) = Fixed(t)
<1>1. CASE ScanStep
  <2>1. PICK kept : kept = {t \in query.kept : \E u \in live'.titles : Fixed(u) = Fixed(t)}
    OBVIOUS
  <2>2. query' = [query EXCEPT !.kept = kept] /\ kept \subseteq query.kept /\ Next
        /\ queries' = queries
    BY <1>1, <2>1 DEF ScanStep, Query
  <2>. QED  BY <1>1, <2>1, <2>2 DEF Query
<1>2. CASE UNCHANGED qvars /\ ~ScanStep
  BY <1>2 DEF qvars
<1>. QED  BY <1>1, <1>2

LEMMA TitleIdsLow ==
  ASSUME NEW id \in Nat, IsTitleId(id)
  PROVE  id \notin {MinArtistId, MinPathId} /\ ~IsPathId(id)
BY IdRanges DEF IsTitleId, IsPathId

\* What was asked, and nothing answered yet.
LEMMA AskDoes ==
  ASSUME NEW op \in {"path", "info", "folder"}, NEW id \in Asked, Ask(op, id)
  PROVE  /\ query'.op = op /\ query'.id = id /\ query'.at = id /\ query'.rv = "running"
         /\ query'.names = <<>> /\ query'.missed = FALSE /\ query'.kept = live.titles
         /\ query'.album = NoName
         /\ query'.next = IF id \in {MinArtistId, MinPathId} THEN "folders" ELSE "row"
         /\ live' = (IF live.file = "none" THEN CutOff ELSE live)
<1>1. PICK next : next = IF id \in {MinArtistId, MinPathId} THEN "folders" ELSE "row"
  OBVIOUS
<1>2. query' = [NoQuery EXCEPT !.op = op, !.rv = "running", !.id = id, !.at = id,
                               !.kept = live.titles, !.next = next]
  BY <1>1 DEF Ask
<1>. QED  BY <1>1, <1>2 DEF NoQuery, Ask

\* A SELECT is no request: it needs a query that runs.
LEMMA NotAsked ==
  ASSUME query.rv = "running"
  PROVE  ~Request
BY DEF Request, AskPath, AskInfo, AskFolder, Ask

LEMMA ShapeStep ==
  ASSUME query \in Query, Shape, QueryStep
  PROVE  Shape'
<1>1. CASE Request
  <2>1. PICK op \in {"path", "info", "folder"}, id \in Asked :
          (op = "folder" <=> ~IsTitleId(id)) /\ Ask(op, id)
    BY <1>1, RequestDoes
  <2>2. id \in Nat
    BY QueryOK
  <2>3. IsTitleId(id) => id \notin {MinArtistId, MinPathId}
    BY <2>2, TitleIdsLow
  <2>4. /\ query'.op = op /\ query'.id = id /\ query'.rv = "running" /\ query'.missed = FALSE
        /\ query'.next = IF id \in {MinArtistId, MinPathId} THEN "folders" ELSE "row"
    BY <2>1, AskDoes
  <2>5. IsTitleId(query'.id) <=> IsTitleId(id)
    BY <2>4
  <2>. QED  BY <2>1, <2>3, <2>4, <2>5 DEF Shape
<1>2. CASE PathStep
  <2>1. query'.next = query.next /\ query'.missed = query.missed
    BY <1>2 DEF PathStep, Query
  <2>2. query.op = "path"
    BY <1>2 DEF PathStep
  <2>3. QueryStep /\ ~Request
    BY <1>2, NotAsked DEF PathStep, Selecting
  <2>4. query'.op = query.op /\ query'.id = query.id /\ query.rv = "running"
    BY <2>3, AskedStays
  <2>. QED  BY <2>1, <2>2, <2>4 DEF Shape, IsTitleId, IsPathId
<1>3. CASE PathLost
  <2>1. query.op = "path" /\ query'.rv # "running"
    BY <1>3 DEF PathLost, Query
  <2>2. QueryStep /\ ~Request
    BY <1>3, NotAsked DEF PathLost, Selecting
  <2>3. query'.op = query.op /\ query'.id = query.id /\ query.rv = "running"
    BY <2>2, AskedStays
  <2>. QED  BY <2>1, <2>3 DEF Shape, IsTitleId, IsPathId
<1>4. CASE InfoRow
  <2>1. query.op = "info" /\ (query'.rv = "running" => query'.next = "album")
    BY <1>4 DEF InfoRow, Selecting, Query
  <2>2. QueryStep /\ ~Request
    BY <1>4, NotAsked DEF InfoRow, Selecting
  <2>3. query'.op = query.op /\ query'.id = query.id /\ query.rv = "running"
    BY <2>2, AskedStays
  <2>. QED  BY <2>1, <2>3 DEF Shape, IsTitleId, IsPathId
<1>5. CASE InfoAlbum
  <2>1. query.op = "info" /\ query'.next = "artist"
    BY <1>5 DEF InfoAlbum, Query
  <2>2. QueryStep /\ ~Request
    BY <1>5, NotAsked DEF InfoAlbum, Selecting
  <2>3. query'.op = query.op /\ query'.id = query.id /\ query.rv = "running"
    BY <2>2, AskedStays
  <2>. QED  BY <2>1, <2>3 DEF Shape, IsTitleId, IsPathId
<1>6. CASE InfoArtist
  <2>1. query.op = "info" /\ query'.rv # "running"
    BY <1>6 DEF InfoArtist, Answer, Query
  <2>2. QueryStep /\ ~Request
    BY <1>6, NotAsked DEF InfoArtist, Selecting
  <2>3. query'.op = query.op /\ query'.id = query.id /\ query.rv = "running"
    BY <2>2, AskedStays
  <2>. QED  BY <2>1, <2>3 DEF Shape, IsTitleId, IsPathId
<1>7. CASE FolderRow
  <2>1. query.op = "folder" /\ (query'.rv = "running" => query'.next = "folders")
    BY <1>7 DEF FolderRow, Selecting, Query
  <2>2. QueryStep /\ ~Request
    BY <1>7, NotAsked DEF FolderRow, Selecting
  <2>3. query'.op = query.op /\ query'.id = query.id /\ query.rv = "running"
    BY <2>2, AskedStays
  <2>. QED  BY <2>1, <2>3 DEF Shape, IsTitleId, IsPathId
<1>8. CASE FolderFolders \/ FolderTitles
  <2>1. query.op = "folder" /\ (query'.rv = "running" => query'.next = "titles" /\ IsPathId(query.id))
    BY <1>8 DEF FolderFolders, FolderTitles, Further, Selecting, Query
  <2>2. QueryStep /\ ~Request
    BY <1>8, NotAsked DEF FolderFolders, FolderTitles, Selecting
  <2>3. query'.op = query.op /\ query'.id = query.id /\ query.rv = "running"
    BY <2>2, AskedStays
  <2>. QED  BY <2>1, <2>3 DEF Shape, IsTitleId, IsPathId
<1>. QED  BY <1>1, <1>2, <1>3, <1>4, <1>5, <1>6, <1>7, <1>8 DEF QueryStep

LEMMA QueryTypesNext ==
  ScanInv /\ QueryTypeOK /\ Shape /\ QueryNext => QueryTypeOK' /\ Shape'
<1>. SUFFICES ASSUME ScanInv, QueryTypeOK, Shape, QueryNext PROVE QueryTypeOK' /\ Shape'
  OBVIOUS
<1>0. TypeInv /\ query \in Query /\ queries \in 0..MaxQueries
  BY DEF ScanInv, QueryTypeOK
<1>1. TypeOK'
  <2>1. ScanInv'
    BY ScanInvNext
  <2>. QED  BY <2>1 DEF ScanInv, TypeInv
<1>2. CASE QueryStep
  <2>1. queries' \in 0..MaxQueries
    <3>1. CASE Request
      <4>1. queries < MaxQueries /\ queries' = queries + 1
        BY <3>1, RequestDoes DEF Ask
      <4>. QED  BY <1>0, <4>1, QueryOK
    <3>. QED  BY <1>0, <1>2, <3>1, ReadsOnly
  <2>. QED  BY <1>0, <1>1, <1>2, <2>1, QueryTyped, ShapeStep DEF QueryTypeOK
<1>3. CASE ScanStep \/ UNCHANGED qvars
  <2>1. query' \in Query /\ queries' = queries
    BY <1>0, <1>3, ScanKeeps
  <2>2. Shape'
    BY <1>0, <1>3, ScanKeeps DEF Shape
  <2>. QED  BY <1>0, <1>1, <2>1, <2>2 DEF QueryTypeOK
<1>. QED  BY <1>2, <1>3 DEF QueryNext

\* Every variable of a query keeps its type: the rows and names it collects are those of the
\* tables, and what is left of a missing row is no more than garbage.
THEOREM QueryTypeCorrect == QuerySpec => []QueryTypeOK
<1>1. QueryInit => ScanInv /\ QueryTypeOK /\ Shape
  <2>1. QueryInit => ScanInv
    BY ScanInvStart DEF QueryInit
  <2>2. NoQuery \in Query
    <3>1. <<>> \in Seq(Names)
      OBVIOUS
    <3>. QED  BY <3>1 DEF NoQuery, Query
  <2>3. ScanInv => TypeOK
    BY DEF ScanInv, TypeInv
  <2>4. QueryInit => Shape
    BY DEF QueryInit, NoQuery, Shape
  <2>. QED  BY <2>1, <2>2, <2>3, <2>4, QueryOK DEF QueryInit, QueryTypeOK
<1>. QED  BY <1>1, ScanInvNext, QueryTypesNext, PTL DEF QuerySpec, QueryNext

-----------------------------------------------------------------------------
(***************************************************************************)
(* What a step of the scanner adds to the tables, within a life.           *)
(***************************************************************************)
\* update_artist_table answers with an id of the table or of an error, perhaps a cached one.
LEMMA ArtistAdds ==
  ASSUME TypeInv, ArtistCached \/ ArtistFound \/ ArtistAdded \/ ArtistFails
  PROVE  /\ scan.pc = "artist" /\ scan'.pc = "album" /\ scan'.cache.albumId = scan.cache.albumId
         /\ scan'.highest.artists >= scan.highest.artists
         /\ scan'.highest.artists <= scan.highest.artists + 1
         /\ scan'.highest.albums = scan.highest.albums /\ scan'.highest.paths = scan.highest.paths
         /\ scan'.highest.titles = scan.highest.titles
         /\ db'.albums = db.albums
         /\ \A x \in db'.artists :
              x \in db.artists \/ (x.id = scan.highest.artists + 1 /\ db.file # "cut")
         /\ scan'.cache.artistId \in {scan.cache.artistId, 0, FAILURE} \cup Ids(db'.artists)
         /\ scan'.track.artistId \in {scan.cache.artistId, 0, FAILURE} \cup Ids(db'.artists)
<1>1. /\ scan.pc = "artist" /\ scan \in Scanner /\ db \in Database
      /\ scan.track \in Track /\ scan.highest.artists \in Nat
  BY TrackTyped, IdNumbers DEF ArtistCached, ArtistFound, ArtistAdded, ArtistFails
<1>2. CASE ArtistCached
  <2> DEFINE t == [scan.track EXCEPT !.artistId = scan.cache.artistId]
  <2>1. scan' = [scan EXCEPT !.pc = "album", !.track = t] /\ db' = db
    BY <1>1, <1>2 DEF ArtistCached, tables, Scanner
  <2>2. t.artistId = scan.cache.artistId
    BY <1>1 DEF Track
  <2> HIDE DEF t
  <2>3. /\ scan'.pc = "album" /\ scan'.track = t /\ scan'.cache = scan.cache
        /\ scan'.highest = scan.highest
    BY <1>1, <2>1 DEF Scanner
  <2>. QED  BY <1>1, <2>1, <2>2, <2>3
<1>3. CASE ArtistFound
  <2>1. PICK a \in db.artists : GotArtist(a.id, scan.highest.artists, FALSE)
    BY <1>3 DEF ArtistFound, ArtistsNamed
  <2>2. db' = db /\ a.id \in Nat
    BY <1>3, IdNumbers DEF ArtistFound, tables
  <2>3. a.id \in Id /\ a.id \in Ids(db'.artists)
    BY <2>1, <2>2 DEF Id, Ids
  <2>4. /\ scan'.pc = "album" /\ scan'.cache.albumId = scan.cache.albumId
        /\ scan'.highest.artists = scan.highest.artists
        /\ scan'.highest.albums = scan.highest.albums /\ scan'.highest.paths = scan.highest.paths
        /\ scan'.highest.titles = scan.highest.titles
        /\ scan'.cache.artistId = a.id /\ scan'.track.artistId = a.id
    BY <1>1, <2>1, <2>3, GotArtistDoes
  <2>. QED  BY <1>1, <2>2, <2>3, <2>4
<1>4. CASE ArtistFails
  <2>1. PICK id \in {0, FAILURE} : GotArtist(id, scan.highest.artists, FALSE)
    BY <1>4 DEF ArtistFails
  <2>2. db' = db /\ id \in Id
    BY <1>4 DEF ArtistFails, tables, Id
  <2>3. /\ scan'.pc = "album" /\ scan'.cache.albumId = scan.cache.albumId
        /\ scan'.highest.artists = scan.highest.artists
        /\ scan'.highest.albums = scan.highest.albums /\ scan'.highest.paths = scan.highest.paths
        /\ scan'.highest.titles = scan.highest.titles
        /\ scan'.cache.artistId = id /\ scan'.track.artistId = id
    BY <1>1, <2>1, <2>2, GotArtistDoes
  <2>. QED  BY <1>1, <2>2, <2>3
<1>5. CASE ArtistAdded
  <2>1. PICK id, row : /\ id = scan.highest.artists + 1
                       /\ row = [id |-> id, name |-> scan.track.artist]
    OBVIOUS
  <2>2. /\ db' = [db EXCEPT !.artists = @ \cup {row}] /\ GotArtist(id, id, TRUE)
        /\ db.file # "cut"
    BY <1>5, <2>1 DEF ArtistAdded, Write, NotFound
  <2>3. /\ id \in Nat /\ id \in Id /\ row.id = id
        /\ id >= scan.highest.artists /\ id <= scan.highest.artists + 1
    BY <1>1, <2>1 DEF Id
  <2>4. db'.artists = db.artists \cup {row} /\ db'.albums = db.albums
    BY <1>1, <2>2 DEF Database
  <2>5. id \in Ids(db'.artists)
    BY <2>3, <2>4 DEF Ids
  <2>6. /\ scan'.pc = "album" /\ scan'.cache.albumId = scan.cache.albumId
        /\ scan'.highest.artists = id
        /\ scan'.highest.albums = scan.highest.albums /\ scan'.highest.paths = scan.highest.paths
        /\ scan'.highest.titles = scan.highest.titles
        /\ scan'.cache.artistId = id /\ scan'.track.artistId = id
    BY <1>1, <2>2, <2>3, GotArtistDoes
  <2>. QED  BY <1>1, <2>1, <2>2, <2>3, <2>4, <2>5, <2>6
<1>. QED  BY <1>2, <1>3, <1>4, <1>5

\* The same for update_album_table.
LEMMA AlbumAdds ==
  ASSUME TypeInv, AlbumCached \/ AlbumFound \/ AlbumAdded \/ AlbumFails
  PROVE  /\ scan.pc = "album" /\ scan'.pc = "title" /\ scan'.track = scan.track
         /\ scan'.cache.artistId = scan.cache.artistId
         /\ scan'.highest.artists = scan.highest.artists
         /\ scan'.highest.albums >= scan.highest.albums
         /\ scan'.highest.albums <= scan.highest.albums + 1
         /\ scan'.highest.paths = scan.highest.paths /\ scan'.highest.titles = scan.highest.titles
         /\ db'.artists = db.artists
         /\ \A x \in db'.albums :
              x \in db.albums \/ (x.id = scan.highest.albums + 1 /\ db.file # "cut")
         /\ scan'.cache.albumId \in {scan.cache.albumId, 0, FAILURE} \cup Ids(db'.albums)
         /\ scan'.albumId \in {scan.cache.albumId, 0, FAILURE} \cup Ids(db'.albums)
<1>1. /\ scan.pc = "album" /\ scan \in Scanner /\ db \in Database /\ scan.highest.albums \in Nat
  BY IdNumbers DEF AlbumCached, AlbumFound, AlbumAdded, AlbumFails
<1>2. \A id : scan' = [scan EXCEPT !.pc = "title", !.albumId = id] =>
        /\ scan'.pc = "title" /\ scan'.track = scan.track /\ scan'.cache = scan.cache
        /\ scan'.highest = scan.highest /\ scan'.albumId = id
  BY <1>1 DEF Scanner
<1>3. CASE AlbumCached
  <2>1. db' = db /\ scan' = [scan EXCEPT !.pc = "title", !.albumId = scan.cache.albumId]
    BY <1>3 DEF AlbumCached, tables
  <2>2. /\ scan'.pc = "title" /\ scan'.track = scan.track /\ scan'.cache = scan.cache
        /\ scan'.highest = scan.highest /\ scan'.albumId = scan.cache.albumId
    BY <1>2, <2>1
  <2>. QED  BY <1>1, <2>1, <2>2
<1>4. CASE AlbumFound
  <2>1. PICK a \in db.albums : GotAlbum(a.id, scan.highest.albums, FALSE)
    BY <1>4 DEF AlbumFound, AlbumsOfTrack, AlbumsNamed
  <2>2. db' = db /\ a.id \in Nat
    BY <1>4, IdNumbers DEF AlbumFound, tables
  <2>3. a.id \in Id /\ a.id \in Ids(db'.albums)
    BY <2>1, <2>2 DEF Id, Ids
  <2>4. /\ scan'.pc = "title" /\ scan'.track = scan.track
        /\ scan'.cache.artistId = scan.cache.artistId
        /\ scan'.highest.titles = scan.highest.titles
        /\ scan'.highest.artists = scan.highest.artists
        /\ scan'.highest.albums = scan.highest.albums /\ scan'.highest.paths = scan.highest.paths
        /\ scan'.cache.albumId = a.id /\ scan'.albumId = a.id
    BY <1>1, <2>1, <2>3, GotAlbumDoes
  <2>. QED  BY <1>1, <2>2, <2>3, <2>4
<1>5. CASE AlbumFails
  <2>1. db' = db /\ 0 \in Id
    BY <1>5 DEF AlbumFails, tables, Id
  <2>2. /\ scan'.pc = "title" /\ scan'.track = scan.track
        /\ scan'.cache.artistId = scan.cache.artistId
        /\ scan'.highest.titles = scan.highest.titles
        /\ scan'.highest.artists = scan.highest.artists
        /\ scan'.highest.albums = scan.highest.albums /\ scan'.highest.paths = scan.highest.paths
        /\ scan'.cache.albumId \in {scan.cache.albumId, 0} /\ scan'.albumId \in {0, FAILURE}
    <3>1. CASE GotAlbum(0, scan.highest.albums, FALSE)
      BY <1>1, <2>1, <3>1, GotAlbumDoes
    <3>2. CASE scan' = [scan EXCEPT !.pc = "title", !.albumId = FAILURE]
      BY <1>2, <3>2
    <3>. QED  BY <1>5, <3>1, <3>2 DEF AlbumFails
  <2>. QED  BY <1>1, <2>1, <2>2
<1>6. CASE AlbumAdded
  <2>1. PICK id, row : /\ id = scan.highest.albums + 1
                       /\ row = [id |-> id, artist |-> scan.track.artistId, name |-> scan.track.album]
    OBVIOUS
  <2>2. /\ db' = [db EXCEPT !.albums = @ \cup {row}] /\ GotAlbum(id, id, TRUE)
        /\ db.file # "cut"
    BY <1>6, <2>1 DEF AlbumAdded, Write, NotFound
  <2>3. /\ id \in Nat /\ id \in Id /\ row.id = id
        /\ id >= scan.highest.albums /\ id <= scan.highest.albums + 1
    BY <1>1, <2>1 DEF Id
  <2>4. db'.albums = db.albums \cup {row} /\ db'.artists = db.artists
    BY <1>1, <2>2 DEF Database
  <2>5. id \in Ids(db'.albums)
    BY <2>3, <2>4 DEF Ids
  <2>6. /\ scan'.pc = "title" /\ scan'.track = scan.track
        /\ scan'.cache.artistId = scan.cache.artistId
        /\ scan'.highest.titles = scan.highest.titles
        /\ scan'.highest.artists = scan.highest.artists /\ scan'.highest.albums = id
        /\ scan'.highest.paths = scan.highest.paths
        /\ scan'.cache.albumId = id /\ scan'.albumId = id
    BY <1>1, <2>2, <2>3, GotAlbumDoes
  <2>. QED  BY <1>1, <2>1, <2>2, <2>3, <2>4, <2>5, <2>6
<1>. QED  BY <1>3, <1>4, <1>5, <1>6

\* A look at an entry adds no row but one for a folder, which lies where the entry does.
LEMMA VisitAdds ==
  ASSUME TypeInv, WalkInv, NEW n \in Names, Visit(n)
  PROVE  /\ scan'.highest.paths >= scan.highest.paths
         /\ scan'.highest.paths <= scan.highest.paths + 1
         /\ \E row : \A q \in db'.paths :
              \/ \E p \in db.paths : SamePath(p, q)
              \/ /\ q = row /\ row.id = scan.highest.paths + 1 /\ db.file # "cut"
                 /\ scan'.highest.paths = row.id
                 /\ row.name \in Names /\ FolderOf(In[row.name], row.parent)
<1>1. /\ scan \in Scanner /\ db \in Database /\ scan.highest.paths \in Nat
      /\ scan.pc = "walk" /\ n \in Top.left
  BY IdNumbers, VisitIn
<1>2. \A p : SamePath(p, p)
  BY DEF SamePath
<1>3. CASE PassOver(n) \/ MarkFails(n) \/ NewDirFails(n)
  <2>1. PICK s : scan' = [scan EXCEPT !.stack = s]
    BY <1>3 DEF PassOver, MarkFails, NewDirFails
  <2>2. db' = db
    BY <1>3 DEF PassOver, MarkFails, NewDirFails, tables
  <2>. QED  BY <1>1, <1>2, <2>1, <2>2, StackOnly
<1>4. CASE MarkFile(n)
  <2>1. PICK looks \in Contents :
          /\ db' = [db EXCEPT !.titles = Touch(@, TitlesOf(db, looks, Top.id, n), scan.dbVersion)]
          /\ scan' = [scan EXCEPT !.stack = After(n, looks)]
    BY <1>4 DEF MarkFile, Write
  <2>2. TitlesOf(db, looks, Top.id, n) \in SUBSET db.titles
    BY DEF TitlesOf
  <2>3. db'.paths = db.paths
    BY <2>1, <2>2, TitlesMarked
  <2>. QED  BY <1>1, <1>2, <2>1, <2>3, StackOnly
<1>5. CASE MarkDir(n) \/ MarkDirNoId(n)
  <2>1. /\ db' = [db EXCEPT !.paths = Touch(@, PathsOf(db, Top.id, n), scan.dbVersion)]
        /\ \E s : scan' = [scan EXCEPT !.stack = s]
    BY <1>5 DEF MarkDir, MarkDirNoId, Write
  <2>2. PathsOf(db, Top.id, n) \in SUBSET db.paths
    BY DEF PathsOf
  <2>3. \A q \in db'.paths : \E p \in db.paths : SamePath(p, q)
    BY <2>1, <2>2, PathsMarked
  <2>. QED  BY <1>1, <2>1, <2>3, StackOnly
<1>6. CASE NewFile(n)
  <2>1. db' = db
    BY <1>6 DEF NewFile, tables
  <2>. QED  BY <1>1, <1>2, <1>6, <2>1, NewFileDoes
<1>7. CASE NewDir(n)
  <2>1. PICK row : row = [id |-> scan.highest.paths + 1, parent |-> Top.id, name |-> n,
                          version |-> scan.dbVersion]
    OBVIOUS
  <2>2. db' = [db EXCEPT !.paths = @ \cup {row}] /\ db.file # "cut"
    BY <1>7, <2>1 DEF NewDir, Write
  <2>3. db'.paths = db.paths \cup {row}
    BY <1>1, <2>2 DEF Database
  <2>4. row.id = scan.highest.paths + 1 /\ row.parent = Top.id /\ row.name = n
    BY <2>1
  <2>5. FolderOf(In[n], Top.id)
    <3>1. PICK U \in SUBSET Names : Walked(U)
      BY <1>1 DEF WalkInv, Walking
    <3>2. Len(scan.stack) \in 1..Len(scan.stack)
      BY <1>1, TopTyped, VisitIn
    <3>3. In[n] = Top.dir
      BY <1>1, <3>1, <3>2 DEF Walked, Frames, Top
    <3>. QED  BY <1>1, <3>3, TopFolder DEF Walking
  <2>6. scan'.highest.paths = scan.highest.paths + 1
    BY <1>7, NewDirDoes
  <2>7. \A q \in db'.paths : (\E p \in db.paths : SamePath(p, q)) \/ q = row
    BY <1>2, <2>3
  <2>8. row.name \in Names /\ FolderOf(In[row.name], row.parent) /\ scan'.highest.paths = row.id
    BY <2>4, <2>5, <2>6
  <2>9. /\ scan'.highest.paths >= scan.highest.paths
        /\ scan'.highest.paths <= scan.highest.paths + 1
    BY <1>1, <2>6
  <2>. QED  BY <2>2, <2>4, <2>7, <2>8, <2>9
<1>. QED  BY <1>3, <1>4, <1>5, <1>6, <1>7 DEF Visit

\* The tags of a file take up the next id of a title, or none.
LEMMA TagsCount ==
  ASSUME TypeInv, Tags
  PROVE  /\ scan'.highest.artists = scan.highest.artists
         /\ scan'.highest.albums = scan.highest.albums
         /\ scan'.highest.paths = scan.highest.paths
         /\ scan'.highest.titles \in {scan.highest.titles, scan.highest.titles + 1}
<1>1. scan.pc = "tags" /\ scan'.pc \in {"walk", "artist"}
  BY TagsDoes
<1>2. CASE scan'.pc = "artist"
  <2>1. PICK tags \in Audio \cup {NoTags} : GotTags(tags)
    BY <1>2, TagsDoes
  <2>. QED  BY <1>1, <2>1, GotTagsDoes
<1>3. CASE scan'.pc = "walk"
  BY <1>1, <1>3, TagsDoes, NotMusicDoes
<1>. QED  BY <1>1, <1>2, <1>3

\* The ids a step gives are new, and the highest ones never go down.
LEMMA IdsGrow ==
  ASSUME TypeInv, WalkInv, Onward
  PROVE  /\ scan'.highest.artists >= scan.highest.artists
         /\ scan'.highest.albums >= scan.highest.albums
         /\ scan'.highest.paths >= scan.highest.paths
         /\ scan'.highest.artists <= scan.highest.artists + 1
         /\ scan'.highest.albums <= scan.highest.albums + 1
         /\ scan'.highest.paths <= scan.highest.paths + 1
         /\ \A x \in db'.artists :
              x \in db.artists \/ (x.id = scan.highest.artists + 1 /\ db.file # "cut")
         /\ \A x \in db'.albums :
              x \in db.albums \/ (x.id = scan.highest.albums + 1 /\ db.file # "cut")
<1>. USE DEF Onward
<1>0. /\ scan.highest.artists \in Nat /\ scan.highest.albums \in Nat /\ scan.highest.paths \in Nat
  BY IdNumbers
<1>1. CASE Start
  BY <1>1, StartDoes
<1>2. CASE \E n \in Names : Visit(n)
  <2>1. PICK n \in Names : Visit(n)
    BY <1>2
  <2>2. /\ scan'.highest.paths >= scan.highest.paths
        /\ scan'.highest.paths <= scan.highest.paths + 1
    BY <2>1, VisitAdds
  <2>3. /\ scan'.highest.artists = scan.highest.artists
        /\ scan'.highest.albums = scan.highest.albums
        /\ db'.artists = db.artists /\ db'.albums = db.albums
    BY <2>1, VisitKeeps
  <2>. QED  BY <1>0, <2>2, <2>3
<1>3. CASE ArtistCached \/ ArtistFound \/ ArtistAdded \/ ArtistFails
  BY <1>0, <1>3, ArtistAdds
<1>4. CASE AlbumCached \/ AlbumFound \/ AlbumAdded \/ AlbumFails
  BY <1>0, <1>4, AlbumAdds
<1>5. CASE InsertTitle
  BY <1>0, <1>5, InsertDoes
<1>6. CASE InsertTitleFails
  <2>1. db' = db
    BY <1>6, InsertFailsLeaves
  <2>. QED  BY <1>0, <1>6, <2>1, InsertFailsDoes
<1>7. CASE LeaveDir
  <2>1. db' = db
    BY <1>7 DEF LeaveDir, tables
  <2>. QED  BY <1>0, <1>7, <2>1, LeftDoes
<1>8. CASE Begin
  BY <1>0, <1>8, BeginDoes
<1>9. CASE Rest
  BY <1>0, <1>9, RestKeeps
<1>10. CASE DiskStep \/ UNCHANGED vars
  <2>1. UNCHANGED <<scan, db>>
    BY <1>10 DEF DiskStep, PutFile, RemoveFile, MakeDir, MoveDirAway, ChangeTo, tables, vars
  <2>. QED  BY <1>0, <2>1
<1>11. CASE Tags
  BY <1>0, <1>11, TagsDoes, TagsCount
<1>. QED  BY <1>1, <1>2, <1>3, <1>4, <1>5, <1>6, <1>7, <1>8, <1>9, <1>10, <1>11, Steps
          DEF Next, LookUp

\* Every folder of the tables was there before, or is the one the step adds, in its place.
LEMMA FoldersGrow ==
  ASSUME TypeInv, WalkInv, Onward
  PROVE  \E row : \A q \in db'.paths :
           \/ \E p \in db.paths : SamePath(p, q)
           \/ /\ q = row /\ row.id = scan.highest.paths + 1 /\ db.file # "cut"
              /\ scan'.highest.paths = row.id
              /\ row.name \in Names /\ FolderOf(In[row.name], row.parent)
<1>. USE DEF Onward
<1>0. \A p : SamePath(p, p)
  BY DEF SamePath
<1>1. CASE Start
  BY <1>1, StartDoes
<1>2. CASE \E n \in Names : Visit(n)
  BY <1>2, VisitAdds
<1>3. CASE db'.paths \subseteq db.paths
  BY <1>0, <1>3
<1>4. LookUp \/ InsertTitle \/ Tags => db'.paths \subseteq db.paths
  BY LookUpDoes, InsertDoes, TagsDoes DEF LookUp
<1>5. InsertTitleFails \/ LeaveDir \/ Begin => db'.paths \subseteq db.paths
  BY InsertFailsLeaves, BeginDoes DEF LeaveDir, tables
<1>6. Rest => db'.paths \subseteq db.paths
  <2>1. DropTitles => db'.paths = db.paths
    BY DropTitlesDoes
  <2>2. DropPaths => db'.paths \subseteq db.paths
    BY DropPathsDoes
  <2>. QED  BY <2>1, <2>2, RestTables
<1>7. DiskStep \/ UNCHANGED vars => db'.paths \subseteq db.paths
  BY DEF DiskStep, PutFile, RemoveFile, MakeDir, MoveDirAway, ChangeTo, tables, vars
<1>. QED  BY <1>1, <1>2, <1>3, <1>4, <1>5, <1>6, <1>7, Steps DEF Next

\* Every title was there before, or is the one InsertTitle adds.
LEMMA TitlesGrow ==
  ASSUME TypeInv, WalkInv, Onward
  PROVE  \E row : \A u \in db'.titles :
           \/ \E t \in db.titles : SameTitle(t, u)
           \/ /\ u = row /\ row.id \notin Ids(db.titles) /\ scan.pc = "title"
              /\ row.name \in Names /\ FolderOf(In[row.name], row.parent)
              /\ row.artist = scan.track.artistId /\ row.album = scan.albumId
              /\ row.id = scan.highest.titles
<1>. USE DEF Onward
<1>0. \A t : SameTitle(t, t)
  BY DEF SameTitle
<1>1. CASE Start
  BY <1>1, StartDoes
<1>2. CASE \E n \in Names : Visit(n)
  BY <1>2, VisitTitles
<1>3. CASE InsertTitle
  <2>1. PICK row : row = NewTitle
    OBVIOUS
  <2>2. /\ scan.pc = "title" /\ db'.titles = db.titles \cup {row}
        /\ row.parent = Top.id /\ row.name = scan.track.name
        /\ row.artist = scan.track.artistId /\ row.album = scan.albumId
        /\ row.id \notin Ids(db.titles) /\ row.id = scan.highest.titles
    BY <1>3, <2>1, InsertDoes DEF TitleFits
  <2>3. row.name \in Names /\ In[row.name] = Top.dir
    BY <2>2 DEF WalkInv, Walked, Walking, InFile
  <2>4. FolderOf(In[row.name], row.parent)
    BY <2>2, <2>3, TopFolder DEF Walking
  <2>. QED  BY <1>0, <2>2, <2>3, <2>4
<1>4. CASE db'.titles \subseteq db.titles
  BY <1>0, <1>4
<1>5. LookUp \/ Tags => db'.titles \subseteq db.titles
  BY LookUpDoes, TagsDoes DEF LookUp
<1>6. InsertTitleFails \/ LeaveDir \/ Begin => db'.titles \subseteq db.titles
  BY InsertFailsLeaves, BeginDoes DEF LeaveDir, tables
<1>7. Rest => db'.titles \subseteq db.titles
  BY RestKeeps
<1>8. DiskStep \/ UNCHANGED vars => db'.titles \subseteq db.titles
  BY DEF DiskStep, PutFile, RemoveFile, MakeDir, MoveDirAway, ChangeTo, tables, vars
<1>. QED  BY <1>1, <1>2, <1>3, <1>4, <1>5, <1>6, <1>7, <1>8, Steps DEF Next

-----------------------------------------------------------------------------
(***************************************************************************)
(* What stands still for readers during a life of the scanner.             *)
(***************************************************************************)
\* Readers see what they saw, or what the scanner sees.
LEMMA LiveIs ==
  ASSUME TypeInv, Onward
  PROVE  /\ live'.titles \in {live.titles, db'.titles} /\ live'.paths \in {live.paths, db'.paths}
         /\ live'.artists \in {live.artists, db'.artists}
         /\ live'.albums \in {live.albums, db'.albums}
BY WritesWithin

\* The id of a folder stands for one name in one place, whoever reads it.
FoldersAlike ==
  /\ \A p, q \in live.paths \cup db.paths : p.id = q.id => SamePath(p, q)
  /\ \A p \in live.paths : p.id <= scan.highest.paths

LEMMA FolderIds ==
  ASSUME TypeInv, IdsInv, blind = {}, FoldersAlike, scan.pc # "down"
  PROVE  \A p \in live.paths \cup db.paths : p.id \in Nat /\ p.id <= scan.highest.paths
BY LiveRows, IdNumbers DEF IdsInv, FoldersAlike, PathRow

LEMMA FoldersAlikeNext ==
  ASSUME TypeInv, TypeInv', WalkInv, IdsInv, blind = {}, FoldersAlike, Onward
  PROVE  FoldersAlike'
<1>1. PICK row : \A q \in db'.paths :
           \/ \E p \in db.paths : SamePath(p, q)
           \/ /\ q = row /\ row.id = scan.highest.paths + 1 /\ db.file # "cut"
              /\ scan'.highest.paths = row.id
              /\ row.name \in Names /\ FolderOf(In[row.name], row.parent)
  BY FoldersGrow
<1>2. /\ live'.paths \in {live.paths, db'.paths}
      /\ scan.highest.paths \in Nat /\ scan'.highest.paths >= scan.highest.paths
      /\ \A p \in live.paths \cup db.paths : p.id \in Nat /\ p.id <= scan.highest.paths
  BY LiveIs, IdsGrow, FolderIds, IdNumbers DEF Onward
<1>3. \A q \in live'.paths \cup db'.paths :
        \/ \E p \in live.paths \cup db.paths : SamePath(p, q)
        \/ q = row /\ q.id = scan.highest.paths + 1 /\ scan'.highest.paths = q.id
  <2>1. \A p : SamePath(p, p)
    BY DEF SamePath
  <2>. QED  BY <1>1, <1>2, <2>1
<1>4. ASSUME NEW p \in live'.paths \cup db'.paths, NEW q \in live'.paths \cup db'.paths, p.id = q.id
      PROVE  SamePath(p, q)
  <2>1. CASE \E o \in live.paths \cup db.paths, u \in live.paths \cup db.paths :
               SamePath(o, p) /\ SamePath(u, q)
    <3>1. PICK o \in live.paths \cup db.paths, u \in live.paths \cup db.paths :
            SamePath(o, p) /\ SamePath(u, q)
      BY <2>1
    <3>2. SamePath(o, u)
      BY <1>4, <3>1 DEF SamePath, FoldersAlike
    <3>. QED  BY <3>1, <3>2 DEF SamePath
  <2>2. CASE p = row /\ q = row
    BY <2>2 DEF SamePath
  <2>3. CASE /\ \E o \in live.paths \cup db.paths : SamePath(o, p) \/ SamePath(o, q)
             /\ p.id = scan.highest.paths + 1
    BY <1>2, <1>4, <2>3 DEF SamePath
  <2>. QED  BY <1>3, <1>4, <2>1, <2>2, <2>3
<1>5. \A p \in live'.paths : p.id <= scan'.highest.paths
  <2>1. ASSUME NEW q \in live'.paths PROVE q.id <= scan'.highest.paths
    <3>1. CASE \E p \in live.paths \cup db.paths : SamePath(p, q)
      <4>1. PICK p \in live.paths \cup db.paths : q.id = p.id
        BY <3>1 DEF SamePath
      <4>2. scan'.highest.paths \in Int
        BY DEF TypeInv, TypeOK, Scanner
      <4>. QED  BY <1>2, <4>1, <4>2
    <3>2. CASE scan'.highest.paths = q.id /\ q.id = scan.highest.paths + 1
      BY <1>2, <3>2
    <3>. QED  BY <1>3, <2>1, <3>1, <3>2
  <2>. QED  BY <2>1
<1>. QED  BY <1>4, <1>5 DEF FoldersAlike

\* The same for titles.
OneTitle(d) == \A t, u \in d.titles : t.id = u.id => SameTitle(t, u)

LEMMA OneTitleNext ==
  ASSUME TypeInv, WalkInv, OneTitle(live), OneTitle(db), Onward
  PROVE  OneTitle(live)' /\ OneTitle(db)'
<1>1. PICK row : \A u \in db'.titles :
           \/ \E t \in db.titles : SameTitle(t, u)
           \/ /\ u = row /\ row.id \notin Ids(db.titles) /\ scan.pc = "title"
              /\ row.name \in Names /\ FolderOf(In[row.name], row.parent)
              /\ row.artist = scan.track.artistId /\ row.album = scan.albumId
  BY TitlesGrow
<1>2. ASSUME NEW t \in db'.titles, NEW u \in db'.titles, t.id = u.id
      PROVE  SameTitle(t, u)
  <2>1. CASE \E o \in db.titles, p \in db.titles : SameTitle(o, t) /\ SameTitle(p, u)
    <3>1. PICK o \in db.titles, p \in db.titles : SameTitle(o, t) /\ SameTitle(p, u)
      BY <2>1
    <3>2. SameTitle(o, p)
      BY <1>2, <3>1 DEF SameTitle, OneTitle
    <3>. QED  BY <3>1, <3>2 DEF SameTitle
  <2>2. CASE t = row /\ u = row
    BY <2>2 DEF SameTitle
  <2>3. CASE /\ \E o \in db.titles : SameTitle(o, t) \/ SameTitle(o, u)
             /\ t.id \notin Ids(db.titles)
    <3>1. \A o \in db.titles : o.id # t.id
      BY <2>3 DEF Ids
    <3>. QED  BY <1>2, <2>3, <3>1 DEF SameTitle
  <2>. QED  BY <1>1, <1>2, <2>1, <2>2, <2>3
<1>. QED  BY <1>2, LiveIs DEF OneTitle

\* Each row lies where its name does.
InPlace(d) ==
  \A r \in d.titles \cup d.paths :
    /\ r.parent = MinPathId => In[r.name] = Root
    /\ \A p \in d.paths : p.id = r.parent => p.name = In[r.name]

\* An id a look-up gave: one of the range, or an error.
Given(min, id) == id < 1 \/ id > min

Ranged(d) ==
  /\ \A r \in d.titles \cup d.paths : r.parent >= MinPathId
  /\ \A p \in d.paths : p.id > MinPathId
  /\ \A x \in d.artists : x.id > MinArtistId
  /\ \A x \in d.albums : x.id > MinAlbumId
  /\ \A t \in d.titles : Given(MinArtistId, t.artist) /\ Given(MinAlbumId, t.album)

\* A start with a cut-off file finds no highest ids, and nothing can be written.
ScanRanged ==
  /\ Given(MinArtistId, scan.cache.artistId) /\ Given(MinAlbumId, scan.cache.albumId)
  /\ scan.pc \in {"album", "title"} => Given(MinArtistId, scan.track.artistId)
  /\ scan.pc = "title" => Given(MinAlbumId, scan.albumId)
  /\ db.file = "cut" \/ /\ scan.highest.paths >= MinPathId
                        /\ scan.highest.artists >= MinArtistId
                        /\ scan.highest.albums >= MinAlbumId

LEMMA FolderRanged ==
  ASSUME TypeInv, Ranged(db), NEW d, NEW id, FolderOf(d, id)
  PROVE  id \in Nat /\ id >= MinPathId /\ (id = MinPathId => d = Root)
<1>1. MinPathId \in Nat
  BY IdRanges
<1>2. CASE d = Root
  BY <1>1, <1>2 DEF FolderOf, FolderIn
<1>3. CASE d # Root
  <2>1. PICK p \in db.paths : p.id = id
    BY <1>3 DEF FolderOf, FolderIn
  <2>2. p.id \in Nat /\ p.id > MinPathId
    BY IdNumbers DEF Ranged
  <2>. QED  BY <1>1, <2>1, <2>2
<1>. QED  BY <1>2, <1>3

LEMMA InPlaceNext ==
  ASSUME TypeInv, WalkInv, IdsInv, blind = {}, PathInv, ~ahead, FoldersAlike,
         InPlace(live), InPlace(db), Ranged(db), ScanRanged, Onward
  PROVE  InPlace(live)' /\ InPlace(db)'
<1>1. PICK new : \A q \in db'.paths :
           \/ \E p \in db.paths : SamePath(p, q)
           \/ /\ q = new /\ new.id = scan.highest.paths + 1 /\ db.file # "cut"
              /\ scan'.highest.paths = new.id
              /\ new.name \in Names /\ FolderOf(In[new.name], new.parent)
  BY FoldersGrow
<1>2. \A r \in db'.titles \cup db'.paths :
        \/ \E o \in db.titles \cup db.paths : r.parent = o.parent /\ r.name = o.name
        \/ FolderOf(In[r.name], r.parent)
  <2>1. \A u \in db'.titles :
          (\E t \in db.titles : SameTitle(t, u)) \/ FolderOf(In[u.name], u.parent)
    BY TitlesGrow
  <2>. QED  BY <1>1, <2>1 DEF SameTitle, SamePath
<1>3. /\ \A p \in db.paths : p.id \in Nat /\ p.id <= scan.highest.paths
      /\ scan.highest.paths \in Nat /\ MinPathId \in Nat
      /\ db.file # "cut" => scan.highest.paths >= MinPathId
  BY FolderIds, IdNumbers, IdRanges DEF Onward, ScanRanged
<1>4. \A r \in db.titles \cup db.paths :
        r.parent = MinPathId \/ \E p \in db.paths : p.id = r.parent
  BY DEF PathInv, Parented
<1>5. ASSUME NEW r \in db'.titles \cup db'.paths, r.parent = MinPathId PROVE In[r.name] = Root
  <2>1. CASE \E o \in db.titles \cup db.paths : r.parent = o.parent /\ r.name = o.name
    BY <1>5, <2>1 DEF InPlace
  <2>2. CASE FolderOf(In[r.name], r.parent)
    BY <1>5, <2>2, FolderRanged
  <2>. QED  BY <1>2, <1>5, <2>1, <2>2
<1>6. ASSUME NEW r \in db'.titles \cup db'.paths, NEW q \in db'.paths, q.id = r.parent
      PROVE  q.name = In[r.name]
  <2>1. r.parent = MinPathId \/ \E p \in db.paths : p.id = r.parent
    BY <1>2, <1>4 DEF FolderOf, FolderIn
  <2>2. q.id # scan.highest.paths + 1 \/ db.file = "cut"
    BY <1>3, <1>6, <2>1
  <2>3. PICK p \in db.paths : SamePath(p, q)
    BY <1>1, <2>2
  <2>4. CASE \E o \in db.titles \cup db.paths : r.parent = o.parent /\ r.name = o.name
    BY <1>6, <2>3, <2>4 DEF InPlace, SamePath
  <2>5. CASE FolderOf(In[r.name], r.parent)
    <3>1. r.parent # MinPathId
      BY <1>3, <1>6, <2>3 DEF Ranged, SamePath
    <3>2. PICK o \in db.paths : o.name = In[r.name] /\ o.id = r.parent
      BY <2>5, <3>1 DEF FolderOf, FolderIn
    <3>3. SamePath(o, p)
      BY <1>6, <2>3, <3>2 DEF FoldersAlike, SamePath
    <3>. QED  BY <2>3, <3>2, <3>3 DEF SamePath
  <2>. QED  BY <1>2, <2>4, <2>5
<1>7. InPlace(db)'
  BY <1>5, <1>6 DEF InPlace
<1>8. CASE live' = live
  BY <1>7, <1>8 DEF InPlace
<1>9. CASE live' = db'
  BY <1>7, <1>9 DEF InPlace
<1>. QED  BY <1>7, <1>8, <1>9, WritesWithin

\* What the ids of a new title come from.
LEMMA CacheGiven ==
  ASSUME TypeInv, ScanRanged, LookUp,
         \A x \in db'.artists : x.id > MinArtistId, \A x \in db'.albums : x.id > MinAlbumId
  PROVE  /\ Given(MinArtistId, scan'.cache.artistId) /\ Given(MinAlbumId, scan'.cache.albumId)
         /\ scan'.pc \in {"album", "title"} => Given(MinArtistId, scan'.track.artistId)
         /\ scan'.pc = "title" => Given(MinAlbumId, scan'.albumId)
<1>1. Given(MinArtistId, 0) /\ Given(MinArtistId, FAILURE)
      /\ Given(MinAlbumId, 0) /\ Given(MinAlbumId, FAILURE)
  BY DEF Given, FAILURE
<1>2. /\ \A i \in Ids(db'.artists) : Given(MinArtistId, i)
      /\ \A i \in Ids(db'.albums) : Given(MinAlbumId, i)
  BY DEF Ids, Given
<1>3. CASE ArtistCached \/ ArtistFound \/ ArtistAdded \/ ArtistFails
  <2>1. /\ scan'.pc = "album" /\ scan'.cache.albumId = scan.cache.albumId
        /\ scan'.cache.artistId \in {scan.cache.artistId, 0, FAILURE} \cup Ids(db'.artists)
        /\ scan'.track.artistId \in {scan.cache.artistId, 0, FAILURE} \cup Ids(db'.artists)
    BY <1>3, ArtistAdds
  <2>2. Given(MinArtistId, scan'.cache.artistId) /\ Given(MinArtistId, scan'.track.artistId)
    BY <1>1, <1>2, <2>1 DEF ScanRanged
  <2>. QED  BY <2>1, <2>2 DEF ScanRanged
<1>4. CASE AlbumCached \/ AlbumFound \/ AlbumAdded \/ AlbumFails
  <2>1. /\ scan.pc = "album" /\ scan'.pc = "title" /\ scan'.track = scan.track
        /\ scan'.cache.artistId = scan.cache.artistId
        /\ scan'.cache.albumId \in {scan.cache.albumId, 0, FAILURE} \cup Ids(db'.albums)
        /\ scan'.albumId \in {scan.cache.albumId, 0, FAILURE} \cup Ids(db'.albums)
    BY <1>4, AlbumAdds
  <2>2. Given(MinAlbumId, scan'.cache.albumId) /\ Given(MinAlbumId, scan'.albumId)
    BY <1>1, <1>2, <2>1 DEF ScanRanged
  <2>. QED  BY <2>1, <2>2 DEF ScanRanged
<1>. QED  BY <1>3, <1>4 DEF LookUp

\* Every other step leaves the cache as it is, and ends a look-up at most.
LEMMA CacheKept ==
  ASSUME TypeInv, Onward, ~LookUp
  PROVE  /\ scan'.cache = scan.cache
         /\ scan'.pc \in {"album", "title"} => scan' = scan
<1>. USE DEF Onward
<1>1. CASE Start \/ Tags
  BY <1>1, StartDoes, TagsDoes
<1>2. CASE \E n \in Names : Visit(n)
  BY <1>2, VisitIn, VisitKeeps
<1>3. CASE InsertTitle \/ InsertTitleFails
  BY <1>3, InsertDoes, InsertFailsDoes
<1>4. CASE LeaveDir \/ Begin
  BY <1>4, LeftDoes, BeginDoes
<1>5. CASE Rest
  <2>1. scan'.pc \notin Walking
    BY <1>5, RestDoes DEF Rest
  <2>. QED  BY <1>5, <2>1, RestKeeps DEF Walking
<1>6. CASE DiskStep \/ UNCHANGED vars
  BY <1>6 DEF DiskStep, PutFile, RemoveFile, MakeDir, MoveDirAway, ChangeTo, tables, vars
<1>. QED  BY <1>1, <1>2, <1>3, <1>4, <1>5, <1>6, Steps DEF Next

LEMMA RangedNext ==
  ASSUME TypeInv, TypeInv', WalkInv, Ranged(live), Ranged(db), ScanRanged, Onward
  PROVE  Ranged(live)' /\ Ranged(db)' /\ ScanRanged'
<1>0. /\ MinPathId \in Nat /\ MinArtistId \in Nat /\ MinAlbumId \in Nat
      /\ scan.highest.paths \in Nat /\ scan.highest.artists \in Nat /\ scan.highest.albums \in Nat
  BY IdRanges, IdNumbers
<1>1. /\ scan'.highest.artists >= scan.highest.artists
      /\ scan'.highest.albums >= scan.highest.albums
      /\ scan'.highest.paths >= scan.highest.paths
      /\ \A x \in db'.artists :
           x \in db.artists \/ (x.id = scan.highest.artists + 1 /\ db.file # "cut")
      /\ \A x \in db'.albums :
           x \in db.albums \/ (x.id = scan.highest.albums + 1 /\ db.file # "cut")
  BY IdsGrow
<1>2. \A x \in db'.artists : x.id > MinArtistId
  BY <1>0, <1>1 DEF Ranged, ScanRanged
<1>3. \A x \in db'.albums : x.id > MinAlbumId
  BY <1>0, <1>1 DEF Ranged, ScanRanged
<1>4. \A q \in db'.paths : q.id > MinPathId /\ q.parent >= MinPathId
  <2>1. PICK row : \A q \in db'.paths :
           \/ \E p \in db.paths : SamePath(p, q)
           \/ /\ q = row /\ row.id = scan.highest.paths + 1 /\ db.file # "cut"
              /\ scan'.highest.paths = row.id
              /\ row.name \in Names /\ FolderOf(In[row.name], row.parent)
    BY FoldersGrow
  <2>2. ASSUME NEW q \in db'.paths PROVE q.id > MinPathId /\ q.parent >= MinPathId
    <3>1. CASE \E p \in db.paths : SamePath(p, q)
      BY <3>1 DEF SamePath, Ranged
    <3>2. CASE q.id = scan.highest.paths + 1 /\ db.file # "cut" /\ FolderOf(In[q.name], q.parent)
      BY <1>0, <3>2, FolderRanged DEF ScanRanged
    <3>. QED  BY <2>1, <2>2, <3>1, <3>2
  <2>. QED  BY <2>2
<1>5. ASSUME NEW u \in db'.titles
      PROVE  u.parent >= MinPathId /\ Given(MinArtistId, u.artist) /\ Given(MinAlbumId, u.album)
  <2>1. \/ \E t \in db.titles : SameTitle(t, u)
        \/ /\ scan.pc = "title" /\ FolderOf(In[u.name], u.parent)
           /\ u.artist = scan.track.artistId /\ u.album = scan.albumId
    BY <1>5, TitlesGrow
  <2>2. CASE \E t \in db.titles : SameTitle(t, u)
    BY <2>2 DEF SameTitle, Ranged
  <2>3. CASE /\ scan.pc = "title" /\ FolderOf(In[u.name], u.parent)
             /\ u.artist = scan.track.artistId /\ u.album = scan.albumId
    BY <2>3, FolderRanged DEF ScanRanged
  <2>. QED  BY <2>1, <2>2, <2>3
<1>6. Ranged(db)'
  BY <1>2, <1>3, <1>4, <1>5 DEF Ranged
<1>7. Ranged(live)'
  <2>1. CASE live' = live
    BY <2>1 DEF Ranged
  <2>2. CASE live' = db'
    BY <1>6, <2>2 DEF Ranged
  <2>. QED  BY <2>1, <2>2, WritesWithin
<1>8. ScanRanged'
  <2>1. \/ db'.file = "cut"
        \/ /\ scan'.highest.paths >= MinPathId
           /\ scan'.highest.artists >= MinArtistId
           /\ scan'.highest.albums >= MinAlbumId
    <3>1. db'.file = db.file
      BY WritesWithin
    <3>2. /\ scan'.highest.paths \in Nat /\ scan'.highest.artists \in Nat
          /\ scan'.highest.albums \in Nat
      BY DEF TypeInv, TypeOK, Scanner
    <3>. QED  BY <1>0, <1>1, <3>1, <3>2 DEF ScanRanged
  <2>2. CASE LookUp
    BY <1>2, <1>3, <2>1, <2>2, CacheGiven DEF ScanRanged
  <2>3. CASE ~LookUp
    BY <2>1, <2>3, CacheKept DEF ScanRanged
  <2>. QED  BY <2>2, <2>3
<1>. QED  BY <1>6, <1>7, <1>8

\* What a title refers to is right, for readers and for the scanner - if it is there.
RefTrue(r) ==
  /\ r.artist <= scan.highest.artists /\ r.album <= scan.highest.albums
  /\ \A x \in live.artists \cup db.artists : x.id = r.artist => x.name = TagArtist(r.tags)
  /\ \A x \in live.albums \cup db.albums : x.id = r.album => x.name = TagAlbum(r.tags)

LEMMA RefTrueNext ==
  ASSUME TypeInv, TypeInv', WalkInv, Onward,
         NEW r, r.artist \in Int, r.album \in Int, RefTrue(r)
  PROVE  RefTrue(r)'
<1>1. /\ scan.highest.artists \in Nat /\ scan.highest.albums \in Nat
      /\ scan'.highest.artists \in Nat /\ scan'.highest.albums \in Nat
  BY DEF TypeInv, TypeOK, Scanner
<1>2. /\ scan'.highest.artists >= scan.highest.artists
      /\ scan'.highest.albums >= scan.highest.albums
      /\ \A x \in db'.artists : x \in db.artists \/ x.id = scan.highest.artists + 1
      /\ \A x \in db'.albums : x \in db.albums \/ x.id = scan.highest.albums + 1
  BY IdsGrow
<1>3. r.artist <= scan'.highest.artists /\ r.album <= scan'.highest.albums
  BY <1>1, <1>2 DEF RefTrue
<1>4. \A x \in live'.artists \cup db'.artists : x.id = r.artist => x.name = TagArtist(r.tags)
  BY <1>1, <1>2, LiveIs DEF RefTrue
<1>5. \A x \in live'.albums \cup db'.albums : x.id = r.album => x.name = TagAlbum(r.tags)
  BY <1>1, <1>2, LiveIs DEF RefTrue
<1>. QED  BY <1>3, <1>4, <1>5 DEF RefTrue

\* An artist or an album that readers miss does not come back for a title they see.
NoReturn(t) ==
  /\ t.artist \in Ids(db.artists) => t.artist \in Ids(live.artists)
  /\ t.album \in Ids(db.albums) => t.album \in Ids(live.albums)

RefsInv == \A t \in live.titles : RefTrue(t) /\ NoReturn(t)

LEMMA LiveRefs ==
  ASSUME TypeInv, NEW t \in live.titles
  PROVE  t.artist \in Int /\ t.album \in Int
BY LiveRows DEF TitleRow, Id, FAILURE

LEMMA RefsNext ==
  ASSUME TypeInv, TypeInv', WalkInv, TagInv', spent'.crash = 0, RefsInv, Onward
  PROVE  RefsInv'
<1>1. live' \in {live, db'} /\ scan'.pc # "down"
  BY WritesWithin
<1>2. Agree(db)' /\ OneForEachId'
  BY <1>1 DEF TagInv
<1>3. CASE live' = live
  <2>1. ASSUME NEW t \in live'.titles PROVE RefTrue(t)' /\ NoReturn(t)'
    <3>1. t \in live.titles /\ t.artist \in Int /\ t.album \in Int /\ RefTrue(t) /\ NoReturn(t)
      BY <1>3, <2>1, LiveRefs DEF RefsInv
    <3>2. RefTrue(t)'
      BY <3>1, RefTrueNext
    <3>3. /\ t.artist # scan.highest.artists + 1 /\ t.album # scan.highest.albums + 1
      BY <3>1, IdNumbers DEF RefTrue
    <3>4. /\ t.artist \in Ids(db'.artists) => t.artist \in Ids(db.artists)
          /\ t.album \in Ids(db'.albums) => t.album \in Ids(db.albums)
      BY <3>3, IdsGrow DEF Ids
    <3>. QED  BY <1>3, <3>1, <3>2, <3>4 DEF NoReturn
  <2>. QED  BY <2>1 DEF RefsInv
<1>4. CASE live' = db'
  <2>1. ASSUME NEW t \in live'.titles PROVE RefTrue(t)' /\ NoReturn(t)'
    <3>1. t.artist <= scan'.highest.artists /\ t.album <= scan'.highest.albums
      BY <1>2, <1>4, <2>1 DEF OneForEachId
    <3>2. /\ \A x \in db'.artists : x.id = t.artist => x.name = TagArtist(t.tags)
          /\ \A x \in db'.albums : x.id = t.album => x.name = TagAlbum(t.tags)
      BY <1>2, <1>4, <2>1 DEF Agree
    <3>. QED  BY <1>4, <3>1, <3>2 DEF RefTrue, NoReturn
  <2>. QED  BY <2>1 DEF RefsInv
<1>. QED  BY <1>1, <1>3, <1>4

-----------------------------------------------------------------------------
(***************************************************************************)
(* All of this together, while the scanner lives for the first time, and   *)
(* began with the highest ids there were.                                  *)
(***************************************************************************)
Steadfast ==
  /\ FoldersAlike /\ OneTitle(live) /\ OneTitle(db) /\ InPlace(live) /\ InPlace(db)
  /\ Ranged(live) /\ Ranged(db) /\ ScanRanged /\ RefsInv

LifeInv == OneLife => ~ahead /\ (scan.pc # "down" => Steadfast)

LEMMA EmptyTablesNext ==
  ASSUME live'.titles = {}, live'.paths = {}, live'.artists = {}, live'.albums = {}, db' = live'
  PROVE  /\ FoldersAlike' /\ OneTitle(live)' /\ OneTitle(db)' /\ InPlace(live)' /\ InPlace(db)'
         /\ Ranged(live)' /\ Ranged(db)' /\ RefsInv'
BY DEF FoldersAlike, OneTitle, InPlace, Ranged, RefsInv

\* What is not read at a start stays so.
LEMMA BlindGrows ==
  ASSUME [Next]_vars
  PROVE  blind \subseteq blind' \/ (StartNewFails /\ blind' = Tables)
<1>1. CASE StartNewFails
  BY <1>1 DEF StartNewFails
<1>2. CASE StartAgainFails
  BY <1>2 DEF StartAgainFails
<1>. QED  BY <1>1, <1>2, BlindStays

\* A step of the scanner in its first life was one of it before, too.
LEMMA FirstLifeStep ==
  ASSUME TypeInv, [Next]_vars, OneLife'
  PROVE  OneLife /\ ~(\E machine \in BOOLEAN : Crash(machine)) /\ ~StartNewFails
<1>1. spent.crash = 0 /\ ~(\E machine \in BOOLEAN : Crash(machine))
  BY SpentNext DEF OneLife
<1>2. "titles" \in Tables
  BY DEF Tables
<1>3. ~StartNewFails
  BY <1>2 DEF StartNewFails, OneLife
<1>4. blind = {}
  BY <1>3, BlindGrows DEF OneLife
<1>. QED  BY <1>1, <1>3, <1>4 DEF OneLife

\* The first start finds no rows.
LEMMA LifeStarts ==
  ASSUME TypeInv, TagInv, LifeInv, OneLife, Start, ~StartNewFails
  PROVE  ~ahead' /\ Steadfast'
<1>1. scan.pc = "down" /\ ~ahead
  BY StartDoes DEF LifeInv
<1>2. live \in {NoFile, CutOff} /\ saved = NoFile
  BY <1>1 DEF TagInv, FirstLife, OneLife
<1>3. /\ NoFile.file = "none" /\ CutOff.file = "cut"
      /\ CutOff.titles = {} /\ CutOff.paths = {} /\ CutOff.artists = {} /\ CutOff.albums = {}
  BY DEF NoFile, CutOff, EmptyDatabase
<1>4. 0 < 1 /\ Given(MinArtistId, 0) /\ Given(MinAlbumId, 0)
  BY DEF Given
<1>5. CASE StartNew
  <2>1. db' = EmptyDatabase /\ live' = EmptyDatabase /\ ahead' = ahead
    BY <1>5 DEF StartNew, history
  <2>2. /\ EmptyDatabase.titles = {} /\ EmptyDatabase.artists = {} /\ EmptyDatabase.albums = {}
        /\ EmptyDatabase.paths = {}
    BY DEF EmptyDatabase
  <2>3. /\ scan'.pc = "sample" /\ scan'.highest.artists = MinArtistId
        /\ scan'.highest.albums = MinAlbumId /\ scan'.highest.paths = MinPathId
        /\ scan'.cache.artistId = 0 /\ scan'.cache.albumId = 0
    BY <1>5 DEF StartNew, Down, NothingCached
  <2>4. ScanRanged'
    BY <1>4, <2>3, IdRanges DEF ScanRanged
  <2>. QED  BY <1>1, <2>1, <2>2, <2>4, EmptyTablesNext DEF Steadfast
<1>6. CASE StartAgain \/ StartAgainFails
  <2>1. Restored = live /\ MayBeRestored = {live}
    BY <1>2, <1>3 DEF Restored, MayBeRestored
  <2>2. live.file # "none" /\ \E highest, size, number : StartsWith(live, highest, size, number)
    <3>1. CASE StartAgain
      BY <2>1, <3>1 DEF StartAgain
    <3>2. CASE StartAgainFails
      BY <2>1, <3>2 DEF StartAgainFails
    <3>. QED  BY <1>6, <3>1, <3>2
  <2>3. PICK highest, size, number : StartsWith(CutOff, highest, size, number)
    BY <1>2, <1>3, <2>2
  <2>4. ~ahead' /\ db' = CutOff /\ live' = CutOff
    BY <1>1, <1>3, <2>3 DEF StartsWith
  <2>5. scan'.pc = "sample" /\ scan'.cache.artistId = 0 /\ scan'.cache.albumId = 0
    BY <1>6, StartDoes DEF Start, NothingCached
  <2>6. ScanRanged'
    BY <1>3, <1>4, <2>4, <2>5 DEF ScanRanged
  <2>. QED  BY <1>3, <2>4, <2>6, EmptyTablesNext DEF Steadfast
<1>. QED  BY <1>5, <1>6 DEF Start

LEMMA SteadfastNext ==
  ASSUME ScanInv, ScanInv', ~ahead, OneLife, OneLife', Steadfast, Onward
  PROVE  Steadfast'
<1>1. /\ TypeInv /\ TypeInv' /\ WalkInv /\ IdsInv /\ PathInv /\ TagInv'
      /\ blind = {} /\ spent'.crash = 0
  BY DEF ScanInv, OneLife
<1>2. FoldersAlike'
  BY <1>1, FoldersAlikeNext DEF Steadfast
<1>3. OneTitle(live)' /\ OneTitle(db)'
  BY <1>1, OneTitleNext DEF Steadfast
<1>4. InPlace(live)' /\ InPlace(db)'
  BY <1>1, InPlaceNext DEF Steadfast
<1>5. Ranged(live)' /\ Ranged(db)' /\ ScanRanged'
  BY <1>1, RangedNext DEF Steadfast
<1>6. RefsInv'
  BY <1>1, RefsNext DEF Steadfast
<1>. QED  BY <1>2, <1>3, <1>4, <1>5, <1>6 DEF Steadfast

LEMMA SteadfastAsked ==
  ASSUME Steadfast, UNCHANGED <<scan, live, db>>
  PROVE  Steadfast'
<1>1. FoldersAlike' /\ RefsInv'
  BY DEF Steadfast, FoldersAlike, RefsInv, RefTrue, NoReturn
<1>2. OneTitle(live)' /\ OneTitle(db)' /\ InPlace(live)' /\ InPlace(db)'
  BY DEF Steadfast, OneTitle, InPlace
<1>3. Ranged(live)' /\ Ranged(db)' /\ ScanRanged'
  BY DEF Steadfast, Ranged, ScanRanged
<1>. QED  BY <1>1, <1>2, <1>3 DEF Steadfast

LEMMA OneLifeAsked ==
  ASSUME TypeInv, QueryStep, OneLife'
  PROVE  OneLife
BY Touches DEF OneLife, history

LEMMA LifeNext == ScanInv /\ LifeInv /\ QueryNext => LifeInv'
<1>. SUFFICES ASSUME ScanInv, LifeInv, QueryNext, OneLife'
              PROVE  ~ahead' /\ (scan'.pc # "down" => Steadfast')
  BY DEF LifeInv
<1>1. TypeInv /\ TagInv /\ FileInv /\ ScanInv'
  BY ScanInvNext DEF ScanInv
<1>2. CASE QueryStep
  <2>1. /\ UNCHANGED <<scan, history>> /\ OneLife
        /\ UNCHANGED <<live, db>> \/ live.file = "none"
    BY <1>1, <1>2, Touches, OneLifeAsked
  <2>2. ~ahead' /\ (scan'.pc # "down" => Steadfast /\ UNCHANGED <<scan, live, db>>)
    BY <1>1, <2>1 DEF LifeInv, FileInv, history
  <2>. QED  BY <2>2, SteadfastAsked
<1>3. CASE [Next]_vars
  <2>1. OneLife /\ ~(\E machine \in BOOLEAN : Crash(machine)) /\ ~StartNewFails /\ ~ahead
    BY <1>1, <1>3, FirstLifeStep DEF LifeInv
  <2>2. CASE scan.pc # "down"
    <3>1. Onward /\ Steadfast
      BY <1>3, <2>1, <2>2 DEF Onward, LifeInv
    <3>. QED  BY <1>1, <2>1, <3>1, SteadfastNext, WritesWithin
  <2>3. CASE scan.pc = "down"
    <3>1. CASE Start
      BY <1>1, <2>1, <3>1, LifeStarts
    <3>2. CASE UNCHANGED <<scan, live, db, saved, ahead, blind>>
      BY <2>1, <2>3, <3>2
    <3>. QED  BY <1>1, <1>3, <2>3, <3>1, <3>2, DownSteps
  <2>. QED  BY <2>2, <2>3
<1>. QED  BY <1>2, <1>3 DEF QueryNext, ScanStep, qvars

-----------------------------------------------------------------------------
(***************************************************************************)
(* What the SELECTs of mps_library_title_get_info find.                    *)
(***************************************************************************)
\* What the history keeps is still there for readers.
KeptLive == \A t \in query.kept : \E u \in live.titles : Fixed(u) = Fixed(t)

LEMMA KeptLiveNext ==
  ASSUME ScanInv, query \in Query, KeptLive, QueryNext
  PROVE  KeptLive'
<1>1. TypeInv /\ FileInv
  BY DEF ScanInv
<1>2. CASE Request
  <2>1. PICK op \in {"path", "info", "folder"}, id \in Asked : Ask(op, id)
    BY <1>2, RequestDoes
  <2>2. query'.kept = live.titles /\ (live' = live \/ live.file = "none")
    BY <2>1, AskDoes
  <2>. QED  BY <1>1, <2>2 DEF FileInv, KeptLive
<1>3. CASE QueryStep /\ ~Request
  <2>1. query'.op = query.op /\ query'.kept = query.kept /\ live' = live
    BY <1>1, <1>3, AskedStays, ReadsOnly
  <2>. QED  BY <2>1 DEF KeptLive, Fixed
<1>4. CASE ScanStep
  <2>1. /\ query'.op = query.op
        /\ \A t \in query'.kept : \E u \in live'.titles : Fixed(u) = Fixed(t)
    BY <1>4, ScanKeeps
  <2>. QED  BY <2>1 DEF KeptLive, Fixed
<1>5. CASE UNCHANGED qvars
  BY <1>5 DEF KeptLive, Fixed, qvars, vars
<1>. QED  BY <1>2, <1>3, <1>4, <1>5 DEF QueryNext

\* Titles are there only when a scanner is.
LEMMA TitlesMeanUp ==
  ASSUME TagInv, OneLife, live.titles # {}
  PROVE  scan.pc # "down"
BY DEF OneLife, TagInv, FirstLife, CutOff, NoFile, EmptyDatabase

LEMMA InfoRowDoes ==
  ASSUME query \in Query, InfoRow
  PROVE  /\ query.op = "info" /\ query.rv = "running" /\ query.next = "row"
         /\ query'.op = "info" /\ query'.album = query.album
         /\ \/ /\ query'.rv = "running" /\ query'.next = "album"
               /\ query'.row \in RowsAt(query.id)
            \/ query'.rv = "FAILURE"
<1>1. query.op = "info" /\ query.rv = "running" /\ query.next = "row"
  BY DEF InfoRow, Selecting
<1>2. CASE \E t \in RowsAt(query.id) : query' = [query EXCEPT !.row = t, !.next = "album"]
  BY <1>1, <1>2 DEF Query
<1>3. CASE query' = [query EXCEPT !.rv = "FAILURE"]
  BY <1>1, <1>3 DEF Query
<1>4. CASE query' = [query EXCEPT !.rv = "FAILURE", !.missed = TRUE]
  BY <1>1, <1>4 DEF Query
<1>. QED  BY <1>1, <1>2, <1>3, <1>4 DEF InfoRow

LEMMA InfoAlbumDoes ==
  ASSUME query \in Query, InfoAlbum
  PROVE  /\ query.op = "info" /\ query.rv = "running" /\ query.next = "album"
         /\ query'.op = "info" /\ query'.rv = "running" /\ query'.next = "artist"
         /\ query'.row = query.row
         /\ \/ query'.album = query.album
            \/ \E x \in live.albums : x.id = query.row.album /\ query'.album = x.name
<1>1. query.op = "info" /\ query.rv = "running" /\ query.next = "album"
  BY DEF InfoAlbum, Selecting
<1>2. CASE \E x \in live.albums : /\ x.id = query.row.album
                                  /\ query' = [query EXCEPT !.next = "artist", !.album = x.name]
  BY <1>1, <1>2 DEF Query
<1>3. CASE query' = [query EXCEPT !.next = "artist"]
  BY <1>1, <1>3 DEF Query
<1>4. CASE query' = [query EXCEPT !.next = "artist", !.missed = TRUE]
  BY <1>1, <1>4 DEF Query
<1>. QED  BY <1>1, <1>2, <1>3, <1>4 DEF InfoAlbum

LEMMA InfoArtistDoes ==
  ASSUME query \in Query, InfoArtist
  PROVE  /\ query.op = "info" /\ query.rv = "running" /\ query.next = "artist"
         /\ query'.op = "info" /\ query'.rv # "running"
         /\ query'.row = query.row /\ query'.album = query.album
         /\ query'.rv = "SUCCESS" =>
              /\ query.album # NoName
              /\ \E x \in live.artists : x.id = query.row.artist /\ query'.artist = x.name
<1>1. query.op = "info" /\ query.rv = "running" /\ query.next = "artist"
  BY DEF InfoArtist, Selecting
<1>2. \A artist, missed : Answer(artist, missed) =>
        /\ query'.op = "info" /\ query'.rv # "running" /\ query'.artist = artist
        /\ query'.row = query.row /\ query'.album = query.album
        /\ query'.rv = "SUCCESS" => artist # NoName /\ query.album # NoName
  BY <1>1 DEF Answer, Query
<1>3. \/ \E x \in live.artists : x.id = query.row.artist /\ Answer(x.name, FALSE)
      \/ \E missed \in BOOLEAN : Answer(NoName, missed)
  BY DEF InfoArtist
<1>. QED  BY <1>1, <1>2, <1>3

\* The tags a row is of are those of its file.
RowTraced(r) == r.tags = r.stamp \/ r.name \in slipped

\* What was found so far belongs to the title, and what is still to be found will.
InfoInv ==
  OneLife /\ query.op = "info" =>
    /\ query.rv = "running" /\ query.next \in {"row", "album"} => query.album = NoName
    /\ query.rv = "running" /\ query.next \in {"album", "artist"} =>
         /\ scan.pc # "down" /\ query.row \in TitleRow /\ RefTrue(query.row)
         /\ RowTraced(query.row)
         /\ query.next = "artist" => query.album \in {NoName, TagAlbum(query.row.tags)}
    /\ query.rv = "SUCCESS" =>
         /\ query.artist = TagArtist(query.row.tags)
         /\ query.album = TagAlbum(query.row.tags)
         /\ RowTraced(query.row)

LEMMA InfoStep ==
  ASSUME ScanInv, LifeInv, query \in Query, Shape, InfoInv, OneLife,
         InfoRow \/ InfoAlbum \/ InfoArtist, UNCHANGED <<scan, live, db, history>>
  PROVE  InfoInv'
<1>1. \A r : (RefTrue(r)' <=> RefTrue(r)) /\ (RowTraced(r)' <=> RowTraced(r))
  BY DEF RefTrue, RowTraced, history
<1>2. CASE InfoRow
  <2>1. /\ query.album = NoName /\ query'.album = query.album /\ query'.op = "info"
        /\ \/ /\ query'.rv = "running" /\ query'.next = "album"
              /\ query'.row \in RowsAt(query.id)
           \/ query'.rv = "FAILURE"
    BY <1>2, InfoRowDoes DEF InfoInv
  <2>2. CASE query'.rv = "FAILURE"
    BY <2>2 DEF InfoInv
  <2>3. CASE /\ query'.rv = "running" /\ query'.next = "album"
             /\ query'.row \in RowsAt(query.id)
    <3>1. PICK t : t = query'.row
      OBVIOUS
    <3>2. t \in live.titles
      BY <1>2, <2>3, <3>1, InfoRowDoes DEF RowsAt, Shape
    <3>3. scan.pc # "down" /\ t \in TitleRow
      BY <3>2, TitlesMeanUp, LiveRows DEF ScanInv
    <3>4. RefTrue(t) /\ RowTraced(t)
      BY <3>2, <3>3 DEF LifeInv, Steadfast, RefsInv, ScanInv, SlipInv, Traced, RowTraced
    <3>5. RefTrue(t)' /\ RowTraced(t)'
      BY <1>1, <3>4
    <3>6. RefTrue(query.row)' /\ RowTraced(query.row)'
      BY <3>1, <3>5 DEF RefTrue, RowTraced
    <3>. QED  BY <2>1, <2>3, <3>1, <3>3, <3>6 DEF InfoInv
  <2>. QED  BY <2>1, <2>2, <2>3
<1>3. CASE InfoAlbum
  <2>1. /\ query'.op = "info" /\ query'.rv = "running" /\ query'.next = "artist"
        /\ query'.row = query.row
        /\ \/ query'.album = query.album
           \/ \E x \in live.albums : x.id = query.row.album /\ query'.album = x.name
        /\ query.op = "info" /\ query.rv = "running" /\ query.next = "album"
    BY <1>3, InfoAlbumDoes
  <2>2. /\ query.album = NoName /\ scan.pc # "down" /\ query.row \in TitleRow
        /\ RefTrue(query.row) /\ RowTraced(query.row)
    BY <2>1 DEF InfoInv
  <2>3. query'.album \in {NoName, TagAlbum(query'.row.tags)}
    BY <2>1, <2>2 DEF RefTrue
  <2>4. RefTrue(query.row)' /\ RowTraced(query.row)'
    BY <2>1, <2>2 DEF RefTrue, RowTraced, history
  <2>. QED  BY <2>1, <2>2, <2>3, <2>4 DEF InfoInv
<1>4. CASE InfoArtist
  <2>1. /\ query.op = "info" /\ query.rv = "running" /\ query.next = "artist"
        /\ query'.op = "info" /\ query'.rv # "running"
        /\ query'.row = query.row /\ query'.album = query.album
        /\ query'.rv = "SUCCESS" =>
             /\ query.album # NoName
             /\ \E x \in live.artists : x.id = query.row.artist /\ query'.artist = x.name
    BY <1>4, InfoArtistDoes
  <2>2. /\ RefTrue(query.row) /\ RowTraced(query.row)
        /\ query.album \in {NoName, TagAlbum(query.row.tags)}
    BY <2>1 DEF InfoInv
  <2>3. query'.rv = "SUCCESS" => query'.artist = TagArtist(query'.row.tags)
    BY <2>1, <2>2 DEF RefTrue
  <2>4. query'.rv = "SUCCESS" => query'.album = TagAlbum(query'.row.tags)
    BY <2>1, <2>2
  <2>5. RowTraced(query.row)'
    BY <2>1, <2>2 DEF RowTraced, history
  <2>. QED  BY <2>1, <2>3, <2>4, <2>5 DEF InfoInv
<1>. QED  BY <1>2, <1>3, <1>4

LEMMA InfoScan ==
  ASSUME ScanInv, ScanInv', query \in Query, InfoInv, OneLife',
         ScanStep \/ UNCHANGED qvars
  PROVE  InfoInv'
<1>1. TypeInv /\ TypeInv' /\ WalkInv
  BY DEF ScanInv
<1>2. /\ [Next]_vars
      /\ query'.op = query.op /\ query'.next = query.next /\ query'.rv = query.rv
      /\ query'.row = query.row /\ query'.album = query.album /\ query'.artist = query.artist
  BY ScanKeeps
<1>3. OneLife /\ ~(\E machine \in BOOLEAN : Crash(machine))
  BY <1>1, <1>2, FirstLifeStep
<1>0. RowTraced(query.row) => RowTraced(query.row)'
  BY <1>1, <1>2, SlippedGrows DEF RowTraced
<1>4. CASE /\ query.op = "info" /\ query.rv = "running" /\ query.next \in {"album", "artist"}
  <2>1. /\ Onward /\ RefTrue(query.row) /\ RowTraced(query.row) /\ query.row \in TitleRow
        /\ query.next = "artist" => query.album \in {NoName, TagAlbum(query.row.tags)}
        /\ query.next = "album" => query.album = NoName
    BY <1>2, <1>3, <1>4 DEF InfoInv, Onward
  <2>2. PICK r : r = query.row
    OBVIOUS
  <2>3. r \in TitleRow /\ RefTrue(r)
    BY <2>1, <2>2
  <2>4. r.artist \in Int /\ r.album \in Int
    BY <2>3 DEF TitleRow, Id, FAILURE
  <2>5. RefTrue(r)' /\ scan'.pc # "down"
    BY <1>1, <2>1, <2>3, <2>4, RefTrueNext, WritesWithin
  <2>6. RefTrue(query.row)'
    BY <1>2, <2>2, <2>5 DEF RefTrue
  <2>. QED  BY <1>0, <1>2, <1>4, <2>1, <2>5, <2>6 DEF InfoInv
<1>5. CASE ~(query.op = "info" /\ query.rv = "running" /\ query.next \in {"album", "artist"})
  BY <1>0, <1>2, <1>3, <1>5 DEF InfoInv
<1>. QED  BY <1>4, <1>5

LEMMA InfoNext ==
  ASSUME ScanInv, ScanInv', LifeInv, query \in Query, Shape, InfoInv, QueryNext
  PROVE  InfoInv'
<1>. SUFFICES ASSUME OneLife' PROVE InfoInv'
  BY DEF InfoInv
<1>0. TypeInv
  BY DEF ScanInv
<1>1. CASE Request
  <2>1. PICK op \in {"path", "info", "folder"}, id \in Asked :
          (op = "folder" <=> ~IsTitleId(id)) /\ Ask(op, id)
    BY <1>1, RequestDoes
  <2>2. id \in Nat /\ (op = "info" => id \notin {MinArtistId, MinPathId})
    BY <2>1, QueryOK, TitleIdsLow
  <2>3. /\ query'.op = op /\ query'.rv = "running" /\ query'.album = NoName
        /\ query'.next = IF id \in {MinArtistId, MinPathId} THEN "folders" ELSE "row"
    BY <2>1, AskDoes
  <2>. QED  BY <2>2, <2>3 DEF InfoInv
<1>2. CASE QueryStep /\ ~Request
  <2>1. /\ UNCHANGED <<scan, live, db, history>> /\ OneLife
        /\ query'.op = query.op
    BY <1>0, <1>2, ReadsOnly, AskedStays, OneLifeAsked
  <2>2. CASE query.op = "info"
    <3>1. InfoRow \/ InfoAlbum \/ InfoArtist
      BY <1>2, <2>2 DEF QueryStep, PathStep, PathLost, FolderRow, FolderFolders, FolderTitles
    <3>. QED  BY <2>1, <3>1, InfoStep
  <2>3. CASE query.op # "info"
    BY <2>1, <2>3 DEF InfoInv
  <2>. QED  BY <2>2, <2>3
<1>3. CASE ScanStep \/ UNCHANGED qvars
  BY <1>3, InfoScan
<1>. QED  BY <1>1, <1>2, <1>3 DEF QueryNext

-----------------------------------------------------------------------------
(***************************************************************************)
(* What the SELECTs of mps_library_hierarchy_get list.                     *)
(***************************************************************************)
\* What an answered folder has to show of title t.
Shown(t) ==
  /\ query.id \in {t.parent, t.album} /\ t.name \in Mp3 => t.id \in query.elements
  /\ query.id = MinArtistId /\ t.artist \in Ids(live.artists) => t.artist \in query.elements
  /\ query.id = t.artist /\ t.album \in Ids(live.albums) => t.album \in query.elements

FolderInv ==
  OneLife /\ RangesLast /\ query.op = "folder" /\ ~query.missed
    /\ query.rv = "SUCCESS" => \A t \in query.kept : Shown(t)

LEMMA FolderRowDoes ==
  ASSUME query \in Query, FolderRow
  PROVE  query'.rv # "SUCCESS"
<1>1. query.rv = "running"
  BY DEF FolderRow, Selecting
<1>2. CASE query' = [query EXCEPT !.next = "folders"]
  BY <1>1, <1>2 DEF Query
<1>3. CASE query' = [query EXCEPT !.rv = "FAILURE"]
  BY <1>1, <1>3 DEF Query
<1>4. CASE query' = [query EXCEPT !.rv = "FAILURE", !.missed = TRUE]
  BY <1>1, <1>4 DEF Query
<1>. QED  BY <1>2, <1>3, <1>4 DEF FolderRow

LEMMA FolderFoldersDoes ==
  ASSUME query \in Query, FolderFolders, query'.rv = "SUCCESS", ~query'.missed
  PROVE  ~IsPathId(query.id) /\ query'.elements = Listed(query.id)
<1>1. query.rv = "running"
  BY DEF FolderFolders, Selecting
<1>2. PICK listed : listed = Listed(query.id)
  OBVIOUS
<1>3. CASE query' = [Further EXCEPT !.elements = listed]
  <2>1. CASE IsPathId(query.id)
    BY <1>1, <1>3, <2>1 DEF Further, Query
  <2>2. CASE ~IsPathId(query.id)
    BY <1>1, <1>2, <1>3, <2>2 DEF Further, Query
  <2>. QED  BY <2>1, <2>2
<1>4. CASE query' = [query EXCEPT !.rv = "FAILURE", !.missed = TRUE]
  BY <1>4 DEF Query
<1>5. CASE query' = [Further EXCEPT !.missed = TRUE]
  BY <1>5 DEF Further, Query
<1>. QED  BY <1>2, <1>3, <1>4, <1>5 DEF FolderFolders

LEMMA FolderTitlesDoes ==
  ASSUME query \in Query, FolderTitles, query'.rv = "SUCCESS", ~query'.missed
  PROVE  /\ query.op = "folder" /\ query.rv = "running" /\ query.next = "titles"
         /\ Mp3Ids({t \in live.titles : t.parent = query.id}) \subseteq query'.elements
<1>1. query.op = "folder" /\ query.rv = "running" /\ query.next = "titles"
  BY DEF FolderTitles, Selecting
<1>2. PICK more : more = Mp3Ids({t \in live.titles : t.parent = query.id})
  OBVIOUS
<1>3. CASE query' = [query EXCEPT !.rv = "SUCCESS", !.elements = @ \cup more]
  BY <1>1, <1>2, <1>3 DEF Query
<1>4. CASE query' = [query EXCEPT !.rv = "FAILURE", !.missed = TRUE]
  BY <1>4 DEF Query
<1>5. CASE query' = [query EXCEPT !.rv = "SUCCESS", !.missed = TRUE]
  BY <1>5 DEF Query
<1>. QED  BY <1>2, <1>3, <1>4, <1>5 DEF FolderTitles

\* A title that stayed is there as it was, but for the number of the scan.
LEMMA KeptRow ==
  ASSUME TypeInv, query \in Query, query.op = "folder", KeptLive, NEW t \in query.kept
  PROVE  \E u \in live.titles : /\ u.id = t.id /\ u.parent = t.parent /\ u.name = t.name
                                /\ u.album = t.album /\ u.artist = t.artist
<1>1. PICK u \in live.titles : [u EXCEPT !.version = 0] = [t EXCEPT !.version = 0]
  BY DEF KeptLive, Fixed
<1>2. u \in TitleRow /\ t \in TitleRow
  BY LiveRows DEF Query
<1>3. ASSUME NEW r \in TitleRow
      PROVE  /\ [r EXCEPT !.version = 0].id = r.id /\ [r EXCEPT !.version = 0].parent = r.parent
             /\ [r EXCEPT !.version = 0].name = r.name
             /\ [r EXCEPT !.version = 0].album = r.album
             /\ [r EXCEPT !.version = 0].artist = r.artist
  BY DEF TitleRow
<1>4. PICK v, w : v = [u EXCEPT !.version = 0] /\ w = [t EXCEPT !.version = 0]
  OBVIOUS
<1>5. v = w
  BY <1>1, <1>4
<1>6. /\ v.id = u.id /\ v.parent = u.parent /\ v.name = u.name
      /\ v.album = u.album /\ v.artist = u.artist
      /\ w.id = t.id /\ w.parent = t.parent /\ w.name = t.name
      /\ w.album = t.album /\ w.artist = t.artist
  BY <1>2, <1>3, <1>4
<1>. QED  BY <1>5, <1>6

\* The ids of a title that stayed, each in its range.
LEMMA KeptIds ==
  ASSUME TypeInv, Steadfast, RangesLast, NEW t \in live.titles
  PROVE  /\ t.id \in Nat /\ t.parent \in Nat /\ t.artist \in Int /\ t.album \in Int
         /\ t.parent >= MinPathId
         /\ t.artist < 1 \/ t.artist > MinArtistId
         /\ t.album < 1 \/ t.album > MinAlbumId
         /\ t.artist < MinAlbumId /\ t.album < MinPathId
         /\ MinArtistId \in Nat \ {0} /\ MinAlbumId \in Nat /\ MinPathId \in Nat
         /\ MinArtistId < MinAlbumId /\ MinAlbumId < MinPathId
<1>1. /\ t.id \in Nat /\ t.parent \in Nat /\ t.artist \in Int /\ t.album \in Int
  BY LiveRows, LiveRefs DEF TitleRow
<1>2. t.parent >= MinPathId /\ Given(MinArtistId, t.artist) /\ Given(MinAlbumId, t.album)
  BY DEF Steadfast, Ranged
<1>3. /\ t.artist <= scan.highest.artists /\ t.album <= scan.highest.albums
  BY DEF Steadfast, RefsInv, RefTrue
<1>4. scan.highest.artists \in Nat /\ scan.highest.albums \in Nat
  BY IdNumbers
<1>5. /\ MinArtistId \in Nat \ {0} /\ MinAlbumId \in Nat /\ MinPathId \in Nat
      /\ MinArtistId < MinAlbumId /\ MinAlbumId < MinPathId
  BY IdRanges
<1>6. t.artist < MinAlbumId /\ t.album < MinPathId
  BY <1>1, <1>3, <1>4, <1>5 DEF RangesLast
<1>. QED  BY <1>1, <1>2, <1>5, <1>6 DEF Given

\* What one SELECT lists of the artists, of an artist or of an album is all there is.
LEMMA ListComplete ==
  ASSUME TypeInv, Steadfast, Agree(live), RangesLast, NEW id \in Nat,
         ~IsTitleId(id), ~IsPathId(id), NEW t \in live.titles
  PROVE  /\ id \in {t.parent, t.album} /\ t.name \in Mp3 => t.id \in Listed(id)
         /\ id = MinArtistId /\ t.artist \in Ids(live.artists) => t.artist \in Listed(id)
         /\ id = t.artist /\ t.album \in Ids(live.albums) => t.album \in Listed(id)
<1>1. /\ t.parent \in Nat /\ t.artist \in Int /\ t.album \in Int
      /\ t.parent >= MinPathId
      /\ t.artist < 1 \/ t.artist > MinArtistId
      /\ t.album < 1 \/ t.album > MinAlbumId
      /\ t.artist < MinAlbumId
      /\ MinArtistId \in Nat \ {0} /\ MinAlbumId \in Nat /\ MinPathId \in Nat
      /\ MinArtistId < MinAlbumId /\ MinAlbumId < MinPathId
  BY KeptIds
<1>2. id >= MinArtistId /\ id < MinPathId /\ id # t.parent
  BY <1>1 DEF IsTitleId, IsPathId
<1>3. CASE id = MinArtistId
  BY <1>1, <1>2, <1>3 DEF Listed
<1>4. CASE id # MinArtistId /\ IsArtistId(id)
  <2>1. id # t.album
    BY <1>1, <1>2, <1>4 DEF IsArtistId
  <2>2. ASSUME id = t.artist, t.album \in Ids(live.albums) PROVE t.album \in Listed(id)
    <3>1. PICK x \in live.albums : x.id = t.album
      BY <2>2 DEF Ids
    <3>2. x.artist = id
      BY <2>2, <3>1 DEF Agree
    <3>. QED  BY <1>4, <3>1, <3>2 DEF Listed, Ids
  <2>. QED  BY <1>2, <1>4, <2>1, <2>2
<1>5. CASE id # MinArtistId /\ ~IsArtistId(id)
  <2>1. id # t.artist
    BY <1>1, <1>2, <1>5 DEF IsArtistId
  <2>2. Listed(id) = Mp3Ids({u \in live.titles : u.album = id})
    BY <1>5 DEF Listed
  <2>. QED  BY <1>2, <1>5, <2>1, <2>2 DEF Mp3Ids
<1>. QED  BY <1>3, <1>4, <1>5

LEMMA FolderStep ==
  ASSUME ScanInv, LifeInv, query \in Query, Shape, KeptLive, OneLife,
         FolderRow \/ FolderFolders \/ FolderTitles,
         UNCHANGED <<scan, live>>, query'.op = query.op, query'.id = query.id,
         query'.kept = query.kept
  PROVE  FolderInv'
<1>. SUFFICES ASSUME RangesLast, ~query'.missed, query'.rv = "SUCCESS", NEW t \in query.kept
              PROVE  Shown(t)'
  BY DEF FolderInv, RangesLast
<1>1. query.op = "folder" /\ TypeInv /\ TagInv
  BY DEF FolderRow, FolderFolders, FolderTitles, ScanInv
<1>2. PICK u \in live.titles : /\ u.id = t.id /\ u.parent = t.parent /\ u.name = t.name
                                /\ u.album = t.album /\ u.artist = t.artist
  BY <1>1, KeptRow
<1>3. Steadfast /\ Agree(live)
  BY <1>1, <1>2, TitlesMeanUp DEF LifeInv, TagInv, OneLife
<1>4. query.id \in Nat /\ ~IsTitleId(query.id)
  BY <1>1 DEF Shape, Query
<1>5. CASE FolderFolders
  <2>1. ~IsPathId(query.id) /\ query'.elements = Listed(query.id)
    BY <1>5, FolderFoldersDoes
  <2>2. PICK id : id = query.id
    OBVIOUS
  <2>3. /\ id \in {u.parent, u.album} /\ u.name \in Mp3 => u.id \in Listed(id)
        /\ id = MinArtistId /\ u.artist \in Ids(live.artists) => u.artist \in Listed(id)
        /\ id = u.artist /\ u.album \in Ids(live.albums) => u.album \in Listed(id)
    BY <1>1, <1>3, <1>4, <2>1, <2>2, ListComplete
  <2>. QED  BY <1>2, <2>1, <2>2, <2>3 DEF Shown
<1>6. CASE FolderTitles
  <2>1. /\ query.rv = "running" /\ query.next = "titles"
        /\ Mp3Ids({r \in live.titles : r.parent = query.id}) \subseteq query'.elements
    BY <1>6, FolderTitlesDoes
  <2>2. query.id >= MinPathId
    BY <1>1, <2>1 DEF Shape, IsPathId
  <2>3. query.id # MinArtistId /\ query.id # u.artist /\ query.id # u.album
    BY <1>1, <1>3, <1>4, <2>2, KeptIds
  <2>4. u.parent = query.id /\ u.name \in Mp3 => u.id \in query'.elements
    BY <2>1 DEF Mp3Ids
  <2>. QED  BY <1>2, <2>3, <2>4 DEF Shown
<1>7. ~FolderRow
  BY FolderRowDoes
<1>. QED  BY <1>5, <1>6, <1>7

\* An answer stays right: what it misses has gone, and does not come back.
LEMMA FolderScan ==
  ASSUME ScanInv, ScanInv', LifeInv, query \in Query, KeptLive, FolderInv, OneLife',
         ScanStep \/ UNCHANGED qvars
  PROVE  FolderInv'
<1>1. TypeInv /\ TypeInv' /\ WalkInv /\ TagInv
  BY DEF ScanInv
<1>2. /\ [Next]_vars
      /\ query'.op = query.op /\ query'.rv = query.rv /\ query'.id = query.id
      /\ query'.elements = query.elements /\ query'.missed = query.missed
      /\ query'.kept \subseteq query.kept
  BY ScanKeeps
<1>3. OneLife /\ ~(\E machine \in BOOLEAN : Crash(machine))
  BY <1>1, <1>2, FirstLifeStep
<1>. SUFFICES ASSUME RangesLast', query.op = "folder", ~query.missed, query.rv = "SUCCESS",
                     NEW t \in query.kept
              PROVE  Shown(t)'
  BY <1>2 DEF FolderInv
<1>4. PICK u \in live.titles : /\ u.id = t.id /\ u.parent = t.parent /\ u.name = t.name
                                /\ u.album = t.album /\ u.artist = t.artist
  BY <1>1, KeptRow
<1>5. Onward /\ Steadfast
  BY <1>1, <1>2, <1>3, <1>4, TitlesMeanUp DEF LifeInv, Onward
<1>6. /\ scan.highest.artists \in Nat /\ scan.highest.albums \in Nat
      /\ scan'.highest.artists \in Nat /\ scan'.highest.albums \in Nat
      /\ MinAlbumId \in Nat /\ MinPathId \in Nat
  BY <1>1, IdRanges DEF TypeInv, TypeOK, Scanner
<1>7. RangesLast
  BY <1>1, <1>5, <1>6, IdsGrow DEF RangesLast
<1>8. Shown(t)
  BY <1>3, <1>7 DEF FolderInv
<1>9. /\ t.artist # scan.highest.artists + 1 /\ t.album # scan.highest.albums + 1
      /\ NoReturn(u)
  BY <1>1, <1>4, <1>5, <1>6, LiveRefs DEF Steadfast, RefsInv, RefTrue
<1>10. /\ t.artist \in Ids(live'.artists) => t.artist \in Ids(live.artists)
       /\ t.album \in Ids(live'.albums) => t.album \in Ids(live.albums)
  <2>1. /\ t.artist \in Ids(db'.artists) => t.artist \in Ids(db.artists)
        /\ t.album \in Ids(db'.albums) => t.album \in Ids(db.albums)
    BY <1>1, <1>5, <1>9, IdsGrow DEF Ids
  <2>. QED  BY <1>1, <1>4, <1>5, <1>9, <2>1, LiveIs DEF NoReturn
<1>. QED  BY <1>2, <1>8, <1>10 DEF Shown

LEMMA FolderNext ==
  ASSUME ScanInv, ScanInv', LifeInv, query \in Query, Shape, KeptLive, FolderInv, QueryNext
  PROVE  FolderInv'
<1>. SUFFICES ASSUME OneLife' PROVE FolderInv'
  BY DEF FolderInv
<1>0. TypeInv
  BY DEF ScanInv
<1>1. CASE Request
  <2>1. query'.rv = "running"
    BY <1>1, RequestDoes, AskDoes
  <2>. QED  BY <2>1 DEF FolderInv
<1>2. CASE QueryStep /\ ~Request
  <2>1. /\ UNCHANGED <<scan, live>> /\ OneLife
        /\ query'.op = query.op /\ query'.id = query.id /\ query'.kept = query.kept
    BY <1>0, <1>2, ReadsOnly, AskedStays, OneLifeAsked
  <2>2. CASE query.op = "folder"
    <3>1. FolderRow \/ FolderFolders \/ FolderTitles
      BY <1>2, <2>2 DEF QueryStep, PathStep, PathLost, InfoRow, InfoAlbum, InfoArtist
    <3>. QED  BY <2>1, <3>1, FolderStep
  <2>3. CASE query.op # "folder"
    BY <2>1, <2>3 DEF FolderInv
  <2>. QED  BY <2>2, <2>3
<1>3. CASE ScanStep \/ UNCHANGED qvars
  BY <1>3, FolderScan
<1>. QED  BY <1>1, <1>2, <1>3 DEF QueryNext

-----------------------------------------------------------------------------
(***************************************************************************)
(* The walk of get_file_path_from_id from a title up to the root.          *)
(***************************************************************************)
\* at is met on the way up from t: it belongs to each set of ids that contains the folder of t
\* and, with a folder, the folder that one lies in.
Above(at, t) ==
  \A S \in SUBSET Nat :
    t.parent \in S /\ (\A p \in live.paths : p.id \in S => p.parent \in S) => at \in S

Joined(names) == \A i \in 2..Len(names) : In[names[i]] = names[i - 1]

\* What was put together so far leads from a folder on the way down to t.
OnWay(t) ==
  IF query.names = <<>> THEN query.at = query.id
  ELSE /\ query.at > MinPathId /\ Above(query.at, t)
       /\ query.names[Len(query.names)] = t.name /\ Joined(query.names)
       /\ \A p \in live.paths : p.id = query.at => p.name = In[query.names[1]]

Found(t) ==
  query.rv = "SUCCESS" /\ IsPath(query.names) /\ query.names[Len(query.names)] = t.name

PathsInv ==
  OneLife /\ query.op = "path" /\ ~query.missed =>
    \A t \in query.kept : t.id = query.id =>
      IF query.rv = "running" THEN OnWay(t) ELSE Found(t)

\* A name is put before a path.
LEMMA PathGrows ==
  ASSUME NEW name \in Names, NEW names \in Seq(Names), Joined(names),
         names # <<>> => In[names[1]] = name
  PROVE  LET longer == <<name>> \o names
         IN  /\ longer # <<>> /\ longer[1] = name /\ Joined(longer)
             /\ longer[Len(longer)] = (IF names = <<>> THEN name ELSE names[Len(names)])
             /\ In[name] = Root => IsPath(longer)
<1>. DEFINE longer == <<name>> \o names
<1>1. /\ longer \in Seq(Names) /\ Len(longer) = Len(names) + 1 /\ Len(names) \in Nat
      /\ longer[1] = name /\ \A i \in 1..Len(names) : longer[i + 1] = names[i]
      /\ DOMAIN longer = 1..Len(longer)
      /\ names # <<>> => Len(names) >= 1
  OBVIOUS
<1>2. longer # <<>>
  BY <1>1
<1>. HIDE DEF longer
<1>3. ASSUME NEW i \in 2..Len(longer) PROVE In[longer[i]] = longer[i - 1]
  <2>1. i - 1 \in 1..Len(names) /\ longer[i] = names[i - 1] /\ names # <<>>
    <3>1. i - 1 \in 1..Len(names) /\ (i - 1) + 1 = i
      BY <1>1
    <3>. QED  BY <1>1, <3>1
  <2>2. CASE i = 2
    BY <1>1, <2>1, <2>2
  <2>3. CASE i # 2
    <3>1. i - 1 \in 2..Len(names) /\ i - 2 \in 1..Len(names) /\ (i - 2) + 1 = i - 1
      BY <1>1, <2>1, <2>3
    <3>2. In[names[i - 1]] = names[(i - 1) - 1] /\ longer[i - 1] = names[i - 2]
      BY <1>1, <3>1 DEF Joined
    <3>. QED  BY <2>1, <3>1, <3>2
  <2>. QED  BY <2>2, <2>3
<1>4. longer[Len(longer)] = (IF names = <<>> THEN name ELSE names[Len(names)])
  <2>1. CASE names = <<>>
    BY <1>1, <2>1
  <2>2. CASE names # <<>>
    BY <1>1, <2>2
  <2>. QED  BY <2>1, <2>2
<1>5. In[name] = Root => IsPath(longer)
  BY <1>1, <1>3 DEF IsPath
<1>. QED  BY <1>1, <1>2, <1>3, <1>4, <1>5 DEF Joined, longer

\* The title that stayed is there, with its id, folder and name.
LEMMA KeptPlace ==
  ASSUME query \in Query, query.op = "path", KeptLive, NEW t \in query.kept
  PROVE  \E u \in live.titles : u.id = t.id /\ u.parent = t.parent /\ u.name = t.name
BY DEF KeptLive, Fixed

\* The way up never leaves the folders readers see, but for the root.
LEMMA AboveIsThere ==
  ASSUME TypeInv, Parented(live), NEW t \in live.titles, NEW at, Above(at, t)
  PROVE  at \in Ids(live.paths) \cup {MinPathId}
<1>. DEFINE S == Ids(live.paths) \cup {MinPathId}
<1>1. S \in SUBSET Nat
  BY LiveRows, IdRanges DEF PathRow, Ids
<1>2. \A r \in live.titles \cup live.paths : r.parent \in S
  BY DEF Parented, Ids
<1>. QED  BY <1>1, <1>2 DEF Above

LEMMA PathStepDoes ==
  ASSUME query \in Query, PathStep
  PROVE  \E r \in RowsAt(query.at) :
           /\ query.op = "path" /\ query.rv = "running"
           /\ query'.op = "path" /\ query'.id = query.id /\ query'.kept = query.kept
           /\ query'.missed = query.missed
           /\ query'.names = <<r.name>> \o query.names /\ query'.at = r.parent
           /\ query'.rv = Climbs(r.parent)
<1>1. PICK r \in RowsAt(query.at) :
        query' = [query EXCEPT !.names = <<r.name>> \o @, !.at = r.parent,
                               !.rv = Climbs(r.parent)]
  BY DEF PathStep
<1>2. query.op = "path" /\ query.rv = "running"
  BY DEF PathStep, Selecting
<1>3. PICK names, rv : /\ names = <<r.name>> \o query.names
                       /\ rv = Climbs(r.parent)
  OBVIOUS
<1>4. query' = [query EXCEPT !.names = names, !.at = r.parent, !.rv = rv]
  BY <1>1, <1>2, <1>3 DEF Query
<1>. QED  BY <1>2, <1>3, <1>4 DEF Query

LEMMA PathLostDoes ==
  ASSUME query \in Query, PathLost
  PROVE  /\ query.op = "path" /\ query.rv = "running"
         /\ query'.missed \/ RowsAt(query.at) = {}
<1>1. CASE \E rv : query' = [query EXCEPT !.rv = rv, !.missed = TRUE]
  BY <1>1 DEF Query, PathLost, Selecting
<1>2. CASE RowsAt(query.at) = {}
  BY <1>2 DEF PathLost, Selecting
<1>. QED  BY <1>1, <1>2 DEF PathLost

\* A title that stayed always has the next row, with the name that belongs there.
LEMMA RowOnWay ==
  ASSUME ScanInv, Steadfast, ~ahead, query \in Query, Shape, KeptLive, query.op = "path",
         NEW t \in query.kept, t.id = query.id, OnWay(t)
  PROVE  /\ RowsAt(query.at) # {}
         /\ \A r \in RowsAt(query.at) :
              /\ r \in live.titles \cup live.paths
              /\ IF query.names = <<>> THEN r.name = t.name /\ r.parent = t.parent
                 ELSE /\ r \in live.paths /\ r.id = query.at
                      /\ r.name = In[query.names[1]]
<1>1. TypeInv /\ Parented(live)
  BY DEF ScanInv, PathInv
<1>2. PICK u \in live.titles : u.id = t.id /\ u.parent = t.parent /\ u.name = t.name
  BY KeptPlace
<1>3. CASE query.names = <<>>
  <2>1. query.at = query.id /\ IsTitleId(query.at)
    BY <1>3 DEF OnWay, Shape
  <2>2. RowsAt(query.at) = {r \in live.titles : r.id = u.id}
    BY <1>2, <2>1 DEF RowsAt
  <2>3. \A r \in live.titles : r.id = u.id => SameTitle(r, u)
    BY DEF Steadfast, OneTitle
  <2>. QED  BY <1>2, <1>3, <2>2, <2>3 DEF SameTitle
<1>4. CASE query.names # <<>>
  <2>1. /\ query.at > MinPathId /\ Above(query.at, t)
        /\ \A p \in live.paths : p.id = query.at => p.name = In[query.names[1]]
    BY <1>4 DEF OnWay
  <2>2. Above(query.at, u)
    BY <1>2, <2>1 DEF Above
  <2>3. query.at \in Nat /\ MinPathId \in Nat /\ MinArtistId \in Nat /\ MinArtistId < MinPathId
    BY IdRanges DEF Query
  <2>4. query.at \in Ids(live.paths)
    BY <1>1, <2>1, <2>2, <2>3, AboveIsThere
  <2>5. RowsAt(query.at) = {p \in live.paths : p.id = query.at}
    BY <2>1, <2>3 DEF RowsAt, IsTitleId
  <2>. QED  BY <1>4, <2>1, <2>4, <2>5 DEF Ids
<1>. QED  BY <1>3, <1>4

LEMMA PathTaken ==
  ASSUME ScanInv, LifeInv, query \in Query, Shape, KeptLive, PathsInv, OneLife,
         PathStep \/ PathLost, UNCHANGED <<scan, live>>, query'.op = query.op,
         query'.id = query.id, query'.kept = query.kept
  PROVE  PathsInv'
<1>. SUFFICES ASSUME ~query'.missed, NEW t \in query.kept, t.id = query.id
              PROVE  IF query'.rv = "running" THEN OnWay(t)' ELSE Found(t)'
  BY DEF PathsInv
<1>1. query.op = "path" /\ query.rv = "running" /\ ~query.missed
  BY DEF PathStep, PathLost, Selecting, Shape
<1>2. OnWay(t)
  BY <1>1 DEF PathsInv
<1>3. TypeInv /\ Steadfast /\ ~ahead
  BY <1>1, KeptPlace, TitlesMeanUp DEF LifeInv, ScanInv
<1>4. /\ RowsAt(query.at) # {}
      /\ \A r \in RowsAt(query.at) :
           /\ r \in live.titles \cup live.paths
           /\ IF query.names = <<>> THEN r.name = t.name /\ r.parent = t.parent
              ELSE /\ r \in live.paths /\ r.id = query.at
                   /\ r.name = In[query.names[1]]
  BY <1>1, <1>2, <1>3, RowOnWay
<1>5. PathStep
  BY <1>4, PathLostDoes
<1>6. PICK r \in RowsAt(query.at) :
        /\ query'.names = <<r.name>> \o query.names /\ query'.at = r.parent
        /\ query'.rv = Climbs(r.parent)
  BY <1>5, PathStepDoes
<1>7. /\ r \in live.titles \cup live.paths
      /\ query.names = <<>> => r.name = t.name /\ r.parent = t.parent
      /\ query.names # <<>> => /\ r \in live.paths /\ r.id = query.at
                               /\ In[query.names[1]] = r.name
  BY <1>4, <1>6
<1>8. /\ r.name \in Names /\ r.parent \in Nat /\ MinPathId \in Nat /\ r.parent >= MinPathId
      /\ query.names \in Seq(Names)
  BY <1>3, <1>7, LiveRows, IdRanges DEF TitleRow, PathRow, Steadfast, Ranged, Query
<1>9. query.names # <<>> =>
        Joined(query.names) /\ query.names[Len(query.names)] = t.name /\ Above(query.at, t)
  BY <1>2 DEF OnWay
<1>10. /\ query'.names # <<>> /\ query'.names[1] = r.name /\ Joined(query'.names)
       /\ query'.names[Len(query'.names)] =
            (IF query.names = <<>> THEN r.name ELSE query.names[Len(query.names)])
       /\ In[r.name] = Root => IsPath(query'.names)
  <2>1. Joined(<<>>)
    BY DEF Joined
  <2>2. PICK names : names = query.names
    OBVIOUS
  <2>3. Joined(names) /\ names \in Seq(Names) /\ (names # <<>> => In[names[1]] = r.name)
    BY <1>7, <1>8, <1>9, <2>1, <2>2
  <2>. QED  BY <1>6, <1>8, <2>2, <2>3, PathGrows
<1>11. query'.names[Len(query'.names)] = t.name
  BY <1>7, <1>9, <1>10
<1>12. CASE r.parent = MinPathId
  <2>1. In[r.name] = Root
    BY <1>3, <1>7, <1>12 DEF Steadfast, InPlace
  <2>2. query'.rv = "SUCCESS"
    BY <1>6, <1>12 DEF Climbs
  <2>. QED  BY <1>10, <1>11, <2>1, <2>2 DEF Found, IsPath
<1>13. CASE r.parent # MinPathId
  <2>1. query'.rv = "running" /\ r.parent > MinPathId
    BY <1>6, <1>8, <1>13 DEF Climbs, IsPathId
  <2>2. Above(r.parent, t)
    BY <1>7, <1>9 DEF Above
  <2>3. Above(r.parent, t)'
    BY <2>2 DEF Above
  <2>4. \A p \in live.paths : p.id = r.parent => p.name = In[r.name]
    BY <1>3, <1>7 DEF Steadfast, InPlace
  <2>5. \A p \in live'.paths : p.id = query'.at => p.name = In[query'.names[1]]
    BY <1>6, <1>10, <2>4
  <2>6. Above(query.at, t)'
    BY <1>6, <2>3 DEF Above
  <2>7. Joined(query.names)'
    BY <1>10 DEF Joined
  <2>. QED  BY <1>6, <1>10, <1>11, <2>1, <2>5, <2>6, <2>7 DEF OnWay
<1>. QED  BY <1>12, <1>13

\* A folder that readers still see is the one they saw.
LEMMA FoldersStay ==
  ASSUME TypeInv, WalkInv, IdsInv, blind = {}, FoldersAlike, Onward,
         NEW p \in live.paths, NEW q \in live'.paths, p.id = q.id
  PROVE  SamePath(p, q)
<1>1. CASE q \in live.paths
  BY <1>1 DEF FoldersAlike
<1>2. CASE q \in db'.paths
  <2>1. PICK row : \/ \E o \in db.paths : SamePath(o, q)
                   \/ q = row /\ row.id = scan.highest.paths + 1
    BY <1>2, FoldersGrow
  <2>2. p.id \in Nat /\ scan.highest.paths \in Nat /\ p.id <= scan.highest.paths
    BY FolderIds, IdNumbers DEF Onward
  <2>3. PICK o \in db.paths : SamePath(o, q)
    BY <2>1, <2>2
  <2>4. SamePath(p, o)
    BY <2>3 DEF FoldersAlike, SamePath
  <2>. QED  BY <2>3, <2>4 DEF SamePath
<1>. QED  BY <1>1, <1>2, LiveIs

\* What lies above a title that stays lies above it still.
LEMMA AboveStays ==
  ASSUME TypeInv, TypeInv', WalkInv, IdsInv, blind = {}, Steadfast, Parented(live)', Onward,
         NEW t, NEW u \in live'.titles, u.parent = t.parent, NEW at, Above(at, t)
  PROVE  Above(at, t)'
<1>. SUFFICES ASSUME NEW S \in SUBSET Nat, t.parent \in S,
                     \A p \in live'.paths : p.id \in S => p.parent \in S
              PROVE  at \in S
  BY DEF Above
<1>. DEFINE There == Ids(live'.paths) \cup {MinPathId}
<1>1. \A r \in live'.titles \cup live'.paths : r.parent \in There
  BY DEF Parented, Ids
<1>2. t.parent \in S \cap There /\ S \cap There \in SUBSET Nat
  BY <1>1
<1>3. ASSUME NEW p \in live.paths, p.id \in S \cap There
      PROVE  p.parent \in S \cap There
  <2>1. p.id > MinPathId /\ p.id \in Nat /\ MinPathId \in Nat
    BY LiveRows, IdRanges DEF Steadfast, Ranged, PathRow
  <2>2. PICK q \in live'.paths : q.id = p.id
    BY <1>3, <2>1 DEF Ids
  <2>3. q.parent \in S \cap There
    BY <1>1, <1>3, <2>2
  <2>4. SamePath(p, q)
    BY <2>2, FoldersStay DEF Steadfast
  <2>. QED  BY <2>3, <2>4 DEF SamePath
<1>. QED  BY <1>2, <1>3 DEF Above

LEMMA PathScan ==
  ASSUME ScanInv, ScanInv', LifeInv, query \in Query, KeptLive, PathsInv, OneLife',
         ScanStep \/ UNCHANGED qvars
  PROVE  PathsInv'
<1>1. TypeInv /\ TypeInv' /\ WalkInv /\ IdsInv /\ TagInv /\ PathInv /\ PathInv'
  BY DEF ScanInv
<1>2. /\ [Next]_vars
      /\ query'.op = query.op /\ query'.rv = query.rv /\ query'.id = query.id
      /\ query'.at = query.at /\ query'.names = query.names /\ query'.missed = query.missed
      /\ query'.kept \subseteq query.kept
      /\ ScanStep => \A t \in query'.kept : \E u \in live'.titles : Fixed(u) = Fixed(t)
  BY ScanKeeps
<1>3. OneLife /\ blind = {} /\ ~(\E machine \in BOOLEAN : Crash(machine))
  BY <1>1, <1>2, FirstLifeStep DEF OneLife
<1>. SUFFICES ASSUME query.op = "path", ~query.missed, NEW t \in query'.kept, t.id = query.id
              PROVE  IF query.rv = "running" THEN OnWay(t)' ELSE Found(t)'
  BY <1>2 DEF PathsInv
<1>4. CASE query.rv # "running"
  <2>1. Found(t)
    BY <1>2, <1>3, <1>4 DEF PathsInv
  <2>. QED  BY <1>2, <1>4, <2>1 DEF Found, IsPath
<1>5. CASE query.rv = "running" /\ query.names = <<>>
  <2>1. OnWay(t)
    BY <1>2, <1>3, <1>5 DEF PathsInv
  <2>. QED  BY <1>2, <1>5, <2>1 DEF OnWay
<1>6. CASE query.rv = "running" /\ query.names # <<>>
  <2>1. /\ query.at > MinPathId /\ Above(query.at, t)
        /\ query.names[Len(query.names)] = t.name /\ Joined(query.names)
        /\ \A p \in live.paths : p.id = query.at => p.name = In[query.names[1]]
    BY <1>2, <1>3, <1>6 DEF PathsInv, OnWay
  <2>2. PICK u \in live.titles : u.id = t.id /\ u.parent = t.parent /\ u.name = t.name
    BY <1>2, KeptPlace
  <2>3. Onward /\ Steadfast /\ ~ahead
    BY <1>1, <1>2, <1>3, <2>2, TitlesMeanUp DEF LifeInv, Onward
  <2>4. ~ahead' /\ Parented(live)'
    BY <1>1, <2>3, WritesWithin DEF PathInv
  <2>5. \E v \in live'.titles : v.parent = t.parent
    <3>1. CASE ScanStep
      BY <1>2, <3>1 DEF Fixed
    <3>2. CASE UNCHANGED qvars
      BY <2>2, <3>2 DEF qvars, vars
    <3>. QED  BY <3>1, <3>2
  <2>6. Above(query.at, t)'
    <3>1. PICK at : at = query.at
      OBVIOUS
    <3>2. PICK v \in live'.titles : v.parent = t.parent
      BY <2>5
    <3>3. Above(at, t)'
      BY <1>1, <1>3, <2>1, <2>3, <2>4, <3>1, <3>2, AboveStays
    <3>. QED  BY <1>2, <3>1, <3>3 DEF Above
  <2>7. \A q \in live'.paths : q.id = query.at => q.name = In[query.names[1]]
    <3>1. query.at \in Ids(live.paths)
      <4>1. Parented(live) /\ Above(query.at, u)
        BY <1>1, <2>1, <2>2, <2>3 DEF PathInv, Above
      <4>2. query.at \in Nat /\ MinPathId \in Nat
        BY IdRanges DEF Query
      <4>. QED  BY <1>1, <2>1, <4>1, <4>2, AboveIsThere
    <3>2. PICK p \in live.paths : p.id = query.at
      BY <3>1 DEF Ids
    <3>3. \A q \in live'.paths : q.id = p.id => SamePath(p, q)
      BY <1>1, <1>3, <2>3, FoldersStay DEF Steadfast
    <3>. QED  BY <2>1, <3>2, <3>3 DEF SamePath
  <2>8. Joined(query.names)'
    BY <1>2, <2>1 DEF Joined
  <2>. QED  BY <1>2, <1>6, <2>1, <2>6, <2>7, <2>8 DEF OnWay
<1>. QED  BY <1>4, <1>5, <1>6

LEMMA OnWayNext ==
  ASSUME ScanInv, ScanInv', LifeInv, query \in Query, Shape, KeptLive, PathsInv, QueryNext
  PROVE  PathsInv'
<1>. SUFFICES ASSUME OneLife' PROVE PathsInv'
  BY DEF PathsInv
<1>0. TypeInv
  BY DEF ScanInv
<1>1. CASE Request
  <2>1. /\ query'.rv = "running" /\ query'.names = <<>> /\ query'.at = query'.id
    BY <1>1, RequestDoes, AskDoes
  <2>. QED  BY <2>1 DEF PathsInv, OnWay
<1>2. CASE QueryStep /\ ~Request
  <2>1. /\ UNCHANGED <<scan, live>> /\ OneLife
        /\ query'.op = query.op /\ query'.id = query.id /\ query'.kept = query.kept
    BY <1>0, <1>2, ReadsOnly, AskedStays, OneLifeAsked
  <2>2. CASE query.op = "path"
    <3>1. PathStep \/ PathLost
      BY <1>2, <2>2 DEF QueryStep, InfoRow, InfoAlbum, InfoArtist, FolderRow, FolderFolders,
                        FolderTitles
    <3>. QED  BY <2>1, <3>1, PathTaken
  <2>3. CASE query.op # "path"
    BY <2>1, <2>3 DEF PathsInv
  <2>. QED  BY <2>2, <2>3
<1>3. CASE ScanStep \/ UNCHANGED qvars
  BY <1>3, PathScan
<1>. QED  BY <1>1, <1>2, <1>3 DEF QueryNext

-----------------------------------------------------------------------------
(***************************************************************************)
(* The answers.                                                            *)
(***************************************************************************)
\* No part stands alone: what a SELECT finds depends on what the scanner keeps still, and on
\* the title still being there.
AnswerInv ==
  /\ ScanInv /\ QueryTypeOK /\ Shape /\ LifeInv /\ KeptLive
  /\ PathsInv /\ InfoInv /\ FolderInv

LEMMA AnswersStart == QueryInit => AnswerInv
<1>. SUFFICES ASSUME QueryInit PROVE AnswerInv
  OBVIOUS
<1>1. ScanInv
  BY ScanInvStart DEF QueryInit
<1>2. /\ query.op = "none" /\ query.kept = {} /\ query.rv = "SUCCESS"
      /\ scan.pc = "down" /\ ~ahead /\ queries = 0
  BY DEF QueryInit, NoQuery, Init, Down
<1>3. QueryTypeOK
  <2>1. <<>> \in Seq(Names)
    OBVIOUS
  <2>2. NoQuery \in Query
    BY <2>1 DEF NoQuery, Query
  <2>. QED  BY <1>1, <1>2, <2>2, QueryOK DEF QueryInit, QueryTypeOK, ScanInv, TypeInv
<1>4. Shape /\ LifeInv /\ KeptLive /\ PathsInv /\ InfoInv /\ FolderInv
  BY <1>2 DEF Shape, LifeInv, KeptLive, PathsInv, InfoInv, FolderInv
<1>. QED  BY <1>1, <1>3, <1>4 DEF AnswerInv

LEMMA AnswersNext == AnswerInv /\ QueryNext => AnswerInv'
<1>. SUFFICES ASSUME AnswerInv, QueryNext PROVE AnswerInv'
  OBVIOUS
<1>1. /\ ScanInv /\ QueryTypeOK /\ Shape /\ LifeInv /\ KeptLive
      /\ PathsInv /\ InfoInv /\ FolderInv /\ query \in Query
  BY DEF AnswerInv, QueryTypeOK
<1>2. ScanInv' /\ QueryTypeOK' /\ Shape' /\ LifeInv'
  BY <1>1, ScanInvNext, QueryTypesNext, LifeNext
<1>3. KeptLive'
  BY <1>1, KeptLiveNext
<1>4. PathsInv'
  BY <1>1, <1>2, OnWayNext
<1>5. InfoInv'
  BY <1>1, <1>2, InfoNext
<1>6. FolderInv'
  BY <1>1, <1>2, FolderNext
<1>. QED  BY <1>2, <1>3, <1>4, <1>5, <1>6 DEF AnswerInv

LEMMA AnswersAlways == QuerySpec => []AnswerInv
<1>. QED  BY AnswersStart, AnswersNext, PTL DEF QuerySpec, QueryNext

\* mps_library_get_file_path_from_id, a SELECT for each folder and no transaction: a title that
\* stays in the database gets the path it lies at, whatever the scanner adds, marks and removes
\* between two of them.
THEOREM QueryPathRight == QuerySpec => []PathRight
<1>1. AnswerInv => PathRight
  BY DEF AnswerInv, PathsInv, PathRight, Found, Answered
<1>. QED  BY <1>1, AnswersAlways, PTL

\* mps_library_title_get_info: the album and the artist of an answer are those of the tags the
\* title's row is of, although they are read after it; and these are the tags of the file with
\* the row's length and time, unless that changed between its stat and the reading of its tags.
THEOREM QueryInfoRight == QuerySpec => []InfoRight
<1>1. AnswerInv => InfoRight
  BY DEF AnswerInv, InfoInv, InfoRight, RowTraced, Answered
<1>. QED  BY <1>1, AnswersAlways, PTL

\* mps_library_hierarchy_get: a folder or an album lists every MP3 title that was in it all
\* the time, the list of artists and an artist's of albums all that lead down to such a title.
THEOREM QueryFolderRight == QuerySpec => []FolderRight
<1>1. AnswerInv => FolderRight
  BY DEF AnswerInv, FolderInv, FolderRight, Shown, Answered
<1>. QED  BY <1>1, AnswersAlways, PTL

-----------------------------------------------------------------------------
(***************************************************************************)
(* The ranges of the ids, through every restart.                           *)
(***************************************************************************)
\* No count has come to the last id of its range, nor one from 1 to the last before the
\* artists'.
HasRoom ==
  scan.pc # "down" =>
    /\ scan.highest.titles < MinArtistId
    /\ scan.highest.artists < MinAlbumId /\ scan.highest.albums < MinPathId
    /\ scan.highest.paths < MinPathId + MinArtistId
    /\ MinArtistId - 1 \notin {scan.highest.artists, scan.highest.albums, scan.highest.paths}

TitlesInRange(d) == \A t \in d.titles : t.id > 0 /\ t.id < MinArtistId

Ranges(d) ==
  /\ "artists" \notin blind => InRange(d.artists, MinArtistId, MinAlbumId)
  /\ "albums" \notin blind => InRange(d.albums, MinAlbumId, MinPathId)
  /\ "paths" \notin blind => InRange(d.paths, MinPathId, MinPathId + MinArtistId)

\* A table and the count of its ids are both in the range, or both below all ranges.
OneRange(rows, high, min, max) ==
  \/ (db.file = "cut" \/ high >= min) /\ \A r \in rows : r.id >= min /\ r.id < max
  \/ spent.crash > 0 /\ high < MinArtistId /\ \A r \in rows : r.id > 0 /\ r.id < MinArtistId

RangeInv ==
  /\ TitlesInRange(live) /\ TitlesInRange(db) /\ TitlesInRange(saved)
  /\ Ranges(saved)
  /\ scan.pc = "down" => Ranges(live)
  /\ scan.pc # "down" =>
       /\ "artists" \notin blind =>
            OneRange(live.artists \cup db.artists, scan.highest.artists, MinArtistId, MinAlbumId)
       /\ "albums" \notin blind =>
            OneRange(live.albums \cup db.albums, scan.highest.albums, MinAlbumId, MinPathId)
       /\ "paths" \notin blind =>
            OneRange(live.paths \cup db.paths, scan.highest.paths,
                     MinPathId, MinPathId + MinArtistId)

LEMMA CountedRange ==
  ASSUME NEW rows, NEW some \in SUBSET rows, NEW high, NEW min, NEW max,
         OneRange(rows, high, min, max)
  PROVE  InRange(some, min, max)
BY DEF OneRange, InRange

LEMMA UpRanges ==
  ASSUME RangeInv, scan.pc # "down"
  PROVE  Ranges(live) /\ Ranges(db)
<1>1. "artists" \notin blind =>
        InRange(live.artists, MinArtistId, MinAlbumId) /\ InRange(db.artists, MinArtistId, MinAlbumId)
  BY CountedRange DEF RangeInv
<1>2. "albums" \notin blind =>
        InRange(live.albums, MinAlbumId, MinPathId) /\ InRange(db.albums, MinAlbumId, MinPathId)
  BY CountedRange DEF RangeInv
<1>3. "paths" \notin blind =>
        /\ InRange(live.paths, MinPathId, MinPathId + MinArtistId)
        /\ InRange(db.paths, MinPathId, MinPathId + MinArtistId)
  BY CountedRange DEF RangeInv
<1>. QED  BY <1>1, <1>2, <1>3 DEF Ranges

\* A row more, with the next id.
LEMMA CountedOn ==
  ASSUME NEW rows, NEW more, NEW high \in Nat, NEW higher \in Nat, NEW min \in Nat, NEW max \in Nat,
         OneRange(rows, high, min, max), higher >= high, higher <= high + 1, higher < max,
         high # MinArtistId - 1, MinArtistId \in Nat, min >= MinArtistId,
         db'.file = db.file, spent.crash > 0 => spent'.crash > 0,
         \A x \in more : \/ x.id \in Ids(rows)
                         \/ x.id = high + 1 /\ x.id <= higher /\ db.file # "cut"
  PROVE  OneRange(more, higher, min, max)'
<1>1. CASE /\ db.file = "cut" \/ high >= min
           /\ \A r \in rows : r.id >= min /\ r.id < max
  <2>1. \A x \in more : x.id >= min /\ x.id < max
    BY <1>1 DEF Ids
  <2>. QED  BY <1>1, <2>1 DEF OneRange
<1>2. CASE /\ spent.crash > 0 /\ high < MinArtistId
           /\ \A r \in rows : r.id > 0 /\ r.id < MinArtistId
  <2>1. \A x \in more : x.id > 0 /\ x.id < MinArtistId
    BY <1>2 DEF Ids
  <2>2. higher < MinArtistId
    BY <1>2
  <2>. QED  BY <1>2, <2>1, <2>2 DEF OneRange
<1>. QED  BY <1>1, <1>2 DEF OneRange

\* A start that looks up the highest id of a table.
LEMMA CountedAgain ==
  ASSUME NEW rows, \A r \in rows : r.id \in Nat, NEW n \in Nat, \A r \in rows : r.id <= n,
         NEW min \in Nat, NEW max, InRange(rows, min, max), MinArtistId \in Nat \ {0},
         (db'.file = "cut" /\ rows = {}) \/ spent.crash > 0, spent'.crash = spent.crash
  PROVE  OneRange(rows, MaxId(rows), min, max)'
<1>1. /\ MaxId(rows) \in Nat /\ \A r \in rows : r.id <= MaxId(rows)
      /\ rows # {} => \E r \in rows : r.id = MaxId(rows)
  BY HighestId
<1>2. CASE rows = {}
  <2>1. MaxId(rows) = 0
    BY <1>2 DEF MaxId
  <2>. QED  BY <1>2, <2>1 DEF OneRange
<1>3. CASE rows # {}
  <2>1. PICK r \in rows : r.id = MaxId(rows)
    BY <1>1, <1>3
  <2>2. CASE \A q \in rows : q.id >= min /\ q.id < max
    BY <2>1, <2>2 DEF OneRange
  <2>3. CASE spent.crash > 0 /\ \A q \in rows : q.id > 0 /\ q.id < MinArtistId
    BY <2>1, <2>3 DEF OneRange
  <2>. QED  BY <2>2, <2>3 DEF InRange
<1>. QED  BY <1>2, <1>3

\* A step of a scanner that lives on.
LEMMA RangeOnward ==
  ASSUME ScanInv, ScanInv', RangeInv, HasRoom, HasRoom', Onward, saved' \in {saved, db, CutOff}
  PROVE  RangeInv'
<1>1. /\ TypeInv /\ TypeInv' /\ WalkInv /\ IdsInv /\ IdsInv'
      /\ scan.pc # "down" /\ scan'.pc # "down" /\ [Next]_vars
  BY WritesWithin DEF ScanInv, Onward
<1>0. blind' = blind
  <2>1. ~Start
    BY <1>1, StartDoes
  <2>. QED  BY <1>1, <2>1, BlindStays DEF Start
<1>2. /\ MinArtistId \in Nat \ {0} /\ MinAlbumId \in Nat /\ MinPathId \in Nat
      /\ MinArtistId < MinAlbumId /\ MinAlbumId < MinPathId
  BY IdRanges
<1>3. /\ scan.highest.titles \in Nat /\ scan.highest.artists \in Nat
      /\ scan.highest.albums \in Nat /\ scan.highest.paths \in Nat
      /\ scan'.highest.titles \in Nat /\ scan'.highest.artists \in Nat
      /\ scan'.highest.albums \in Nat /\ scan'.highest.paths \in Nat
  BY <1>1 DEF TypeInv, TypeOK, Scanner
<1>4. spent.crash > 0 => spent'.crash > 0
  <2>1. spent.crash \in Nat /\ spent'.crash \in Nat /\ spent'.crash >= spent.crash
    BY <1>1, SpentNext DEF TypeInv, TypeOK
  <2>. QED  BY <2>1
<1>5. db'.file = db.file
  BY <1>1, WritesWithin
<1>6. /\ scan'.highest.artists >= scan.highest.artists
      /\ scan'.highest.albums >= scan.highest.albums
      /\ scan'.highest.paths >= scan.highest.paths
      /\ scan'.highest.artists <= scan.highest.artists + 1
      /\ scan'.highest.albums <= scan.highest.albums + 1
      /\ scan'.highest.paths <= scan.highest.paths + 1
  BY <1>1, IdsGrow
<1>7. /\ scan'.highest.titles < MinArtistId
      /\ scan'.highest.artists < MinAlbumId /\ scan'.highest.albums < MinPathId
      /\ scan'.highest.paths < MinPathId + MinArtistId
      /\ scan.highest.artists # MinArtistId - 1 /\ scan.highest.albums # MinArtistId - 1
      /\ scan.highest.paths # MinArtistId - 1
  BY <1>1 DEF HasRoom
<1>8. ASSUME "artists" \notin blind'
      PROVE  OneRange(live.artists \cup db.artists, scan.highest.artists, MinArtistId, MinAlbumId)'
  <2>1. PICK rows, more, high, higher :
          /\ rows = live.artists \cup db.artists /\ more = live'.artists \cup db'.artists
          /\ high = scan.highest.artists /\ higher = scan'.highest.artists
    OBVIOUS
  <2>2. ASSUME NEW x \in more
        PROVE  x.id \in Ids(rows) \/ (x.id = high + 1 /\ x.id <= higher /\ db.file # "cut")
    <3>1. x \in rows \/ x \in db'.artists
      BY <1>1, <2>1, LiveIs
    <3>2. x \in db'.artists =>
            (x \in db.artists \/ (x.id = high + 1 /\ db.file # "cut")) /\ x.id <= higher
      BY <1>1, <1>8, <2>1, IdsGrow DEF IdsInv
    <3>. QED  BY <2>1, <3>1, <3>2 DEF Ids
  <2>3. OneRange(rows, high, MinArtistId, MinAlbumId)
    BY <1>0, <1>1, <1>8, <2>1 DEF RangeInv
  <2>4. OneRange(more, higher, MinArtistId, MinAlbumId)'
    BY <1>2, <1>3, <1>4, <1>5, <1>6, <1>7, <2>1, <2>2, <2>3, CountedOn
  <2>. QED  BY <2>1, <2>4 DEF OneRange
<1>9. ASSUME "albums" \notin blind'
      PROVE  OneRange(live.albums \cup db.albums, scan.highest.albums, MinAlbumId, MinPathId)'
  <2>1. PICK rows, more, high, higher :
          /\ rows = live.albums \cup db.albums /\ more = live'.albums \cup db'.albums
          /\ high = scan.highest.albums /\ higher = scan'.highest.albums
    OBVIOUS
  <2>2. ASSUME NEW x \in more
        PROVE  x.id \in Ids(rows) \/ (x.id = high + 1 /\ x.id <= higher /\ db.file # "cut")
    <3>1. x \in rows \/ x \in db'.albums
      BY <1>1, <2>1, LiveIs
    <3>2. x \in db'.albums =>
            (x \in db.albums \/ (x.id = high + 1 /\ db.file # "cut")) /\ x.id <= higher
      BY <1>1, <1>9, <2>1, IdsGrow DEF IdsInv
    <3>. QED  BY <2>1, <3>1, <3>2 DEF Ids
  <2>3. OneRange(rows, high, MinAlbumId, MinPathId)
    BY <1>0, <1>1, <1>9, <2>1 DEF RangeInv
  <2>4. OneRange(more, higher, MinAlbumId, MinPathId)'
    BY <1>2, <1>3, <1>4, <1>5, <1>6, <1>7, <2>1, <2>2, <2>3, CountedOn
  <2>. QED  BY <2>1, <2>4 DEF OneRange
<1>10. ASSUME "paths" \notin blind'
      PROVE  OneRange(live.paths \cup db.paths, scan.highest.paths, MinPathId, MinPathId + MinArtistId)'
  <2>1. PICK rows, more, high, higher, max :
          /\ rows = live.paths \cup db.paths /\ more = live'.paths \cup db'.paths
          /\ high = scan.highest.paths /\ higher = scan'.highest.paths
          /\ max = MinPathId + MinArtistId
    OBVIOUS
  <2>2. ASSUME NEW x \in more
        PROVE  x.id \in Ids(rows) \/ (x.id = high + 1 /\ x.id <= higher /\ db.file # "cut")
    <3>1. x \in rows \/ x \in db'.paths
      BY <1>1, <2>1, LiveIs
    <3>2. CASE x \in db'.paths
      <4>1. \/ \E p \in db.paths : SamePath(p, x)
            \/ x.id = high + 1 /\ db.file # "cut"
        BY <1>1, <2>1, <3>2, FoldersGrow
      <4>2. x.id <= higher
        BY <1>1, <1>10, <2>1, <3>2 DEF IdsInv
      <4>. QED  BY <2>1, <4>1, <4>2 DEF SamePath, Ids
    <3>. QED  BY <3>1, <3>2 DEF Ids
  <2>3. OneRange(rows, high, MinPathId, max)
    BY <1>0, <1>1, <1>10, <2>1 DEF RangeInv
  <2>4. OneRange(more, higher, MinPathId, max)'
    BY <1>2, <1>3, <1>4, <1>5, <1>6, <1>7, <2>1, <2>2, <2>3, CountedOn
  <2>. QED  BY <2>1, <2>4 DEF OneRange
<1>11. TitlesInRange(db)'
  <2>1. ASSUME NEW u \in db'.titles PROVE u.id > 0 /\ u.id < MinArtistId
    <3>2. \/ \E t \in db.titles : SameTitle(t, u)
          \/ scan.pc = "title" /\ u.id = scan.highest.titles
      BY <1>1, <2>1, TitlesGrow
    <3>3. CASE \E t \in db.titles : SameTitle(t, u)
      BY <3>3 DEF SameTitle, RangeInv, TitlesInRange
    <3>4. CASE scan.pc = "title" /\ u.id = scan.highest.titles
      BY <1>1, <1>3, <3>4 DEF HasRoom, TypeInv
    <3>. QED  BY <3>2, <3>3, <3>4
  <2>. QED  BY <2>1 DEF TitlesInRange
<1>12. TitlesInRange(live)'
  BY <1>1, <1>11, LiveIs DEF RangeInv, TitlesInRange
<1>13. TitlesInRange(saved)' /\ Ranges(saved)'
  <2>1. Ranges(CutOff) /\ TitlesInRange(CutOff)
    BY EmptyFile DEF Ranges, InRange, TitlesInRange
  <2>2. Ranges(db) /\ TitlesInRange(db)
    BY <1>1, UpRanges DEF RangeInv
  <2>3. PICK d : d = saved'
    OBVIOUS
  <2>4. Ranges(d) /\ TitlesInRange(d)
    BY <2>1, <2>2, <2>3 DEF RangeInv
  <2>5. Ranges(d)'
    BY <1>0, <1>4, <2>4 DEF Ranges, InRange
  <2>. QED  BY <2>3, <2>4, <2>5 DEF Ranges, InRange, TitlesInRange
<1>. QED  BY <1>1, <1>8, <1>9, <1>10, <1>11, <1>12, <1>13 DEF RangeInv

\* A start with the tables of d, of which it may not have read each highest id.
LEMMA RangeWith ==
  ASSUME ScanInv, RangeInv, NEW d, d \in MayBeRestored, d.file # "none",
         NEW highest, NEW size, NEW number, StartsWith(d, highest, size, number),
         \A t \in Tables : t \notin blind' => highest[t] = HighestIn(d)[t],
         highest \in Highests, blind \subseteq blind', scan.pc = "down",
         spent'.crash = spent.crash
  PROVE  RangeInv'
<1>1. TypeInv /\ TagInv /\ saved' = saved
  BY DEF ScanInv, StartsWith
<1>2. /\ MinArtistId \in Nat \ {0} /\ MinAlbumId \in Nat /\ MinPathId \in Nat
  BY IdRanges
<1>3. TitlesInRange(saved)' /\ Ranges(saved)'
  BY <1>1 DEF RangeInv, TitlesInRange, Ranges, InRange
<1>4. Ranges(CutOff) /\ TitlesInRange(CutOff)
  BY EmptyFile DEF Ranges, InRange, TitlesInRange
<1>5. Ranges(d) /\ TitlesInRange(d) /\ d \in {saved, live, CutOff}
  BY <1>4 DEF RangeInv, MayBeRestored
<1>6. d \in Database /\ Bounded(d)
  BY <1>1, RestoredTyped
<1>7. PICK n \in Nat : \A r \in UNION {d.titles, d.artists, d.albums, d.paths} : r.id <= n
  BY <1>6 DEF Bounded
<1>8. /\ \A r \in d.artists : r.id \in Nat /\ r.id <= n
      /\ \A r \in d.albums : r.id \in Nat /\ r.id <= n
      /\ \A r \in d.paths : r.id \in Nat /\ r.id <= n
  BY <1>6, <1>7 DEF Database, ArtistRow, AlbumRow, PathRow
<1>9. /\ live' = d /\ db' = d /\ scan'.pc = "sample"
      /\ scan'.highest = highest
  BY DEF StartsWith, Down
<1>10. \/ spent.crash > 0
       \/ db'.file = "cut" /\ d.artists = {} /\ d.albums = {} /\ d.paths = {}
  <2>1. spent.crash \in Nat
    BY <1>1 DEF TypeInv, TypeOK
  <2>2. CASE spent.crash = 0
    <3>1. live \in {NoFile, CutOff} /\ saved = NoFile
      BY <1>1, <2>2 DEF TagInv, FirstLife
    <3>2. NoFile.file = "none"
      BY DEF NoFile, EmptyDatabase
    <3>3. d = CutOff
      BY <1>5, <3>1, <3>2
    <3>. QED  BY <1>9, <3>3, EmptyFile
  <2>. QED  BY <2>1, <2>2
<1>11. /\ "artists" \notin blind' => highest.artists = MaxId(d.artists)
       /\ "albums" \notin blind' => highest.albums = MaxId(d.albums)
       /\ "paths" \notin blind' => highest.paths = MaxId(d.paths)
  BY DEF Tables, HighestIn
<1>12. /\ live'.artists \cup db'.artists = d.artists /\ live'.albums \cup db'.albums = d.albums
       /\ live'.paths \cup db'.paths = d.paths
  BY <1>9
<1>13. ASSUME "artists" \notin blind'
       PROVE  OneRange(live.artists \cup db.artists, scan.highest.artists, MinArtistId, MinAlbumId)'
  <2>1. OneRange(d.artists, MaxId(d.artists), MinArtistId, MinAlbumId)'
    BY <1>2, <1>5, <1>8, <1>10, <1>13, CountedAgain DEF Ranges
  <2>. QED  BY <1>9, <1>11, <1>12, <1>13, <2>1 DEF OneRange
<1>14. ASSUME "albums" \notin blind'
       PROVE  OneRange(live.albums \cup db.albums, scan.highest.albums, MinAlbumId, MinPathId)'
  <2>1. OneRange(d.albums, MaxId(d.albums), MinAlbumId, MinPathId)'
    BY <1>2, <1>5, <1>8, <1>10, <1>14, CountedAgain DEF Ranges
  <2>. QED  BY <1>9, <1>11, <1>12, <1>14, <2>1 DEF OneRange
<1>15. ASSUME "paths" \notin blind'
       PROVE  OneRange(live.paths \cup db.paths, scan.highest.paths,
                       MinPathId, MinPathId + MinArtistId)'
  <2>1. OneRange(d.paths, MaxId(d.paths), MinPathId, MinPathId + MinArtistId)'
    BY <1>2, <1>5, <1>8, <1>10, <1>15, CountedAgain DEF Ranges
  <2>. QED  BY <1>9, <1>11, <1>12, <1>15, <2>1 DEF OneRange
<1>16. TitlesInRange(live)' /\ TitlesInRange(db)'
  BY <1>5, <1>9 DEF TitlesInRange
<1>. QED  BY <1>3, <1>9, <1>13, <1>14, <1>15, <1>16 DEF RangeInv

\* A start, with whatever file it finds.
LEMMA RangeStarts ==
  ASSUME ScanInv, RangeInv, Start
  PROVE  RangeInv'
<1>1. TypeInv /\ TagInv /\ saved' = saved /\ scan.pc = "down"
      /\ (Used("failure") \/ UNCHANGED spent)
  BY StartDoes DEF ScanInv
<1>2. MinArtistId \in Nat \ {0} /\ MinAlbumId \in Nat /\ MinPathId \in Nat
  BY IdRanges
<1>3. spent'.crash = spent.crash
  BY <1>1, FailureSpent
<1>4. /\ EmptyDatabase.titles = {} /\ EmptyDatabase.artists = {} /\ EmptyDatabase.albums = {}
      /\ EmptyDatabase.paths = {}
  BY DEF EmptyDatabase
<1>5. CASE StartNew
  <2>1. db' = EmptyDatabase /\ live' = EmptyDatabase /\ blind' = blind
    BY <1>5 DEF StartNew, history
  <2>2. TitlesInRange(saved)' /\ Ranges(saved)'
    BY <1>1, <1>3, <2>1 DEF RangeInv, TitlesInRange, Ranges, InRange
  <2>3. /\ scan'.pc = "sample" /\ scan'.highest.artists = MinArtistId
        /\ scan'.highest.albums = MinAlbumId /\ scan'.highest.paths = MinPathId
    BY <1>5 DEF StartNew, Down
  <2>4. \A high, min, max : high = min /\ min \in Nat => OneRange({}, high, min, max)'
    BY DEF OneRange
  <2>5. {} \cup {} = {}
    OBVIOUS
  <2>. QED  BY <1>2, <1>4, <2>1, <2>2, <2>3, <2>4, <2>5 DEF RangeInv, TitlesInRange, OneRange
<1>6. CASE StartNewFails
  <2>1. live' \in {EmptyDatabase, CutOff} /\ db' = live' /\ blind' = Tables
        /\ scan'.pc = "sample"
    BY <1>6, StartDoes DEF StartNewFails, Start
  <2>2. {"artists", "albums", "paths"} \subseteq blind'
    BY <2>1 DEF Tables
  <2>3. TitlesInRange(live)' /\ TitlesInRange(db)' /\ TitlesInRange(saved)'
    BY <1>1, <1>4, <2>1, EmptyFile DEF RangeInv, TitlesInRange
  <2>. QED  BY <2>1, <2>2, <2>3 DEF RangeInv, Ranges
<1>7. CASE StartAgain
  <2>1. /\ StartsWith(Restored, HighestIn(Restored), Restored.size, Restored.counter)
        /\ Restored.file # "none" /\ blind' = blind
    BY <1>7 DEF StartAgain
  <2>2. Restored \in MayBeRestored
    BY DEF Restored, MayBeRestored
  <2>3. HighestIn(Restored) \in Highests
    BY <1>1, RestoredTyped, HighestTyped DEF HighestIn, Highests
  <2>. QED  BY <1>1, <1>3, <2>1, <2>2, <2>3, RangeWith
<1>8. CASE StartAgainFails
  <2>1. PICK d, unread, size, number :
          LET highest == [t \in Tables |-> IF t \in unread THEN 0 ELSE HighestIn(d)[t]] IN
          /\ d \in MayBeRestored /\ unread \in SUBSET Tables
          /\ d.file # "none"
          /\ StartsWith(d, highest, size, number)
          /\ blind' = blind \cup {t \in unread : HighestIn(d)[t] # 0}
    BY <1>8 DEF StartAgainFails
  <2>2. PICK highest : highest = [t \in Tables |-> IF t \in unread THEN 0 ELSE HighestIn(d)[t]]
    OBVIOUS
  <2>3. /\ d.file # "none" /\ StartsWith(d, highest, size, number)
        /\ blind' = blind \cup {t \in unread : HighestIn(d)[t] # 0}
    BY <2>1, <2>2
  <2>4. HighestIn(d) \in Highests
    <3>1. d \in Database /\ Bounded(d)
      BY <1>1, <2>1, RestoredTyped
    <3>. QED  BY <3>1, HighestTyped DEF HighestIn, Highests
  <2>5. highest \in Highests
    <3>1. highest \in [Tables -> Nat]
      BY <2>2, <2>4 DEF Highests, Tables
    <3>. QED  BY <3>1, HighestsTyped
  <2>6. \A t \in Tables : t \notin blind' => highest[t] = HighestIn(d)[t]
    BY <2>2, <2>3
  <2>7. d \in MayBeRestored /\ blind \subseteq blind'
    BY <2>1, <2>3
  <2>. QED  BY <1>1, <1>3, <2>3, <2>5, <2>6, <2>7, RangeWith
<1>. QED  BY <1>5, <1>6, <1>7, <1>8 DEF Start

LEMMA SavedWithin ==
  ASSUME TypeInv, Onward
  PROVE  saved' \in {saved, db, CutOff}
<1>. USE DEF Onward
<1>1. CASE Start \/ Tags
  BY <1>1, StartDoes, TagsDoes
<1>2. CASE \E n \in Names : Visit(n)
  BY <1>2, VisitIn
<1>3. CASE LookUp
  BY <1>3, LookUpDoes DEF LookUp
<1>4. CASE InsertTitle
  BY <1>4, InsertDoes
<1>5. CASE InsertTitleFails
  BY <1>5, InsertFailsLeaves
<1>6. CASE LeaveDir \/ Begin
  BY <1>6, BeginDoes DEF LeaveDir, tables
<1>7. CASE Rest
  BY <1>7, RestTables
<1>8. CASE DiskStep \/ UNCHANGED vars
  BY <1>8 DEF DiskStep, PutFile, RemoveFile, MakeDir, MoveDirAway, ChangeTo, tables, vars
<1>. QED  BY <1>1, <1>2, <1>3, <1>4, <1>5, <1>6, <1>7, <1>8, Steps DEF Next

\* The tables that stay leave the ids where they are.
LEMMA RangesSame ==
  ASSUME RangeInv, spent.crash > 0 => spent'.crash > 0, blind \subseteq blind',
         scan'.pc = "down", saved' = saved,
         \/ live' = live /\ db' \in {db, live}
         \/ /\ live' = db' /\ live'.titles = {}
            /\ live'.artists = {} /\ live'.albums = {} /\ live'.paths = {}
  PROVE  RangeInv'
<1>1. Ranges(live)
  BY UpRanges DEF RangeInv
<1>2. PICK d, e, f : d = saved /\ e = live' /\ f = db'
  OBVIOUS
<1>3. Ranges(d) /\ TitlesInRange(d)
  BY <1>2 DEF RangeInv
<1>4. Ranges(e) /\ TitlesInRange(e)
  BY <1>1, <1>2 DEF RangeInv, Ranges, InRange, TitlesInRange
<1>5. TitlesInRange(f)
  BY <1>2 DEF RangeInv, TitlesInRange
<1>6. Ranges(d)' /\ Ranges(e)'
  BY <1>3, <1>4 DEF Ranges, InRange
<1>. QED  BY <1>2, <1>3, <1>4, <1>5, <1>6 DEF RangeInv, Ranges, InRange, TitlesInRange

LEMMA RangeNext == ScanInv /\ RangeInv /\ HasRoom /\ HasRoom' /\ QueryNext => RangeInv'
<1>. SUFFICES ASSUME ScanInv, RangeInv, HasRoom, HasRoom', QueryNext PROVE RangeInv'
  OBVIOUS
<1>1. TypeInv /\ FileInv /\ ScanInv'
  BY ScanInvNext DEF ScanInv
<1>2. CASE QueryStep
  <2>1. /\ UNCHANGED <<saved, scan, blind>> /\ spent'.crash = spent.crash
        /\ \/ UNCHANGED <<live, db>>
           \/ live.file = "none" /\ live' = CutOff /\ db' = CutOff
    BY <1>1, <1>2, Touches DEF history
  <2>2. CASE scan.pc = "down"
    BY <2>1, <2>2, RangesSame, EmptyFile
  <2>3. CASE scan.pc # "down"
    <3>1. UNCHANGED <<live, db, saved, scan>>
      BY <1>1, <2>1, <2>3 DEF FileInv
    <3>2. /\ TitlesInRange(live)' /\ TitlesInRange(db)' /\ TitlesInRange(saved)'
          /\ Ranges(saved)'
      BY <2>1, <3>1 DEF RangeInv, TitlesInRange, Ranges, InRange
    <3>. QED  BY <2>1, <2>3, <3>1, <3>2 DEF RangeInv, OneRange
  <2>. QED  BY <2>2, <2>3
<1>3. CASE [Next]_vars
  <2>1. spent.crash > 0 => spent'.crash > 0
    <3>1. spent.crash \in Nat /\ spent'.crash \in Nat /\ spent'.crash >= spent.crash
      BY <1>1, <1>3, SpentNext DEF ScanInv, TypeInv, TypeOK
    <3>. QED  BY <3>1
  <2>2. CASE \E machine \in BOOLEAN : Crash(machine)
    <3>1. /\ scan'.pc = "down" /\ saved' = saved /\ db' = live' /\ live' \in {live, NoFile}
          /\ blind' = blind
      BY <2>2 DEF Crash, Down
    <3>2. /\ NoFile.titles = {} /\ NoFile.artists = {} /\ NoFile.albums = {} /\ NoFile.paths = {}
      BY DEF NoFile, EmptyDatabase
    <3>. QED  BY <2>1, <3>1, <3>2, RangesSame
  <2>3. CASE scan.pc # "down" /\ ~(\E machine \in BOOLEAN : Crash(machine))
    <3>1. Onward
      BY <1>3, <2>3 DEF Onward
    <3>. QED  BY <1>1, <3>1, SavedWithin, RangeOnward
  <2>4. CASE Start
    BY <2>4, RangeStarts
  <2>5. CASE scan.pc = "down" /\ UNCHANGED <<scan, live, db, saved, ahead, blind>>
    BY <2>1, <2>5, RangesSame
  <2>. QED  BY <1>1, <1>3, <2>2, <2>3, <2>4, <2>5, DownSteps
<1>. QED  BY <1>2, <1>3 DEF QueryNext, ScanStep, qvars

\* get_max_id gives 0 for an empty table (mps-librarydbd.c:320), so after a restart a table may
\* count its ids from 1; but as long as no count comes to the end of its range, no table ever
\* holds ids of its range and ids below all ranges at once, and titles keep theirs, whatever
\* fails and however often the scanner dies and restores an older copy - but for a table whose
\* highest id a start could not read, which counts from 1 beside the rows it has (blind).
THEOREM IdsKeepRanges == QuerySpec /\ []HasRoom => []IdsInRange
<1>1. QueryInit => ScanInv /\ RangeInv
  <2>1. QueryInit => ScanInv
    BY ScanInvStart DEF QueryInit
  <2>2. /\ NoFile.titles = {} /\ NoFile.artists = {} /\ NoFile.albums = {} /\ NoFile.paths = {}
        /\ Down.pc = "down"
    BY DEF NoFile, EmptyDatabase, Down
  <2>3. QueryInit => RangeInv
    BY <2>2 DEF QueryInit, Init, RangeInv, TitlesInRange, Ranges, InRange
  <2>. QED  BY <2>1, <2>3
<1>2. ScanInv /\ RangeInv => IdsInRange
  <2>1. RangeInv => Ranges(live)
    BY UpRanges DEF RangeInv
  <2>. QED  BY <2>1 DEF RangeInv, TitlesInRange, Ranges, IdsInRange
<1>. QED  BY <1>1, <1>2, ScanInvNext, RangeNext, PTL DEF QuerySpec, QueryNext
=============================================================================
