-------------------------- MODULE LibraryWalkProofs --------------------------
(***************************************************************************)
(* Theorems about what a walk through the media directory leaves in the    *)
(* tables of LibraryScan.                                                  *)
(***************************************************************************)
EXTENDS LibraryScanProofs

\* A new file is being looked up.
InFile == {"tags", "artist", "album", "title"}

-----------------------------------------------------------------------------
(***************************************************************************)
(* Frames.                                                                 *)
(***************************************************************************)
LEMMA AfterDoes ==
  ASSUME TypeInv, scan.stack # <<>>, NEW n \in Names, NEW looks \in Contents \cup {Dir}
  PROVE  /\ After(n, looks) \in Seq(Frame)
         /\ Len(After(n, looks)) = Len(scan.stack)
         /\ \A i \in 1..Len(scan.stack) :
              /\ After(n, looks)[i].dir = scan.stack[i].dir
              /\ After(n, looks)[i].id = scan.stack[i].id
              /\ After(n, looks)[i].left
                   = IF i = Len(scan.stack) THEN Top.left \ {n} ELSE scan.stack[i].left
<1> DEFINE f == [Top EXCEPT !.left = @ \ {n}, !.last = looks]
<1>1. Top \in Frame /\ Top = scan.stack[Len(scan.stack)]
  BY TopTyped DEF Top
<1>2. f \in Frame /\ f.dir = Top.dir /\ f.id = Top.id /\ f.left = Top.left \ {n}
  BY <1>1 DEF Frame
<1> HIDE DEF f
<1>3. After(n, looks) = OnTop(f)
  BY DEF After, f
<1>. QED  BY <1>1, <1>2, <1>3, TopTyped

LEMMA GivenUpDoes ==
  ASSUME TypeInv, scan.stack # <<>>
  PROVE  /\ GivenUp \in Seq(Frame)
         /\ Len(GivenUp) = Len(scan.stack)
         /\ \A i \in 1..Len(scan.stack) :
              /\ GivenUp[i].dir = scan.stack[i].dir
              /\ GivenUp[i].id = scan.stack[i].id
              /\ GivenUp[i].left = IF i = Len(scan.stack) THEN {} ELSE scan.stack[i].left
<1> DEFINE f == [Top EXCEPT !.left = {}]
<1>1. Top \in Frame /\ Top = scan.stack[Len(scan.stack)]
  BY TopTyped DEF Top
<1>2. f \in Frame /\ f.dir = Top.dir /\ f.id = Top.id /\ f.left = {}
  BY <1>1 DEF Frame
<1> HIDE DEF f
<1>3. GivenUp = OnTop(f)
  BY DEF GivenUp, f
<1>. QED  BY <1>1, <1>2, <1>3, TopTyped

LEMMA OpenedDoes ==
  ASSUME NEW stack \in Seq(Frame), NEW d \in Names \cup {Root}, NEW id \in Nat
  PROVE  /\ Opened(stack, d, id) \in Seq(Frame)
         /\ Len(Opened(stack, d, id)) = Len(stack) + 1
         /\ \A i \in 1..Len(stack) : Opened(stack, d, id)[i] = stack[i]
         /\ Opened(stack, d, id)[Len(stack) + 1].dir = d
         /\ Opened(stack, d, id)[Len(stack) + 1].id = id
         /\ Opened(stack, d, id)[Len(stack) + 1].left = Entries(d)
<1> DEFINE f == [dir |-> d, id |-> id, left |-> Entries(d), last |-> Unset]
<1>1. f \in Frame /\ f.dir = d /\ f.id = id /\ f.left = Entries(d)
  BY DEF Frame, Entries
<1> HIDE DEF f
<1>2. Opened(stack, d, id) = Append(stack, f)
  BY DEF Opened, f
<1>. QED  BY <1>1, <1>2

LEMMA LeftDoes ==
  ASSUME TypeInv, LeaveDir
  PROVE  /\ scan.pc = "walk" /\ scan.stack # <<>> /\ Top.left = {}
         /\ scan'.stack \in Seq(Frame)
         /\ Len(scan'.stack) = Len(scan.stack) - 1 /\ Len(scan.stack) \in Nat \ {0}
         /\ \A i \in 1..Len(scan'.stack) : scan'.stack[i] = scan.stack[i]
         /\ scan'.pc = IF Len(scan.stack) = 1 THEN "end" ELSE "walk"
         /\ scan'.highest = scan.highest /\ scan'.track = scan.track /\ scan'.cache = scan.cache
         /\ scan'.albumId = scan.albumId /\ scan'.dbVersion = scan.dbVersion
<1> DEFINE stack == SubSeq(scan.stack, 1, Len(scan.stack) - 1)
           pc == IF Len(scan.stack) = 1 THEN "end" ELSE "walk"
<1>1. /\ scan \in Scanner /\ scan.stack \in Seq(Frame) /\ scan.pc = "walk"
      /\ Len(scan.stack) \in Nat \ {0} /\ scan.stack # <<>> /\ Top.left = {}
  BY TopTyped DEF TypeInv, TypeOK, LeaveDir, Scanner
<1>2. /\ stack \in Seq(Frame) /\ Len(stack) = Len(scan.stack) - 1
      /\ \A i \in 1..Len(stack) : stack[i] = scan.stack[i]
  BY <1>1
<1>3. scan' = [scan EXCEPT !.stack = stack, !.pc = pc]
  BY <1>1 DEF LeaveDir
<1> HIDE DEF stack, pc
<1>4. /\ scan'.stack = stack /\ scan'.pc = pc
      /\ scan'.highest = scan.highest /\ scan'.track = scan.track /\ scan'.cache = scan.cache
      /\ scan'.albumId = scan.albumId /\ scan'.dbVersion = scan.dbVersion
  BY <1>1, <1>3 DEF Scanner
<1>. QED  BY <1>1, <1>2, <1>4 DEF pc

\* The frames of a walk through a tree: U is what the walk has not come to yet.  What a frame
\* still has to look at lies in its directory, which is not in U, and no directory is in two
\* frames.
Frames(stack, U) ==
  /\ \A n \in Names : In[n] \in U => n \in U
  /\ \A i \in 1..Len(stack) :
       /\ stack[i].dir \notin U /\ stack[i].left \subseteq U
       /\ \A n \in stack[i].left : In[n] = stack[i].dir
       /\ \A j \in 1..Len(stack) : i # j => stack[j].dir # stack[i].dir

\* A frame that has one entry less, and the frames below it.
LEMMA FramesLess ==
  ASSUME NEW s \in Seq(Frame), NEW U \in SUBSET Names, Frames(s, U),
         NEW t \in Seq(Frame), Len(t) <= Len(s),
         \A i \in 1..Len(t) : t[i].dir = s[i].dir /\ t[i].left \subseteq s[i].left,
         NEW n \in Names, In[n] \notin U, \A i \in 1..Len(t) : n \notin t[i].left
  PROVE  Frames(t, U \ {n})
<1>1. \A i \in 1..Len(t) : i \in 1..Len(s)
  OBVIOUS
<1>2. \A m \in Names : In[m] \in U \ {n} => m \in U \ {n}
  BY DEF Frames
<1>. QED  BY <1>1, <1>2 DEF Frames

LEMMA FramesFewer ==
  ASSUME NEW s \in Seq(Frame), NEW U \in SUBSET Names, Frames(s, U),
         NEW t \in Seq(Frame), Len(t) <= Len(s),
         \A i \in 1..Len(t) : t[i].dir = s[i].dir /\ t[i].left \subseteq s[i].left
  PROVE  Frames(t, U)
<1>1. \A i \in 1..Len(t) : i \in 1..Len(s)
  OBVIOUS
<1>. QED  BY <1>1 DEF Frames

\* A directory more.
LEMMA FramesMore ==
  ASSUME NEW s \in Seq(Frame), NEW U \in SUBSET Names, Frames(s, U),
         NEW t \in Seq(Frame), Len(t) = Len(s) + 1, \A i \in 1..Len(s) : t[i] = s[i],
         t[Len(t)].dir \notin U, \A i \in 1..Len(s) : s[i].dir # t[Len(t)].dir,
         t[Len(t)].left \subseteq U, \A n \in t[Len(t)].left : In[n] = t[Len(t)].dir
  PROVE  Frames(t, U)
<1>1. \A i \in 1..Len(t) : i = Len(t) \/ i \in 1..Len(s)
  OBVIOUS
<1>2. Len(t) \notin 1..Len(s)
  OBVIOUS
<1>3. ASSUME NEW i \in 1..Len(t)
      PROVE  /\ t[i].dir \notin U /\ t[i].left \subseteq U
             /\ \A n \in t[i].left : In[n] = t[i].dir
  BY <1>1, <1>3 DEF Frames
<1>4. ASSUME NEW i \in 1..Len(t), NEW j \in 1..Len(t), i # j PROVE t[j].dir # t[i].dir
  BY <1>1, <1>2, <1>4 DEF Frames
<1>. QED  BY <1>3, <1>4 DEF Frames

-----------------------------------------------------------------------------
(***************************************************************************)
(* What looking at entry n does to the tables and to the stack.            *)
(***************************************************************************)
\* The same row but for the number of the scan.
SameTitle(t, u) ==
  /\ u.id = t.id /\ u.name = t.name /\ u.stamp = t.stamp /\ u.tags = t.tags
  /\ u.parent = t.parent /\ u.album = t.album /\ u.artist = t.artist

SamePath(p, q) == q.id = p.id /\ q.name = p.name /\ q.parent = p.parent

LEMMA TitlesMarked ==
  ASSUME TypeInv, NEW known \in SUBSET db.titles,
         db' = [db EXCEPT !.titles = Touch(@, known, scan.dbVersion)]
  PROVE  /\ db'.paths = db.paths /\ db'.artists = db.artists /\ db'.albums = db.albums
         /\ db'.file = db.file /\ db'.counter = db.counter
         /\ \A t \in db.titles : \E u \in db'.titles :
              SameTitle(t, u) /\ ((u = t /\ t \notin known) \/ (u.version = scan.dbVersion /\ t \in known))
         /\ \A u \in db'.titles : \E t \in db.titles :
              SameTitle(t, u) /\ ((u = t /\ t \notin known) \/ (u.version = scan.dbVersion /\ t \in known))
<1>1. db \in Database /\ db.titles \in SUBSET TitleRow
  BY DEF TypeInv, TypeOK, Database
<1>2. /\ db'.titles = Touch(db.titles, known, scan.dbVersion)
      /\ db'.paths = db.paths /\ db'.artists = db.artists /\ db'.albums = db.albums
      /\ db'.file = db.file /\ db'.counter = db.counter
  BY <1>1 DEF Database
<1> DEFINE marked(o) == [o EXCEPT !.version = scan.dbVersion]
           new == Touch(db.titles, known, scan.dbVersion)
<1>3. \A o \in TitleRow : /\ SameTitle(o, o) /\ SameTitle(o, marked(o))
                          /\ marked(o).version = scan.dbVersion
  BY DEF SameTitle, TitleRow
<1>4. \A t \in db.titles : t \in TitleRow
  BY <1>1
<1>5. new = (db.titles \ known) \cup {marked(o) : o \in known}
  BY DEF Touch
<1> HIDE DEF new, marked
<1>6. ASSUME NEW t \in db.titles
      PROVE  \E u \in new :
               /\ SameTitle(t, u)
               /\ (u = t /\ t \notin known) \/ (u.version = scan.dbVersion /\ t \in known)
  <2>1. CASE t \in known
    BY <1>3, <1>4, <1>5, <2>1
  <2>2. CASE t \notin known
    BY <1>3, <1>4, <1>5, <2>2
  <2>. QED  BY <2>1, <2>2
<1>7. ASSUME NEW u \in new
      PROVE  \E t \in db.titles :
               /\ SameTitle(t, u)
               /\ (u = t /\ t \notin known) \/ (u.version = scan.dbVersion /\ t \in known)
  <2>1. CASE u \in db.titles \ known
    BY <1>3, <1>4, <2>1
  <2>2. CASE \E o \in known : u = marked(o)
    BY <1>3, <1>4, <2>2
  <2>. QED  BY <1>5, <2>1, <2>2
<1>. QED  BY <1>2, <1>6, <1>7 DEF new

LEMMA PathsMarked ==
  ASSUME TypeInv, NEW known \in SUBSET db.paths,
         db' = [db EXCEPT !.paths = Touch(@, known, scan.dbVersion)]
  PROVE  /\ db'.titles = db.titles /\ db'.artists = db.artists /\ db'.albums = db.albums
         /\ db'.file = db.file /\ db'.counter = db.counter
         /\ \A p \in db.paths : \E q \in db'.paths :
              SamePath(p, q) /\ ((q = p /\ p \notin known) \/ (q.version = scan.dbVersion /\ p \in known))
         /\ \A q \in db'.paths : \E p \in db.paths :
              SamePath(p, q) /\ ((q = p /\ p \notin known) \/ (q.version = scan.dbVersion /\ p \in known))
<1>1. db \in Database /\ db.paths \in SUBSET PathRow
  BY DEF TypeInv, TypeOK, Database
<1>2. /\ db'.paths = Touch(db.paths, known, scan.dbVersion)
      /\ db'.titles = db.titles /\ db'.artists = db.artists /\ db'.albums = db.albums
      /\ db'.file = db.file /\ db'.counter = db.counter
  BY <1>1 DEF Database
<1> DEFINE marked(o) == [o EXCEPT !.version = scan.dbVersion]
           new == Touch(db.paths, known, scan.dbVersion)
<1>3. \A o \in PathRow : /\ SamePath(o, o) /\ SamePath(o, marked(o))
                          /\ marked(o).version = scan.dbVersion
  BY DEF SamePath, PathRow
<1>4. \A p \in db.paths : p \in PathRow
  BY <1>1
<1>5. new = (db.paths \ known) \cup {marked(o) : o \in known}
  BY DEF Touch
<1> HIDE DEF new, marked
<1>6. ASSUME NEW p \in db.paths
      PROVE  \E q \in new :
               /\ SamePath(p, q)
               /\ (q = p /\ p \notin known) \/ (q.version = scan.dbVersion /\ p \in known)
  <2>1. CASE p \in known
    BY <1>3, <1>4, <1>5, <2>1
  <2>2. CASE p \notin known
    BY <1>3, <1>4, <1>5, <2>2
  <2>. QED  BY <2>1, <2>2
<1>7. ASSUME NEW q \in new
      PROVE  \E p \in db.paths :
               /\ SamePath(p, q)
               /\ (q = p /\ p \notin known) \/ (q.version = scan.dbVersion /\ p \in known)
  <2>1. CASE q \in db.paths \ known
    BY <1>3, <1>4, <2>1
  <2>2. CASE \E o \in known : q = marked(o)
    BY <1>3, <1>4, <2>2
  <2>. QED  BY <1>5, <2>1, <2>2
<1>. QED  BY <1>2, <1>6, <1>7 DEF new

\* A step that looks at entry n of the directory on top.
Visit(n) ==
  \/ PassOver(n) \/ MarkFile(n) \/ NewFile(n) \/ MarkFails(n)
  \/ MarkDir(n) \/ MarkDirNoId(n) \/ NewDir(n) \/ NewDirFails(n)

\* Only the stack changes in the scanner.
LEMMA StackOnly ==
  ASSUME TypeInv, NEW s, scan' = [scan EXCEPT !.stack = s]
  PROVE  /\ scan'.stack = s /\ scan'.pc = scan.pc /\ scan'.highest = scan.highest
         /\ scan'.track = scan.track /\ scan'.cache = scan.cache /\ scan'.albumId = scan.albumId
         /\ scan'.dbVersion = scan.dbVersion /\ scan'.deadArtists = scan.deadArtists
         /\ scan'.deadAlbums = scan.deadAlbums
BY DEF TypeInv, TypeOK, Scanner

LEMMA VisitIn ==
  ASSUME TypeInv, NEW n \in Names, Visit(n)
  PROVE  /\ scan.pc = "walk" /\ scan.stack # <<>> /\ n \in Top.left
         /\ UNCHANGED <<disk, shared, saved>>
         /\ live' \in {live, db'} /\ ahead' = ahead /\ aged' = aged /\ (steady' => steady)
         /\ scan'.pc \in {"walk", "tags"} /\ scan'.dbVersion = scan.dbVersion
         /\ scan'.pc = "tags" => scan'.track.name = n
<1>1. /\ scan.pc = "walk" /\ scan.stack # <<>> /\ n \in Top.left
      /\ UNCHANGED <<disk, shared, saved>>
      /\ live' \in {live, db'} /\ ahead' = ahead /\ aged' = aged /\ (steady' => steady)
  <2>1. CASE PassOver(n)
    BY <2>1 DEF PassOver, Visits, tables, history
  <2>6. CASE NewFile(n)
    BY <2>6 DEF NewFile, Visits, tables
  <2>7. CASE MarkFails(n)
    BY <2>7 DEF MarkFails, Visits, tables, Rough
  <2>8. CASE NewDirFails(n)
    BY <2>8 DEF NewDirFails, Visits, tables, Rough
  <2>2. CASE MarkFile(n)
    BY <2>2 DEF MarkFile, Visits, Write, history
  <2>3. CASE MarkDirNoId(n)
    BY <2>3 DEF MarkDirNoId, Visits, Write, Rough
  <2>4. CASE MarkDir(n)
    BY <2>4 DEF MarkDir, Visits, Write, history, Rough, Smooth, OpensOrNot
  <2>5. CASE NewDir(n)
    BY <2>5 DEF NewDir, Visits, Write, history, Rough, Smooth, OpensOrNot
  <2>. QED  BY <2>1, <2>2, <2>3, <2>4, <2>5, <2>6, <2>7, <2>8 DEF Visit
<1>2. CASE NewFile(n)
  BY <1>1, <1>2, NewFileDoes
<1>3. CASE NewDir(n)
  BY <1>1, <1>3, NewDirDoes
<1>4. CASE ~NewFile(n) /\ ~NewDir(n)
  <2>1. PICK s : scan' = [scan EXCEPT !.stack = s]
    BY <1>4 DEF Visit, PassOver, MarkFile, MarkFails, MarkDir, MarkDirNoId, NewDirFails
  <2>. QED  BY <1>1, <2>1, StackOnly
<1>. QED  BY <1>2, <1>3, <1>4

\* Titles: those of a file with this folder and name may get the number of the scan.
LEMMA VisitTitles ==
  ASSUME TypeInv, NEW n \in Names, Visit(n)
  PROVE  /\ \A t \in db.titles : \E u \in db'.titles :
              SameTitle(t, u) /\ (u = t \/ u.version = scan.dbVersion)
         /\ \A u \in db'.titles : \E t \in db.titles :
              SameTitle(t, u) /\ (u = t \/ (u.version = scan.dbVersion /\ u.parent = Top.id /\ u.name = n))
<1>1. CASE MarkFile(n)
  <2>1. PICK looks \in Contents :
          db' = [db EXCEPT !.titles = Touch(@, TitlesOf(db, looks, Top.id, n), scan.dbVersion)]
    BY <1>1 DEF MarkFile, Write
  <2> DEFINE known == TitlesOf(db, looks, Top.id, n)
  <2>2. known \in SUBSET db.titles /\ \A t \in known : t.parent = Top.id /\ t.name = n
    BY DEF TitlesOf, SameFile
  <2> HIDE DEF known
  <2>3. db' = [db EXCEPT !.titles = Touch(@, known, scan.dbVersion)]
    BY <2>1 DEF known
  <2>4. /\ \A t \in db.titles : \E u \in db'.titles :
             SameTitle(t, u) /\ ((u = t /\ t \notin known) \/ (u.version = scan.dbVersion /\ t \in known))
        /\ \A u \in db'.titles : \E t \in db.titles :
             SameTitle(t, u) /\ ((u = t /\ t \notin known) \/ (u.version = scan.dbVersion /\ t \in known))
    BY <2>2, <2>3, TitlesMarked
  <2>5. \A t, u : SameTitle(t, u) => u.parent = t.parent /\ u.name = t.name
    BY DEF SameTitle
  <2>. QED  BY <2>2, <2>4, <2>5
<1>2. CASE ~MarkFile(n)
  <2>1. db'.titles = db.titles
    <3>1. CASE MarkDir(n) \/ MarkDirNoId(n)
      <4>1. db' = [db EXCEPT !.paths = Touch(@, PathsOf(db, Top.id, n), scan.dbVersion)]
        BY <3>1 DEF MarkDir, MarkDirNoId, Write
      <4>2. PathsOf(db, Top.id, n) \in SUBSET db.paths
        BY DEF PathsOf
      <4>. QED  BY <4>1, <4>2, PathsMarked
    <3>2. CASE NewDir(n)
      BY <3>2, IdNumbers DEF NewDir, Write, Database
    <3>3. CASE PassOver(n) \/ MarkFails(n) \/ NewDirFails(n)
      BY <3>3 DEF PassOver, MarkFails, NewDirFails, tables
    <3>4. CASE NewFile(n)
      BY <3>4 DEF NewFile, tables
    <3>. QED  BY <1>2, <3>1, <3>2, <3>3, <3>4 DEF Visit
  <2>. QED  BY <2>1 DEF SameTitle
<1>. QED  BY <1>1, <1>2

\* Folders: those with this name may get the number of the scan, or a row is new.
LEMMA VisitPaths ==
  ASSUME TypeInv, NEW n \in Names, Visit(n)
  PROVE  /\ \A p \in db.paths : \E q \in db'.paths :
              SamePath(p, q) /\ (q = p \/ q.version = scan.dbVersion)
         /\ \A q \in db'.paths :
              \/ q \in db.paths
              \/ q.version = scan.dbVersion /\ q.parent = Top.id /\ q.name = n
<1>1. CASE MarkDir(n) \/ MarkDirNoId(n)
  <2> DEFINE known == PathsOf(db, Top.id, n)
  <2>1. db' = [db EXCEPT !.paths = Touch(@, known, scan.dbVersion)]
    BY <1>1 DEF MarkDir, MarkDirNoId, Write
  <2>2. known \in SUBSET db.paths /\ \A p \in known : p.parent = Top.id /\ p.name = n
    BY DEF PathsOf
  <2> HIDE DEF known
  <2>4. /\ \A p \in db.paths : \E q \in db'.paths :
             SamePath(p, q) /\ ((q = p /\ p \notin known) \/ (q.version = scan.dbVersion /\ p \in known))
        /\ \A q \in db'.paths : \E p \in db.paths :
             SamePath(p, q) /\ ((q = p /\ p \notin known) \/ (q.version = scan.dbVersion /\ p \in known))
    BY <2>1, <2>2, PathsMarked
  <2>5. \A p, q : SamePath(p, q) => q.parent = p.parent /\ q.name = p.name
    BY DEF SamePath
  <2>. QED  BY <2>2, <2>4, <2>5
<1>2. CASE NewDir(n)
  <2> DEFINE row == [id |-> scan.highest.paths + 1, parent |-> Top.id, name |-> n,
                     version |-> scan.dbVersion]
  <2>1. db' = [db EXCEPT !.paths = @ \cup {row}]
    BY <1>2 DEF NewDir, Write
  <2>2. row.version = scan.dbVersion /\ row.parent = Top.id /\ row.name = n
    OBVIOUS
  <2> HIDE DEF row
  <2>3. db'.paths = db.paths \cup {row}
    BY <2>1, IdNumbers DEF Database
  <2>. QED  BY <2>2, <2>3 DEF SamePath
<1>3. CASE MarkFile(n)
  <2>1. PICK looks \in Contents :
          db' = [db EXCEPT !.titles = Touch(@, TitlesOf(db, looks, Top.id, n), scan.dbVersion)]
    BY <1>3 DEF MarkFile, Write
  <2>2. TitlesOf(db, looks, Top.id, n) \in SUBSET db.titles
    BY DEF TitlesOf
  <2>3. db'.paths = db.paths
    BY <2>1, <2>2, TitlesMarked
  <2>. QED  BY <2>3 DEF SamePath
<1>4. CASE PassOver(n) \/ MarkFails(n) \/ NewDirFails(n)
  BY <1>4 DEF PassOver, MarkFails, NewDirFails, tables, SamePath
<1>5. CASE NewFile(n)
  BY <1>5 DEF NewFile, tables, SamePath
<1>. QED  BY <1>1, <1>2, <1>3, <1>4, <1>5 DEF Visit

\* Frames: those there are keep their directory, the one on top loses n; or n is opened.
LEMMA VisitStack ==
  ASSUME TypeInv, NEW n \in Names, Visit(n)
  PROVE  \/ \E looks \in Contents \cup {Dir} : scan'.stack = After(n, looks)
         \/ scan'.stack = GivenUp
         \/ \E id \in Nat :
              /\ scan'.stack = Opened(After(n, Dir), n, id)
              /\ \E p \in db'.paths : p.name = n /\ p.id = id /\ p.version = scan.dbVersion
<1>1. scan.stack # <<>> /\ scan.dbVersion \in Nat
  BY VisitIn DEF TypeInv, TypeOK, Scanner
<1>2. CASE PassOver(n) \/ MarkFile(n)
  <2>1. PICK looks \in Contents : scan' = [scan EXCEPT !.stack = After(n, looks)]
    BY <1>2 DEF PassOver, MarkFile
  <2>. QED  BY <2>1, StackOnly
<1>3. CASE NewFile(n)
  BY <1>3, NewFileDoes
<1>4. CASE MarkFails(n) \/ MarkDirNoId(n) \/ NewDirFails(n)
  <2>1. scan' = [scan EXCEPT !.stack = GivenUp]
    BY <1>4 DEF MarkFails, MarkDirNoId, NewDirFails
  <2>. QED  BY <2>1, StackOnly
<1>5. CASE MarkDir(n)
  <2>1. PICK p \in PathsOf(db, Top.id, n), opens \in BOOLEAN :
          scan' = [scan EXCEPT !.stack = Entered(n, p.id, opens)]
    BY <1>5 DEF MarkDir
  <2>2. scan'.stack = Entered(n, p.id, opens)
    BY <2>1, StackOnly
  <2>3. p \in db.paths /\ p.name = n /\ p.id \in Nat
    BY IdNumbers DEF PathsOf
  <2>4. \E q \in db'.paths : q.name = n /\ q.id = p.id /\ q.version = scan.dbVersion
    <3> DEFINE known == PathsOf(db, Top.id, n)
    <3>1. db' = [db EXCEPT !.paths = Touch(@, known, scan.dbVersion)]
      BY <1>5 DEF MarkDir, Write
    <3>2. known \in SUBSET db.paths /\ p \in known
      BY <2>1 DEF PathsOf
    <3> HIDE DEF known
    <3>3. PICK q \in db'.paths : SamePath(p, q) /\ q.version = scan.dbVersion
      BY <2>3, <3>1, <3>2, PathsMarked
    <3>. QED  BY <2>3, <3>3 DEF SamePath
  <2>. QED  BY <2>2, <2>3, <2>4 DEF Entered
<1>6. CASE NewDir(n)
  <2> DEFINE id == scan.highest.paths + 1
             row == [id |-> id, parent |-> Top.id, name |-> n, version |-> scan.dbVersion]
  <2>1. PICK opens \in BOOLEAN : scan'.stack = Entered(n, id, opens)
    BY <1>6, NewDirDoes
  <2>2. id \in Nat
    BY IdNumbers
  <2>3. row.name = n /\ row.id = id /\ row.version = scan.dbVersion
    OBVIOUS
  <2>4. db' = [db EXCEPT !.paths = @ \cup {row}]
    BY <1>6 DEF NewDir, Write
  <2> HIDE DEF row
  <2>5. row \in db'.paths
    BY <2>4, IdNumbers DEF Database
  <2>. QED  BY <2>1, <2>2, <2>3, <2>5 DEF Entered
<1>. QED  BY <1>2, <1>3, <1>4, <1>5, <1>6 DEF Visit

LEMMA VisitFrames ==
  ASSUME TypeInv, NEW n \in Names, Visit(n)
  PROVE  /\ scan.stack \in Seq(Frame) /\ scan'.stack \in Seq(Frame)
         /\ Len(scan.stack) \in Nat \ {0}
         /\ \A i \in 1..Len(scan.stack) :
              /\ scan'.stack[i].dir = scan.stack[i].dir /\ scan'.stack[i].id = scan.stack[i].id
              /\ scan'.stack[i].left \subseteq scan.stack[i].left
              /\ i # Len(scan.stack) => scan'.stack[i].left = scan.stack[i].left
         /\ n \notin scan'.stack[Len(scan.stack)].left
         /\ \/ Len(scan'.stack) = Len(scan.stack)
            \/ /\ Len(scan'.stack) = Len(scan.stack) + 1
               /\ scan'.stack[Len(scan'.stack)].dir = n
               /\ scan'.stack[Len(scan'.stack)].left = Entries(n)
               /\ \E p \in db'.paths : /\ p.name = n /\ p.version = scan.dbVersion
                                       /\ p.id = scan'.stack[Len(scan'.stack)].id
<1>1. /\ scan.stack \in Seq(Frame) /\ scan.stack # <<>> /\ Len(scan.stack) \in Nat \ {0}
      /\ Top = scan.stack[Len(scan.stack)]
  BY VisitIn, TopTyped DEF TypeInv, TypeOK, Scanner, Top
<1>0. ASSUME NEW looks \in Contents \cup {Dir}
      PROVE  /\ After(n, looks) \in Seq(Frame) /\ Len(After(n, looks)) = Len(scan.stack)
             /\ \A i \in 1..Len(scan.stack) :
                  /\ After(n, looks)[i].dir = scan.stack[i].dir
                  /\ After(n, looks)[i].id = scan.stack[i].id
                  /\ After(n, looks)[i].left
                       = IF i = Len(scan.stack) THEN Top.left \ {n} ELSE scan.stack[i].left
  BY <1>1, AfterDoes
<1>2. CASE \E looks \in Contents \cup {Dir} : scan'.stack = After(n, looks)
  <2>1. PICK looks \in Contents \cup {Dir} : scan'.stack = After(n, looks)
    BY <1>2
  <2>2. /\ scan'.stack \in Seq(Frame) /\ Len(scan'.stack) = Len(scan.stack)
        /\ \A i \in 1..Len(scan.stack) :
             /\ scan'.stack[i].dir = scan.stack[i].dir /\ scan'.stack[i].id = scan.stack[i].id
             /\ scan'.stack[i].left
                  = IF i = Len(scan.stack) THEN Top.left \ {n} ELSE scan.stack[i].left
    <3>1. PICK s : s = After(n, looks)
      OBVIOUS
    <3>2. /\ s \in Seq(Frame) /\ Len(s) = Len(scan.stack)
          /\ \A i \in 1..Len(scan.stack) :
               /\ s[i].dir = scan.stack[i].dir /\ s[i].id = scan.stack[i].id
               /\ s[i].left = IF i = Len(scan.stack) THEN Top.left \ {n} ELSE scan.stack[i].left
      BY <1>0, <3>1
    <3>3. scan'.stack = s
      BY <2>1, <3>1
    <3>. QED  BY <3>2, <3>3
  <2>3. Len(scan.stack) \in 1..Len(scan.stack)
    BY <1>1
  <2>. QED  BY <1>1, <2>2, <2>3
<1>3. CASE scan'.stack = GivenUp
  <2>1. /\ scan'.stack \in Seq(Frame) /\ Len(scan'.stack) = Len(scan.stack)
        /\ \A i \in 1..Len(scan.stack) :
             /\ scan'.stack[i].dir = scan.stack[i].dir /\ scan'.stack[i].id = scan.stack[i].id
             /\ scan'.stack[i].left = IF i = Len(scan.stack) THEN {} ELSE scan.stack[i].left
    BY <1>1, <1>3, GivenUpDoes
  <2>2. Len(scan.stack) \in 1..Len(scan.stack)
    BY <1>1
  <2>. QED  BY <1>1, <2>1, <2>2
<1>4. ASSUME NEW id \in Nat, scan'.stack = Opened(After(n, Dir), n, id),
             \E p \in db'.paths : p.name = n /\ p.id = id /\ p.version = scan.dbVersion
      PROVE  /\ scan'.stack \in Seq(Frame)
             /\ \A i \in 1..Len(scan.stack) :
                  /\ scan'.stack[i].dir = scan.stack[i].dir /\ scan'.stack[i].id = scan.stack[i].id
                  /\ scan'.stack[i].left \subseteq scan.stack[i].left
                  /\ i # Len(scan.stack) => scan'.stack[i].left = scan.stack[i].left
             /\ n \notin scan'.stack[Len(scan.stack)].left
             /\ Len(scan'.stack) = Len(scan.stack) + 1
             /\ scan'.stack[Len(scan'.stack)].dir = n
             /\ scan'.stack[Len(scan'.stack)].left = Entries(n)
             /\ \E p \in db'.paths : /\ p.name = n /\ p.version = scan.dbVersion
                                     /\ p.id = scan'.stack[Len(scan'.stack)].id
  <2>0. PICK s : s = After(n, Dir)
    OBVIOUS
  <2>1. /\ s \in Seq(Frame) /\ Len(s) = Len(scan.stack)
        /\ \A i \in 1..Len(scan.stack) :
             /\ s[i].dir = scan.stack[i].dir /\ s[i].id = scan.stack[i].id
             /\ s[i].left = IF i = Len(scan.stack) THEN Top.left \ {n} ELSE scan.stack[i].left
    BY <1>0, <2>0
  <2>2. /\ scan'.stack \in Seq(Frame) /\ Len(scan'.stack) = Len(s) + 1
        /\ \A i \in 1..Len(s) : scan'.stack[i] = s[i]
        /\ scan'.stack[Len(s) + 1].dir = n /\ scan'.stack[Len(s) + 1].id = id
        /\ scan'.stack[Len(s) + 1].left = Entries(n)
    <3>1. scan'.stack = Opened(s, n, id) /\ s \in Seq(Frame) /\ n \in Names
      BY <1>4, <2>0, <2>1
    <3>2. PICK f : f = [dir |-> n, id |-> id, left |-> Entries(n), last |-> Unset]
      OBVIOUS
    <3>3. f \in Frame /\ f.dir = n /\ f.id = id /\ f.left = Entries(n)
      BY <1>4, <3>2 DEF Frame, Entries
    <3>4. scan'.stack = Append(s, f)
      BY <3>1, <3>2 DEF Opened
    <3>. QED  BY <3>1, <3>3, <3>4
  <2>3. /\ Len(scan'.stack) = Len(scan.stack) + 1
        /\ scan'.stack[Len(scan'.stack)].dir = n /\ scan'.stack[Len(scan'.stack)].id = id
        /\ scan'.stack[Len(scan'.stack)].left = Entries(n)
    BY <2>1, <2>2
  <2>4. ASSUME NEW i \in 1..Len(scan.stack)
        PROVE  /\ scan'.stack[i].dir = scan.stack[i].dir /\ scan'.stack[i].id = scan.stack[i].id
               /\ scan'.stack[i].left \subseteq scan.stack[i].left
               /\ i # Len(scan.stack) => scan'.stack[i].left = scan.stack[i].left
    BY <1>1, <2>1, <2>2
  <2>5. n \notin scan'.stack[Len(scan.stack)].left
    BY <1>1, <2>1, <2>2
  <2>. QED  BY <1>4, <2>2, <2>3, <2>4, <2>5
<1>. QED  BY <1>1, <1>2, <1>3, <1>4, VisitStack

-----------------------------------------------------------------------------
(***************************************************************************)
(* The walk.                                                               *)
(***************************************************************************)
\* The folder d is in the tables with this id and the number of the scan.
FolderIn(rows, v, d, id) ==
  IF d = Root THEN id = MinPathId
  ELSE \E p \in rows : p.name = d /\ p.id = id /\ p.version >= v

FolderOf(d, id) == FolderIn(db.paths, scan.dbVersion, d, id)

\* U is what the walk has not come to.  Each frame's folder is in the tables, and a new file
\* lies in the one on top.
Walked(U) ==
  /\ Frames(scan.stack, U)
  /\ \A i \in 1..Len(scan.stack) : FolderOf(scan.stack[i].dir, scan.stack[i].id)
  /\ scan.pc \in InFile => scan.track.name \in Names \ U /\ In[scan.track.name] = Top.dir

\* A folder stays in the tables while its row is not taken away.
LEMMA FolderKept ==
  ASSUME NEW rows, NEW more, NEW v \in Nat,
         \A p \in rows : \E q \in more : SamePath(p, q) /\ (q = p \/ q.version = v),
         NEW d, NEW id, FolderIn(rows, v, d, id)
  PROVE  FolderIn(more, v, d, id)
<1>1. CASE d = Root
  BY <1>1 DEF FolderIn
<1>2. CASE d # Root
  <2>1. PICK p \in rows : p.name = d /\ p.id = id /\ p.version >= v
    BY <1>2 DEF FolderIn
  <2>2. PICK q \in more : SamePath(p, q) /\ (q = p \/ q.version = v)
    BY <2>1
  <2>3. q.version >= v
    BY <2>1, <2>2
  <2>. QED  BY <1>2, <2>1, <2>2, <2>3 DEF FolderIn, SamePath
<1>. QED  BY <1>1, <1>2

LEMMA WalkedVisit ==
  ASSUME TypeInv, NEW U \in SUBSET Names, Walked(U), NEW n \in Names, Visit(n)
  PROVE  Walked(U \ {n})' /\ n \in U /\ In[n] = Top.dir /\ In[n] \notin U
<1> DEFINE m == Len(scan.stack)
           s == scan'.stack
<1>1. /\ scan.stack \in Seq(Frame) /\ s \in Seq(Frame) /\ m \in Nat \ {0}
      /\ \A i \in 1..m : /\ s[i].dir = scan.stack[i].dir /\ s[i].id = scan.stack[i].id
                         /\ s[i].left \subseteq scan.stack[i].left
      /\ n \notin s[m].left
      /\ \/ Len(s) = m
         \/ /\ Len(s) = m + 1 /\ s[Len(s)].dir = n /\ s[Len(s)].left = Entries(n)
            /\ \E p \in db'.paths : p.name = n /\ p.version = scan.dbVersion /\ p.id = s[Len(s)].id
  BY VisitFrames
<1>2. /\ n \in Top.left /\ Top = scan.stack[m] /\ scan'.dbVersion = scan.dbVersion
      /\ scan.dbVersion \in Nat /\ Frames(scan.stack, U)
      /\ scan'.pc \in {"walk", "tags"} /\ (scan'.pc = "tags" => scan'.track.name = n)
  BY VisitIn DEF Top, Walked, TypeInv, TypeOK, Scanner
<1>3. n \in U /\ In[n] = Top.dir /\ In[n] \notin U /\ n # In[n]
  BY <1>1, <1>2 DEF Frames
<1>4. \A i \in 1..m : n \notin s[i].left
  <2>1. ASSUME NEW i \in 1..m, i # m PROVE n \notin scan.stack[i].left
    BY <1>1, <1>2, <1>3, <2>1 DEF Frames
  <2>. QED  BY <1>1, <2>1
<1>5. \A i \in 1..Len(s) : FolderIn(db'.paths, scan'.dbVersion, s[i].dir, s[i].id)
  <2>1. ASSUME NEW i \in 1..m PROVE FolderIn(db'.paths, scan'.dbVersion, s[i].dir, s[i].id)
    <3>1. FolderIn(db.paths, scan.dbVersion, scan.stack[i].dir, scan.stack[i].id)
      BY DEF Walked, FolderOf
    <3>2. \A p \in db.paths : \E q \in db'.paths :
            SamePath(p, q) /\ (q = p \/ q.version = scan.dbVersion)
      BY VisitPaths
    <3>3. FolderIn(db'.paths, scan.dbVersion, scan.stack[i].dir, scan.stack[i].id)
      BY <1>2, <3>1, <3>2, FolderKept
    <3>. QED  BY <1>1, <1>2, <3>3
  <2>2. CASE Len(s) = m + 1
    <3>1. PICK p \in db'.paths : p.name = n /\ p.version = scan.dbVersion /\ p.id = s[Len(s)].id
      BY <1>1, <2>2
    <3>2. n # Root /\ s[Len(s)].dir = n
      BY <1>1, <2>2, TreeOK
    <3>3. FolderIn(db'.paths, scan'.dbVersion, s[Len(s)].dir, s[Len(s)].id)
      BY <1>2, <3>1, <3>2 DEF FolderIn
    <3>4. \A i \in 1..Len(s) : i \in 1..m \/ i = Len(s)
      BY <1>1, <2>2
    <3>. QED  BY <2>1, <3>3, <3>4
  <2>. QED  BY <1>1, <2>1, <2>2
<1>6. Frames(s, U \ {n})
  <2>0. PICK old, new : old = scan.stack /\ new = s
    OBVIOUS
  <2>1. /\ old \in Seq(Frame) /\ new \in Seq(Frame) /\ m = Len(old) /\ Frames(old, U)
        /\ \A i \in 1..m : new[i].dir = old[i].dir /\ new[i].left \subseteq old[i].left
        /\ \A i \in 1..m : n \notin new[i].left
    BY <1>1, <1>2, <1>4, <2>0
  <2>2. CASE Len(s) = m
    <3>1. Len(new) = Len(old) /\ Len(new) <= Len(old)
      BY <1>1, <2>0, <2>1, <2>2
    <3>2. Frames(new, U \ {n})
      BY <1>3, <2>1, <3>1, FramesLess
    <3>. QED  BY <2>0, <3>2
  <2>3. CASE Len(s) = m + 1
    <3>1. PICK t : t = SubSeq(s, 1, m)
      OBVIOUS
    <3>2. t \in Seq(Frame) /\ Len(t) = m /\ \A i \in 1..m : t[i] = new[i]
      BY <1>1, <2>0, <2>3, <3>1
    <3>3. Len(t) = Len(old) /\ Len(t) <= Len(old)
      BY <1>1, <2>0, <2>1, <3>2
    <3>4. \A i \in 1..Len(t) : t[i].dir = old[i].dir /\ t[i].left \subseteq old[i].left /\ n \notin t[i].left
      BY <2>1, <3>2
    <3>5. Frames(t, U \ {n})
      BY <1>3, <2>1, <3>2, <3>3, <3>4, FramesLess
    <3>6. Entries(n) \subseteq U \ {n} /\ \A k \in Entries(n) : In[k] = n
      BY <1>2, <1>3 DEF Entries, Frames
    <3>7. \A i \in 1..m : t[i].dir # n
      BY <1>3, <2>1, <3>2, <3>4 DEF Frames
    <3>8. /\ Len(new) = Len(t) + 1 /\ new[Len(new)].dir = n /\ new[Len(new)].left = Entries(n)
          /\ \A i \in 1..Len(t) : new[i] = t[i]
      BY <1>1, <2>0, <2>3, <3>2
    <3>9. U \ {n} \in SUBSET Names
      OBVIOUS
    <3>10. Frames(new, U \ {n})
      BY <2>1, <3>2, <3>5, <3>6, <3>7, <3>8, <3>9, FramesMore, SMTT(30)
    <3>. QED  BY <2>0, <3>10
  <2>. QED  BY <1>1, <2>2, <2>3
<1>7. scan'.pc \in InFile => n \in Names \ (U \ {n}) /\ In[n] = Top'.dir /\ scan'.track.name = n
  <2>1. ASSUME scan'.pc \in InFile PROVE Len(s) = m /\ scan'.track.name = n
    <3>1. NewFile(n)
      <4>1. scan'.pc # "walk"
        BY <2>1 DEF InFile
      <4>2. SUFFICES ASSUME ~NewFile(n) PROVE scan'.pc = "walk"
        BY <4>1
      <4>3. CASE NewDir(n)
        BY <4>3, NewDirDoes
      <4>4. CASE ~NewDir(n)
        <5>1. PICK x : scan' = [scan EXCEPT !.stack = x]
          BY <4>2, <4>4 DEF Visit, PassOver, MarkFile, MarkFails, MarkDir, MarkDirNoId, NewDirFails
        <5>. QED  BY <5>1, StackOnly, VisitIn
      <4>. QED  BY <4>3, <4>4
    <3>2. PICK looks \in Contents : s = After(n, looks) /\ scan'.track.name = n
      BY <3>1, NewFileDoes
    <3>3. scan.stack # <<>> /\ looks \in Contents \cup {Dir}
      BY VisitIn
    <3>4. Len(After(n, looks)) = m
      BY <3>3, AfterDoes
    <3>. QED  BY <3>2, <3>4
  <2>2. ASSUME scan'.pc \in InFile PROVE Top'.dir = Top.dir
    BY <1>1, <1>2, <2>1, <2>2 DEF Top
  <2>. QED  BY <1>3, <2>1, <2>2
<1>. QED  BY <1>3, <1>5, <1>6, <1>7 DEF Walked, FolderOf

-----------------------------------------------------------------------------
(***************************************************************************)
(* What the other steps of a walk do.                                      *)
(***************************************************************************)
\* Looking up the artist and the album leaves titles and folders alone.
LEMMA LookUpDoes ==
  ASSUME TypeInv,
         \/ ArtistCached \/ ArtistFound \/ ArtistAdded \/ ArtistFails
         \/ AlbumCached \/ AlbumFound \/ AlbumAdded \/ AlbumFails
  PROVE  /\ scan.pc \in {"artist", "album"} /\ scan'.pc \in {"album", "title"}
         /\ scan'.stack = scan.stack /\ scan'.dbVersion = scan.dbVersion
         /\ scan'.track.name = scan.track.name /\ scan'.track.stamp = scan.track.stamp
         /\ scan'.track.artist = scan.track.artist /\ scan'.track.tags = scan.track.tags
         /\ db'.titles = db.titles /\ db'.paths = db.paths /\ db'.file = db.file
         /\ live' \in {live, db'} /\ (live' = live \/ ~InTransaction) /\ saved' = saved
         /\ disk' = disk /\ UNCHANGED shared
         /\ ahead' = ahead /\ aged' = aged /\ (steady' => steady) /\ slipped' = slipped
<1>1. /\ scan.pc \in {"artist", "album"} /\ scan \in Scanner /\ db \in Database
      /\ scan.track \in Track
  <2>1. scan.pc \in {"artist", "album"}
    BY DEF ArtistCached, ArtistFound, ArtistAdded, ArtistFails, AlbumCached, AlbumFound,
       AlbumAdded, AlbumFails
  <2>. QED  BY <2>1, IdNumbers, TrackTyped
<1>2. CASE ArtistCached
  <2> DEFINE t == [scan.track EXCEPT !.artistId = scan.cache.artistId]
  <2>1. scan' = [scan EXCEPT !.pc = "album", !.track = t] /\ db' = db /\ live' = live /\ saved' = saved
    BY <1>1, <1>2 DEF ArtistCached, tables, Scanner
  <2>2. /\ t.name = scan.track.name /\ t.stamp = scan.track.stamp
        /\ t.artist = scan.track.artist /\ t.tags = scan.track.tags
    BY <1>1 DEF Track
  <2> HIDE DEF t
  <2>3. /\ scan'.pc = "album" /\ scan'.stack = scan.stack /\ scan'.dbVersion = scan.dbVersion
        /\ scan'.track = t
    BY <1>1, <2>1 DEF Scanner
  <2>. QED  BY <1>1, <1>2, <2>1, <2>2, <2>3 DEF ArtistCached, history
<1>3. CASE ArtistFound \/ ArtistFails
  <2>1. PICK id \in Id : GotArtist(id, scan.highest.artists, FALSE) /\ scan.pc = "artist"
    <3>1. CASE ArtistFound
      BY <3>1, IdNumbers DEF ArtistFound, ArtistsNamed, Id
    <3>2. CASE ArtistFails
      BY <3>2 DEF ArtistFails, Id
    <3>. QED  BY <1>3, <3>1, <3>2
  <2>2. /\ scan'.pc = "album" /\ scan'.stack = scan.stack /\ scan'.dbVersion = scan.dbVersion
        /\ scan'.track.name = scan.track.name /\ scan'.track.stamp = scan.track.stamp
        /\ scan'.track.artist = scan.track.artist /\ scan'.track.tags = scan.track.tags
    BY <2>1, IdNumbers, GotArtistDoes
  <2>3. /\ UNCHANGED <<db, live, saved, disk, shared>> /\ (Smooth \/ Rough)
    BY <1>3 DEF ArtistFound, ArtistFails, tables, Smooth
  <2>. QED  BY <1>1, <2>2, <2>3 DEF Smooth, Rough, history
<1>4. CASE ArtistAdded
  <2> DEFINE id == scan.highest.artists + 1
             row == [id |-> id, name |-> scan.track.artist]
  <2>1. GotArtist(id, id, TRUE) /\ scan.pc = "artist"
    BY <1>4 DEF ArtistAdded
  <2>2. id \in Nat /\ id \in Id
    BY IdNumbers DEF Id
  <2>3. /\ scan'.pc = "album" /\ scan'.stack = scan.stack /\ scan'.dbVersion = scan.dbVersion
        /\ scan'.track.name = scan.track.name /\ scan'.track.stamp = scan.track.stamp
        /\ scan'.track.artist = scan.track.artist /\ scan'.track.tags = scan.track.tags
    BY <2>1, <2>2, GotArtistDoes
  <2>4. db' = [db EXCEPT !.artists = @ \cup {row}]
    BY <1>4 DEF ArtistAdded, Write
  <2> HIDE DEF row
  <2>5. db'.titles = db.titles /\ db'.paths = db.paths /\ db'.file = db.file
    BY <1>1, <2>4 DEF Database
  <2>6. /\ live' \in {live, db'} /\ (live' = live \/ ~InTransaction)
        /\ saved' = saved /\ disk' = disk /\ UNCHANGED shared /\ (Smooth \/ Rough)
    BY <1>4 DEF ArtistAdded, Write, NotFound
  <2>. QED  BY <1>1, <2>3, <2>5, <2>6 DEF Smooth, Rough, history
<1>5. CASE AlbumCached
  <2>1. /\ scan'.pc = "title" /\ scan'.stack = scan.stack /\ scan'.dbVersion = scan.dbVersion
        /\ scan'.track = scan.track
    BY <1>1, <1>5 DEF AlbumCached, Scanner
  <2>. QED  BY <1>1, <1>5, <2>1 DEF AlbumCached, tables, history
<1>6. CASE AlbumFound \/ AlbumFails
  <2>1. scan.pc = "album"
        /\ \/ \E id \in Id : GotAlbum(id, scan.highest.albums, FALSE)
           \/ scan' = [scan EXCEPT !.pc = "title", !.albumId = FAILURE]
    <3>1. CASE AlbumFound
      BY <3>1, IdNumbers DEF AlbumFound, AlbumsOfTrack, AlbumsNamed, Id
    <3>2. CASE AlbumFails
      BY <3>2 DEF AlbumFails, Id
    <3>. QED  BY <1>6, <3>1, <3>2
  <2>2. /\ scan'.pc = "title" /\ scan'.stack = scan.stack /\ scan'.dbVersion = scan.dbVersion
        /\ scan'.track = scan.track
    <3>1. CASE scan' = [scan EXCEPT !.pc = "title", !.albumId = FAILURE]
      BY <1>1, <3>1 DEF Scanner
    <3>2. CASE \E id \in Id : GotAlbum(id, scan.highest.albums, FALSE)
      BY <2>1, <3>2, IdNumbers, GotAlbumDoes
    <3>. QED  BY <2>1, <3>1, <3>2
  <2>3. /\ UNCHANGED <<db, live, saved, disk, shared>> /\ (Smooth \/ Rough)
    BY <1>6 DEF AlbumFound, AlbumFails, tables, Smooth
  <2>. QED  BY <1>1, <2>2, <2>3 DEF Smooth, Rough, history
<1>7. CASE AlbumAdded
  <2> DEFINE id == scan.highest.albums + 1
             row == [id |-> id, artist |-> scan.track.artistId, name |-> scan.track.album]
  <2>1. GotAlbum(id, id, TRUE) /\ scan.pc = "album"
    BY <1>7 DEF AlbumAdded
  <2>2. id \in Nat /\ id \in Id
    BY IdNumbers DEF Id
  <2>3. /\ scan'.pc = "title" /\ scan'.stack = scan.stack /\ scan'.dbVersion = scan.dbVersion
        /\ scan'.track = scan.track
    BY <2>1, <2>2, GotAlbumDoes
  <2>4. db' = [db EXCEPT !.albums = @ \cup {row}]
    BY <1>7 DEF AlbumAdded, Write
  <2> HIDE DEF row
  <2>5. db'.titles = db.titles /\ db'.paths = db.paths /\ db'.file = db.file
    BY <1>1, <2>4 DEF Database
  <2>6. /\ live' \in {live, db'} /\ (live' = live \/ ~InTransaction)
        /\ saved' = saved /\ disk' = disk /\ UNCHANGED shared /\ (Smooth \/ Rough)
    BY <1>7 DEF AlbumAdded, Write, NotFound
  <2>. QED  BY <1>1, <2>3, <2>5, <2>6 DEF Smooth, Rough, history
<1>. QED  BY <1>2, <1>3, <1>4, <1>5, <1>6, <1>7

LEMMA InsertDoes ==
  ASSUME TypeInv, InsertTitle
  PROVE  /\ scan.pc = "title" /\ scan'.pc = "walk" /\ scan'.stack = scan.stack
         /\ scan'.dbVersion = scan.dbVersion /\ scan'.highest = scan.highest
         /\ scan'.cache = scan.cache
         /\ db'.titles = db.titles \cup {NewTitle} /\ NewTitle \in TitleRow
         /\ db'.artists = db.artists /\ db'.albums = db.albums /\ db'.paths = db.paths
         /\ db'.file = db.file
         /\ NewTitle.id = scan.highest.titles /\ NewTitle.version = scan.dbVersion
         /\ NewTitle.stamp = scan.track.stamp /\ NewTitle.tags = scan.track.tags
         /\ NewTitle.parent = Top.id
         /\ NewTitle.name = scan.track.name /\ NewTitle.album = scan.albumId
         /\ NewTitle.artist = scan.track.artistId
         /\ TitleFits(db, NewTitle)
         /\ live' \in {live, db'} /\ (live' = live \/ ~InTransaction) /\ saved' = saved
         /\ disk' = disk /\ UNCHANGED shared /\ UNCHANGED history /\ UNCHANGED spent
<1>1. scan \in Scanner /\ db \in Database /\ scan.pc = "title"
  BY IdNumbers DEF InsertTitle
<1>2. /\ scan.track.name \in Names /\ scan.track.stamp \in Contents
      /\ scan.track.tags \in Audio \cup {NoTags}
      /\ scan.track.artistId \in Id /\ Top.id \in Nat
      /\ scan.highest.titles \in Nat /\ scan.dbVersion \in Nat /\ scan.albumId \in Id
  BY <1>1, TrackTyped DEF Scanner
<1>3. /\ NewTitle.id = scan.highest.titles /\ NewTitle.version = scan.dbVersion
      /\ NewTitle.stamp = scan.track.stamp /\ NewTitle.tags = scan.track.tags
      /\ NewTitle.parent = Top.id
      /\ NewTitle.name = scan.track.name /\ NewTitle.album = scan.albumId
      /\ NewTitle.artist = scan.track.artistId
      /\ NewTitle \in TitleRow
  BY <1>2 DEF NewTitle, TitleRow
<1>4. /\ db' = [db EXCEPT !.titles = @ \cup {NewTitle}]
      /\ scan' = [scan EXCEPT !.pc = "walk", !.track = NoTrack, !.albumId = 0, !.changed = TRUE]
      /\ live' \in {live, db'} /\ (live' = live \/ ~InTransaction) /\ saved' = saved
      /\ disk' = disk /\ UNCHANGED shared /\ UNCHANGED history /\ UNCHANGED spent
      /\ TitleFits(db, NewTitle)
  BY DEF InsertTitle, Write, Works
<1>5. /\ db'.titles = db.titles \cup {NewTitle} /\ db'.artists = db.artists
      /\ db'.albums = db.albums /\ db'.paths = db.paths /\ db'.file = db.file
  BY <1>1, <1>4 DEF Database
<1>6. /\ scan'.pc = "walk" /\ scan'.stack = scan.stack /\ scan'.dbVersion = scan.dbVersion
      /\ scan'.highest = scan.highest /\ scan'.cache = scan.cache
  BY <1>1, <1>4 DEF Scanner
<1>. QED  BY <1>1, <1>3, <1>4, <1>5, <1>6

LEMMA BeginDoes ==
  ASSUME TypeInv, Begin
  PROVE  /\ scan.pc = "begin" /\ UNCHANGED <<disk, live, db, saved, ahead>>
         /\ scan'.dbVersion = scan.dbVersion /\ scan'.highest = scan.highest
         /\ scan'.cache = scan.cache
         /\ aged' = \A r \in db.titles \cup db.paths : r.version < scan.dbVersion
         /\ state' = IF state = "CREATINGDB" THEN state ELSE "UPDATINGDB"
         /\ \/ /\ scan'.pc = "walk" /\ UNCHANGED spent
               /\ scan'.stack \in Seq(Frame) /\ Len(scan'.stack) = 1
               /\ scan'.stack[1].dir = Root /\ scan'.stack[1].id = MinPathId
               /\ scan'.stack[1].left = Entries(Root)
            \/ scan'.pc = "end" /\ steady' = FALSE /\ Used("failure")
<1> DEFINE opened == Opened(<<>>, Root, MinPathId)
<1>1. scan \in Scanner
  BY IdNumbers
<1>2. /\ opened \in Seq(Frame) /\ Len(opened) = 1
      /\ opened[1].dir = Root /\ opened[1].id = MinPathId /\ opened[1].left = Entries(Root)
  <2>1. <<>> \in Seq(Frame) /\ Len(<<>>) = 0
    OBVIOUS
  <2>2. PICK none : none = <<>>
    OBVIOUS
  <2>3. none \in Seq(Frame) /\ Len(none) = 0 /\ opened = Opened(none, Root, MinPathId)
    BY <2>1, <2>2
  <2>4. Root \in Names \cup {Root} /\ MinPathId \in Nat
    BY IdRanges
  <2> HIDE DEF opened
  <2>5. none \in Seq(Frame)
    BY <2>3
  <2>6. Len(none) + 1 = 1
    BY <2>3
  <2>7. Opened(none, Root, MinPathId) \in Seq(Frame) /\ Len(Opened(none, Root, MinPathId)) = Len(none) + 1
    BY <2>4, <2>5, OpenedDoes
  <2>8. Opened(none, Root, MinPathId)[Len(none) + 1].dir = Root
    BY <2>4, <2>5, OpenedDoes
  <2>9. Opened(none, Root, MinPathId)[Len(none) + 1].id = MinPathId
    BY <2>4, <2>5, OpenedDoes
  <2>10. Opened(none, Root, MinPathId)[Len(none) + 1].left = Entries(Root)
    BY <2>4, <2>5, OpenedDoes
  <2>. QED  BY <2>3, <2>6, <2>7, <2>8, <2>9, <2>10
<1> HIDE DEF opened
<1>3. \/ scan' = [scan EXCEPT !.pc = "walk", !.changed = FALSE, !.stack = opened] /\ UNCHANGED spent
      \/ /\ scan' = [scan EXCEPT !.pc = "end", !.changed = FALSE]
         /\ steady' = FALSE /\ Used("failure")
  BY DEF Begin, opened
<1>4. CASE scan' = [scan EXCEPT !.pc = "walk", !.changed = FALSE, !.stack = opened] /\ UNCHANGED spent
  <2>1. /\ scan'.pc = "walk" /\ scan'.dbVersion = scan.dbVersion /\ scan'.highest = scan.highest
        /\ scan'.cache = scan.cache /\ scan'.stack = opened
    BY <1>1, <1>4 DEF Scanner
  <2>. QED  BY <1>2, <1>4, <2>1 DEF Begin, tables
<1>5. CASE /\ scan' = [scan EXCEPT !.pc = "end", !.changed = FALSE]
           /\ steady' = FALSE /\ Used("failure")
  <2>1. /\ scan'.pc = "end" /\ scan'.dbVersion = scan.dbVersion /\ scan'.highest = scan.highest
        /\ scan'.cache = scan.cache
    BY <1>1, <1>5 DEF Scanner
  <2>. QED  BY <1>5, <2>1 DEF Begin, tables
<1>. QED  BY <1>3, <1>4, <1>5

-----------------------------------------------------------------------------
\* While it lasts, a walk has come to all names but those of some U.
WalkInv == scan.pc \in Walking => \E U \in SUBSET Names : Walked(U)

LEMMA WalkedOn ==
  ASSUME NEW U, Walked(U), scan'.stack = scan.stack, db'.paths = db.paths,
         scan'.dbVersion = scan.dbVersion,
         scan'.pc \in InFile => scan.pc \in InFile /\ scan'.track.name = scan.track.name
  PROVE  Walked(U)'
BY DEF Walked, FolderOf, Top

LEMMA WalkedGivenUp ==
  ASSUME TypeInv, NEW U \in SUBSET Names, Walked(U), scan.stack # <<>>,
         scan'.stack = GivenUp, db'.paths = db.paths,
         scan'.dbVersion = scan.dbVersion, scan'.pc = "walk"
  PROVE  Walked(U)'
<1>0. PICK s, t : s = scan.stack /\ t = scan'.stack
  OBVIOUS
<1>1. /\ t \in Seq(Frame) /\ Len(t) = Len(s)
      /\ \A i \in 1..Len(s) : /\ t[i].dir = s[i].dir /\ t[i].id = s[i].id
                              /\ t[i].left = IF i = Len(s) THEN {} ELSE s[i].left
  BY <1>0, GivenUpDoes
<1>2. s \in Seq(Frame) /\ Frames(s, U)
  BY <1>0 DEF Walked, TypeInv, TypeOK, Scanner
<1>3. Len(t) <= Len(s) /\ \A i \in 1..Len(t) : t[i].dir = s[i].dir /\ t[i].left \subseteq s[i].left
  BY <1>1, <1>2
<1>4. Frames(t, U)
  BY <1>1, <1>2, <1>3, FramesFewer
<1>. QED  BY <1>0, <1>1, <1>4 DEF Walked, FolderOf, InFile

LEMMA WalkedLeave ==
  ASSUME TypeInv, NEW U \in SUBSET Names, Walked(U), LeaveDir
  PROVE  Walked(U)'
<1>0. PICK s, t : s = scan.stack /\ t = scan'.stack
  OBVIOUS
<1>1. /\ t \in Seq(Frame) /\ Len(t) = Len(s) - 1 /\ Len(s) \in Nat \ {0}
      /\ \A i \in 1..Len(t) : t[i] = s[i]
      /\ scan'.dbVersion = scan.dbVersion /\ scan'.pc \in {"walk", "end"}
  BY <1>0, LeftDoes
<1>2. s \in Seq(Frame) /\ Frames(s, U)
  BY <1>0 DEF Walked, TypeInv, TypeOK, Scanner
<1>3. Len(t) <= Len(s) /\ \A i \in 1..Len(t) : t[i].dir = s[i].dir /\ t[i].left \subseteq s[i].left
  BY <1>1
<1>4. Frames(t, U)
  BY <1>1, <1>2, <1>3, FramesFewer
<1>5. db'.paths = db.paths
  BY DEF LeaveDir, tables
<1>6. \A i \in 1..Len(t) : i \in 1..Len(s)
  BY <1>1
<1>. QED  BY <1>0, <1>1, <1>4, <1>5, <1>6 DEF Walked, FolderOf, InFile

LEMMA WalkedBegin ==
  ASSUME TypeInv, Begin, scan'.pc = "walk"
  PROVE  Walked(Names)'
<1>0. PICK t : t = scan'.stack
  OBVIOUS
<1>1. /\ Len(t) = 1 /\ t[1].dir = Root /\ t[1].id = MinPathId /\ t[1].left = Entries(Root)
  BY <1>0, BeginDoes
<1>2. Root \notin Names /\ \A n \in Entries(Root) : n \in Names /\ In[n] = Root
  BY TreeOK DEF Entries
<1>3. Frames(t, Names)
  BY <1>1, <1>2 DEF Frames
<1>. QED  BY <1>0, <1>1, <1>3 DEF Walked, FolderOf, FolderIn, InFile

\* The steps between two walks.
LEMMA RestDoes ==
  ASSUME TypeInv,
         \/ SampleSame \/ SampleChanged \/ Settle \/ EndWalk
         \/ DropTitles \/ DropPaths \/ DropArtist \/ ArtistsDropped \/ DropAlbum
         \/ AlbumsDropped \/ DropFails \/ Announce \/ NothingToAnnounce \/ CopyDone
         \/ SaveSize \/ SaveCounter
  PROVE  /\ scan.pc \notin Walking \cup {"down"} /\ scan'.pc \notin Walking \cup {"down"}
         /\ disk' = disk /\ ahead' = ahead /\ aged' = aged /\ (steady' => steady)
<1>1. scan \in Scanner
  BY IdNumbers
<1>2. CASE SampleSame
  <2>1. scan.pc = "sample" /\ scan'.pc = "sample"
    BY <1>1, <1>2 DEF Scanner, SampleSame
  <2>. QED  BY <1>2, <2>1 DEF SampleSame, Walking, history
<1>14. CASE EndWalk
  BY <1>1, <1>14 DEF Scanner, EndWalk, Walking, history
<1>11. CASE Settle
  BY <1>1, <1>11 DEF Scanner, Settle, Walking
<1>12. CASE ArtistsDropped \/ AlbumsDropped
  BY <1>1, <1>12 DEF Scanner, ArtistsDropped, AlbumsDropped, Walking, history
<1>13. CASE NothingToAnnounce \/ CopyDone
  BY <1>1, <1>13 DEF Scanner, NothingToAnnounce, CopyDone, Walking, history
<1>3. CASE SampleChanged
  BY <1>1, <1>3 DEF Scanner, SampleChanged, Walking
<1>4. CASE Announce
  BY <1>1, <1>4 DEF Scanner, Announce, Walking, history
<1>5. CASE DropFails
  BY <1>1, <1>5 DEF Scanner, DropFails, Walking, Rough
<1>6. CASE DropTitles
  <2>1. scan.pc \notin Walking \cup {"down"} /\ scan'.pc \notin Walking \cup {"down"}
    BY <1>6, DropTitlesDoes DEF Walking
  <2>2. disk' = disk /\ (Smooth \/ Rough)
    BY <1>6 DEF DropTitles
  <2>. QED  BY <2>1, <2>2 DEF Rough, Smooth, history
<1>7. CASE DropPaths
  BY <1>7, DropPathsDoes DEF DropPaths, Walking, history
<1>8. CASE DropArtist
  <2>1. scan.pc \notin Walking \cup {"down"} /\ scan'.pc \notin Walking \cup {"down"}
    BY <1>8, DropArtistDoes DEF Walking
  <2>2. disk' = disk /\ (Smooth \/ Rough)
    BY <1>8 DEF Counted, DropArtist
  <2>. QED  BY <2>1, <2>2 DEF Rough, Smooth, history
<1>9. CASE DropAlbum
  <2>1. scan.pc \notin Walking \cup {"down"} /\ scan'.pc \notin Walking \cup {"down"}
    BY <1>9, DropAlbumDoes DEF Walking
  <2>2. disk' = disk /\ (Smooth \/ Rough)
    BY <1>9 DEF Counted, DropAlbum
  <2>. QED  BY <2>1, <2>2 DEF Rough, Smooth, history
<1>10. CASE SaveSize \/ SaveCounter
  BY <1>10, SaveDoes DEF SaveSize, SaveCounter, Walking, history
<1>. QED  BY <1>2, <1>3, <1>4, <1>5, <1>6, <1>7, <1>8, <1>9, <1>10, <1>11, <1>12, <1>13, <1>14

Rest ==
  \/ SampleSame \/ SampleChanged \/ Settle \/ EndWalk
  \/ DropTitles \/ DropPaths \/ DropArtist \/ ArtistsDropped \/ DropAlbum
  \/ AlbumsDropped \/ DropFails \/ Announce \/ NothingToAnnounce \/ CopyDone
  \/ SaveSize \/ SaveCounter

LookUp ==
  \/ ArtistCached \/ ArtistFound \/ ArtistAdded \/ ArtistFails
  \/ AlbumCached \/ AlbumFound \/ AlbumAdded \/ AlbumFails

Start == StartNew \/ StartNewFails \/ StartAgain \/ StartAgainFails

Tags == ReadTags \/ ReadTagsFails

\* A step of the scanner is one of these.
LEMMA Steps ==
  Main <=> \/ Start \/ Begin
           \/ \E n \in Names : Visit(n)
           \/ LeaveDir \/ Tags \/ LookUp \/ InsertTitle \/ InsertTitleFails
           \/ Rest
BY DEF Main, Walk, RemoveStale, Visit, Start, Tags, LookUp, Rest

\* A start goes on with an empty database or with one that was there, and, but where ahead
\* tells of it, with a number no row of it is above.
LEMMA StartsWithDoes ==
  ASSUME TypeInv, NEW d \in Database, NEW highest, NEW size \in Nat, NEW number \in Nat,
         StartsWith(d, highest, size, number)
  PROVE  /\ scan'.pc = "sample" /\ scan'.stack = <<>> /\ scan'.track = NoTrack
         /\ scan'.cache = NothingCached /\ scan'.highest = highest
         /\ scan'.dbVersion = number
         /\ live' = d /\ db' = d
         /\ UNCHANGED <<disk, saved, changeCounter, steady, aged, seen, slipped>>
         /\ ahead => ahead'
         /\ ~ahead' => \A r \in d.titles \cup d.paths : r.version <= number
<1>1. /\ scan'.pc = "sample" /\ scan'.stack = <<>> /\ scan'.track = NoTrack
      /\ scan'.cache = NothingCached /\ scan'.highest = highest
      /\ scan'.dbVersion = number
  BY DEF StartsWith, Down
<1>2. \A r \in d.titles \cup d.paths : r.version \in Nat
  BY DEF Database, TitleRow, PathRow
<1>3. /\ live' = d /\ db' = d
      /\ UNCHANGED <<disk, saved, changeCounter, steady, aged, seen, slipped>>
      /\ ahead' = (ahead \/ \E r \in d.titles \cup d.paths : r.version > number)
  BY DEF StartsWith
<1>4. ahead \in BOOLEAN
  BY DEF TypeInv, TypeOK
<1>5. ahead => ahead'
  BY <1>3, <1>4, Zenon
<1>6. ASSUME ~ahead' PROVE \A r \in d.titles \cup d.paths : r.version <= number
  <2>1. ~ \E r \in d.titles \cup d.paths : r.version > number
    BY <1>3, <1>6, Zenon
  <2>. QED  BY <1>2, <2>1
<1>. QED  BY <1>1, <1>3, <1>5, <1>6

LEMMA StartDoes ==
  ASSUME TypeInv, Start
  PROVE  /\ scan.pc = "down"
         /\ scan'.pc = "sample" /\ scan'.stack = <<>> /\ scan'.track = NoTrack
         /\ scan'.cache = NothingCached
         /\ live' = db' /\ db' \in {EmptyDatabase, CutOff, live, saved}
         /\ UNCHANGED <<disk, saved, changeCounter, steady, aged, seen, slipped>>
         /\ ahead => ahead'
         /\ ~ahead' => \A r \in db'.titles \cup db'.paths : r.version <= scan'.dbVersion
         /\ Used("failure") \/ UNCHANGED spent
<1>1. CASE StartNew
  <2>1. /\ scan'.pc = "sample" /\ scan'.stack = <<>> /\ scan'.track = NoTrack
        /\ scan'.cache = NothingCached
    BY <1>1 DEF StartNew, Down
  <2>2. Used("failure") \/ UNCHANGED spent
    BY <1>1 DEF StartNew
  <2>. QED  BY <1>1, <2>1, <2>2 DEF StartNew, history, EmptyDatabase
<1>2. CASE StartNewFails
  <2>1. /\ scan'.pc = "sample" /\ scan'.stack = <<>> /\ scan'.track = NoTrack
        /\ scan'.cache = NothingCached
    BY <1>2 DEF StartNewFails, Down
  <2>. QED  BY <1>2, <2>1 DEF StartNewFails, EmptyDatabase, CutOff
<1>3. CASE StartAgain
  <2>1. Restored \in Database /\ Restored.size \in Nat /\ Restored.counter \in Nat
    BY RestoredTyped DEF Database
  <2>2. Restored \in {live, saved} /\ scan.pc = "down" /\ UNCHANGED spent
    BY <1>3 DEF Restored, StartAgain
  <2>3. StartsWith(Restored, HighestIn(Restored), Restored.size, Restored.counter)
    BY <1>3 DEF StartAgain
  <2>. QED  BY <2>1, <2>2, <2>3, StartsWithDoes
<1>4. CASE StartAgainFails
  <2>1. PICK d, highest, size, number :
          /\ d \in MayBeRestored /\ size \in {0, d.size} /\ number \in {0, d.counter}
          /\ StartsWith(d, highest, size, number)
    BY <1>4 DEF StartAgainFails
  <2>2. d \in Database /\ d.size \in Nat /\ d.counter \in Nat
    BY <2>1, RestoredTyped DEF Database
  <2>3. size \in Nat /\ number \in Nat /\ d \in {live, saved, CutOff}
    BY <2>1, <2>2 DEF MayBeRestored
  <2>4. scan.pc = "down" /\ Used("failure")
    BY <1>4 DEF StartAgainFails
  <2>. QED  BY <2>1, <2>2, <2>3, <2>4, StartsWithDoes
<1>. QED  BY <1>1, <1>2, <1>3, <1>4 DEF Start

\* The tags of the new file are read, or it is no music.
LEMMA TagsDoes ==
  ASSUME TypeInv, Tags
  PROVE  /\ scan.pc = "tags" /\ scan'.pc \in {"walk", "artist"}
         /\ scan'.stack = scan.stack /\ scan'.dbVersion = scan.dbVersion
         /\ scan'.cache = scan.cache
         /\ scan'.pc = "artist" =>
              /\ scan'.track.name = scan.track.name /\ scan'.track.stamp = scan.track.stamp
              /\ scan'.track.tags \in Audio \cup {NoTags}
              /\ GotTags(scan'.track.tags)
         /\ scan'.pc = "walk" => NotMusic
         /\ UNCHANGED <<disk, db, live, saved, shared, aged, ahead, blind>>
         /\ (steady' => steady) /\ slipped \subseteq slipped'
         /\ Used("failure") \/ UNCHANGED spent
<1>0. steady \in BOOLEAN
  BY DEF TypeInv, TypeOK
<1>4. /\ scan.pc = "tags"
      /\ NotMusic \/ \E tags \in Audio \cup {NoTags} : GotTags(tags)
      /\ UNCHANGED <<disk, tables, shared, aged, ahead, blind>>
      /\ steady' \in {steady, FALSE} /\ slipped \subseteq slipped'
      /\ Used("failure") \/ UNCHANGED spent
  BY TagsCome DEF Tags
<1>5. steady' => steady
  BY <1>0, <1>4
<1>1. /\ scan.pc = "tags"
      /\ NotMusic \/ \E tags \in Audio \cup {NoTags} : GotTags(tags)
      /\ UNCHANGED <<disk, db, live, saved, shared, aged, ahead, blind>>
      /\ (steady' => steady) /\ slipped \subseteq slipped'
      /\ Used("failure") \/ UNCHANGED spent
  BY <1>4, <1>5 DEF tables
<1>2. CASE NotMusic
  BY <1>1, <1>2, NotMusicDoes
<1>3. ASSUME NEW tags \in Audio \cup {NoTags}, GotTags(tags)
      PROVE  /\ scan'.pc = "artist" /\ scan'.track.tags = tags
             /\ scan'.stack = scan.stack /\ scan'.dbVersion = scan.dbVersion
             /\ scan'.cache = scan.cache
             /\ scan'.track.name = scan.track.name /\ scan'.track.stamp = scan.track.stamp
  BY <1>1, <1>3, GotTagsDoes
<1>. QED  BY <1>1, <1>2, <1>3

\* What may have slipped from the scanner is never forgotten.
LEMMA SlippedGrows == TypeInv /\ [Next]_vars => slipped \subseteq slipped'
<1>. SUFFICES ASSUME TypeInv, [Next]_vars PROVE slipped \subseteq slipped'
  OBVIOUS
<1>1. CASE Start
  BY <1>1, StartDoes
<1>2. CASE Tags
  BY <1>2, TagsDoes
<1>3. CASE \E n \in Names : NewFile(n)
  BY <1>3 DEF NewFile
<1>4. CASE DiskStep \/ UNCHANGED vars
  BY <1>4 DEF DiskStep, PutFile, RemoveFile, MakeDir, MoveDirAway, ChangeTo, vars
<1>5. CASE \E machine \in BOOLEAN : Crash(machine)
  BY <1>5 DEF Crash
<1>6. ASSUME NEW n \in Names, Visit(n), ~NewFile(n) PROVE slipped \subseteq slipped'
  <2>1. CASE PassOver(n) \/ MarkFile(n)
    BY <2>1 DEF PassOver, MarkFile, history
  <2>2. CASE MarkFails(n) \/ MarkDirNoId(n) \/ NewDirFails(n)
    BY <2>2 DEF MarkFails, MarkDirNoId, NewDirFails, Rough
  <2>3. CASE MarkDir(n)
    BY <2>3 DEF MarkDir, OpensOrNot, Smooth, Rough, history
  <2>4. CASE NewDir(n)
    BY <2>4 DEF NewDir, OpensOrNot, Smooth, Rough, history
  <2>. QED  BY <1>6, <2>1, <2>2, <2>3, <2>4 DEF Visit
<1>7. CASE LookUp
  BY <1>7, LookUpDoes DEF LookUp
<1>8. CASE Begin \/ LeaveDir \/ InsertTitle \/ InsertTitleFails
  BY <1>8 DEF Begin, LeaveDir, InsertTitle, InsertTitleFails, Rough, history
<1>9. CASE Rest
  <2>1. CASE \/ SampleSame \/ EndWalk \/ DropPaths \/ ArtistsDropped \/ AlbumsDropped
             \/ Announce \/ NothingToAnnounce \/ CopyDone \/ SaveSize \/ SaveCounter
    BY <2>1 DEF SampleSame, EndWalk, DropPaths, ArtistsDropped, AlbumsDropped, Announce,
       NothingToAnnounce, CopyDone, SaveSize, SaveCounter, history
  <2>2. CASE SampleChanged \/ Settle
    BY <2>2 DEF SampleChanged, Settle
  <2>3. CASE DropTitles \/ DropArtist \/ DropAlbum \/ DropFails
    <3>1. Smooth \/ Rough
      <4>1. CASE DropTitles
        BY <4>1 DEF DropTitles
      <4>2. CASE DropArtist
        BY <4>2 DEF DropArtist, Counted
      <4>3. CASE DropAlbum
        BY <4>3 DEF DropAlbum, Counted
      <4>4. CASE DropFails
        BY <4>4 DEF DropFails
      <4>. QED  BY <2>3, <4>1, <4>2, <4>3, <4>4
    <3>. QED  BY <3>1 DEF Smooth, Rough, history
  <2>. QED  BY <1>9, <2>1, <2>2, <2>3 DEF Rest
<1>. QED  BY <1>1, <1>2, <1>3, <1>4, <1>5, <1>6, <1>7, <1>8, <1>9, Steps DEF Next

LEMMA InsertFailsLeaves ==
  ASSUME TypeInv, InsertTitleFails
  PROVE  /\ scan.pc = "title" /\ scan.stack # <<>>
         /\ UNCHANGED <<disk, db, live, saved, ahead, aged, shared>> /\ steady' = FALSE
BY TrackTyped DEF InsertTitleFails, tables, Rough

LEMMA WalkNext == TypeInv /\ WalkInv /\ [Next]_vars => WalkInv'
<1>. SUFFICES ASSUME TypeInv, WalkInv, [Next]_vars PROVE WalkInv'
  OBVIOUS
<1>1. CASE Start
  BY <1>1, StartDoes DEF WalkInv, Walking
<1>11. CASE Tags
  <2>1. PICK U \in SUBSET Names : Walked(U)
    BY <1>11, TagsDoes DEF WalkInv, Walking
  <2>2. Walked(U)'
    BY <1>11, <2>1, TagsDoes, WalkedOn DEF InFile
  <2>. QED  BY <2>2 DEF WalkInv
<1>2. CASE Begin
  BY <1>2, BeginDoes, WalkedBegin DEF WalkInv, Walking
<1>3. CASE \E n \in Names : Visit(n)
  <2>1. PICK n \in Names : Visit(n)
    BY <1>3
  <2>2. PICK U \in SUBSET Names : Walked(U)
    BY <2>1, VisitIn DEF WalkInv, Walking
  <2>3. Walked(U \ {n})'
    BY <2>1, <2>2, WalkedVisit
  <2>. QED  BY <2>3 DEF WalkInv
<1>4. CASE LeaveDir
  <2>1. PICK U \in SUBSET Names : Walked(U)
    BY <1>4, LeftDoes DEF WalkInv, Walking
  <2>. QED  BY <1>4, <2>1, WalkedLeave DEF WalkInv
<1>5. CASE LookUp
  <2>1. /\ scan.pc \in {"artist", "album"} /\ scan'.stack = scan.stack /\ db'.paths = db.paths
        /\ scan'.dbVersion = scan.dbVersion /\ scan'.track.name = scan.track.name
    BY <1>5, LookUpDoes DEF LookUp
  <2>2. PICK U \in SUBSET Names : Walked(U)
    BY <2>1 DEF WalkInv, Walking
  <2>3. Walked(U)'
    BY <2>1, <2>2, WalkedOn DEF InFile
  <2>. QED  BY <2>3 DEF WalkInv
<1>6. CASE InsertTitle
  <2>1. PICK U \in SUBSET Names : Walked(U)
    BY <1>6, InsertDoes DEF WalkInv, Walking
  <2>2. Walked(U)'
    BY <1>6, <2>1, InsertDoes, WalkedOn DEF InFile
  <2>. QED  BY <2>2 DEF WalkInv
<1>7. CASE InsertTitleFails
  <2>1. PICK U \in SUBSET Names : Walked(U)
    BY <1>7, InsertFailsLeaves DEF WalkInv, Walking
  <2>2. Walked(U)'
    BY <1>7, <2>1, InsertFailsDoes, InsertFailsLeaves, WalkedGivenUp
  <2>. QED  BY <2>2 DEF WalkInv
<1>8. CASE Rest
  BY <1>8, RestDoes DEF WalkInv, Rest
<1>9. CASE DiskStep \/ UNCHANGED vars
  <2>1. UNCHANGED <<scan, db>>
    BY <1>9 DEF DiskStep, PutFile, RemoveFile, MakeDir, MoveDirAway, ChangeTo, tables, vars
  <2>. QED  BY <2>1 DEF WalkInv, Walked, FolderOf, Top
<1>10. CASE \E machine \in BOOLEAN : Crash(machine)
  BY <1>10 DEF Crash, Down, WalkInv, Walking
<1>. QED  BY <1>1, <1>2, <1>3, <1>4, <1>5, <1>6, <1>7, <1>8, <1>9, <1>10, <1>11, Steps DEF Next

\* At every moment of a walk, what it has still to look at and what it has come to are told
\* apart by a set of names, and the folders it is in have rows with this scan's number.
THEOREM WalkAlways == Spec => [](TypeInv /\ WalkInv)
<1>1. Init => WalkInv
  BY DEF Init, Down, WalkInv, Walking
<1>. QED  BY <1>1, TypesAlways, WalkNext, PTL DEF Spec

-----------------------------------------------------------------------------
(***************************************************************************)
(* PathsWhole.                                                             *)
(***************************************************************************)
\* What PathsWhole says is not inductive: a scan deletes the folders it did not come to, and
\* must not leave a row below them.  So a folder has at least the number of what lies in it,
\* and no row of the tables has one above that of the scan.
Parented(d) ==
  \A r \in d.titles \cup d.paths :
    r.parent = MinPathId \/ \E p \in d.paths : p.id = r.parent /\ p.version >= r.version

PathInv ==
  ~ahead =>
    /\ Parented(live) /\ Parented(db) /\ Parented(saved)
    /\ scan.pc # "down" => \A r \in db.titles \cup db.paths : r.version <= scan.dbVersion
    /\ scan.pc = "paths" => \A t \in db.titles : t.version >= scan.dbVersion

LEMMA RestTables ==
  ASSUME TypeInv, Rest
  PROVE  /\ live' \in {live, db'} /\ saved' \in {saved, db, CutOff}
         /\ DropTitles \/ DropPaths \/ (db'.titles = db.titles /\ db'.paths = db.paths)
         /\ scan'.dbVersion = scan.dbVersion \/ scan'.dbVersion = scan.dbVersion + 1
         /\ scan'.pc = "paths" => DropTitles
<1>1. scan \in Scanner
  BY IdNumbers
<1>2. CASE SampleSame
  <2>1. scan'.pc = "sample" /\ scan'.dbVersion = scan.dbVersion
    BY <1>1, <1>2 DEF Scanner, SampleSame
  <2>. QED  BY <1>2, <2>1 DEF SampleSame, tables
<1>3. CASE SampleChanged
  <2>1. scan'.pc \in {"begin", "settle"} /\ scan'.dbVersion = scan.dbVersion
    BY <1>1, <1>3 DEF Scanner, SampleChanged
  <2>. QED  BY <1>3, <2>1 DEF SampleChanged, tables
<1>4. CASE Settle
  <2>1. scan'.pc \in {"begin", "settle"} /\ scan'.dbVersion = scan.dbVersion
    BY <1>1, <1>4 DEF Scanner, Settle
  <2>. QED  BY <1>4, <2>1 DEF Settle, tables
<1>5. CASE EndWalk
  <2>1. scan'.pc = "titles" /\ scan'.dbVersion = scan.dbVersion
    BY <1>1, <1>5 DEF Scanner, EndWalk
  <2>. QED  BY <1>5, <2>1 DEF EndWalk
<1>6. CASE DropTitles
  BY <1>6, DropTitlesDoes DEF DropTitles, Write
<1>7. CASE DropPaths
  BY <1>7, DropPathsDoes DEF DropPaths, Write
<1>8. CASE DropArtist
  <2>1. live' \in {live, db'} /\ saved' = saved
    BY <1>8 DEF DropArtist, Write
  <2>. QED  BY <1>8, <2>1, DropArtistDoes
<1>9. CASE DropAlbum
  <2>1. live' \in {live, db'} /\ saved' = saved
    BY <1>9 DEF DropAlbum, Write
  <2>. QED  BY <1>9, <2>1, DropAlbumDoes
<1>10. CASE ArtistsDropped \/ AlbumsDropped
  <2>1. scan'.pc \in {"albums", "finish"} /\ scan'.dbVersion = scan.dbVersion
    BY <1>1, <1>10 DEF Scanner, ArtistsDropped, AlbumsDropped
  <2>. QED  BY <1>10, <2>1 DEF ArtistsDropped, AlbumsDropped, tables
<1>11. CASE DropFails
  <2>1. scan'.pc = "finish" /\ scan'.dbVersion = scan.dbVersion
    BY <1>1, <1>11 DEF Scanner, DropFails
  <2>. QED  BY <1>11, <2>1 DEF DropFails, tables
<1>12. CASE Announce
  <2>1. scan'.pc \in {"copy", "size"} /\ scan'.dbVersion = scan.dbVersion
    BY <1>1, <1>12 DEF Scanner, Announce
  <2>. QED  BY <1>12, <2>1 DEF Announce
<1>13. CASE NothingToAnnounce \/ CopyDone
  <2>1. scan'.pc = "size" /\ scan'.dbVersion = scan.dbVersion
    BY <1>1, <1>13 DEF Scanner, NothingToAnnounce, CopyDone
  <2>. QED  BY <1>13, <2>1 DEF NothingToAnnounce, CopyDone, tables
<1>14. CASE SaveSize \/ SaveCounter
  <2>1. live' \in {live, db'} /\ saved' = saved
    BY <1>14 DEF SaveSize, SaveCounter, Write, tables
  <2>. QED  BY <1>14, <2>1, SaveDoes
<1>. QED  BY <1>2, <1>3, <1>4, <1>5, <1>6, <1>7, <1>8, <1>9, <1>10, <1>11, <1>12, <1>13, <1>14 DEF Rest

LEMMA Versions ==
  ASSUME TypeInv
  PROVE  /\ \A r \in db.titles \cup db.paths : r.version \in Nat
         /\ scan.dbVersion \in Nat
BY DEF TypeInv, TypeOK, Database, TitleRow, PathRow, Scanner

\* The folder of the frame on top.
LEMMA TopFolder ==
  ASSUME TypeInv, WalkInv, scan.pc \in Walking
  PROVE  FolderOf(Top.dir, Top.id)
<1>1. PICK U \in SUBSET Names : Walked(U)
  BY DEF WalkInv
<1>2. Len(scan.stack) \in 1..Len(scan.stack)
  BY TopTyped DEF TypeInv
<1>. QED  BY <1>1, <1>2 DEF Walked, Top

LEMMA PathsVisit ==
  ASSUME TypeInv, WalkInv, PathInv, ~ahead, NEW n \in Names, Visit(n)
  PROVE  /\ Parented(db')
         /\ \A r \in db'.titles \cup db'.paths : r.version <= scan.dbVersion
<1>1. /\ \A r \in db.titles \cup db.paths : r.version \in Nat /\ r.version <= scan.dbVersion
      /\ scan.dbVersion \in Nat /\ Parented(db)
  BY Versions, VisitIn DEF PathInv
<1>2. \A p \in db.paths : \E q \in db'.paths : q.id = p.id /\ q.version >= p.version
  <2>1. \A p \in db.paths : \E q \in db'.paths :
          SamePath(p, q) /\ (q = p \/ q.version = scan.dbVersion)
    BY VisitPaths
  <2>. QED  BY <1>1, <2>1 DEF SamePath
<1>3. \/ Top.id = MinPathId
      \/ \E q \in db'.paths : q.id = Top.id /\ q.version >= scan.dbVersion
  <2>1. FolderOf(Top.dir, Top.id)
    BY TopFolder, VisitIn DEF Walking
  <2>2. CASE Top.dir = Root
    BY <2>1, <2>2 DEF FolderOf, FolderIn
  <2>3. CASE Top.dir # Root
    <3>1. PICK p \in db.paths : p.id = Top.id /\ p.version >= scan.dbVersion
      BY <2>1, <2>3 DEF FolderOf, FolderIn
    <3>2. PICK q \in db'.paths : SamePath(p, q) /\ (q = p \/ q.version = scan.dbVersion)
      BY VisitPaths
    <3>3. q.version >= scan.dbVersion
      BY <1>1, <3>1, <3>2
    <3>. QED  BY <3>1, <3>2, <3>3 DEF SamePath
  <2>. QED  BY <2>2, <2>3
<1>4. ASSUME NEW r \in db.titles \cup db.paths
      PROVE  r.parent = MinPathId \/ \E q \in db'.paths : q.id = r.parent /\ q.version >= r.version
  <2>1. CASE r.parent = MinPathId
    BY <2>1
  <2>2. CASE r.parent # MinPathId
    <3>1. PICK p \in db.paths : p.id = r.parent /\ p.version >= r.version
      BY <1>1, <2>2 DEF Parented
    <3>2. PICK q \in db'.paths : SamePath(p, q) /\ (q = p \/ q.version = scan.dbVersion)
      BY VisitPaths
    <3>3. q.version >= r.version
      BY <1>1, <3>1, <3>2
    <3>. QED  BY <3>1, <3>2, <3>3 DEF SamePath
  <2>. QED  BY <2>1, <2>2
<1>5. ASSUME NEW u \in db'.titles \cup db'.paths
      PROVE  /\ u.version <= scan.dbVersion
             /\ u.parent = MinPathId \/ \E q \in db'.paths : q.id = u.parent /\ q.version >= u.version
  <2>1. u \in db.titles \cup db.paths \/ (u.version = scan.dbVersion /\ u.parent = Top.id)
    <3>1. CASE u \in db'.titles
      BY <3>1, VisitTitles
    <3>2. CASE u \in db'.paths
      BY <3>2, VisitPaths
    <3>. QED  BY <3>1, <3>2
  <2>2. CASE u \in db.titles \cup db.paths
    BY <1>1, <1>4, <2>2
  <2>3. CASE u.version = scan.dbVersion /\ u.parent = Top.id
    BY <1>1, <1>3, <2>3
  <2>. QED  BY <2>1, <2>2, <2>3
<1>. QED  BY <1>5 DEF Parented

LEMMA PathsInsert ==
  ASSUME TypeInv, WalkInv, PathInv, ~ahead, InsertTitle
  PROVE  /\ Parented(db')
         /\ \A r \in db'.titles \cup db'.paths : r.version <= scan.dbVersion
<1>1. /\ \A r \in db.titles \cup db.paths : r.version \in Nat /\ r.version <= scan.dbVersion
      /\ scan.dbVersion \in Nat /\ Parented(db)
  BY Versions, InsertDoes DEF PathInv
<1>2. /\ db'.titles = db.titles \cup {NewTitle} /\ db'.paths = db.paths
      /\ NewTitle.version = scan.dbVersion /\ NewTitle.parent = Top.id
  BY InsertDoes
<1>3. FolderOf(Top.dir, Top.id)
  BY TopFolder, InsertDoes DEF Walking
<1>4. \/ Top.id = MinPathId
      \/ \E q \in db.paths : q.id = Top.id /\ q.version >= scan.dbVersion
  BY <1>3 DEF FolderOf, FolderIn
<1>. QED  BY <1>1, <1>2, <1>4 DEF Parented

LEMMA PathsDropTitles ==
  ASSUME TypeInv, PathInv, ~ahead, DropTitles
  PROVE  /\ Parented(db')
         /\ \A r \in db'.titles \cup db'.paths : r.version <= scan.dbVersion
         /\ \A t \in db'.titles : t.version >= scan.dbVersion
<1>1. /\ \A r \in db.titles \cup db.paths : r.version \in Nat /\ r.version <= scan.dbVersion
      /\ scan.dbVersion \in Nat /\ Parented(db)
  BY Versions, DropTitlesDoes DEF PathInv
<1>2. db'.titles = db.titles \ Stale(db.titles, scan.dbVersion) /\ db'.paths = db.paths
  BY DropTitlesDoes
<1>. QED  BY <1>1, <1>2 DEF Parented, Stale

LEMMA PathsDropPaths ==
  ASSUME TypeInv, PathInv, ~ahead, DropPaths
  PROVE  /\ Parented(db')
         /\ \A r \in db'.titles \cup db'.paths : r.version <= scan.dbVersion
<1>1. /\ \A r \in db.titles \cup db.paths : r.version \in Nat /\ r.version <= scan.dbVersion
      /\ scan.dbVersion \in Nat /\ Parented(db)
      /\ \A t \in db.titles : t.version >= scan.dbVersion
  BY Versions, DropPathsDoes DEF PathInv
<1>2. db'.paths = db.paths \ Stale(db.paths, scan.dbVersion) /\ db'.titles = db.titles
  BY DropPathsDoes
<1>3. ASSUME NEW r \in db'.titles \cup db'.paths, r.parent # MinPathId
      PROVE  \E p \in db'.paths : p.id = r.parent /\ p.version >= r.version
  <2>1. r \in db.titles \cup db.paths /\ r.version >= scan.dbVersion
    BY <1>1, <1>2 DEF Stale
  <2>2. PICK p \in db.paths : p.id = r.parent /\ p.version >= r.version
    BY <1>1, <1>3, <2>1 DEF Parented
  <2>3. p \notin Stale(db.paths, scan.dbVersion)
    BY <1>1, <2>1, <2>2 DEF Stale
  <2>. QED  BY <1>2, <2>2, <2>3
<1>. QED  BY <1>1, <1>2, <1>3 DEF Parented

LEMMA PathsStart ==
  ASSUME TypeInv, PathInv, Start
  PROVE  PathInv'
<1>1. Parented(EmptyDatabase) /\ Parented(CutOff)
  BY DEF Parented, EmptyDatabase, CutOff
<1>2. /\ live' = db' /\ db' \in {EmptyDatabase, CutOff, live, saved} /\ saved' = saved
      /\ scan'.pc = "sample" /\ (ahead => ahead')
      /\ ~ahead' => \A r \in db'.titles \cup db'.paths : r.version <= scan'.dbVersion
  BY StartDoes
<1>3. ASSUME ~ahead' PROVE Parented(db') /\ Parented(saved)
  BY <1>1, <1>2, <1>3 DEF PathInv
<1>. QED  BY <1>2, <1>3 DEF PathInv

LEMMA PathsRest ==
  ASSUME TypeInv, PathInv, Rest, ~DropTitles, ~DropPaths
  PROVE  PathInv'
<1>1. /\ live' \in {live, db'} /\ saved' \in {saved, db, CutOff}
      /\ db'.titles = db.titles /\ db'.paths = db.paths
      /\ scan'.dbVersion = scan.dbVersion \/ scan'.dbVersion = scan.dbVersion + 1
      /\ scan'.pc # "paths" /\ scan.pc # "down" /\ ahead' = ahead
  BY RestTables, RestDoes DEF Rest
<1>2. Parented(CutOff)
  BY DEF Parented, EmptyDatabase, CutOff
<1>3. Parented(db) => Parented(db')
  BY <1>1 DEF Parented
<1>4. ASSUME ~ahead PROVE \A r \in db'.titles \cup db'.paths : r.version <= scan'.dbVersion
  BY <1>1, <1>4, Versions DEF PathInv
<1>. QED  BY <1>1, <1>2, <1>3, <1>4 DEF PathInv

\* A step whose tables are known: what is left to show of PathInv.
LEMMA PathsKept ==
  ASSUME PathInv, ahead' = ahead, saved' = saved, live' \in {live, db'},
         scan'.dbVersion = scan.dbVersion,
         ~ahead => /\ Parented(db')
                   /\ \A r \in db'.titles \cup db'.paths : r.version <= scan.dbVersion
                   /\ scan'.pc = "paths" => \A t \in db'.titles : t.version >= scan.dbVersion
  PROVE  PathInv'
BY DEF PathInv

LEMMA PathsSame ==
  ASSUME PathInv, ahead' = ahead, saved' = saved, live' \in {live, db'},
         scan'.dbVersion = scan.dbVersion, scan.pc # "down", scan'.pc # "paths",
         db'.titles = db.titles, db'.paths = db.paths
  PROVE  PathInv'
BY DEF PathInv, Parented

LEMMA PathsNext == TypeInv /\ WalkInv /\ PathInv /\ [Next]_vars => PathInv'
<1>. SUFFICES ASSUME TypeInv, WalkInv, PathInv, [Next]_vars PROVE PathInv'
  OBVIOUS
<1>1. CASE Start
  BY <1>1, PathsStart
<1>13. CASE Tags
  BY <1>13, TagsDoes, PathsSame
<1>2. CASE Begin
  BY <1>2, BeginDoes, PathsSame
<1>3. CASE \E n \in Names : Visit(n)
  <2>1. PICK n \in Names : Visit(n)
    BY <1>3
  <2>2. /\ live' \in {live, db'} /\ ahead' = ahead /\ saved' = saved
        /\ scan'.pc # "paths" /\ scan'.dbVersion = scan.dbVersion
    BY <2>1, VisitIn
  <2>. QED  BY <2>1, <2>2, PathsVisit, PathsKept
<1>4. CASE LeaveDir
  <2>1. UNCHANGED <<db, live, saved, ahead>>
    BY <1>4 DEF LeaveDir, tables, history
  <2>. QED  BY <1>4, <2>1, LeftDoes, PathsSame
<1>5. CASE LookUp
  <2>1. /\ scan.pc # "down" /\ scan'.pc # "paths" /\ scan'.dbVersion = scan.dbVersion
        /\ db'.titles = db.titles /\ db'.paths = db.paths
        /\ live' \in {live, db'} /\ saved' = saved /\ ahead' = ahead
    BY <1>5, LookUpDoes DEF LookUp
  <2>. QED  BY <2>1, PathsSame
<1>6. CASE InsertTitle
  <2>1. /\ scan'.pc # "paths" /\ scan'.dbVersion = scan.dbVersion
        /\ live' \in {live, db'} /\ saved' = saved /\ ahead' = ahead
    BY <1>6, InsertDoes DEF history
  <2>. QED  BY <1>6, <2>1, PathsInsert, PathsKept
<1>7. CASE InsertTitleFails
  BY <1>7, InsertFailsDoes, InsertFailsLeaves, PathsSame
<1>8. CASE DropTitles
  <2>0. Smooth \/ Rough
    BY <1>8 DEF DropTitles
  <2>3. live' \in {live, db'} /\ saved' = saved
    BY <1>8 DEF DropTitles, Write
  <2>1. live' \in {live, db'} /\ saved' = saved /\ ahead' = ahead /\ scan'.dbVersion = scan.dbVersion
    BY <1>8, <2>0, <2>3, DropTitlesDoes DEF Smooth, Rough, history
  <2>. QED  BY <1>8, <2>1, PathsDropTitles, PathsKept
<1>9. CASE DropPaths
  <2>1. /\ live' \in {live, db'} /\ saved' = saved /\ ahead' = ahead
        /\ scan'.dbVersion = scan.dbVersion /\ scan'.pc # "paths"
    BY <1>9, DropPathsDoes DEF DropPaths, Write, history
  <2>. QED  BY <1>9, <2>1, PathsDropPaths, PathsKept
<1>10. CASE Rest /\ ~DropTitles /\ ~DropPaths
  BY <1>10, PathsRest
<1>11. CASE DiskStep \/ UNCHANGED vars
  <2>1. UNCHANGED <<scan, tables, ahead>>
    BY <1>11 DEF DiskStep, PutFile, RemoveFile, MakeDir, MoveDirAway, ChangeTo, tables, vars
  <2>. QED  BY <2>1 DEF PathInv, tables
<1>12. CASE \E machine \in BOOLEAN : Crash(machine)
  <2>1. /\ live' \in {live, NoFile} /\ db' = live' /\ saved' = saved /\ ahead' = ahead
        /\ scan'.pc = "down"
    BY <1>12 DEF Crash, Down
  <2>2. Parented(NoFile)
    BY DEF Parented, NoFile, EmptyDatabase
  <2>. QED  BY <2>1, <2>2 DEF PathInv
<1>. QED  BY <1>1, <1>2, <1>3, <1>4, <1>5, <1>6, <1>7, <1>8, <1>9, <1>10, <1>11, <1>12, <1>13,
           Steps DEF Next

\* At every moment, for every reader, the folder of a title or of a folder is in the
\* database, so that its path can be put together: remove_stale_entries deletes no folder
\* with something left in it (mps-librarydbd.c), and traverse_directory puts nothing under a
\* folder whose row it has not marked (mps-librarydbd-traverse.c), whatever fails - unless a
\* start went on with a number below that of rows it found.
THEOREM LibraryPathsWhole == Spec => []PathsWhole
<1>1. Init => PathInv
  BY DEF Init, Down, PathInv, Parented, NoFile, EmptyDatabase
<1>2. PathInv => PathsWhole
  BY DEF PathInv, PathsWhole, Parented, Ids
<1>. QED  BY <1>1, <1>2, PathsNext, WalkAlways, PTL DEF Spec

-----------------------------------------------------------------------------
(***************************************************************************)
(* QuietScanComplete.                                                      *)
(***************************************************************************)
\* What is on the disk lies in a directory that is.
TreeInv == \A n \in Names : disk[n] # Absent /\ In[n] \in Dirs => disk[In[n]] = Dir

LEMMA TreeNext == TypeInv /\ TreeInv /\ [Next]_vars => TreeInv'
<1>. SUFFICES ASSUME TypeInv, TreeInv, [Next]_vars PROVE TreeInv'
  OBVIOUS
<1>1. CASE disk' = disk
  BY <1>1 DEF TreeInv
<1>2. CASE DiskStep
  <2>0. /\ DOMAIN disk = Names /\ \A n \in Names : In[n] \in Dirs \cup {Root}
        /\ Files \cap Dirs = {} /\ Files \subseteq Names /\ Dirs \subseteq Names
        /\ Dir # Absent
    BY TreeOK DEF TypeInv, TypeOK, Names, Dir, Absent
  <2>1. ASSUME NEW f \in Files, NEW c, PutFile(f, c) PROVE TreeInv'
    BY <2>0, <2>1 DEF PutFile, ChangeTo, HasPlace, TreeInv
  <2>2. ASSUME NEW f \in Files, RemoveFile(f) PROVE TreeInv'
    BY <2>0, <2>2 DEF RemoveFile, ChangeTo, TreeInv
  <2>3. ASSUME NEW d \in Dirs, MakeDir(d) PROVE TreeInv'
    BY <2>0, <2>3 DEF MakeDir, ChangeTo, HasPlace, TreeInv
  <2>4. ASSUME NEW d \in Dirs, MoveDirAway(d) PROVE TreeInv'
    <3>1. /\ disk' = [n \in Names |-> IF n = d \/ In[n] = d THEN Absent ELSE disk[n]]
          /\ \A e \in Dirs : In[e] = d => disk[e] = Absent
      BY <2>4 DEF MoveDirAway, ChangeTo, Exists
    <3>2. ASSUME NEW n \in Names, disk'[n] # Absent, In[n] \in Dirs PROVE disk'[In[n]] = Dir
      <4>1. disk[n] # Absent /\ In[n] # d /\ In[n] \in Names
        BY <2>0, <3>1, <3>2
      <4>2. disk[In[n]] = Dir
        BY <3>2, <4>1 DEF TreeInv
      <4>3. In[In[n]] # d
        BY <2>0, <3>1, <3>2, <4>2
      <4>. QED  BY <3>1, <4>1, <4>2, <4>3
    <3>. QED  BY <3>2 DEF TreeInv
  <2>. QED  BY <1>2, <2>1, <2>2, <2>3, <2>4 DEF DiskStep
<1>3. CASE \E machine \in BOOLEAN : Crash(machine)
  BY <1>1, <1>3 DEF Crash
<1>4. CASE UNCHANGED vars
  BY <1>1, <1>4 DEF vars
<1>5. CASE Main
  <2>1. CASE Start
    BY <1>1, <2>1, StartDoes
  <2>9. CASE Tags
    BY <1>1, <2>9, TagsDoes
  <2>2. CASE Begin
    BY <1>1, <2>2, BeginDoes
  <2>3. CASE \E n \in Names : Visit(n)
    BY <1>1, <2>3, VisitIn
  <2>4. CASE LeaveDir
    BY <1>1, <2>4 DEF LeaveDir
  <2>5. CASE LookUp
    BY <1>1, <2>5, LookUpDoes DEF LookUp
  <2>6. CASE InsertTitle
    BY <1>1, <2>6, InsertDoes
  <2>7. CASE InsertTitleFails
    BY <1>1, <2>7, InsertFailsLeaves
  <2>8. CASE Rest
    BY <1>1, <2>8, RestDoes DEF Rest
  <2>. QED  BY <1>5, <2>1, <2>2, <2>3, <2>4, <2>5, <2>6, <2>7, <2>8, <2>9, Steps
<1>. QED  BY <1>2, <1>3, <1>4, <1>5 DEF Next

\* Outside of its transaction the scanner sees what the others see.
LiveInv == scan.pc \notin Walking \cup {"end"} => live = db

LEMMA RestLive == ASSUME TypeInv, LiveInv, Rest PROVE live' = db'
<1>1. CASE EndWalk
  BY <1>1 DEF EndWalk
<1>2. CASE ~EndWalk
  <2>1. scan.pc \notin Walking \cup {"end"}
    <3>1. scan.pc # "end"
      <4>1. CASE SampleSame \/ SampleChanged \/ Settle \/ SaveSize \/ SaveCounter
        BY <4>1 DEF SampleSame, SampleChanged, Settle, SaveSize, SaveCounter
      <4>2. CASE DropTitles \/ DropPaths \/ DropArtist \/ ArtistsDropped \/ DropAlbum
        BY <4>2, DropTitlesDoes, DropPathsDoes, DropArtistDoes, DropAlbumDoes DEF ArtistsDropped
      <4>3. CASE \/ AlbumsDropped \/ DropFails \/ Announce \/ NothingToAnnounce
                 \/ CopyDone
        BY <4>3 DEF AlbumsDropped, DropFails, Announce, NothingToAnnounce, CopyDone
      <4>. QED  BY <1>2, <4>1, <4>2, <4>3 DEF Rest
    <3>. QED  BY <3>1, RestDoes DEF Rest
  <2>2. live = db /\ ~InTransaction
    BY <2>1 DEF LiveInv, InTransaction, Walking
  <2>3. \A d : Write(d) => live' = db'
    BY <2>2 DEF Write
  <2>4. CASE UNCHANGED <<live, db>>
    BY <2>2, <2>4
  <2>5. CASE DropTitles \/ DropPaths \/ DropArtist \/ DropAlbum \/ SaveSize \/ SaveCounter
    BY <2>2, <2>3, <2>5 DEF DropTitles, DropPaths, DropArtist, DropAlbum, SaveSize, SaveCounter, tables
  <2>. QED  BY <1>2, <2>4, <2>5 DEF Rest, SampleSame, SampleChanged, Settle, ArtistsDropped,
       AlbumsDropped, DropFails, Announce, NothingToAnnounce, CopyDone, tables
<1>. QED  BY <1>1, <1>2

LEMMA LiveNext == TypeInv /\ LiveInv /\ [Next]_vars => LiveInv'
<1>. SUFFICES ASSUME TypeInv, LiveInv, [Next]_vars PROVE LiveInv'
  OBVIOUS
<1>1. CASE Start
  BY <1>1, StartDoes DEF LiveInv
<1>11. CASE Tags
  BY <1>11, TagsDoes DEF LiveInv, Walking
<1>2. CASE Begin
  BY <1>2, BeginDoes DEF LiveInv, Walking
<1>3. CASE \E n \in Names : Visit(n)
  BY <1>3, VisitIn DEF LiveInv, Walking
<1>4. CASE LeaveDir
  BY <1>4, LeftDoes DEF LiveInv, Walking
<1>5. CASE LookUp
  BY <1>5, LookUpDoes DEF LookUp, LiveInv, Walking
<1>6. CASE InsertTitle
  BY <1>6, InsertDoes DEF LiveInv, Walking
<1>7. CASE InsertTitleFails
  BY <1>7, InsertFailsDoes DEF LiveInv, Walking
<1>8. CASE Rest
  BY <1>8, RestLive DEF LiveInv
<1>9. CASE DiskStep \/ UNCHANGED vars
  <2>1. UNCHANGED <<scan, live, db>>
    BY <1>9 DEF DiskStep, PutFile, RemoveFile, MakeDir, MoveDirAway, ChangeTo, tables, vars
  <2>. QED  BY <2>1 DEF LiveInv
<1>10. CASE \E machine \in BOOLEAN : Crash(machine)
  BY <1>10 DEF Crash, LiveInv
<1>. QED  BY <1>1, <1>2, <1>3, <1>4, <1>5, <1>6, <1>7, <1>8, <1>9, <1>10, <1>11, Steps DEF Next

\* TreeInv and LiveInv hold at every moment, next to the invariants before them.
THEOREM PlacesAlways == Spec => [](TypeInv /\ WalkInv /\ TreeInv /\ LiveInv)
<1>1. Init => TreeInv
  BY DEF Init, Trees, TreeInv
<1>2. Init => LiveInv
  BY DEF Init, LiveInv
<1>. QED  BY <1>1, <1>2, WalkAlways, TreeNext, LiveNext, PTL DEF Spec

\* A look at a name that is on the disk, by which nothing fails: the name leaves the frame on
\* top, a directory is entered, and a file of music is marked or looked up.
LEMMA QuietVisit ==
  ASSUME TypeInv, NEW n \in Names, Visit(n), steady', Exists(n)
  PROVE  /\ \/ disk[n] # Dir /\ scan'.stack = After(n, disk[n])
            \/ disk[n] = Dir /\ \E id \in Nat : scan'.stack = Opened(After(n, Dir), n, id)
         /\ Music(n) /\ scan'.pc # "tags" =>
              \E u \in db'.titles : /\ u.name = n /\ u.stamp = disk[n]
                                    /\ u.parent = Top.id /\ u.version = scan.dbVersion
         /\ scan'.pc = "tags" => n \in Files /\ scan'.track.stamp = disk[n]
<1>1. /\ \A looks : looks \in Looks(n) => looks = disk[n]
      /\ scan.pc = "walk"
  BY VisitIn DEF Looks, Exists
<1>2. Dir \notin Contents
  BY DiskOK
<1>3. ~MarkFails(n) /\ ~MarkDirNoId(n) /\ ~NewDirFails(n)
  BY DEF MarkFails, MarkDirNoId, NewDirFails, Rough
<1>4. CASE PassOver(n)
  <2>1. PICK looks \in Contents :
          looks = disk[n] /\ scan' = [scan EXCEPT !.stack = After(n, looks)]
    BY <1>1, <1>4 DEF PassOver, Visits
  <2>2. ~Music(n)
    BY <1>4 DEF PassOver, Music, IsMusic
  <2>3. scan'.stack = After(n, disk[n]) /\ scan'.pc = "walk"
    BY <1>1, <2>1, StackOnly
  <2>. QED  BY <1>2, <2>1, <2>2, <2>3
<1>5. CASE MarkFile(n)
  <2>1. PICK looks \in Contents :
          /\ looks = disk[n] /\ scan' = [scan EXCEPT !.stack = After(n, looks)]
          /\ Marked(TitlesOf(db, looks, Top.id, n))
          /\ db' = [db EXCEPT !.titles = Touch(@, TitlesOf(db, looks, Top.id, n), scan.dbVersion)]
    BY <1>1, <1>5 DEF MarkFile, Visits, Write
  <2> DEFINE known == TitlesOf(db, looks, Top.id, n)
  <2>2. known \in SUBSET db.titles
        /\ \A t \in known : t.stamp = looks /\ t.parent = Top.id /\ t.name = n
    BY DEF TitlesOf, SameFile
  <2> HIDE DEF known
  <2>3. db' = [db EXCEPT !.titles = Touch(@, known, scan.dbVersion)] /\ known # {}
    BY <2>1 DEF known, Marked
  <2>4. PICK t \in known : TRUE
    BY <2>3
  <2>5. PICK u \in db'.titles : SameTitle(t, u) /\ u.version = scan.dbVersion
    BY <2>2, <2>3, <2>4, TitlesMarked
  <2>6. u.name = n /\ u.stamp = disk[n] /\ u.parent = Top.id
    BY <2>1, <2>2, <2>4, <2>5 DEF SameTitle
  <2>7. scan'.stack = After(n, disk[n]) /\ scan'.pc = "walk"
    BY <1>1, <2>1, StackOnly
  <2>. QED  BY <1>2, <2>1, <2>5, <2>6, <2>7
<1>6. CASE NewFile(n)
  <2>1. PICK looks \in Contents :
          /\ looks = disk[n] /\ n \in Files /\ scan'.stack = After(n, looks)
          /\ scan'.track.stamp = looks /\ scan'.pc = "tags"
    BY <1>1, <1>6, NewFileDoes DEF Visits
  <2>. QED  BY <1>2, <2>1
<1>7. CASE MarkDir(n)
  <2>1. disk[n] = Dir
    BY <1>1, <1>7 DEF MarkDir, Visits
  <2>2. PICK p \in PathsOf(db, Top.id, n), opens \in BOOLEAN :
          OpensOrNot(opens) /\ scan' = [scan EXCEPT !.stack = Entered(n, p.id, opens)]
    BY <1>7 DEF MarkDir
  <2>3. opens /\ p.id \in Nat
    BY <2>2, IdNumbers DEF OpensOrNot, Rough, PathsOf
  <2>4. scan'.stack = Opened(After(n, Dir), n, p.id) /\ scan'.pc = "walk"
    BY <1>1, <2>1, <2>2, <2>3, StackOnly DEF Entered
  <2>5. ~Music(n)
    BY <1>2, <2>1, TreeOK DEF Music, IsMusic
  <2>. QED  BY <2>1, <2>3, <2>4, <2>5
<1>8. CASE NewDir(n)
  <2>1. disk[n] = Dir
    BY <1>1, <1>8 DEF NewDir, Visits
  <2>2. PICK opens \in BOOLEAN :
          /\ OpensOrNot(opens) /\ scan'.stack = Entered(n, scan.highest.paths + 1, opens)
          /\ scan'.pc = "walk"
    BY <1>8, NewDirDoes
  <2>3. opens /\ scan.highest.paths + 1 \in Nat
    BY <2>2, IdNumbers DEF OpensOrNot, Rough
  <2>4. scan'.stack = Opened(After(n, Dir), n, scan.highest.paths + 1)
    BY <2>1, <2>2, <2>3 DEF Entered
  <2>5. ~Music(n)
    BY <1>2, <2>1, TreeOK DEF Music, IsMusic
  <2>. QED  BY <2>1, <2>2, <2>3, <2>4, <2>5
<1>. QED  BY <1>3, <1>4, <1>5, <1>6, <1>7, <1>8 DEF Visit

\* The frames after such a look.
LEMMA QuietFrames ==
  ASSUME TypeInv, NEW n \in Names, Visit(n), steady', Exists(n)
  PROVE  /\ Len(scan.stack) \in Nat \ {0} /\ Len(scan'.stack) >= Len(scan.stack)
         /\ Len(scan'.stack) \in Nat
         /\ \A i \in 1..Len(scan.stack) :
              scan.stack[i].left \subseteq scan'.stack[i].left \cup {n}
         /\ disk[n] = Dir =>
              /\ Len(scan'.stack) = Len(scan.stack) + 1
              /\ scan'.stack[Len(scan.stack) + 1].left = Entries(n)
<1>1. /\ scan'.stack \in Seq(Frame) /\ Len(scan.stack) \in Nat \ {0}
      /\ \A i \in 1..Len(scan.stack) :
           i # Len(scan.stack) => scan'.stack[i].left = scan.stack[i].left
      /\ \/ Len(scan'.stack) = Len(scan.stack)
         \/ /\ Len(scan'.stack) = Len(scan.stack) + 1
            /\ scan'.stack[Len(scan'.stack)].left = Entries(n)
  BY VisitFrames
<1>2. Len(scan'.stack) >= Len(scan.stack) /\ Len(scan'.stack) \in Nat
  BY <1>1
<1>3. scan.stack # <<>> /\ Top = scan.stack[Len(scan.stack)]
  BY VisitIn DEF Top
<1>4. CASE disk[n] # Dir /\ scan'.stack = After(n, disk[n])
  <2>1. disk[n] \in Contents \cup {Dir}
    BY DEF TypeInv, TypeOK, Exists
  <2>2. scan'.stack[Len(scan.stack)].left = Top.left \ {n}
    <3>1. Len(scan.stack) \in 1..Len(scan.stack)
      BY <1>1
    <3>2. PICK s : s = After(n, disk[n])
      OBVIOUS
    <3>3. s[Len(scan.stack)].left = Top.left \ {n}
      BY <1>3, <2>1, <3>1, <3>2, AfterDoes
    <3>4. scan'.stack = s
      BY <1>4, <3>2
    <3>. QED  BY <3>3, <3>4
  <2>3. \A i \in 1..Len(scan.stack) : scan.stack[i].left \subseteq scan'.stack[i].left \cup {n}
    BY <1>1, <1>3, <2>2
  <2>. QED  BY <1>1, <1>2, <1>4, <2>3
<1>5. CASE disk[n] = Dir /\ \E id \in Nat : scan'.stack = Opened(After(n, Dir), n, id)
  <2>1. PICK id \in Nat : scan'.stack = Opened(After(n, Dir), n, id)
    BY <1>5
  <2>2. PICK s : s = After(n, Dir)
    OBVIOUS
  <2>3. Dir \in Contents \cup {Dir} /\ Len(scan.stack) \in 1..Len(scan.stack)
    BY <1>1
  <2>4. s \in Seq(Frame) /\ Len(s) = Len(scan.stack)
    BY <1>3, <2>2, <2>3, AfterDoes
  <2>5. s[Len(scan.stack)].left = Top.left \ {n}
    BY <1>3, <2>2, <2>3, AfterDoes
  <2>6. n \in Names \cup {Root} /\ scan'.stack = Opened(s, n, id)
    BY <2>1, <2>2
  <2>7. /\ Len(scan'.stack) = Len(s) + 1
        /\ \A i \in 1..Len(s) : scan'.stack[i] = s[i]
    <3>1. s \in Seq(Frame) /\ n \in Names \cup {Root} /\ scan'.stack = Opened(s, n, id)
      BY <2>4, <2>6
    <3>. QED  BY <3>1, OpenedDoes
  <2>8. scan'.stack[Len(scan.stack)].left = Top.left \ {n}
    BY <2>3, <2>4, <2>5, <2>7
  <2>9. \A i \in 1..Len(scan.stack) : scan.stack[i].left \subseteq scan'.stack[i].left \cup {n}
    BY <1>1, <1>3, <2>8
  <2>. QED  BY <1>1, <1>2, <2>4, <2>7, <2>9
<1>. QED  BY <1>4, <1>5, QuietVisit

\* The file n, as it is on the disk, has a title with the number of this scan, and the
\* title's folder has it too.
Known(n) ==
  \E t \in db.titles :
    t.name = n /\ t.stamp = disk[n] /\ t.version >= scan.dbVersion /\ FolderOf(In[n], t.parent)

\* What is on the disk and in U can be come to yet: it is in a frame, or its directory is in
\* U.  What is not in U is known, but for the file being looked up.
Covered(U) ==
  /\ \A i \in 1..Len(scan.stack) : \A n \in scan.stack[i].left : disk[n] # Absent
  /\ \A n \in U : disk[n] # Absent =>
       In[n] \in U \/ \E i \in 1..Len(scan.stack) : n \in scan.stack[i].left
  /\ \A n \in Names \ U : Music(n) => Known(n) \/ (scan.pc \in InFile /\ scan.track.name = n)
  /\ scan.pc \in InFile => scan.track.stamp = disk[scan.track.name]

Removed == {"artists", "albums", "finish", "copy", "size", "counter", "sample", "settle", "begin"}

CoverInv ==
  steady =>
    /\ scan.pc # "down"
    /\ scan.pc \in Walking => \E U \in SUBSET Names : Walked(U) /\ Covered(U)
    /\ scan.pc \in {"end", "titles", "paths"} => \A n \in Names : Music(n) => Known(n)
    /\ scan.pc \in Removed => \A n \in Names : Music(n) =>
         \E t \in db.titles :
           t.name = n /\ t.stamp = disk[n] /\ t.parent \in IdOf(In[n], db.paths)

LEMMA KnownKept ==
  ASSUME TypeInv, NEW n \in Names, Visit(n), NEW m \in Names, Known(m)
  PROVE  Known(m)'
<1>1. PICK t \in db.titles :
        t.name = m /\ t.stamp = disk[m] /\ t.version >= scan.dbVersion /\ FolderOf(In[m], t.parent)
  BY DEF Known
<1>2. PICK u \in db'.titles : SameTitle(t, u) /\ (u = t \/ u.version = scan.dbVersion)
  BY VisitTitles
<1>3. scan'.dbVersion = scan.dbVersion /\ disk' = disk /\ scan.dbVersion \in Nat
  BY VisitIn, Versions
<1>4. FolderIn(db'.paths, scan'.dbVersion, In[m], t.parent)
  <2>1. \A p \in db.paths : \E q \in db'.paths :
          SamePath(p, q) /\ (q = p \/ q.version = scan.dbVersion)
    BY VisitPaths
  <2>2. FolderIn(db.paths, scan.dbVersion, In[m], t.parent)
    BY <1>1 DEF FolderOf
  <2>3. FolderIn(db'.paths, scan.dbVersion, In[m], t.parent)
    BY <1>3, <2>1, <2>2, FolderKept
  <2>. QED  BY <1>3, <2>3
<1>5. /\ u.name = m /\ u.stamp = disk'[m] /\ u.version >= scan'.dbVersion
      /\ FolderIn(db'.paths, scan'.dbVersion, In[m], u.parent)
  BY <1>1, <1>2, <1>3, <1>4 DEF SameTitle
<1>. QED  BY <1>2, <1>5 DEF Known, FolderOf

LEMMA CoveredVisit ==
  ASSUME TypeInv, TreeInv, NEW U \in SUBSET Names, Walked(U), Covered(U),
         NEW n \in Names, Visit(n), steady'
  PROVE  Covered(U \ {n})'
<1>1. /\ n \in U /\ In[n] = Top.dir /\ In[n] \notin U /\ Walked(U \ {n})'
      /\ scan.pc = "walk" /\ n \in Top.left /\ disk' = disk /\ scan'.dbVersion = scan.dbVersion
      /\ scan'.pc \in {"walk", "tags"} /\ (scan'.pc = "tags" => scan'.track.name = n)
      /\ scan.stack # <<>> /\ Top = scan.stack[Len(scan.stack)]
  BY VisitIn, WalkedVisit DEF Top
<1>0. /\ Len(scan.stack) \in 1..Len(scan.stack)
      /\ scan.stack \in Seq(Frame) /\ scan'.stack \in Seq(Frame)
      /\ Len(scan.stack) \in Nat \ {0}
  <2>1. Len(scan.stack) \in Nat \ {0}
    BY VisitFrames
  <2>. QED  BY <2>1, VisitFrames
<1>2. Exists(n)
  BY <1>0, <1>1 DEF Covered, Exists
<1>3. ASSUME NEW i \in 1..Len(scan'.stack), NEW k \in scan'.stack[i].left
      PROVE  disk'[k] # Absent
  <2>1. CASE i \in 1..Len(scan.stack)
    <3>1. k \in scan.stack[i].left
      BY <1>3, <2>1, VisitFrames
    <3>. QED  BY <1>1, <2>1, <3>1 DEF Covered
  <2>2. CASE i \notin 1..Len(scan.stack)
    <3>1. i = Len(scan'.stack) /\ Len(scan'.stack) # Len(scan.stack)
      BY <1>0, <2>2, VisitFrames
    <3>2. scan'.stack[i].left = Entries(n)
      BY <3>1, VisitFrames
    <3>. QED  BY <1>1, <1>3, <3>2 DEF Entries
  <2>. QED  BY <2>1, <2>2
<1>4. ASSUME NEW k \in U \ {n}, disk'[k] # Absent
      PROVE  In[k] \in U \ {n} \/ \E i \in 1..Len(scan'.stack) : k \in scan'.stack[i].left
  <2>1. CASE \E i \in 1..Len(scan.stack) : k \in scan.stack[i].left
    <3>1. PICK i \in 1..Len(scan.stack) : k \in scan.stack[i].left
      BY <2>1
    <3>2. k \in scan'.stack[i].left /\ i \in 1..Len(scan'.stack)
      <4>1. /\ Len(scan'.stack) >= Len(scan.stack) /\ Len(scan'.stack) \in Nat
            /\ scan.stack[i].left \subseteq scan'.stack[i].left \cup {n}
        BY <1>2, <3>1, QuietFrames
      <4>. QED  BY <1>0, <1>4, <3>1, <4>1
    <3>. QED  BY <3>2
  <2>2. CASE In[k] = n
    <3>1. n \in Dirs
      BY <1>4, <2>2, TreeOK DEF Names
    <3>2. disk[n] = Dir
      BY <1>1, <1>4, <2>2, <3>1 DEF TreeInv
    <3>3. /\ Len(scan'.stack) = Len(scan.stack) + 1
          /\ scan'.stack[Len(scan.stack) + 1].left = Entries(n)
      BY <1>2, <3>2, QuietFrames
    <3>4. k \in Entries(n)
      BY <1>1, <1>4, <2>2 DEF Entries
    <3>5. Len(scan.stack) + 1 \in 1..Len(scan'.stack)
      BY <1>0, <3>3
    <3>. QED  BY <3>3, <3>4, <3>5
  <2>. QED  BY <1>1, <1>4, <2>1, <2>2 DEF Covered
<1>5. ASSUME NEW m \in Names \ (U \ {n}), Music(m)'
      PROVE  Known(m)' \/ (scan'.pc \in InFile /\ scan'.track.name = m)
  <2>0. Music(m)
    BY <1>1, <1>5 DEF Music
  <2>1. CASE m # n
    <3>1. Known(m)
      BY <1>1, <1>5, <2>0, <2>1 DEF Covered, InFile
    <3>. QED  BY <3>1, KnownKept
  <2>2. CASE m = n /\ scan'.pc = "tags"
    BY <1>1, <2>2 DEF InFile
  <2>3. CASE m = n /\ scan'.pc # "tags"
    <3>1. PICK u \in db'.titles : /\ u.name = n /\ u.stamp = disk[n]
                                  /\ u.parent = Top.id /\ u.version = scan.dbVersion
      BY <1>2, <2>0, <2>3, QuietVisit
    <3>2. FolderIn(db'.paths, scan'.dbVersion, Top.dir, Top.id)
      <4>1. /\ scan'.stack[Len(scan.stack)].dir = Top.dir
            /\ scan'.stack[Len(scan.stack)].id = Top.id
            /\ Len(scan.stack) \in 1..Len(scan'.stack)
        <5>1. Len(scan'.stack) >= Len(scan.stack) /\ Len(scan'.stack) \in Nat
          BY <1>2, QuietFrames
        <5>. QED  BY <1>0, <1>1, <5>1, VisitFrames
      <4>. QED  BY <1>1, <4>1 DEF Walked, FolderOf
    <3>3. scan.dbVersion \in Nat
      BY Versions
    <3>. QED  BY <1>1, <2>3, <3>1, <3>2, <3>3 DEF Known, FolderOf
  <2>. QED  BY <2>1, <2>2, <2>3
<1>6. scan'.pc \in InFile => scan'.track.stamp = disk'[scan'.track.name]
  BY <1>1, <1>2, QuietVisit DEF InFile
<1>. QED  BY <1>3, <1>4, <1>5, <1>6 DEF Covered

\* While nothing fails and the disk stays, what is no music is told from its content.
LEMMA CoveredTags ==
  ASSUME TypeInv, NEW U \in SUBSET Names, Walked(U), Covered(U), Tags, steady'
  PROVE  Covered(U)'
<1>1. /\ scan.pc = "tags" /\ scan'.pc \in {"walk", "artist"} /\ scan'.stack = scan.stack
      /\ scan'.dbVersion = scan.dbVersion /\ db' = db /\ disk' = disk
      /\ scan'.pc = "artist" =>
           /\ scan'.track.name = scan.track.name /\ scan'.track.stamp = scan.track.stamp
  BY TagsDoes
<1>2. CASE scan'.pc = "artist"
  BY <1>1, <1>2 DEF Covered, Known, FolderOf, Music, InFile
<1>3. CASE scan'.pc = "walk"
  <2>1. ReadTags
    BY DEF Tags, ReadTagsFails
  <2>2. ~ \E tags \in Audio \cup {NoTags} : GotTags(tags)
    BY <1>1, <1>3, GotTagsDoes
  <2>3. disk[scan.track.name] \notin Audio
    BY <2>1, <2>2 DEF ReadTags
  <2>4. ~Music(scan.track.name)
    BY <2>3 DEF Music, IsMusic
  <2>5. \A n \in Names \ U : Music(n) => Known(n)
    BY <1>1, <2>4 DEF Covered
  <2>. QED  BY <1>1, <1>3, <2>5 DEF Covered, Known, FolderOf, Music, InFile
<1>. QED  BY <1>1, <1>2, <1>3

LEMMA CoveredLookUp ==
  ASSUME TypeInv, NEW U \in SUBSET Names, Walked(U), Covered(U), LookUp
  PROVE  Covered(U)'
<1>1. /\ scan.pc \in InFile /\ scan'.pc \in InFile
      /\ scan'.stack = scan.stack /\ scan'.dbVersion = scan.dbVersion
      /\ scan'.track.name = scan.track.name /\ scan'.track.stamp = scan.track.stamp
      /\ db'.titles = db.titles /\ db'.paths = db.paths /\ disk' = disk
  BY LookUpDoes DEF LookUp, InFile
<1>. QED  BY <1>1 DEF Covered, Known, FolderOf, Music

LEMMA CoveredInsert ==
  ASSUME TypeInv, NEW U \in SUBSET Names, Walked(U), Covered(U), InsertTitle
  PROVE  Covered(U)'
<1>1. /\ scan.pc = "title" /\ scan'.pc = "walk" /\ scan'.stack = scan.stack
      /\ scan'.dbVersion = scan.dbVersion /\ disk' = disk
      /\ db'.titles = db.titles \cup {NewTitle} /\ db'.paths = db.paths
      /\ NewTitle.version = scan.dbVersion /\ NewTitle.stamp = scan.track.stamp
      /\ NewTitle.parent = Top.id /\ NewTitle.name = scan.track.name
  BY InsertDoes
<1>2. /\ In[scan.track.name] = Top.dir /\ scan.track.stamp = disk[scan.track.name]
      /\ scan.dbVersion \in Nat
  BY <1>1, Versions DEF Walked, Covered, InFile
<1>3. FolderOf(Top.dir, Top.id)
  <2>1. Len(scan.stack) \in 1..Len(scan.stack)
    BY <1>1, TrackTyped, TopTyped
  <2>. QED  BY <2>1 DEF Walked, Top
<1>4. ASSUME NEW m \in Names, m = scan.track.name PROVE Known(m)'
  <2>1. FolderIn(db'.paths, scan'.dbVersion, In[m], NewTitle.parent)
    BY <1>1, <1>2, <1>3, <1>4 DEF FolderOf
  <2>2. /\ NewTitle \in db'.titles /\ NewTitle.version >= scan'.dbVersion
        /\ NewTitle.name = m /\ NewTitle.stamp = disk'[m]
    BY <1>1, <1>2, <1>4
  <2>. QED  BY <2>1, <2>2 DEF Known, FolderOf
<1>5. ASSUME NEW m \in Names, Known(m) PROVE Known(m)'
  BY <1>1, <1>5 DEF Known, FolderOf
<1>. QED  BY <1>1, <1>4, <1>5 DEF Covered, Music, InFile

\* Where the directory of each name of U on the disk is in U too, no name of U is on the disk.
LEMMA NoneLeft ==
  ASSUME TreeInv, NEW U \in SUBSET Names, \A n \in U : disk[n] # Absent => In[n] \in U
  PROVE  \A n \in U : disk[n] = Absent
<1>1. PICK depth \in [Names \cup {Root} -> 0..Cardinality(Names)] :
        \A n \in Names : depth[In[n]] < depth[n]
  BY Depths
<1> DEFINE there == {n \in U : disk[n] # Absent}
           S == {depth[n] : n \in there}
<1>2. \A n \in there : In[n] \in there
  <2>1. ASSUME NEW n \in there PROVE In[n] \in Dirs
    BY <2>1, TreeOK DEF Names
  <2>. QED  BY <2>1 DEF TreeInv, Dir, Absent
<1>3. S \in SUBSET Nat
  BY <1>1
<1>4. SUFFICES ASSUME there # {} PROVE FALSE
  BY <1>4
<1>5. PICK n \in there : \A m \in there : depth[n] <= depth[m]
  <2>1. S # {}
    BY <1>4
  <2> HIDE DEF S
  <2>2. PICK k \in S : \A m \in S : k <= m
    BY <1>3, <2>1, NatLeast
  <2>. QED  BY <2>2 DEF S
<1>6. depth[In[n]] < depth[n] /\ depth[n] <= depth[In[n]]
  BY <1>1, <1>2, <1>5
<1>7. depth[In[n]] \in Int /\ depth[n] \in Int
  BY <1>1, <1>2, <1>5
<1>. QED  BY <1>6, <1>7

LEMMA CoveredLeave ==
  ASSUME TypeInv, TreeInv, NEW U \in SUBSET Names, Covered(U), LeaveDir
  PROVE  /\ scan'.pc = "walk" => Covered(U)'
         /\ scan'.pc = "end" => \A n \in Names : Music(n)' => Known(n)'
<1>1. /\ scan.pc = "walk" /\ scan.stack # <<>> /\ Top.left = {}
      /\ Len(scan'.stack) = Len(scan.stack) - 1 /\ Len(scan.stack) \in Nat \ {0}
      /\ \A i \in 1..Len(scan'.stack) : scan'.stack[i] = scan.stack[i]
      /\ scan'.pc = IF Len(scan.stack) = 1 THEN "end" ELSE "walk"
      /\ scan'.dbVersion = scan.dbVersion /\ disk' = disk /\ db' = db
  BY LeftDoes DEF LeaveDir, tables
<1>2. \A i \in 1..Len(scan.stack) : scan.stack[i].left # {} => i \in 1..Len(scan'.stack)
  BY <1>1 DEF Top
<1>3. \A n \in U : disk[n] # Absent =>
        In[n] \in U \/ \E i \in 1..Len(scan'.stack) : n \in scan'.stack[i].left
  BY <1>1, <1>2 DEF Covered
<1>4. \A n \in Names : Known(n) => Known(n)'
  BY <1>1 DEF Known, FolderOf
<1>5. \A n \in Names \ U : Music(n)' => Known(n)'
  BY <1>1, <1>4 DEF Covered, Music, InFile
<1>6. ASSUME scan'.pc = "walk" PROVE Covered(U)'
  <2>1. \A i \in 1..Len(scan'.stack) : \A n \in scan'.stack[i].left : disk'[n] # Absent
    BY <1>1 DEF Covered
  <2>. QED  BY <1>1, <1>3, <1>5, <1>6, <2>1 DEF Covered, InFile
<1>7. ASSUME scan'.pc = "end", NEW n \in Names, Music(n)' PROVE Known(n)'
  <2>1. Len(scan'.stack) = 0
    BY <1>1, <1>7
  <2>2. \A m \in U : disk[m] # Absent => In[m] \in U
    BY <1>3, <2>1
  <2>3. disk[n] # Absent
    BY <1>1, <1>7, TreeOK, DiskOK DEF Music, IsMusic
  <2>4. n \notin U
    BY <2>2, <2>3, NoneLeft
  <2>. QED  BY <1>5, <1>7, <2>4
<1>. QED  BY <1>6, <1>7

LEMMA CoveredBegin ==
  ASSUME TypeInv, Begin, scan'.pc = "walk"
  PROVE  Covered(Names)'
<1>1. /\ Len(scan'.stack) = 1 /\ scan'.stack[1].left = Entries(Root) /\ disk' = disk
  BY BeginDoes
<1>2. \A n \in Names : disk[n] # Absent => In[n] \in Names \/ n \in Entries(Root)
  BY TreeOK DEF Entries, Names
<1>. QED  BY <1>1, <1>2 DEF Covered, Entries, InFile

\* The title of a known file keeps its folder when the stale folders go.
LEMMA CoverRest ==
  ASSUME TypeInv, CoverInv, Rest, steady'
  PROVE  CoverInv'
<1>1. /\ steady /\ disk' = disk
      /\ scan.pc \notin Walking \cup {"down"} /\ scan'.pc \notin Walking \cup {"down"}
  BY RestDoes DEF Rest
<1>2. CASE EndWalk
  <2>1. /\ scan.pc = "end" /\ scan'.pc = "titles" /\ scan'.dbVersion = scan.dbVersion /\ db' = db
    BY <1>2, IdNumbers DEF EndWalk, Scanner
  <2>. QED  BY <1>1, <2>1 DEF CoverInv, Known, FolderOf, Music, Removed, Walking
<1>3. CASE DropTitles
  <2>1. /\ scan.pc = "titles" /\ scan'.pc = "paths" /\ scan'.dbVersion = scan.dbVersion
        /\ db'.titles = db.titles \ Stale(db.titles, scan.dbVersion) /\ db'.paths = db.paths
    BY <1>3, DropTitlesDoes
  <2>2. \A t \in db.titles : t.version >= scan.dbVersion => t \in db'.titles
    BY <2>1, Versions DEF Stale
  <2>3. \A n \in Names : Known(n) => Known(n)'
    BY <1>1, <2>1, <2>2 DEF Known, FolderOf
  <2>. QED  BY <1>1, <2>1, <2>3 DEF CoverInv, Music, Removed, Walking
<1>4. CASE DropPaths
  <2>1. /\ scan.pc = "paths" /\ scan'.pc = "artists"
        /\ db'.paths = db.paths \ Stale(db.paths, scan.dbVersion) /\ db'.titles = db.titles
    BY <1>4, DropPathsDoes
  <2>2. \A p \in db.paths : p.version >= scan.dbVersion => p \in db'.paths
    BY <2>1, Versions DEF Stale
  <2>3. ASSUME NEW n \in Names, Known(n)
        PROVE  \E t \in db'.titles :
                 t.name = n /\ t.stamp = disk[n] /\ t.parent \in IdOf(In[n], db'.paths)
    <3>1. PICK t \in db.titles : t.name = n /\ t.stamp = disk[n] /\ FolderOf(In[n], t.parent)
      BY <2>3 DEF Known
    <3>2. t.parent \in IdOf(In[n], db'.paths)
      BY <2>2, <3>1 DEF FolderOf, FolderIn, IdOf
    <3>. QED  BY <2>1, <3>1, <3>2
  <2>. QED  BY <1>1, <2>1, <2>3 DEF CoverInv, Music, Removed, Walking
<1>5. CASE ~EndWalk /\ ~DropTitles /\ ~DropPaths
  <2>1. db'.titles = db.titles /\ db'.paths = db.paths
    BY <1>5, RestTables
  <2>2. ~DropFails
    BY DEF DropFails, Rough
  <2>3. scan.pc \in Removed
    <3>1. CASE SampleSame \/ SampleChanged \/ Settle
      BY <3>1 DEF SampleSame, SampleChanged, Settle, Removed
    <3>2. CASE ArtistsDropped \/ AlbumsDropped
      BY <3>2 DEF ArtistsDropped, AlbumsDropped, Removed
    <3>4. CASE DropArtist
      BY <3>4 DEF DropArtist, Removed
    <3>5. CASE DropAlbum
      BY <3>5 DEF DropAlbum, Removed
    <3>3. CASE Announce \/ NothingToAnnounce \/ CopyDone \/ SaveSize \/ SaveCounter
      BY <3>3 DEF Announce, NothingToAnnounce, CopyDone, SaveSize, SaveCounter, Removed
    <3>. QED  BY <1>5, <2>2, <3>1, <3>2, <3>3, <3>4, <3>5 DEF Rest
  <2>4. scan'.pc \in Removed
    <3>1. scan \in Scanner
      BY IdNumbers
    <3>2. CASE SampleSame \/ SampleChanged \/ Settle
      <4>1. CASE SampleSame
        BY <2>3, <3>1, <4>1 DEF SampleSame, Scanner
      <4>2. CASE SampleChanged
        BY <3>1, <4>2 DEF SampleChanged, Scanner, Removed
      <4>3. CASE Settle
        BY <2>3, <3>1, <4>3 DEF Settle, Scanner, Removed
      <4>. QED  BY <3>2, <4>1, <4>2, <4>3
    <3>3. CASE DropArtist \/ DropAlbum
      BY <3>3, DropArtistDoes, DropAlbumDoes DEF Removed
    <3>4. CASE ArtistsDropped \/ AlbumsDropped
      BY <3>1, <3>4 DEF ArtistsDropped, AlbumsDropped, Scanner, Removed
    <3>5. CASE Announce
      BY <3>1, <3>5 DEF Announce, Scanner, Removed
    <3>6. CASE NothingToAnnounce \/ CopyDone
      BY <3>1, <3>6 DEF NothingToAnnounce, CopyDone, Scanner, Removed
    <3>7. CASE SaveSize \/ SaveCounter
      BY <3>7, SaveDoes DEF Removed
    <3>. QED  BY <1>5, <2>2, <3>2, <3>3, <3>4, <3>5, <3>6, <3>7 DEF Rest
  <2>. QED  BY <1>1, <2>1, <2>3, <2>4 DEF CoverInv, Music, IdOf, Removed, Walking
<1>. QED  BY <1>2, <1>3, <1>4, <1>5

LEMMA CoverNext ==
  TypeInv /\ WalkInv /\ TreeInv /\ CoverInv /\ [Next]_vars => CoverInv'
<1>. SUFFICES ASSUME TypeInv, WalkInv, TreeInv, CoverInv, [Next]_vars, steady' PROVE CoverInv'
  BY DEF CoverInv
<1>1. CASE Start
  <2>1. steady /\ scan.pc = "down"
    BY <1>1, StartDoes
  <2>. QED  BY <2>1 DEF CoverInv
<1>12. CASE Tags
  <2>1. scan.pc = "tags" /\ scan'.pc \in {"walk", "artist"} /\ steady
    BY <1>12, TagsDoes
  <2>2. PICK U \in SUBSET Names : Walked(U) /\ Covered(U)
    BY <2>1 DEF CoverInv, Walking
  <2>3. Walked(U)'
    BY <1>12, <2>2, TagsDoes, WalkedOn DEF InFile
  <2>4. \E V \in SUBSET Names : Walked(V)' /\ Covered(V)'
    BY <1>12, <2>2, <2>3, CoveredTags
  <2>. QED  BY <2>1, <2>4 DEF CoverInv, Removed
<1>2. CASE Begin
  <2>1. scan'.pc = "walk"
    BY <1>2, BeginDoes
  <2>2. Walked(Names)' /\ Covered(Names)'
    BY <1>2, <2>1, WalkedBegin, CoveredBegin
  <2>3. \E U \in SUBSET Names : Walked(U)' /\ Covered(U)'
    BY <2>2
  <2>. QED  BY <2>1, <2>3 DEF CoverInv, Walking, Removed
<1>3. CASE \E n \in Names : Visit(n)
  <2>1. PICK n \in Names : Visit(n)
    BY <1>3
  <2>2. scan.pc = "walk" /\ scan'.pc \in {"walk", "tags"} /\ steady
    BY <2>1, VisitIn
  <2>3. PICK U \in SUBSET Names : Walked(U) /\ Covered(U)
    BY <2>2 DEF CoverInv, Walking
  <2>4. Walked(U \ {n})' /\ Covered(U \ {n})'
    BY <2>1, <2>3, WalkedVisit, CoveredVisit
  <2>5. \E V \in SUBSET Names : Walked(V)' /\ Covered(V)'
    BY <2>4
  <2>. QED  BY <2>2, <2>5 DEF CoverInv, Removed
<1>4. CASE LeaveDir
  <2>1. scan.pc = "walk" /\ scan'.pc \in {"walk", "end"} /\ steady
    <3>1. steady' = steady
      BY <1>4 DEF LeaveDir, history
    <3>. QED  BY <1>4, <3>1, LeftDoes
  <2>2. PICK U \in SUBSET Names : Walked(U) /\ Covered(U)
    BY <2>1 DEF CoverInv, Walking
  <2>3. CASE scan'.pc = "walk"
    <3>1. Walked(U)' /\ Covered(U)'
      BY <1>4, <2>2, <2>3, WalkedLeave, CoveredLeave
    <3>2. \E V \in SUBSET Names : Walked(V)' /\ Covered(V)'
      BY <3>1
    <3>. QED  BY <2>3, <3>2 DEF CoverInv, Removed
  <2>4. CASE scan'.pc = "end"
    <3>1. \A n \in Names : Music(n)' => Known(n)'
      BY <1>4, <2>2, <2>4, CoveredLeave
    <3>. QED  BY <2>4, <3>1 DEF CoverInv, Removed, Walking
  <2>. QED  BY <2>1, <2>3, <2>4
<1>5. CASE LookUp
  <2>1. scan.pc \in {"artist", "album"} /\ scan'.pc \in {"album", "title"} /\ steady
    BY <1>5, LookUpDoes DEF LookUp
  <2>2. PICK U \in SUBSET Names : Walked(U) /\ Covered(U)
    BY <2>1 DEF CoverInv, Walking
  <2>3. Covered(U)'
    BY <1>5, <2>2, CoveredLookUp
  <2>4. Walked(U)'
    <3>1. /\ scan'.stack = scan.stack /\ db'.paths = db.paths
          /\ scan'.dbVersion = scan.dbVersion /\ scan'.track.name = scan.track.name
      BY <1>5, LookUpDoes DEF LookUp
    <3>. QED  BY <2>1, <2>2, <3>1, WalkedOn DEF InFile
  <2>5. \E V \in SUBSET Names : Walked(V)' /\ Covered(V)'
    BY <2>3, <2>4
  <2>. QED  BY <2>1, <2>5 DEF CoverInv, Removed
<1>6. CASE InsertTitle
  <2>1. /\ scan.pc = "title" /\ scan'.pc = "walk" /\ steady
        /\ scan'.stack = scan.stack /\ db'.paths = db.paths /\ scan'.dbVersion = scan.dbVersion
    BY <1>6, InsertDoes DEF history
  <2>2. PICK U \in SUBSET Names : Walked(U) /\ Covered(U)
    BY <2>1 DEF CoverInv, Walking
  <2>3. Walked(U)' /\ Covered(U)'
    BY <1>6, <2>1, <2>2, CoveredInsert, WalkedOn DEF InFile
  <2>4. \E V \in SUBSET Names : Walked(V)' /\ Covered(V)'
    BY <2>3
  <2>. QED  BY <2>1, <2>4 DEF CoverInv, Removed
<1>7. CASE InsertTitleFails
  BY <1>7, InsertFailsLeaves
<1>8. CASE Rest
  BY <1>8, CoverRest
<1>9. CASE DiskStep
  <2>1. steady' = FALSE
    BY <1>9 DEF DiskStep, PutFile, RemoveFile, MakeDir, MoveDirAway, ChangeTo
  <2>. QED  BY <2>1
<1>10. CASE \E machine \in BOOLEAN : Crash(machine)
  BY <1>10 DEF Crash
<1>11. CASE UNCHANGED vars
  <2>1. UNCHANGED <<disk, db, scan, steady>>
    BY <1>11 DEF vars
  <2>2. \A U : Walked(U) => Walked(U)'
    BY <2>1 DEF Walked, FolderOf, Top
  <2>3. \A n : Known(n) => Known(n)'
    BY <2>1 DEF Known, FolderOf
  <2>4. \A U : Covered(U) => Covered(U)'
    BY <2>1, <2>3 DEF Covered, Music, InFile
  <2>. QED  BY <2>1, <2>2, <2>3, <2>4 DEF CoverInv, Music, IdOf
<1>. QED  BY <1>1, <1>2, <1>3, <1>4, <1>5, <1>6, <1>7, <1>8, <1>9, <1>10, <1>11, <1>12, Steps DEF Next

\* After a scan during which the disk stayed as it was and nothing failed, every music file
\* on the disk is in the database, under its folder, however often the scanner died before:
\* the recursion of traverse_directory (mps-librarydbd-traverse.c) comes to every file, marks
\* it or adds it, and remove_stale_entries (mps-librarydbd.c) takes none of them away.
THEOREM LibraryQuietScanComplete == Spec => []QuietScanComplete
<1>1. Init => CoverInv
  BY DEF Init, CoverInv
<1>2. LiveInv /\ CoverInv => QuietScanComplete
  BY DEF LiveInv, CoverInv, QuietScanComplete, IsListed, Removed, Walking
<1>. QED  BY <1>1, <1>2, CoverNext, PlacesAlways, PTL DEF Spec

-----------------------------------------------------------------------------
(***************************************************************************)
(* QuietScanExact.                                                         *)
(***************************************************************************)
\* The index update_lookup: a file has one title in a folder.
Unique(d) ==
  \A t, u \in d.titles : t.stamp = u.stamp /\ t.parent = u.parent /\ t.name = u.name => t = u

UniqueInv == Unique(live) /\ Unique(db) /\ Unique(saved)

LEMMA FileMarked ==
  ASSUME TypeInv, Unique(db), NEW n \in Names, NEW looks \in Contents,
         db' = [db EXCEPT !.titles = Touch(@, TitlesOf(db, looks, Top.id, n), scan.dbVersion)]
  PROVE  /\ Unique(db')
         /\ \A u \in db'.titles : u \in db.titles \/ (u.name = n /\ u.stamp = looks)
         /\ \A u, w \in db'.titles : u \notin db.titles /\ w \notin db.titles => u = w
<1> DEFINE known == TitlesOf(db, looks, Top.id, n)
           marked(o) == [o EXCEPT !.version = scan.dbVersion]
<1>1. db \in Database /\ db.titles \in SUBSET TitleRow
  BY DEF TypeInv, TypeOK, Database
<1>2. /\ known \in SUBSET db.titles
      /\ \A o \in db.titles : o \in known <=> o.stamp = looks /\ o.parent = Top.id /\ o.name = n
  BY DEF TitlesOf, SameFile
<1>3. db'.titles = (db.titles \ known) \cup {marked(o) : o \in known}
  BY <1>1 DEF Database, Touch
<1>4. \A o \in TitleRow : marked(o).stamp = o.stamp /\ marked(o).parent = o.parent /\ marked(o).name = o.name
  BY DEF TitleRow
<1> HIDE DEF known, marked
<1>5. \A o, p \in known : o = p
  BY <1>2 DEF Unique
<1>6. \A o \in known : marked(o).stamp = looks /\ marked(o).parent = Top.id /\ marked(o).name = n
  BY <1>1, <1>2, <1>4
<1>7. Unique(db')
  <2>1. ASSUME NEW u \in db'.titles, NEW w \in db'.titles,
               u.stamp = w.stamp, u.parent = w.parent, u.name = w.name
        PROVE  u = w
    <3>1. CASE u \in db.titles \ known /\ w \in db.titles \ known
      BY <2>1, <3>1 DEF Unique
    <3>2. CASE (\E o \in known : u = marked(o)) /\ (\E o \in known : w = marked(o))
      BY <1>5, <3>2
    <3>3. CASE u \in db.titles \ known /\ (\E o \in known : w = marked(o))
      BY <1>2, <1>6, <2>1, <3>3
    <3>4. CASE (\E o \in known : u = marked(o)) /\ w \in db.titles \ known
      BY <1>2, <1>6, <2>1, <3>4
    <3>. QED  BY <1>3, <3>1, <3>2, <3>3, <3>4
  <2>. QED  BY <2>1 DEF Unique
<1>. QED  BY <1>3, <1>5, <1>6, <1>7

LEMMA UniqueVisit ==
  ASSUME TypeInv, Unique(db), NEW n \in Names, Visit(n)
  PROVE  Unique(db')
<1>1. CASE MarkFile(n)
  <2>1. PICK looks \in Contents :
          db' = [db EXCEPT !.titles = Touch(@, TitlesOf(db, looks, Top.id, n), scan.dbVersion)]
    BY <1>1 DEF MarkFile, Write
  <2>. QED  BY <2>1, FileMarked
<1>2. CASE ~MarkFile(n)
  <2>1. db'.titles = db.titles
    <3>1. CASE MarkDir(n) \/ MarkDirNoId(n)
      <4>1. db' = [db EXCEPT !.paths = Touch(@, PathsOf(db, Top.id, n), scan.dbVersion)]
        BY <3>1 DEF MarkDir, MarkDirNoId, Write
      <4>2. PathsOf(db, Top.id, n) \in SUBSET db.paths
        BY DEF PathsOf
      <4>. QED  BY <4>1, <4>2, PathsMarked
    <3>2. CASE NewDir(n)
      BY <3>2, IdNumbers DEF NewDir, Write, Database
    <3>3. CASE PassOver(n) \/ MarkFails(n) \/ NewDirFails(n)
      BY <3>3 DEF PassOver, MarkFails, NewDirFails, tables
    <3>4. CASE NewFile(n)
      BY <3>4 DEF NewFile, tables
    <3>. QED  BY <1>2, <3>1, <3>2, <3>3, <3>4 DEF Visit
  <2>. QED  BY <2>1 DEF Unique
<1>. QED  BY <1>1, <1>2

LEMMA UniqueInsert ==
  ASSUME TypeInv, Unique(db), InsertTitle
  PROVE  Unique(db')
<1>1. db'.titles = db.titles \cup {NewTitle} /\ TitleFits(db, NewTitle)
  BY InsertDoes
<1>2. \A t \in db.titles :
        ~ (t.stamp = NewTitle.stamp /\ t.parent = NewTitle.parent /\ t.name = NewTitle.name)
  BY <1>1 DEF TitleFits, TitlesOf, SameFile
<1>. QED  BY <1>1, <1>2 DEF Unique

\* A step whose tables are known: what is left to show of UniqueInv.
LEMMA UniqueKept ==
  ASSUME UniqueInv, live' \in {live, db'}, saved' = saved, Unique(db')
  PROVE  UniqueInv'
BY DEF UniqueInv

LEMMA UniqueNext == TypeInv /\ UniqueInv /\ [Next]_vars => UniqueInv'
<1>. SUFFICES ASSUME TypeInv, UniqueInv, [Next]_vars PROVE UniqueInv'
  OBVIOUS
<1>1. CASE Start
  <2>1. Unique(EmptyDatabase) /\ Unique(CutOff)
    BY DEF Unique, EmptyDatabase, CutOff
  <2>2. live' = db' /\ db' \in {EmptyDatabase, CutOff, live, saved} /\ saved' = saved
    BY <1>1, StartDoes
  <2>. QED  BY <2>1, <2>2 DEF UniqueInv
<1>11. CASE Tags
  BY <1>11, TagsDoes DEF UniqueInv
<1>2. CASE Begin
  BY <1>2, BeginDoes DEF UniqueInv
<1>3. CASE \E n \in Names : Visit(n)
  BY <1>3, VisitIn, UniqueVisit, UniqueKept DEF UniqueInv
<1>4. CASE LeaveDir
  BY <1>4 DEF LeaveDir, tables, UniqueInv
<1>5. CASE LookUp
  <2>1. db'.titles = db.titles /\ live' \in {live, db'} /\ saved' = saved
    BY <1>5, LookUpDoes DEF LookUp
  <2>2. Unique(db')
    BY <2>1 DEF UniqueInv, Unique
  <2>. QED  BY <2>1, <2>2, UniqueKept
<1>6. CASE InsertTitle
  BY <1>6, InsertDoes, UniqueInsert, UniqueKept DEF UniqueInv
<1>7. CASE InsertTitleFails
  BY <1>7, InsertFailsLeaves DEF UniqueInv
<1>8. CASE Rest
  <2>1. live' \in {live, db'} /\ saved' \in {saved, db, CutOff}
    BY <1>8, RestTables
  <2>2. Unique(db')
    <3>1. db'.titles \subseteq db.titles
      BY <1>8, RestTables, DropTitlesDoes, DropPathsDoes
    <3>. QED  BY <3>1 DEF UniqueInv, Unique
  <2>3. Unique(CutOff)
    BY DEF Unique, EmptyDatabase, CutOff
  <2>. QED  BY <2>1, <2>2, <2>3 DEF UniqueInv
<1>9. CASE DiskStep \/ UNCHANGED vars
  BY <1>9 DEF DiskStep, PutFile, RemoveFile, MakeDir, MoveDirAway, ChangeTo, tables, vars, UniqueInv
<1>10. CASE \E machine \in BOOLEAN : Crash(machine)
  <2>1. Unique(NoFile)
    BY DEF Unique, NoFile, EmptyDatabase
  <2>. QED  BY <1>10, <2>1 DEF Crash, UniqueInv
<1>. QED
  BY <1>1, <1>2, <1>3, <1>4, <1>5, <1>6, <1>7, <1>8, <1>9, <1>10, <1>11, Steps DEF Next

\* The tags are of the content the length and the time are of, or the name has slipped.
Traced(titles) == \A t \in titles : t.tags = t.stamp \/ t.name \in slipped

SlipInv ==
  /\ Traced(live.titles) /\ Traced(db.titles) /\ Traced(saved.titles)
  /\ scan.pc = "tags" =>
       disk[scan.track.name] = scan.track.stamp \/ scan.track.name \in slipped
  /\ scan.pc \in {"artist", "album", "title"} =>
       scan.track.tags = scan.track.stamp \/ scan.track.name \in slipped

LEMMA TracedOn ==
  ASSUME NEW S, NEW T, Traced(S), slipped \subseteq slipped',
         \A u \in T : \E t \in S : u.tags = t.tags /\ u.stamp = t.stamp /\ u.name = t.name
  PROVE  \A u \in T : u.tags = u.stamp \/ u.name \in slipped'
BY DEF Traced

LEMMA SlipVisit ==
  ASSUME TypeInv, SlipInv, NEW n \in Names, Visit(n), slipped \subseteq slipped'
  PROVE  SlipInv'
<1>1. /\ scan.pc = "walk" /\ scan'.pc \in {"walk", "tags"} /\ disk' = disk /\ saved' = saved
      /\ live' \in {live, db'} /\ (scan'.pc = "tags" => scan'.track.name = n)
  BY VisitIn
<1>2. \A u \in db'.titles : \E t \in db.titles :
        u.tags = t.tags /\ u.stamp = t.stamp /\ u.name = t.name
  BY VisitTitles DEF SameTitle
<1>3. \A u \in db'.titles : u.tags = u.stamp \/ u.name \in slipped'
  <2>1. Traced(db.titles)
    BY DEF SlipInv
  <2>. QED  BY <1>2, <2>1, TracedOn
<1>4. Traced(live.titles)' /\ Traced(saved.titles)' /\ Traced(db.titles)'
  BY <1>1, <1>3 DEF SlipInv, Traced
<1>5. ASSUME scan'.pc = "tags" PROVE disk[n] = scan'.track.stamp \/ n \in slipped'
  <2>1. CASE NewFile(n)
    <3>1. PICK looks \in Contents :
            /\ Visits(n, looks) /\ scan'.track.stamp = looks
            /\ slipped' = IF Exists(n) THEN slipped ELSE slipped \cup {n}
      BY <2>1, NewFileDoes DEF NewFile
    <3>. QED  BY <3>1 DEF Visits, Looks
  <2>2. CASE ~NewFile(n)
    <3>1. CASE NewDir(n)
      BY <1>5, <3>1, NewDirDoes
    <3>2. CASE ~NewDir(n)
      <4>1. PICK s : scan' = [scan EXCEPT !.stack = s]
        BY <2>2, <3>2
        DEF Visit, PassOver, MarkFile, MarkFails, MarkDir, MarkDirNoId, NewDirFails
      <4>. QED  BY <1>1, <1>5, <4>1, StackOnly
    <3>. QED  BY <3>1, <3>2
  <2>. QED  BY <2>1, <2>2
<1>. QED  BY <1>1, <1>4, <1>5 DEF SlipInv

\* No content is the tags of a file that could not be read.
LEMMA SlipTags ==
  ASSUME TypeInv, SlipInv, Tags
  PROVE  SlipInv'
<1>1. /\ scan.pc = "tags" /\ scan'.pc \in {"walk", "artist"} /\ disk' = disk
      /\ db' = db /\ live' = live /\ saved' = saved /\ slipped \subseteq slipped'
      /\ scan'.pc = "artist" =>
           /\ scan'.track.name = scan.track.name /\ scan'.track.stamp = scan.track.stamp
  BY TagsDoes
<1>2. Traced(live.titles)' /\ Traced(saved.titles)' /\ Traced(db.titles)'
  BY <1>1 DEF SlipInv, Traced
<1>3. ASSUME scan'.pc = "artist"
      PROVE  scan'.track.tags = scan.track.stamp \/ scan.track.name \in slipped'
  <2>1. CASE ReadTagsFails
    BY <2>1 DEF ReadTagsFails
  <2>2. CASE ReadTags
    <3>1. scan.track.stamp \in Contents /\ Absent \notin Contents
      BY <1>1, TrackTyped, DiskOK
    <3>2. CASE disk[scan.track.name] = Absent
      BY <1>1, <3>1, <3>2 DEF SlipInv
    <3>3. CASE disk[scan.track.name] # Absent
      <4>1. ~NotMusic
        BY <1>1, <1>3, NotMusicDoes
      <4>2. disk[scan.track.name] \in Audio /\ GotTags(disk[scan.track.name])
        BY <2>2, <3>3, <4>1 DEF ReadTags
      <4>3. scan'.track.tags = disk[scan.track.name]
        BY <1>1, <4>2, GotTagsDoes
      <4>. QED  BY <1>1, <4>3 DEF SlipInv
    <3>. QED  BY <3>2, <3>3
  <2>. QED  BY <2>1, <2>2 DEF Tags
<1>. QED  BY <1>1, <1>2, <1>3 DEF SlipInv

LEMMA SlipDisk ==
  ASSUME TypeInv, SlipInv, DiskStep, slipped \subseteq slipped'
  PROVE  SlipInv'
<1>1. PICK tree : ChangeTo(tree)
  BY DEF DiskStep, PutFile, RemoveFile, MakeDir, MoveDirAway
<1>2. UNCHANGED <<db, live, saved, scan>> /\ disk' = tree
  BY <1>1 DEF ChangeTo, tables
<1>3. Traced(live.titles)' /\ Traced(saved.titles)' /\ Traced(db.titles)'
  BY <1>2 DEF SlipInv, Traced
<1>4. ASSUME scan.pc = "tags"
      PROVE  tree[scan.track.name] = scan.track.stamp \/ scan.track.name \in slipped'
  <2>1. scan.track.name \in Names
    BY <1>4, TrackTyped
  <2>2. CASE tree[scan.track.name] = disk[scan.track.name]
    BY <1>4, <2>2 DEF SlipInv
  <2>3. CASE tree[scan.track.name] # disk[scan.track.name]
    BY <1>1, <1>4, <2>1, <2>3 DEF ChangeTo
  <2>. QED  BY <2>2, <2>3
<1>. QED  BY <1>2, <1>3, <1>4 DEF SlipInv

LEMMA SlipNext == TypeInv /\ SlipInv /\ [Next]_vars => SlipInv'
<1>. SUFFICES ASSUME TypeInv, SlipInv, [Next]_vars PROVE SlipInv'
  OBVIOUS
<1>0. slipped \subseteq slipped'
  BY SlippedGrows
<1>21. EmptyDatabase.titles = {} /\ CutOff.titles = {} /\ NoFile.titles = {}
  BY DEF EmptyDatabase, CutOff, NoFile
<1>1. CASE Start
  <2>1. /\ live' = db' /\ db' \in {EmptyDatabase, CutOff, live, saved} /\ saved' = saved
        /\ scan'.pc = "sample"
    BY <1>1, StartDoes
  <2>. QED  BY <1>0, <1>21, <2>1 DEF SlipInv, Traced
<1>2. CASE Begin
  <2>1. scan'.pc \in {"walk", "end"} /\ db' = db /\ live' = live /\ saved' = saved
    BY <1>2, BeginDoes
  <2>. QED  BY <1>0, <2>1 DEF SlipInv, Traced
<1>3. CASE \E n \in Names : Visit(n)
  BY <1>0, <1>3, SlipVisit
<1>4. CASE LeaveDir
  <2>1. scan'.pc \in {"walk", "end"} /\ db' = db /\ live' = live /\ saved' = saved
    BY <1>4, LeftDoes DEF LeaveDir, tables
  <2>. QED  BY <1>0, <2>1 DEF SlipInv, Traced
<1>5. CASE Tags
  BY <1>5, SlipTags
<1>6. CASE LookUp
  <2>1. /\ scan.pc \in {"artist", "album"} /\ scan'.pc \in {"album", "title"}
        /\ scan'.track.name = scan.track.name /\ scan'.track.stamp = scan.track.stamp
        /\ scan'.track.tags = scan.track.tags
        /\ db'.titles = db.titles /\ live' \in {live, db'} /\ saved' = saved
    BY <1>6, LookUpDoes DEF LookUp
  <2>. QED  BY <1>0, <2>1 DEF SlipInv, Traced
<1>7. CASE InsertTitle
  <2>1. /\ scan.pc = "title" /\ scan'.pc = "walk"
        /\ db'.titles = db.titles \cup {NewTitle}
        /\ NewTitle.stamp = scan.track.stamp /\ NewTitle.tags = scan.track.tags
        /\ NewTitle.name = scan.track.name
        /\ live' \in {live, db'} /\ saved' = saved
    BY <1>7, InsertDoes
  <2>. QED  BY <1>0, <2>1 DEF SlipInv, Traced
<1>8. CASE InsertTitleFails
  <2>1. scan'.pc = "walk"
    BY <1>8, IdNumbers DEF InsertTitleFails, Scanner
  <2>2. UNCHANGED <<db, live, saved>>
    BY <1>8, InsertFailsLeaves
  <2>. QED  BY <1>0, <2>1, <2>2 DEF SlipInv, Traced
<1>9. CASE Rest
  <2>1. live' \in {live, db'} /\ saved' \in {saved, db, CutOff}
    BY <1>9, RestTables
  <2>2. db'.titles \subseteq db.titles
    BY <1>9, RestTables, DropTitlesDoes, DropPathsDoes
  <2>3. scan'.pc \notin InFile
    BY <1>9, RestDoes DEF Rest, InFile, Walking
  <2>. QED  BY <1>0, <1>21, <2>1, <2>2, <2>3 DEF SlipInv, Traced, InFile
<1>10. CASE DiskStep
  BY <1>0, <1>10, SlipDisk
<1>11. CASE \E machine \in BOOLEAN : Crash(machine)
  <2>1. scan'.pc = "down" /\ live' \in {NoFile, live} /\ db' = live' /\ saved' = saved
    BY <1>11 DEF Crash, Down
  <2>. QED  BY <1>0, <1>21, <2>1 DEF SlipInv, Traced
<1>12. CASE UNCHANGED vars
  BY <1>12 DEF vars, SlipInv, Traced
<1>. QED
  BY <1>1, <1>2, <1>3, <1>4, <1>5, <1>6, <1>7, <1>8, <1>9, <1>10, <1>11, <1>12, Steps DEF Next

LEMMA SlipStart == Init => SlipInv
BY DEF Init, SlipInv, Traced, NoFile, EmptyDatabase, Down

\* A name that may be listed: music, or met in the middle of a change.
Heard(n) == Music(n) \/ n \in slipped

LEMMA HeardStays ==
  ASSUME TypeInv, [Next]_vars, disk' = disk, NEW n, Heard(n)
  PROVE  Heard(n)'
BY SlippedGrows DEF Heard, Music

\* A row with the content of a regular file, whose tags are traced, is one of music.
LEMMA TracedHeard ==
  ASSUME NEW t \in TitleRow, t.tags = t.stamp \/ t.name \in slipped,
         t.name \in Files, t.stamp = disk[t.name]
  PROVE  Heard(t.name)
BY TreeOK DEF TitleRow, Heard, Music, IsMusic

\* Titles of what is on the disk, as it is, and of no file two.
AsOnDisk(titles) ==
  /\ \A t \in titles : Heard(t.name) /\ t.stamp = disk[t.name]
  /\ \A t, u \in titles : t.name = u.name => t = u

\* The titles with the number of this scan.
Fresh == {t \in db.titles : t.version >= scan.dbVersion}

\* The scan has made titles only for files it has come to.
Exactly(U) ==
  /\ AsOnDisk(Fresh)
  /\ \A t \in Fresh : t.name \notin U /\ (scan.pc \in InFile => t.name # scan.track.name)
  /\ \A i \in 1..Len(scan.stack) : \A n \in scan.stack[i].left : disk[n] # Absent
  /\ scan.pc \in InFile =>
       scan.track.stamp = disk[scan.track.name] /\ scan.track.name \in Files

ExactInv ==
  steady /\ aged =>
    /\ scan.pc # "down"
    /\ scan.pc \in Walking => \E U \in SUBSET Names : Walked(U) /\ Exactly(U)
    /\ scan.pc \in {"end", "titles"} => AsOnDisk(Fresh)
    /\ scan.pc \in Removed \cup {"paths"} => AsOnDisk(db.titles)

\* A look at a name that is on the disk gives the number of the scan to one title at most.
LEMMA VisitFresh ==
  ASSUME TypeInv, Unique(db), Traced(db.titles), NEW n \in Names, Visit(n), steady', Exists(n)
  PROVE  /\ \A u \in db'.titles :
              u \in db.titles \/ (u.name = n /\ Heard(n) /\ u.stamp = disk[n] /\ scan'.pc = "walk")
         /\ \A u, w \in db'.titles : u \notin db.titles /\ w \notin db.titles => u = w
<1>1. CASE MarkFile(n)
  <2>1. PICK looks \in Contents :
          /\ Visits(n, looks) /\ n \in Files /\ Marked(TitlesOf(db, looks, Top.id, n))
          /\ db' = [db EXCEPT !.titles = Touch(@, TitlesOf(db, looks, Top.id, n), scan.dbVersion)]
          /\ scan' = [scan EXCEPT !.stack = After(n, looks)]
    BY <1>1 DEF MarkFile, Write
  <2>2. looks = disk[n] /\ scan.pc = "walk" /\ scan'.pc = "walk"
    BY <2>1, StackOnly DEF Visits, Looks
  <2>3. Heard(n)
    <3>1. PICK t \in db.titles : t.stamp = disk[n] /\ t.name = n
      BY <2>1, <2>2 DEF Marked, TitlesOf, SameFile
    <3>2. t \in TitleRow
      BY <3>1 DEF TypeInv, TypeOK, Database
    <3>. QED  BY <2>1, <3>1, <3>2, TracedHeard DEF Traced
  <2>4. /\ \A u \in db'.titles : u \in db.titles \/ (u.name = n /\ u.stamp = looks)
        /\ \A u, w \in db'.titles : u \notin db.titles /\ w \notin db.titles => u = w
    BY <2>1, FileMarked
  <2>. QED  BY <2>2, <2>3, <2>4
<1>2. CASE ~MarkFile(n)
  <2>1. db'.titles = db.titles
    <3>1. CASE MarkDir(n) \/ MarkDirNoId(n)
      <4>1. db' = [db EXCEPT !.paths = Touch(@, PathsOf(db, Top.id, n), scan.dbVersion)]
        BY <3>1 DEF MarkDir, MarkDirNoId, Write
      <4>2. PathsOf(db, Top.id, n) \in SUBSET db.paths
        BY DEF PathsOf
      <4>. QED  BY <4>1, <4>2, PathsMarked
    <3>2. CASE NewDir(n)
      BY <3>2, IdNumbers DEF NewDir, Write, Database
    <3>3. CASE PassOver(n) \/ MarkFails(n) \/ NewDirFails(n)
      BY <3>3 DEF PassOver, MarkFails, NewDirFails, tables
    <3>4. CASE NewFile(n)
      BY <3>4 DEF NewFile, tables
    <3>. QED  BY <1>2, <3>1, <3>2, <3>3, <3>4 DEF Visit
  <2>. QED  BY <2>1
<1>. QED  BY <1>1, <1>2

LEMMA ExactVisit ==
  ASSUME TypeInv, UniqueInv, SlipInv, [Next]_vars, NEW U \in SUBSET Names, Walked(U), Exactly(U),
         NEW n \in Names, Visit(n), steady'
  PROVE  Exactly(U \ {n})'
<1>1. /\ n \in U /\ scan.pc = "walk" /\ n \in Top.left /\ disk' = disk
      /\ scan'.dbVersion = scan.dbVersion
      /\ scan'.pc \in {"walk", "tags"} /\ (scan'.pc = "tags" => scan'.track.name = n)
      /\ scan.stack # <<>> /\ Top = scan.stack[Len(scan.stack)]
  BY VisitIn, WalkedVisit DEF Top
<1>0. /\ Len(scan.stack) \in 1..Len(scan.stack)
      /\ scan.stack \in Seq(Frame) /\ scan'.stack \in Seq(Frame)
      /\ Len(scan.stack) \in Nat \ {0}
  <2>1. Len(scan.stack) \in Nat \ {0}
    BY VisitFrames
  <2>. QED  BY <2>1, VisitFrames
<1>2. Exists(n)
  BY <1>0, <1>1 DEF Exactly, Exists
<1>3. ASSUME NEW i \in 1..Len(scan'.stack), NEW k \in scan'.stack[i].left
      PROVE  disk'[k] # Absent
  <2>1. CASE i \in 1..Len(scan.stack)
    <3>1. k \in scan.stack[i].left
      BY <1>3, <2>1, VisitFrames
    <3>. QED  BY <1>1, <2>1, <3>1 DEF Exactly
  <2>2. CASE i \notin 1..Len(scan.stack)
    <3>1. i = Len(scan'.stack) /\ Len(scan'.stack) # Len(scan.stack)
      BY <1>0, <2>2, VisitFrames
    <3>2. scan'.stack[i].left = Entries(n)
      BY <3>1, VisitFrames
    <3>. QED  BY <1>1, <1>3, <3>2 DEF Entries
  <2>. QED  BY <2>1, <2>2
<1>4. /\ \A u \in Fresh' :
           u \in Fresh \/ (u.name = n /\ Heard(n) /\ u.stamp = disk[n] /\ scan'.pc = "walk" /\ u \notin db.titles)
      /\ \A u, w \in Fresh' : u \notin Fresh /\ w \notin Fresh => u = w
  <2>1. Unique(db) /\ Traced(db.titles)
    BY DEF UniqueInv, SlipInv
  <2>2. \A u \in Fresh' : u \in db'.titles /\ u.version >= scan.dbVersion
    BY <1>1 DEF Fresh
  <2>3. \A u \in db.titles : u.version >= scan.dbVersion => u \in Fresh
    BY DEF Fresh
  <2>4. /\ \A u \in db'.titles :
             u \in db.titles \/ (u.name = n /\ Heard(n) /\ u.stamp = disk[n] /\ scan'.pc = "walk")
        /\ \A u, w \in db'.titles : u \notin db.titles /\ w \notin db.titles => u = w
    BY <1>2, <2>1, VisitFresh
  <2>. QED  BY <2>2, <2>3, <2>4
<1>5. AsOnDisk(Fresh) /\ \A t \in Fresh : t.name \notin U
  BY DEF Exactly
<1>6. AsOnDisk(Fresh)'
  <2>1. \A t \in Fresh' : Heard(t.name) /\ t.stamp = disk[t.name]
    BY <1>4, <1>5 DEF AsOnDisk
  <2>3. \A m : Heard(m) => Heard(m)'
    BY <1>1, HeardStays
  <2>2. \A t, u \in Fresh' : t.name = u.name => t = u
    BY <1>1, <1>4, <1>5 DEF AsOnDisk
  <2>. QED  BY <1>1, <2>1, <2>2, <2>3 DEF AsOnDisk
<1>7. \A t \in Fresh' : t.name \notin U \ {n} /\ (scan'.pc \in InFile => t.name # scan'.track.name)
  BY <1>1, <1>4, <1>5 DEF InFile
<1>8. scan'.pc \in InFile =>
        scan'.track.stamp = disk'[scan'.track.name] /\ scan'.track.name \in Files
  BY <1>1, <1>2, QuietVisit DEF InFile
<1>. QED  BY <1>3, <1>6, <1>7, <1>8 DEF Exactly

LEMMA ExactTags ==
  ASSUME TypeInv, [Next]_vars, NEW U \in SUBSET Names, Exactly(U), Tags
  PROVE  Exactly(U)'
<1>1. /\ scan.pc = "tags" /\ scan'.pc \in {"walk", "artist"} /\ scan'.stack = scan.stack
      /\ scan'.dbVersion = scan.dbVersion /\ db' = db /\ disk' = disk
      /\ scan'.pc = "artist" =>
           /\ scan'.track.name = scan.track.name /\ scan'.track.stamp = scan.track.stamp
  BY TagsDoes
<1>2. Fresh' = Fresh
  BY <1>1 DEF Fresh
<1>3. \A m : Heard(m) => Heard(m)'
  BY <1>1, HeardStays
<1>4. AsOnDisk(Fresh)'
  BY <1>1, <1>2, <1>3 DEF Exactly, AsOnDisk
<1>. QED  BY <1>1, <1>2, <1>4 DEF Exactly, InFile

LEMMA ExactLookUp ==
  ASSUME TypeInv, [Next]_vars, NEW U \in SUBSET Names, Exactly(U), LookUp
  PROVE  Exactly(U)'
<1>1. /\ scan.pc \in InFile /\ scan'.pc \in InFile
      /\ scan'.stack = scan.stack /\ scan'.dbVersion = scan.dbVersion
      /\ scan'.track.name = scan.track.name /\ scan'.track.stamp = scan.track.stamp
      /\ db'.titles = db.titles /\ disk' = disk
  BY LookUpDoes DEF LookUp, InFile
<1>2. Fresh' = Fresh
  BY <1>1 DEF Fresh
<1>3. \A m : Heard(m) => Heard(m)'
  BY <1>1, HeardStays
<1>4. AsOnDisk(Fresh)'
  BY <1>1, <1>2, <1>3 DEF Exactly, AsOnDisk
<1>. QED  BY <1>1, <1>2, <1>4 DEF Exactly

LEMMA ExactInsert ==
  ASSUME TypeInv, SlipInv, [Next]_vars, NEW U \in SUBSET Names, Walked(U), Exactly(U),
         InsertTitle
  PROVE  Exactly(U)'
<1>1. /\ scan.pc = "title" /\ scan'.pc = "walk" /\ scan'.stack = scan.stack
      /\ scan'.dbVersion = scan.dbVersion /\ disk' = disk
      /\ db'.titles = db.titles \cup {NewTitle}
      /\ NewTitle.stamp = scan.track.stamp /\ NewTitle.name = scan.track.name
      /\ NewTitle.tags = scan.track.tags /\ NewTitle \in TitleRow
  BY InsertDoes
<1>2. /\ scan.track.name \notin U /\ scan.track.stamp = disk[scan.track.name]
      /\ scan.track.name \in Files
      /\ \A t \in Fresh : t.name \notin U /\ t.name # scan.track.name
      /\ AsOnDisk(Fresh)
  BY <1>1 DEF Walked, Exactly, InFile
<1>7. Heard(scan.track.name)
  <2>1. scan.track.tags = scan.track.stamp \/ scan.track.name \in slipped
    BY <1>1 DEF SlipInv
  <2>. QED  BY <1>1, <1>2, <2>1, TracedHeard
<1>8. \A m : Heard(m) => Heard(m)'
  BY <1>1, HeardStays
<1>3. \A u \in Fresh' : u \in Fresh \/ u = NewTitle
  BY <1>1 DEF Fresh
<1>4. \A t \in Fresh' : Heard(t.name) /\ t.stamp = disk[t.name] /\ t.name \notin U
  BY <1>1, <1>2, <1>3, <1>7 DEF AsOnDisk
<1>5. \A t, u \in Fresh' : t.name = u.name => t = u
  BY <1>1, <1>2, <1>3 DEF AsOnDisk
<1>6. AsOnDisk(Fresh)'
  BY <1>1, <1>4, <1>5, <1>8 DEF AsOnDisk
<1>. QED  BY <1>1, <1>4, <1>6 DEF Exactly, InFile

LEMMA ExactLeave ==
  ASSUME TypeInv, [Next]_vars, NEW U \in SUBSET Names, Exactly(U), LeaveDir
  PROVE  Exactly(U)' /\ AsOnDisk(Fresh)'
<1>1. /\ Len(scan'.stack) = Len(scan.stack) - 1 /\ Len(scan.stack) \in Nat \ {0}
      /\ \A i \in 1..Len(scan'.stack) : scan'.stack[i] = scan.stack[i]
      /\ scan'.pc \in {"walk", "end"}
      /\ scan'.dbVersion = scan.dbVersion /\ disk' = disk /\ db' = db
  BY LeftDoes DEF LeaveDir, tables
<1>2. Fresh' = Fresh
  BY <1>1 DEF Fresh
<1>3. \A i \in 1..Len(scan'.stack) : i \in 1..Len(scan.stack)
  BY <1>1
<1>5. \A m : Heard(m) => Heard(m)'
  BY <1>1, HeardStays
<1>4. AsOnDisk(Fresh)'
  BY <1>1, <1>2, <1>5 DEF Exactly, AsOnDisk
<1>. QED  BY <1>1, <1>2, <1>3, <1>4 DEF Exactly, InFile

LEMMA ExactBegin ==
  ASSUME TypeInv, Begin, aged', scan'.pc = "walk"
  PROVE  Exactly(Names)'
<1>1. /\ Len(scan'.stack) = 1 /\ scan'.stack[1].left = Entries(Root) /\ disk' = disk
      /\ db' = db /\ scan'.dbVersion = scan.dbVersion
  BY BeginDoes
<1>2. \A r \in db.titles \cup db.paths : r.version < scan.dbVersion
  <2>1. aged' = \A r \in db.titles \cup db.paths : r.version < scan.dbVersion
    BY BeginDoes
  <2>. QED  BY <2>1, Zenon
<1>3. Fresh' = {}
  BY <1>1, <1>2, Versions DEF Fresh
<1>. QED  BY <1>1, <1>3 DEF Exactly, AsOnDisk, Entries, InFile

LEMMA ExactRest ==
  ASSUME TypeInv, ExactInv, [Next]_vars, Rest, steady', aged'
  PROVE  ExactInv'
<1>1. /\ steady /\ aged /\ disk' = disk
      /\ scan.pc \notin Walking \cup {"down"} /\ scan'.pc \notin Walking \cup {"down"}
  BY RestDoes DEF Rest
<1>6. \A m : Heard(m) => Heard(m)'
  BY <1>1, HeardStays
<1>2. CASE EndWalk
  <2>1. /\ scan.pc = "end" /\ scan'.pc = "titles" /\ scan'.dbVersion = scan.dbVersion /\ db' = db
    BY <1>2, IdNumbers DEF EndWalk, Scanner
  <2>2. AsOnDisk(Fresh)'
    BY <1>1, <1>6, <2>1 DEF ExactInv, AsOnDisk, Fresh
  <2>. QED  BY <2>1, <2>2 DEF ExactInv, Removed, Walking
<1>3. CASE DropTitles
  <2>1. /\ scan.pc = "titles" /\ scan'.pc = "paths"
        /\ db'.titles = db.titles \ Stale(db.titles, scan.dbVersion)
    BY <1>3, DropTitlesDoes
  <2>2. db'.titles = Fresh
    BY <2>1, Versions DEF Stale, Fresh
  <2>3. AsOnDisk(db.titles)'
    BY <1>1, <1>6, <2>1, <2>2 DEF ExactInv, AsOnDisk
  <2>. QED  BY <2>1, <2>3 DEF ExactInv, Removed, Walking
<1>4. CASE DropFails
  BY <1>4 DEF DropFails, Rough
<1>5. CASE ~EndWalk /\ ~DropTitles /\ ~DropFails
  <2>1. db'.titles = db.titles
    BY <1>5, RestTables, DropPathsDoes
  <2>2. scan.pc \in Removed \cup {"paths"} /\ scan'.pc # "titles" /\ scan'.pc # "end"
    <3>1. scan \in Scanner
      BY IdNumbers
    <3>2. CASE SampleSame \/ SampleChanged \/ Settle
      <4>1. CASE SampleSame
        BY <3>1, <4>1 DEF SampleSame, Scanner, Removed
      <4>2. CASE SampleChanged
        BY <3>1, <4>2 DEF SampleChanged, Scanner, Removed
      <4>3. CASE Settle
        BY <3>1, <4>3 DEF Settle, Scanner, Removed
      <4>. QED  BY <3>2, <4>1, <4>2, <4>3
    <3>3. CASE DropArtist \/ DropAlbum \/ DropPaths
      BY <3>3, DropArtistDoes, DropAlbumDoes, DropPathsDoes DEF Removed
    <3>4. CASE ArtistsDropped \/ AlbumsDropped
      BY <3>1, <3>4 DEF ArtistsDropped, AlbumsDropped, Scanner, Removed
    <3>5. CASE Announce
      BY <3>1, <3>5 DEF Announce, Scanner, Removed
    <3>6. CASE NothingToAnnounce \/ CopyDone
      BY <3>1, <3>6 DEF NothingToAnnounce, CopyDone, Scanner, Removed
    <3>7. CASE SaveSize \/ SaveCounter
      BY <3>7, SaveDoes DEF Removed
    <3>. QED  BY <1>5, <3>2, <3>3, <3>4, <3>5, <3>6, <3>7 DEF Rest
  <2>3. AsOnDisk(db.titles)'
    BY <1>1, <1>6, <2>1, <2>2 DEF ExactInv, AsOnDisk
  <2>. QED  BY <1>1, <2>2, <2>3 DEF ExactInv, Walking
<1>. QED  BY <1>2, <1>3, <1>4, <1>5

LEMMA ExactNext ==
  TypeInv /\ UniqueInv /\ SlipInv /\ ExactInv /\ [Next]_vars => ExactInv'
<1>. SUFFICES ASSUME TypeInv, UniqueInv, SlipInv, ExactInv, [Next]_vars, steady', aged'
              PROVE  ExactInv'
  BY DEF ExactInv
<1>1. CASE Start
  <2>1. steady /\ aged /\ scan.pc = "down"
    BY <1>1, StartDoes
  <2>. QED  BY <2>1 DEF ExactInv
<1>12. CASE Tags
  <2>1. scan.pc = "tags" /\ scan'.pc \in {"walk", "artist"} /\ steady /\ aged
    BY <1>12, TagsDoes
  <2>2. PICK U \in SUBSET Names : Walked(U) /\ Exactly(U)
    BY <2>1 DEF ExactInv, Walking
  <2>3. Exactly(U)'
    BY <1>12, <2>2, ExactTags
  <2>4. Walked(U)'
    BY <1>12, <2>2, TagsDoes, WalkedOn DEF InFile
  <2>5. \E V \in SUBSET Names : Walked(V)' /\ Exactly(V)'
    BY <2>3, <2>4
  <2>. QED  BY <2>1, <2>5 DEF ExactInv, Removed
<1>2. CASE Begin
  <2>1. scan'.pc = "walk"
    BY <1>2, BeginDoes
  <2>2. Walked(Names)' /\ Exactly(Names)'
    BY <1>2, <2>1, WalkedBegin, ExactBegin
  <2>3. \E U \in SUBSET Names : Walked(U)' /\ Exactly(U)'
    BY <2>2
  <2>. QED  BY <2>1, <2>3 DEF ExactInv, Walking, Removed
<1>3. CASE \E n \in Names : Visit(n)
  <2>1. PICK n \in Names : Visit(n)
    BY <1>3
  <2>2. scan.pc = "walk" /\ scan'.pc \in {"walk", "tags"} /\ steady /\ aged
    BY <2>1, VisitIn
  <2>3. PICK U \in SUBSET Names : Walked(U) /\ Exactly(U)
    BY <2>2 DEF ExactInv, Walking
  <2>4. Walked(U \ {n})' /\ Exactly(U \ {n})'
    BY <2>1, <2>3, WalkedVisit, ExactVisit
  <2>5. \E V \in SUBSET Names : Walked(V)' /\ Exactly(V)'
    BY <2>4
  <2>. QED  BY <2>2, <2>5 DEF ExactInv, Removed
<1>4. CASE LeaveDir
  <2>1. scan.pc = "walk" /\ scan'.pc \in {"walk", "end"} /\ steady /\ aged
    <3>1. steady' = steady /\ aged' = aged
      BY <1>4 DEF LeaveDir, history
    <3>. QED  BY <1>4, <3>1, LeftDoes
  <2>2. PICK U \in SUBSET Names : Walked(U) /\ Exactly(U)
    BY <2>1 DEF ExactInv, Walking
  <2>3. Walked(U)' /\ Exactly(U)' /\ AsOnDisk(Fresh)'
    BY <1>4, <2>2, WalkedLeave, ExactLeave
  <2>4. \E V \in SUBSET Names : Walked(V)' /\ Exactly(V)'
    BY <2>3
  <2>. QED  BY <2>1, <2>3, <2>4 DEF ExactInv, Removed
<1>5. CASE LookUp
  <2>1. scan.pc \in {"artist", "album"} /\ scan'.pc \in {"album", "title"} /\ steady /\ aged
    BY <1>5, LookUpDoes DEF LookUp
  <2>2. PICK U \in SUBSET Names : Walked(U) /\ Exactly(U)
    BY <2>1 DEF ExactInv, Walking
  <2>3. Exactly(U)'
    BY <1>5, <2>2, ExactLookUp
  <2>4. Walked(U)'
    <3>1. /\ scan'.stack = scan.stack /\ db'.paths = db.paths
          /\ scan'.dbVersion = scan.dbVersion /\ scan'.track.name = scan.track.name
      BY <1>5, LookUpDoes DEF LookUp
    <3>. QED  BY <2>1, <2>2, <3>1, WalkedOn DEF InFile
  <2>5. \E V \in SUBSET Names : Walked(V)' /\ Exactly(V)'
    BY <2>3, <2>4
  <2>. QED  BY <2>1, <2>5 DEF ExactInv, Removed
<1>6. CASE InsertTitle
  <2>1. /\ scan.pc = "title" /\ scan'.pc = "walk" /\ steady /\ aged
        /\ scan'.stack = scan.stack /\ db'.paths = db.paths /\ scan'.dbVersion = scan.dbVersion
    BY <1>6, InsertDoes DEF history
  <2>2. PICK U \in SUBSET Names : Walked(U) /\ Exactly(U)
    BY <2>1 DEF ExactInv, Walking
  <2>3. Walked(U)' /\ Exactly(U)'
    BY <1>6, <2>1, <2>2, ExactInsert, WalkedOn DEF InFile
  <2>4. \E V \in SUBSET Names : Walked(V)' /\ Exactly(V)'
    BY <2>3
  <2>. QED  BY <2>1, <2>4 DEF ExactInv, Removed
<1>7. CASE InsertTitleFails
  BY <1>7, InsertFailsLeaves
<1>8. CASE Rest
  BY <1>8, ExactRest
<1>9. CASE DiskStep
  <2>1. steady' = FALSE
    BY <1>9 DEF DiskStep, PutFile, RemoveFile, MakeDir, MoveDirAway, ChangeTo
  <2>. QED  BY <2>1
<1>10. CASE \E machine \in BOOLEAN : Crash(machine)
  BY <1>10 DEF Crash
<1>11. CASE UNCHANGED vars
  <2>1. UNCHANGED <<disk, db, scan, steady, aged, slipped>>
    BY <1>11 DEF vars
  <2>2. \A U : Walked(U) => Walked(U)'
    BY <2>1 DEF Walked, FolderOf, Top
  <2>3. Fresh' = Fresh
    BY <2>1 DEF Fresh
  <2>4. \A U : Exactly(U) => Exactly(U)'
    BY <2>1, <2>3 DEF Exactly, AsOnDisk, Heard, Music, InFile
  <2>. QED  BY <2>1, <2>2, <2>3, <2>4 DEF ExactInv, AsOnDisk, Heard, Music
<1>. QED
  BY <1>1, <1>2, <1>3, <1>4, <1>5, <1>6, <1>7, <1>8, <1>9, <1>10, <1>11, <1>12, Steps DEF Next

\* After a quiet scan with a number above every row's, the database has no title for anything
\* but what is on the disk - music, or a name a scan once met in a change - and for no file two: what traverse_directory did not come to
\* keeps a lower number and remove_stale_entries takes it away, and the index update_lookup
\* keeps one title of a file (mps-librarydbd.c, mps-librarydbd-traverse.c).
THEOREM LibraryQuietScanExact == Spec => []QuietScanExact
<1>1. Init => UniqueInv
  BY DEF Init, UniqueInv, Unique, NoFile, EmptyDatabase
<1>2. Init => ExactInv
  BY DEF Init, ExactInv
<1>3. LiveInv /\ ExactInv => QuietScanExact
  BY DEF LiveInv, ExactInv, QuietScanExact, AsOnDisk, Heard, Removed, Walking
<1>. QED
  BY <1>1, <1>2, <1>3, SlipStart, SlipNext, UniqueNext, ExactNext, PlacesAlways, PTL DEF Spec

-----------------------------------------------------------------------------
(***************************************************************************)
(* What the titles say of artists and albums.  The caches of               *)
(* update_artist_table and update_album_table outlive the rows they were   *)
(* filled from; but within a life of the scanner no id is given twice, so  *)
(* an id that is cached, or that a title refers to, leads to the row it    *)
(* was given for, or to none.                                              *)
(***************************************************************************)
Agree(d) == \A t \in d.titles :
  /\ \A x \in d.artists : t.artist = x.id => x.name = TagArtist(t.tags)
  /\ \A x \in d.albums : t.album = x.id => x.artist = t.artist /\ x.name = TagAlbum(t.tags)

\* Rows of one id are one row, with a number that is no error; no row and no reference is
\* beyond the highest.
OneForEachId ==
  /\ \A x \in db.artists : /\ x.id >= 1 /\ x.id <= scan.highest.artists
                            /\ \A y \in db.artists : x.id = y.id => x = y
  /\ \A x \in db.albums : /\ x.id >= 1 /\ x.id <= scan.highest.albums
                           /\ \A y \in db.albums : x.id = y.id => x = y
  /\ \A t \in db.titles : t.artist <= scan.highest.artists /\ t.album <= scan.highest.albums

CacheTrue ==
  /\ scan.cache.artistId <= scan.highest.artists /\ scan.cache.albumId <= scan.highest.albums
  /\ \A x \in db.artists : x.id = scan.cache.artistId => x.name = scan.cache.artist
  /\ \A x \in db.albums : x.id = scan.cache.albumId =>
       x.artist = scan.cache.albumArtist /\ x.name = scan.cache.album

\* The tags of the file are known.
LooksUp == {"artist", "album", "title"}

TrackTrue ==
  /\ scan.pc \in LooksUp => /\ scan.track.artist = TagArtist(scan.track.tags)
                             /\ scan.track.album = TagAlbum(scan.track.tags)
  /\ scan.pc \in {"album", "title"} =>
       /\ scan.track.artistId <= scan.highest.artists
       /\ \A x \in db.artists : x.id = scan.track.artistId => x.name = scan.track.artist
  /\ scan.pc = "title" =>
       /\ scan.albumId <= scan.highest.albums
       /\ \A x \in db.albums : x.id = scan.albumId =>
            x.artist = scan.track.artistId /\ x.name = scan.track.album

\* Before the first start there is no database - or an empty file, which a query has made.
FirstLife == scan.pc = "down" => live \in {NoFile, CutOff} /\ db = live /\ saved = NoFile

TagInv ==
  spent.crash = 0 =>
    /\ Agree(live) /\ Agree(db) /\ FirstLife
    /\ scan.pc # "down" => OneForEachId /\ CacheTrue /\ TrackTrue

\* Each step counts what it uses up, and no step counts down.
LEMMA VisitSpends ==
  ASSUME NEW n \in Names, Visit(n)
  PROVE  spent' = spent \/ Used("failure")
<1>1. CASE PassOver(n) \/ NewFile(n) \/ MarkFile(n)
  BY <1>1 DEF PassOver, NewFile, MarkFile, Works
<1>2. CASE MarkFails(n)
  BY <1>2 DEF MarkFails, Fails
<1>3. CASE MarkDir(n)
  BY <1>3 DEF MarkDir, OpensOrNot
<1>4. CASE NewDir(n)
  BY <1>4 DEF NewDir, OpensOrNot
<1>5. CASE MarkDirNoId(n) \/ NewDirFails(n)
  BY <1>5 DEF MarkDirNoId, NewDirFails, Fails
<1>. QED  BY <1>1, <1>2, <1>3, <1>4, <1>5 DEF Visit

LEMMA OthersSpend ==
  ASSUME TypeInv,
         LookUp \/ InsertTitle \/ InsertTitleFails \/ LeaveDir \/ Begin \/ Start \/ Tags
  PROVE  spent' = spent \/ Used("failure")
<1>1. CASE ArtistCached \/ ArtistFound \/ AlbumCached \/ AlbumFound \/ LeaveDir \/ InsertTitle
  BY <1>1 DEF ArtistCached, ArtistFound, AlbumCached, AlbumFound, LeaveDir, InsertTitle, Works
<1>2. CASE ArtistAdded \/ AlbumAdded
  BY <1>2 DEF ArtistAdded, AlbumAdded, NotFound
<1>3. CASE ArtistFails \/ AlbumFails \/ InsertTitleFails
  BY <1>3 DEF ArtistFails, AlbumFails, InsertTitleFails, Fails
<1>4. CASE Begin
  BY <1>4 DEF Begin
<1>5. CASE Start
  BY <1>5, StartDoes
<1>6. CASE Tags
  BY <1>6, TagsDoes
<1>. QED  BY <1>1, <1>2, <1>3, <1>4, <1>5, <1>6 DEF LookUp

LEMMA RestSpends ==
  ASSUME Rest
  PROVE  spent' = spent \/ Used("failure")
<1>1. CASE SampleSame \/ SampleChanged \/ Settle \/ EndWalk \/ ArtistsDropped \/ AlbumsDropped
           \/ NothingToAnnounce \/ DropPaths
  BY <1>1 DEF SampleSame, SampleChanged, Settle, EndWalk, ArtistsDropped, AlbumsDropped,
     NothingToAnnounce, DropPaths, Works
<1>2. CASE DropTitles \/ DropFails \/ Announce \/ CopyDone
  BY <1>2 DEF DropTitles, DropFails, Announce, CopyDone, Fails
<1>3. CASE DropArtist
  BY <1>3 DEF DropArtist, Counted
<1>4. CASE DropAlbum
  BY <1>4 DEF DropAlbum, Counted
<1>5. CASE SaveSize \/ SaveCounter
  BY <1>5 DEF SaveSize, SaveCounter, Works, Fails
<1>. QED  BY <1>1, <1>2, <1>3, <1>4, <1>5 DEF Rest

LEMMA SpentNext ==
  ASSUME TypeInv, [Next]_vars
  PROVE  /\ spent.failure \in Nat /\ spent.crash \in Nat
         /\ spent'.failure >= spent.failure /\ spent'.crash >= spent.crash
         /\ (\E machine \in BOOLEAN : Crash(machine)) => spent'.crash > 0
         /\ Used("failure") => spent'.failure > 0
<1>1. spent \in Spent
  BY DEF TypeInv, TypeOK, Spent
<1>2. \/ spent' = spent \/ Used("failure") \/ Used("change") \/ Used("crash")
  <2>1. CASE Main
    BY <2>1, Steps, VisitSpends, OthersSpend, RestSpends
  <2>2. CASE DiskStep
    BY <2>2 DEF DiskStep, PutFile, RemoveFile, MakeDir, MoveDirAway, ChangeTo
  <2>3. CASE \E machine \in BOOLEAN : Crash(machine)
    BY <2>3 DEF Crash
  <2>4. CASE UNCHANGED vars
    BY <2>4 DEF vars
  <2>. QED  BY <2>1, <2>2, <2>3, <2>4 DEF Next
<1>3. \A w \in {"change", "failure", "crash"} :
        Used(w) => /\ spent'.failure = spent.failure + (IF w = "failure" THEN 1 ELSE 0)
                   /\ spent'.crash = spent.crash + (IF w = "crash" THEN 1 ELSE 0)
  BY <1>1 DEF Used, Spent
<1>4. (\E machine \in BOOLEAN : Crash(machine)) => Used("crash")
  BY DEF Crash
<1>. QED  BY <1>1, <1>2, <1>3, <1>4 DEF Spent

\* What looking at an entry leaves alone.
LEMMA VisitKeeps ==
  ASSUME TypeInv, NEW n \in Names, Visit(n)
  PROVE  /\ db'.artists = db.artists /\ db'.albums = db.albums /\ db'.file = db.file
         /\ scan'.highest.artists = scan.highest.artists
         /\ scan'.highest.albums = scan.highest.albums
         /\ scan'.cache = scan.cache
         /\ scan'.pc = "walk" \/ NewFile(n)
<1>1. CASE PassOver(n) \/ MarkFails(n) \/ NewDirFails(n)
  <2>1. PICK s : scan' = [scan EXCEPT !.stack = s]
    BY <1>1 DEF PassOver, MarkFails, NewDirFails
  <2>2. db' = db /\ scan.pc = "walk"
    BY <1>1 DEF PassOver, MarkFails, NewDirFails, tables, Visits
  <2>. QED  BY <2>1, <2>2, StackOnly
<1>2. CASE MarkFile(n)
  <2>1. PICK looks \in Contents :
          /\ db' = [db EXCEPT !.titles = Touch(@, TitlesOf(db, looks, Top.id, n), scan.dbVersion)]
          /\ scan' = [scan EXCEPT !.stack = After(n, looks)] /\ scan.pc = "walk"
    BY <1>2 DEF MarkFile, Write, Visits
  <2>2. TitlesOf(db, looks, Top.id, n) \in SUBSET db.titles
    BY DEF TitlesOf
  <2>3. db'.artists = db.artists /\ db'.albums = db.albums /\ db'.file = db.file
    BY <2>1, <2>2, TitlesMarked
  <2>. QED  BY <2>1, <2>3, StackOnly
<1>3. CASE MarkDir(n) \/ MarkDirNoId(n)
  <2>1. /\ db' = [db EXCEPT !.paths = Touch(@, PathsOf(db, Top.id, n), scan.dbVersion)]
        /\ \E s : scan' = [scan EXCEPT !.stack = s]
        /\ scan.pc = "walk"
    BY <1>3 DEF MarkDir, MarkDirNoId, Write, Visits
  <2>2. PathsOf(db, Top.id, n) \in SUBSET db.paths
    BY DEF PathsOf
  <2>3. db'.artists = db.artists /\ db'.albums = db.albums /\ db'.file = db.file
    BY <2>1, <2>2, PathsMarked
  <2>. QED  BY <2>1, <2>3, StackOnly
<1>4. CASE NewFile(n)
  <2>1. db' = db
    BY <1>4 DEF NewFile, tables
  <2>. QED  BY <1>4, <2>1, NewFileDoes
<1>5. CASE NewDir(n)
  <2> DEFINE row == [id |-> scan.highest.paths + 1, parent |-> Top.id, name |-> n,
                     version |-> scan.dbVersion]
  <2>1. db' = [db EXCEPT !.paths = @ \cup {row}]
    BY <1>5 DEF NewDir, Write
  <2> HIDE DEF row
  <2>2. db'.artists = db.artists /\ db'.albums = db.albums /\ db'.file = db.file
    BY <2>1, IdNumbers DEF Database
  <2>. QED  BY <1>5, <2>2, NewDirDoes
<1>. QED  BY <1>1, <1>2, <1>3, <1>4, <1>5 DEF Visit

\* A step that gives no id and looks nothing up.
LEMMA TagsKept ==
  ASSUME TagInv, scan.pc # "down", spent'.crash = 0 => spent.crash = 0,
         live' \in {live, db'},
         \A t \in db'.titles : \E o \in db.titles :
            t.artist = o.artist /\ t.album = o.album /\ t.tags = o.tags,
         db'.artists \subseteq db.artists, db'.albums \subseteq db.albums,
         scan'.highest.artists = scan.highest.artists,
         scan'.highest.albums = scan.highest.albums, scan'.cache = scan.cache,
         scan'.pc # "down",
         scan'.pc \notin LooksUp
  PROVE  TagInv'
<1>. SUFFICES ASSUME spent'.crash = 0
              PROVE  Agree(live)' /\ Agree(db)' /\ (OneForEachId /\ CacheTrue /\ TrackTrue)'
  BY DEF TagInv, FirstLife
<1>1. Agree(live) /\ Agree(db) /\ OneForEachId /\ CacheTrue /\ TrackTrue
  BY DEF TagInv
<1>2. Agree(db)'
  BY <1>1 DEF Agree
<1>3. Agree(live)'
  BY <1>1, <1>2 DEF Agree
<1>4. OneForEachId'
  BY <1>1 DEF OneForEachId
<1>5. CacheTrue'
  BY <1>1 DEF CacheTrue
<1>6. TrackTrue'
  BY DEF TrackTrue, LooksUp
<1>. QED  BY <1>2, <1>3, <1>4, <1>5, <1>6

LEMMA TagsVisit ==
  ASSUME TypeInv, TagInv, spent'.crash = 0 => spent.crash = 0, NEW n \in Names, Visit(n)
  PROVE  TagInv'
<1>1. /\ scan.pc = "walk" /\ live' \in {live, db'} /\ scan'.pc \in {"walk", "tags"}
      /\ db'.artists = db.artists /\ db'.albums = db.albums
      /\ scan'.highest.artists = scan.highest.artists
      /\ scan'.highest.albums = scan.highest.albums /\ scan'.cache = scan.cache
  BY VisitIn, VisitKeeps
<1>2. \A t \in db'.titles : \E o \in db.titles :
        t.artist = o.artist /\ t.album = o.album /\ t.tags = o.tags
  BY VisitTitles DEF SameTitle
<1>. QED  BY <1>1, <1>2, TagsKept DEF LooksUp

\* The tags of the new file are read, or it is no music.
LEMMA TagsRead ==
  ASSUME TypeInv, TagInv, spent'.crash = 0 => spent.crash = 0, Tags
  PROVE  TagInv'
<1>1. /\ scan.pc = "tags" /\ scan'.pc \in {"walk", "artist"} /\ db' = db /\ live' = live
      /\ scan'.cache = scan.cache
      /\ scan'.pc = "walk" => NotMusic
      /\ scan'.pc = "artist" =>
           GotTags(scan'.track.tags) /\ scan'.track.tags \in Audio \cup {NoTags}
  BY TagsDoes
<1>2. /\ scan'.highest.artists = scan.highest.artists
      /\ scan'.highest.albums = scan.highest.albums
  <2>1. CASE scan'.pc = "walk"
    BY <1>1, <2>1, NotMusicDoes
  <2>2. CASE scan'.pc = "artist"
    <3>1. PICK tags \in Audio \cup {NoTags} : GotTags(tags)
      BY <1>1, <2>2
    <3>. QED  BY <1>1, <3>1, GotTagsDoes
  <2>. QED  BY <1>1, <2>1, <2>2
<1>3. CASE scan'.pc = "walk"
  BY <1>1, <1>2, <1>3, TagsKept DEF LooksUp
<1>4. CASE scan'.pc = "artist"
  <2>. SUFFICES ASSUME spent'.crash = 0
                PROVE  Agree(live)' /\ Agree(db)' /\ (OneForEachId /\ CacheTrue /\ TrackTrue)'
    BY <1>1 DEF TagInv, FirstLife
  <2>1. Agree(live) /\ Agree(db) /\ OneForEachId /\ CacheTrue
    BY <1>1 DEF TagInv
  <2>2. /\ scan'.track.artist = TagArtist(scan'.track.tags)
        /\ scan'.track.album = TagAlbum(scan'.track.tags)
    <3>1. PICK tags \in Audio \cup {NoTags} : GotTags(tags)
      BY <1>1, <1>4
    <3>. QED  BY <1>1, <3>1, GotTagsDoes
  <2>3. Agree(db)' /\ Agree(live)'
    BY <1>1, <2>1 DEF Agree
  <2>4. OneForEachId'
    BY <1>1, <1>2, <2>1 DEF OneForEachId
  <2>5. CacheTrue'
    BY <1>1, <1>2, <2>1 DEF CacheTrue
  <2>6. TrackTrue'
    BY <1>4, <2>2 DEF TrackTrue
  <2>. QED  BY <2>3, <2>4, <2>5, <2>6
<1>. QED  BY <1>1, <1>3, <1>4

\* The ids of references are numbers too.
LEMMA RefNumbers ==
  ASSUME TypeInv
  PROVE  /\ \A t \in db.titles : t.artist \in Int /\ t.album \in Int
         /\ \A x \in db.artists : x.id \in Int
         /\ \A x \in db.albums : x.id \in Int
         /\ scan.cache.artistId \in Int /\ scan.cache.albumId \in Int
         /\ scan.albumId \in Int
         /\ scan.highest.artists \in Nat /\ scan.highest.albums \in Nat
         /\ scan.pc \in InFile => scan.track.artistId \in Int
<1>1. \A i \in Id : i \in Int
  BY DEF Id, FAILURE
<1>2. scan.pc \in InFile => scan.track.artistId \in Id
  BY TrackTyped DEF InFile
<1>3. /\ \A t \in db.titles : t.artist \in Id /\ t.album \in Id
      /\ \A x \in db.artists : x.id \in Int
      /\ \A x \in db.albums : x.id \in Int
  BY DEF TypeInv, TypeOK, Database, TitleRow, ArtistRow, AlbumRow
<1>4. scan.cache.artistId \in Id /\ scan.cache.albumId \in Id /\ scan.albumId \in Id
  BY DEF TypeInv, TypeOK, Scanner
<1>. QED  BY <1>1, <1>2, <1>3, <1>4, IdNumbers

\* update_artist_table answers with id.
LEMMA TagsGotArtist ==
  ASSUME TypeInv, TagInv, spent'.crash = 0 => spent.crash = 0, live' \in {live, db'},
         scan.pc = "artist", NEW id \in Id, NEW k \in Nat, k >= scan.highest.artists, id <= k,
         NEW added \in BOOLEAN, GotArtist(id, k, added),
         db'.titles = db.titles, db'.albums = db.albums,
         \/ db'.artists = db.artists
         \/ /\ id = scan.highest.artists + 1 /\ id \notin Ids(db.artists)
            /\ db'.artists = db.artists \cup {[id |-> id, name |-> scan.track.artist]},
         \A x \in db'.artists : x.id = id => x.name = scan.track.artist
  PROVE  TagInv'
<1>1. /\ scan'.pc = "album" /\ scan'.track.artistId = id
      /\ scan'.track.tags = scan.track.tags /\ scan'.track.artist = scan.track.artist
      /\ scan'.track.album = scan.track.album /\ scan'.cache.album = scan.cache.album
      /\ scan'.highest.artists = k /\ scan'.highest.albums = scan.highest.albums
      /\ scan'.cache.artist = scan.track.artist /\ scan'.cache.artistId = id
      /\ scan'.cache.albumArtist = scan.cache.albumArtist
      /\ scan'.cache.albumId = scan.cache.albumId
  BY GotArtistDoes
<1>. SUFFICES ASSUME spent'.crash = 0
              PROVE  Agree(live)' /\ Agree(db)' /\ (OneForEachId /\ CacheTrue /\ TrackTrue)'
  BY <1>1 DEF TagInv, FirstLife
<1>2. Agree(live) /\ Agree(db) /\ OneForEachId /\ CacheTrue /\ TrackTrue
  BY DEF TagInv
<1>3. /\ \A t \in db.titles : t.artist \in Int /\ t.album \in Int
      /\ \A x \in db.artists : x.id \in Int
      /\ scan.highest.artists \in Nat /\ scan.highest.albums \in Nat /\ id \in Int
  BY RefNumbers DEF Id, FAILURE
<1>4. \A x \in db'.artists :
        x \in db.artists \/ (x.id = scan.highest.artists + 1 /\ x.id \notin Ids(db.artists) /\ x.id = id)
  OBVIOUS
<1>5. Agree(db)'
  BY <1>2, <1>3, <1>4 DEF Agree, OneForEachId
<1>6. OneForEachId'
  <2>1. \A x \in db'.artists : x.id >= 1 /\ x.id <= k
    BY <1>2, <1>3, <1>4 DEF OneForEachId
  <2>2. \A x, y \in db'.artists : x.id = y.id => x = y
    <3>1. CASE db'.artists = db.artists
      BY <1>2, <3>1 DEF OneForEachId
    <3>2. CASE /\ id \notin Ids(db.artists)
               /\ db'.artists = db.artists \cup {[id |-> id, name |-> scan.track.artist]}
      <4>1. PICK r : r = [id |-> id, name |-> scan.track.artist]
        OBVIOUS
      <4>2. r.id = id /\ db'.artists = db.artists \cup {r} /\ \A x \in db.artists : x.id # id
        BY <3>2, <4>1 DEF Ids
      <4>. QED  BY <1>2, <4>2 DEF OneForEachId
    <3>. QED  BY <3>1, <3>2
  <2>3. \A t \in db'.titles : t.artist <= k /\ t.album <= scan'.highest.albums
    BY <1>1, <1>2, <1>3 DEF OneForEachId
  <2>. QED  BY <1>1, <1>2, <2>1, <2>2, <2>3 DEF OneForEachId
<1>7. CacheTrue'
  BY <1>1, <1>2 DEF CacheTrue
<1>8. TrackTrue'
  BY <1>1, <1>2 DEF TrackTrue, LooksUp
<1>. QED  BY <1>2, <1>5, <1>6, <1>7, <1>8 DEF Agree

LEMMA TagsArtist ==
  ASSUME TypeInv, TagInv, spent'.crash = 0 => spent.crash = 0,
         ArtistCached \/ ArtistFound \/ ArtistAdded \/ ArtistFails
  PROVE  TagInv'
<1>1. /\ scan.pc = "artist" /\ scan \in Scanner /\ db \in Database /\ live' \in {live, db'}
      /\ db'.titles = db.titles
      /\ scan.track \in Track /\ scan.highest.artists \in Nat
  BY LookUpDoes, TrackTyped, IdNumbers DEF ArtistCached, ArtistFound, ArtistAdded, ArtistFails
<1>. SUFFICES ASSUME spent'.crash = 0 PROVE TagInv'
  BY DEF TagInv
<1>2. Agree(live) /\ Agree(db) /\ OneForEachId /\ CacheTrue /\ TrackTrue
  BY <1>1 DEF TagInv
<1>3. CASE ArtistCached
  <2> DEFINE t == [scan.track EXCEPT !.artistId = scan.cache.artistId]
  <2>1. scan' = [scan EXCEPT !.pc = "album", !.track = t] /\ db' = db /\ live' = live
    BY <1>1, <1>3 DEF ArtistCached, tables, Scanner
  <2>2. t.artist = scan.track.artist /\ t.tags = scan.track.tags
        /\ t.artistId = scan.cache.artistId /\ t.album = scan.track.album
    BY <1>1 DEF Track
  <2> HIDE DEF t
  <2>3. /\ scan'.pc = "album" /\ scan'.track = t /\ scan'.cache = scan.cache
        /\ scan'.highest = scan.highest
    BY <1>1, <2>1 DEF Scanner
  <2>4. scan.track.artist = scan.cache.artist
    BY <1>3 DEF ArtistCached
  <2>5. TrackTrue'
    BY <1>1, <1>2, <2>1, <2>2, <2>3, <2>4 DEF TrackTrue, CacheTrue, LooksUp
  <2>6. OneForEachId' /\ CacheTrue'
    BY <1>2, <2>1, <2>3 DEF OneForEachId, CacheTrue
  <2>7. Agree(live)' /\ Agree(db)'
    BY <1>2, <2>1 DEF Agree
  <2>. QED  BY <2>3, <2>5, <2>6, <2>7 DEF TagInv, FirstLife
<1>4. CASE ArtistFound
  <2>1. PICK a \in db.artists : a.name = scan.track.artist /\ GotArtist(a.id, scan.highest.artists, FALSE)
    BY <1>4 DEF ArtistFound, ArtistsNamed
  <2>2. a.id \in Id /\ a.id <= scan.highest.artists
    BY <1>2, IdNumbers DEF OneForEachId, Id
  <2>3. db' = db
    BY <1>4 DEF ArtistFound, tables
  <2>4. \A x \in db'.artists : x.id = a.id => x.name = scan.track.artist
    BY <1>2, <2>1, <2>3 DEF OneForEachId
  <2>5. PICK id, k : id = a.id /\ k = scan.highest.artists
    OBVIOUS
  <2>6. /\ id \in Id /\ k \in Nat /\ k >= scan.highest.artists /\ id <= k
        /\ \A x \in db'.artists : x.id = id => x.name = scan.track.artist
    BY <1>1, <2>2, <2>4, <2>5
  <2>7. GotArtist(id, k, FALSE) /\ FALSE \in BOOLEAN
    BY <2>1, <2>5
  <2>. QED  BY <1>1, <2>3, <2>6, <2>7, TagsGotArtist
<1>5. CASE ArtistFails
  <2>1. PICK id \in {0, FAILURE} : GotArtist(id, scan.highest.artists, FALSE)
    BY <1>5 DEF ArtistFails
  <2>2. id \in Id /\ id <= scan.highest.artists /\ id < 1
    BY <1>1 DEF Id, FAILURE
  <2>3. db' = db
    BY <1>5 DEF ArtistFails, tables
  <2>4. \A x \in db'.artists : x.id = id => x.name = scan.track.artist
    BY <1>2, <2>2, <2>3, RefNumbers DEF OneForEachId
  <2>5. PICK k : k = scan.highest.artists
    OBVIOUS
  <2>6. k \in Nat /\ k >= scan.highest.artists /\ id <= k
    BY <1>1, <2>2, <2>5
  <2>7. GotArtist(id, k, FALSE) /\ FALSE \in BOOLEAN
    BY <2>1, <2>5
  <2>. QED  BY <1>1, <2>2, <2>3, <2>4, <2>6, <2>7, TagsGotArtist
<1>6. CASE ArtistAdded
  <2>1. PICK id, row : /\ id = scan.highest.artists + 1
                       /\ row = [id |-> id, name |-> scan.track.artist]
    OBVIOUS
  <2>2. /\ db' = [db EXCEPT !.artists = @ \cup {row}] /\ GotArtist(id, id, TRUE)
        /\ id \notin Ids(db.artists)
    BY <1>6, <2>1 DEF ArtistAdded, Write
  <2>3. id \in Nat /\ id \in Id /\ id >= scan.highest.artists /\ id <= id
    BY <1>1, <2>1 DEF Id
  <2>4. db'.artists = db.artists \cup {row} /\ db'.albums = db.albums
    BY <1>1, <2>2 DEF Database
  <2>5. \A x \in db'.artists : x.id = id => x.name = scan.track.artist
    BY <2>1, <2>2, <2>4 DEF Ids
  <2>6. db'.artists = db.artists \cup {[id |-> id, name |-> scan.track.artist]}
    BY <2>1, <2>4
  <2>. QED  BY <1>1, <2>1, <2>2, <2>3, <2>4, <2>5, <2>6, TagsGotArtist
<1>. QED  BY <1>3, <1>4, <1>5, <1>6

\* update_album_table answers with id, which it keeps unless it is the number of an error.
LEMMA TagsGotAlbum ==
  ASSUME TypeInv, TagInv, spent'.crash = 0 => spent.crash = 0, live' \in {live, db'},
         scan.pc = "album", NEW id \in Id, NEW k \in Nat, k >= scan.highest.albums, id <= k,
         \/ \E added \in BOOLEAN : GotAlbum(id, k, added)
         \/ scan' = [scan EXCEPT !.pc = "title", !.albumId = id] /\ k = scan.highest.albums,
         db'.titles = db.titles, db'.artists = db.artists,
         \/ db'.albums = db.albums
         \/ /\ id = scan.highest.albums + 1 /\ id \notin Ids(db.albums)
            /\ \E added \in BOOLEAN : GotAlbum(id, k, added)
            /\ db'.albums = db.albums \cup {[id |-> id, artist |-> scan.track.artistId,
                                            name |-> scan.track.album]},
         \A x \in db'.albums : x.id = id =>
            x.artist = scan.track.artistId /\ x.name = scan.track.album
  PROVE  TagInv'
<1>1. /\ scan'.pc = "title" /\ scan'.track = scan.track /\ scan'.albumId = id
      /\ scan'.highest.artists = scan.highest.artists /\ scan'.highest.albums = k
      /\ scan'.cache.artist = scan.cache.artist /\ scan'.cache.artistId = scan.cache.artistId
      /\ \/ /\ scan'.cache.albumArtist = scan.track.artistId /\ scan'.cache.albumId = id
            /\ scan'.cache.album = scan.track.album
         \/ scan'.cache = scan.cache /\ db'.albums = db.albums /\ k = scan.highest.albums
         \/ scan'.cache = scan.cache /\ id = scan.highest.albums + 1
            /\ id \notin Ids(db.albums)
  <2>1. CASE \E added \in BOOLEAN : GotAlbum(id, k, added)
    BY <2>1, GotAlbumDoes
  <2>2. CASE scan' = [scan EXCEPT !.pc = "title", !.albumId = id] /\ k = scan.highest.albums
    BY <2>2, IdNumbers DEF Scanner
  <2>. QED  BY <2>1, <2>2
<1>. SUFFICES ASSUME spent'.crash = 0
              PROVE  Agree(live)' /\ Agree(db)' /\ (OneForEachId /\ CacheTrue /\ TrackTrue)'
  BY <1>1 DEF TagInv, FirstLife
<1>2. Agree(live) /\ Agree(db) /\ OneForEachId /\ CacheTrue /\ TrackTrue
  BY DEF TagInv
<1>3. /\ \A t \in db.titles : t.artist \in Int /\ t.album \in Int
      /\ \A x \in db.albums : x.id \in Int
      /\ scan.cache.albumId \in Int
      /\ scan.highest.artists \in Nat /\ scan.highest.albums \in Nat /\ id \in Int
  BY RefNumbers DEF Id, FAILURE
<1>4. \A x \in db'.albums :
        x \in db.albums \/ (x.id = scan.highest.albums + 1 /\ x.id \notin Ids(db.albums) /\ x.id = id)
  OBVIOUS
<1>5. Agree(db)'
  BY <1>2, <1>3, <1>4 DEF Agree, OneForEachId
<1>6. OneForEachId'
  <2>1. \A x \in db'.albums : x.id >= 1 /\ x.id <= k
    BY <1>2, <1>3, <1>4 DEF OneForEachId
  <2>2. \A x, y \in db'.albums : x.id = y.id => x = y
    <3>1. CASE db'.albums = db.albums
      BY <1>2, <3>1 DEF OneForEachId
    <3>2. CASE db'.albums # db.albums
      <4>1. PICK r : r = [id |-> id, artist |-> scan.track.artistId, name |-> scan.track.album]
        OBVIOUS
      <4>2. r.id = id /\ db'.albums = db.albums \cup {r} /\ \A x \in db.albums : x.id # id
        BY <3>2, <4>1 DEF Ids
      <4>. QED  BY <1>2, <4>2 DEF OneForEachId
    <3>. QED  BY <3>1, <3>2
  <2>3. \A t \in db'.titles : t.artist <= scan'.highest.artists /\ t.album <= k
    BY <1>1, <1>2, <1>3 DEF OneForEachId
  <2>. QED  BY <1>1, <1>2, <2>1, <2>2, <2>3 DEF OneForEachId
<1>7. CacheTrue'
  BY <1>1, <1>2, <1>3, <1>4 DEF CacheTrue
<1>8. TrackTrue'
  BY <1>1, <1>2 DEF TrackTrue, LooksUp
<1>. QED  BY <1>2, <1>5, <1>6, <1>7, <1>8 DEF Agree

LEMMA TagsAlbum ==
  ASSUME TypeInv, TagInv, spent'.crash = 0 => spent.crash = 0,
         AlbumCached \/ AlbumFound \/ AlbumAdded \/ AlbumFails
  PROVE  TagInv'
<1>1. /\ scan.pc = "album" /\ scan \in Scanner /\ db \in Database /\ live' \in {live, db'}
      /\ db'.titles = db.titles /\ scan.highest.albums \in Nat
  BY LookUpDoes, IdNumbers DEF AlbumCached, AlbumFound, AlbumAdded, AlbumFails
<1>. SUFFICES ASSUME spent'.crash = 0 PROVE TagInv'
  BY DEF TagInv
<1>2. OneForEachId /\ CacheTrue
  BY <1>1 DEF TagInv
<1>3. PICK k : k = scan.highest.albums /\ k \in Nat /\ k >= scan.highest.albums
  BY <1>1
<1>4. CASE AlbumCached
  <2>1. PICK id : id = scan.cache.albumId
    OBVIOUS
  <2>2. /\ scan' = [scan EXCEPT !.pc = "title", !.albumId = id] /\ db' = db
        /\ scan.track.artistId = scan.cache.albumArtist
        /\ scan.track.album = scan.cache.album
    BY <1>4, <2>1 DEF AlbumCached, AlbumIsCached, tables
  <2>3. id \in Id /\ id <= k
    BY <1>1, <1>2, <1>3, <2>1 DEF Scanner, CacheTrue
  <2>4. \A x \in db'.albums : x.id = id =>
          x.artist = scan.track.artistId /\ x.name = scan.track.album
    BY <1>2, <2>1, <2>2 DEF CacheTrue
  <2>. QED  BY <1>1, <1>3, <2>2, <2>3, <2>4, TagsGotAlbum
<1>5. CASE AlbumFound
  <2>1. PICK a \in db.albums : /\ a.artist = scan.track.artistId /\ a.name = scan.track.album
                              /\ GotAlbum(a.id, k, FALSE)
    BY <1>3, <1>5 DEF AlbumFound, AlbumsOfTrack, AlbumsNamed
  <2>2. PICK id : id = a.id
    OBVIOUS
  <2>3. id \in Id /\ id <= k /\ (\E added \in BOOLEAN : GotAlbum(id, k, added))
    BY <1>2, <1>3, <2>1, <2>2, IdNumbers DEF OneForEachId, Id
  <2>4. db' = db
    BY <1>5 DEF AlbumFound, tables
  <2>5. \A x \in db'.albums : x.id = id =>
          x.artist = scan.track.artistId /\ x.name = scan.track.album
    BY <1>2, <2>1, <2>2, <2>4 DEF OneForEachId
  <2>. QED  BY <1>1, <1>3, <2>3, <2>4, <2>5, TagsGotAlbum
<1>6. CASE AlbumFails
  <2>1. PICK id \in {0, FAILURE} :
          \/ \E added \in BOOLEAN : GotAlbum(id, k, added)
          \/ scan' = [scan EXCEPT !.pc = "title", !.albumId = id]
    BY <1>3, <1>6 DEF AlbumFails
  <2>2. id \in Id /\ id <= k /\ id < 1
    BY <1>3 DEF Id, FAILURE
  <2>3. db' = db
    BY <1>6 DEF AlbumFails, tables
  <2>4. \A x \in db'.albums : x.id = id =>
          x.artist = scan.track.artistId /\ x.name = scan.track.album
    BY <1>2, <2>2, <2>3, RefNumbers DEF OneForEachId
  <2>. QED  BY <1>1, <1>3, <2>1, <2>2, <2>3, <2>4, TagsGotAlbum
<1>7. CASE AlbumAdded
  <2>1. PICK id, row : /\ id = scan.highest.albums + 1
                       /\ row = [id |-> id, artist |-> scan.track.artistId, name |-> scan.track.album]
    OBVIOUS
  <2>2. /\ db' = [db EXCEPT !.albums = @ \cup {row}] /\ GotAlbum(id, id, TRUE)
        /\ id \notin Ids(db.albums)
    BY <1>7, <2>1 DEF AlbumAdded, Write
  <2>3. id \in Nat /\ id \in Id /\ id >= scan.highest.albums /\ id <= id
    BY <1>1, <2>1 DEF Id
  <2>7. \E added \in BOOLEAN : GotAlbum(id, id, added)
    BY <2>2
  <2>4. db'.albums = db.albums \cup {row} /\ db'.artists = db.artists
    BY <1>1, <2>2 DEF Database
  <2>5. \A x \in db'.albums : x.id = id =>
          x.artist = scan.track.artistId /\ x.name = scan.track.album
    BY <2>1, <2>2, <2>4 DEF Ids
  <2>6. db'.albums = db.albums \cup {[id |-> id, artist |-> scan.track.artistId,
                                      name |-> scan.track.album]}
    BY <2>1, <2>4
  <2>. QED  BY <1>1, <2>1, <2>2, <2>3, <2>4, <2>5, <2>6, <2>7, TagsGotAlbum
<1>. QED  BY <1>4, <1>5, <1>6, <1>7

LEMMA TagsInsert ==
  ASSUME TypeInv, TagInv, spent'.crash = 0 => spent.crash = 0, InsertTitle
  PROVE  TagInv'
<1>1. /\ scan.pc = "title" /\ scan'.pc = "walk" /\ scan'.highest = scan.highest
      /\ scan'.cache = scan.cache
      /\ db'.titles = db.titles \cup {NewTitle}
      /\ db'.artists = db.artists /\ db'.albums = db.albums
      /\ NewTitle.tags = scan.track.tags /\ NewTitle.album = scan.albumId
      /\ NewTitle.artist = scan.track.artistId
      /\ live' \in {live, db'}
  BY InsertDoes
<1>. SUFFICES ASSUME spent'.crash = 0
              PROVE  Agree(live)' /\ Agree(db)' /\ (OneForEachId /\ CacheTrue /\ TrackTrue)'
  BY <1>1 DEF TagInv, FirstLife
<1>2. Agree(live) /\ Agree(db) /\ OneForEachId /\ CacheTrue /\ TrackTrue
  BY <1>1 DEF TagInv
<1>3. PICK row : row = NewTitle
  OBVIOUS
<1>4. /\ \A x \in db.artists : row.artist = x.id => x.name = TagArtist(row.tags)
      /\ \A x \in db.albums : row.album = x.id =>
           x.artist = row.artist /\ x.name = TagAlbum(row.tags)
      /\ row.artist <= scan.highest.artists /\ row.album <= scan.highest.albums
  BY <1>1, <1>2, <1>3 DEF TrackTrue, LooksUp
<1>5. Agree(db)'
  BY <1>1, <1>2, <1>3, <1>4 DEF Agree
<1>6. OneForEachId'
  BY <1>1, <1>2, <1>3, <1>4 DEF OneForEachId
<1>7. CacheTrue' /\ TrackTrue'
  BY <1>1, <1>2 DEF CacheTrue, TrackTrue, LooksUp
<1>. QED  BY <1>1, <1>2, <1>5, <1>6, <1>7 DEF Agree

\* In the first life of the scanner there is nothing a start could find.
LEMMA TagsStart ==
  ASSUME TypeInv, TypeInv', TagInv, spent'.crash = 0 => spent.crash = 0, Start
  PROVE  TagInv'
<1>. SUFFICES ASSUME spent'.crash = 0 PROVE TagInv'
  BY DEF TagInv
<1>1. /\ scan.pc = "down" /\ scan'.pc = "sample" /\ scan'.cache = NothingCached
      /\ live' = db' /\ db' \in {EmptyDatabase, CutOff, live, saved}
  BY StartDoes
<1>2. live \in {NoFile, CutOff} /\ saved = NoFile
  BY <1>1 DEF TagInv, FirstLife
<1>3. db' \in {EmptyDatabase, CutOff, NoFile} /\ live' = db'
  BY <1>1, <1>2
<1>4. db'.titles = {} /\ db'.artists = {} /\ db'.albums = {}
  BY <1>3 DEF EmptyDatabase, CutOff, NoFile
<1>5. scan'.highest.artists \in Nat /\ scan'.highest.albums \in Nat
  BY DEF TypeInv, TypeOK, Scanner
<1>6. scan'.cache.artistId = 0 /\ scan'.cache.albumId = 0
  BY <1>1 DEF NothingCached
<1>7. Agree(live)' /\ Agree(db)' /\ OneForEachId'
  BY <1>3, <1>4 DEF Agree, OneForEachId
<1>8. CacheTrue'
  BY <1>4, <1>5, <1>6 DEF CacheTrue
<1>9. TrackTrue'
  BY <1>1 DEF TrackTrue, LooksUp
<1>. QED  BY <1>1, <1>7, <1>8, <1>9 DEF TagInv, FirstLife

\* What the steps between two walks leave alone.
LEMMA RestKeeps ==
  ASSUME TypeInv, Rest
  PROVE  /\ scan'.highest = scan.highest /\ scan'.cache = scan.cache
         /\ db'.artists \subseteq db.artists /\ db'.albums \subseteq db.albums
         /\ db'.titles \subseteq db.titles /\ db'.file = db.file
<1>1. scan \in Scanner
  BY IdNumbers
<1>2. CASE EndWalk \/ ArtistsDropped \/ AlbumsDropped \/ NothingToAnnounce \/ CopyDone
  <2>1. db' = db /\ \E p \in {"titles", "albums", "finish", "size"} :
                       scan' = [scan EXCEPT !.pc = p]
    BY <1>2 DEF EndWalk, ArtistsDropped, AlbumsDropped, NothingToAnnounce, CopyDone, tables
  <2>. QED  BY <2>1, GoesOn
<1>11. CASE SampleSame
  BY <1>1, <1>11 DEF Scanner, SampleSame, tables
<1>12. CASE Settle
  BY <1>1, <1>12 DEF Scanner, Settle, tables
<1>3. CASE SampleChanged
  BY <1>1, <1>3 DEF Scanner, SampleChanged, tables
<1>4. CASE Announce
  BY <1>1, <1>4 DEF Scanner, Announce
<1>5. CASE DropFails
  BY <1>1, <1>5 DEF Scanner, DropFails, tables
<1>6. CASE DropTitles
  BY <1>6, DropTitlesDoes
<1>7. CASE DropPaths
  BY <1>7, DropPathsDoes
<1>8. CASE DropArtist
  BY <1>8, DropArtistDoes
<1>9. CASE DropAlbum
  BY <1>9, DropAlbumDoes
<1>10. CASE SaveSize \/ SaveCounter
  BY <1>10, SaveDoes
<1>. QED  BY <1>2, <1>3, <1>4, <1>5, <1>6, <1>7, <1>8, <1>9, <1>10, <1>11, <1>12 DEF Rest

LEMMA TagsNext == TypeInv /\ TagInv /\ [Next]_vars => TagInv'
<1>. SUFFICES ASSUME TypeInv, TagInv, [Next]_vars PROVE TagInv'
  OBVIOUS
<1>0. spent'.crash = 0 => spent.crash = 0
  BY SpentNext
<1>1. CASE Start
  BY <1>0, <1>1, TypesNext, TagsStart
<1>11. CASE Tags
  BY <1>0, <1>11, TagsRead
<1>2. CASE \E n \in Names : Visit(n)
  BY <1>0, <1>2, TagsVisit
<1>3. CASE LookUp
  BY <1>0, <1>3, TagsArtist, TagsAlbum DEF LookUp
<1>4. CASE InsertTitle
  BY <1>0, <1>4, TagsInsert
<1>5. CASE InsertTitleFails
  <2>1. scan'.pc = "walk" /\ scan.pc = "title" /\ UNCHANGED <<db, live>>
    BY <1>5, InsertFailsDoes, InsertFailsLeaves
  <2>2. /\ scan'.highest.artists = scan.highest.artists
        /\ scan'.highest.albums = scan.highest.albums /\ scan'.cache = scan.cache
    BY <1>5, InsertFailsDoes
  <2>. QED  BY <1>0, <2>1, <2>2, TagsKept DEF LooksUp
<1>6. CASE LeaveDir
  <2>1. /\ scan.pc = "walk" /\ scan'.pc \in {"walk", "end"} /\ scan'.highest = scan.highest
        /\ scan'.cache = scan.cache
    BY <1>6, LeftDoes
  <2>2. UNCHANGED <<db, live>>
    BY <1>6 DEF LeaveDir, tables
  <2>. QED  BY <1>0, <2>1, <2>2, TagsKept DEF LooksUp
<1>7. CASE Begin
  <2>1. /\ scan.pc = "begin" /\ scan'.pc \in {"walk", "end"} /\ UNCHANGED <<db, live>>
        /\ scan'.highest = scan.highest /\ scan'.cache = scan.cache
    BY <1>7, BeginDoes
  <2>. QED  BY <1>0, <2>1, TagsKept DEF LooksUp
<1>8. CASE Rest
  <2>1. /\ scan.pc # "down" /\ scan'.pc # "down" /\ scan'.pc \notin LooksUp
        /\ live' \in {live, db'}
    BY <1>8, RestDoes, RestTables DEF Rest, Walking, LooksUp
  <2>. QED  BY <1>0, <1>8, <2>1, RestKeeps, TagsKept
<1>9. CASE DiskStep \/ UNCHANGED vars
  <2>1. UNCHANGED <<scan, live, db, saved>>
    BY <1>9 DEF DiskStep, PutFile, RemoveFile, MakeDir, MoveDirAway, ChangeTo, tables, vars
  <2>. QED  BY <1>0, <2>1 DEF TagInv, Agree, FirstLife, OneForEachId, CacheTrue, TrackTrue
<1>10. CASE \E machine \in BOOLEAN : Crash(machine)
  BY <1>10, SpentNext DEF TagInv
<1>. QED
  BY <1>1, <1>2, <1>3, <1>4, <1>5, <1>6, <1>7, <1>8, <1>9, <1>10, <1>11, Steps DEF Next

\* Only a Crash ends the process.
LEMMA StaysUp ==
  ASSUME TypeInv, [Next]_vars, ~(\E machine \in BOOLEAN : Crash(machine)), scan'.pc = "down"
  PROVE  UNCHANGED <<scan, live, db, saved>>
<1>1. CASE Start \/ Tags
  BY <1>1, StartDoes, TagsDoes
<1>2. CASE \E n \in Names : Visit(n)
  BY <1>2, VisitIn
<1>3. CASE LookUp
  BY <1>3, LookUpDoes DEF LookUp
<1>4. CASE InsertTitle \/ InsertTitleFails
  BY <1>4, InsertDoes, InsertFailsDoes
<1>5. CASE LeaveDir \/ Begin
  BY <1>5, LeftDoes, BeginDoes
<1>6. CASE Rest
  BY <1>6, RestDoes DEF Rest
<1>7. CASE DiskStep \/ UNCHANGED vars
  BY <1>7 DEF DiskStep, PutFile, RemoveFile, MakeDir, MoveDirAway, ChangeTo, tables, vars
<1>. QED  BY <1>1, <1>2, <1>3, <1>4, <1>5, <1>6, <1>7, Steps DEF Next

\* Where nobody asks, the first start finds no file at all.
NoneYet == spent.crash = 0 /\ scan.pc = "down" => live.file = "none"

LEMMA NoneYetNext == TypeInv /\ NoneYet /\ [Next]_vars => NoneYet'
<1>. SUFFICES ASSUME TypeInv, NoneYet, [Next]_vars, spent'.crash = 0, scan'.pc = "down"
              PROVE  live'.file = "none"
  BY DEF NoneYet
<1>1. /\ spent.crash \in Nat /\ spent'.crash >= spent.crash
      /\ ~(\E machine \in BOOLEAN : Crash(machine))
  BY SpentNext
<1>2. spent.crash = 0
  BY <1>1
<1>3. UNCHANGED <<scan, live, db, saved>>
  BY <1>1, StaysUp
<1>. QED  BY <1>2, <1>3 DEF NoneYet

\* IdsInv, which LibraryIdsFree rests on, holds at every moment.
THEOREM IdsAlways == Spec => [](TypeInv /\ IdsInv)
<1>1. Init => IdsInv
  BY DEF Init, Down, IdsInv
<1>. QED  BY <1>1, TypesStart, TypesNext, IdsNext, PTL DEF Spec

\* The tags a title was given are those of the content its length and time are of, but where
\* a change or a failure between the stat and the reading is on record; and within a life of
\* the scanner no title refers to an artist its tags do not name, or to an album of another
\* artist, whatever fails and however files come and go: the cached ids of
\* update_artist_table and update_album_table (mps-librarydbd-traverse.c) may lead to no
\* row, but never to the wrong one.
THEOREM LibraryTagsRight == Spec => []TagsRight
<1>1. Init => TagInv
  <2>1. Down.pc = "down" /\ NoFile.titles = {}
    BY DEF Down, NoFile, EmptyDatabase
  <2>. QED  BY <2>1 DEF Init, TagInv, Agree, FirstLife
<1>2. TagInv /\ SlipInv => TagsRight
  BY DEF TagInv, Agree, SlipInv, Traced, TagsRight
<1>. QED
  BY <1>1, <1>2, TypesStart, TypesNext, SlipStart, SlipNext, TagsNext, PTL DEF Spec

-----------------------------------------------------------------------------
(***************************************************************************)
(* Artists and albums without titles.  A row of theirs is put in before    *)
(* the title it is for, and removed after the last title that refers to    *)
(* it; between the two the file that is looked at, or the list that        *)
(* remove_stale_entries made, accounts for it.                             *)
(***************************************************************************)
NoTrouble == spent.failure = 0 /\ spent.crash = 0

ArtistUsed(x) ==
  \/ \E t \in db.titles : t.artist = x.id
  \/ scan.pc \in {"album", "title"} /\ scan.track.artistId = x.id
  \/ scan.pc \in {"paths", "artists"} /\ x.id \in scan.deadArtists

AlbumUsed(x) ==
  \/ \E t \in db.titles : t.album = x.id
  \/ scan.pc = "title" /\ scan.albumId = x.id
  \/ scan.pc \in {"paths", "artists", "albums"} /\ x.id \in scan.deadAlbums

\* No title of what the walk has still to come to: the first scan finds an empty table.
Unseen(U) ==
  \A t \in db.titles : t.name \notin U /\ (scan.pc \in InFile => t.name # scan.track.name)

FirstScan ==
  state = "CREATINGDB" =>
    /\ scan.pc \in {"sample", "settle", "begin"} => db.titles = {}
    /\ scan.pc \in Walking => \E U \in SUBSET Names : Walked(U) /\ Unseen(U)

\* The row that is about to be inserted fits, so that the INSERT does not fail.
NoSuchTitle == TitlesOf(db, scan.track.stamp, Top.id, scan.track.name) = {}

OrphanInv ==
  NoTrouble =>
    /\ scan.pc # "down" => db.file = "whole"
    /\ \A x \in db.artists : ArtistUsed(x)
    /\ \A x \in db.albums : AlbumUsed(x)
    /\ scan.pc \in Walking => state \in {"CREATINGDB", "UPDATINGDB"}
    /\ FirstScan
    /\ scan.pc \in InFile => NoSuchTitle

\* Without a failure every start read the highest ids.
Sighted == NoTrouble => blind = {}

LEMMA NoTroubleNext ==
  ASSUME TypeInv, [Next]_vars, NoTrouble'
  PROVE  /\ NoTrouble /\ ~Used("failure")
         /\ ~(\E machine \in BOOLEAN : Crash(machine))
<1>1. /\ spent.failure \in Nat /\ spent.crash \in Nat
      /\ spent'.failure >= spent.failure /\ spent'.crash >= spent.crash
      /\ spent'.failure = 0 /\ spent'.crash = 0
  BY SpentNext DEF NoTrouble
<1>2. spent.failure = 0 /\ spent.crash = 0
  BY <1>1
<1>3. ~Used("failure") /\ ~(\E machine \in BOOLEAN : Crash(machine))
  BY <1>1, SpentNext
<1>. QED  BY <1>2, <1>3 DEF NoTrouble

LEMMA SightedNext == TypeInv /\ Sighted /\ [Next]_vars => Sighted'
<1>. SUFFICES ASSUME TypeInv, Sighted, [Next]_vars, NoTrouble' PROVE blind' = {}
  BY DEF Sighted
<1>1. NoTrouble /\ ~Used("failure")
  BY NoTroubleNext
<1>2. ~(StartNewFails \/ StartAgainFails)
  BY <1>1 DEF StartNewFails, StartAgainFails
<1>. QED  BY <1>1, <1>2, BlindStays DEF Sighted

LEMMA OrphansVisit ==
  ASSUME TypeInv, WalkInv, OrphanInv, NoTrouble, ~Used("failure"), NEW n \in Names, Visit(n)
  PROVE  OrphanInv'
<1>1. /\ scan.pc = "walk" /\ scan.stack # <<>> /\ scan'.pc \in {"walk", "tags"}
      /\ scan.pc # "down" /\ scan.pc \in Walking /\ scan.pc \notin InFile
      /\ state' = state /\ scan'.dbVersion = scan.dbVersion
      /\ db'.artists = db.artists /\ db'.albums = db.albums /\ db'.file = db.file
      /\ scan'.pc = "tags" => scan'.track.name = n
  BY VisitIn, VisitKeeps DEF shared, Walking, InFile
<1>2. /\ db.file = "whole" /\ state \in {"CREATINGDB", "UPDATINGDB"}
      /\ \A x \in db.artists : \E t \in db.titles : t.artist = x.id
      /\ \A x \in db.albums : \E t \in db.titles : t.album = x.id
  BY <1>1 DEF OrphanInv, ArtistUsed, AlbumUsed
<1>3. /\ \A t \in db.titles : \E u \in db'.titles : SameTitle(t, u)
      /\ \A u \in db'.titles : \E t \in db.titles : SameTitle(t, u)
  BY VisitTitles
<1>4. /\ \A x \in db'.artists : \E t \in db'.titles : t.artist = x.id
      /\ \A x \in db'.albums : \E t \in db'.titles : t.album = x.id
  BY <1>1, <1>2, <1>3 DEF SameTitle
<1>5. ASSUME state = "CREATINGDB"
      PROVE  /\ \E U \in SUBSET Names : Walked(U)' /\ Unseen(U)'
             /\ \A t \in db.titles : t.name # n
  <2>1. PICK U \in SUBSET Names : Walked(U) /\ Unseen(U)
    BY <1>1, <1>5 DEF OrphanInv, FirstScan
  <2>2. n \in U /\ Walked(U \ {n})'
    BY <2>1, WalkedVisit
  <2>3. \A t \in db.titles : t.name \notin U
    BY <2>1 DEF Unseen
  <2>4. \A u \in db'.titles : u.name \notin U /\ u.name # n
    BY <1>3, <2>2, <2>3 DEF SameTitle
  <2>5. Unseen(U \ {n})'
    BY <1>1, <2>4 DEF Unseen, InFile
  <2>. QED  BY <2>2, <2>3, <2>5
<1>6. FirstScan'
  BY <1>1, <1>5 DEF FirstScan
<1>7. ASSUME scan'.pc = "tags" PROVE NoSuchTitle'
  <2>1. NewFile(n)
    BY <1>7, VisitKeeps
  <2>2. PICK looks \in Contents :
          /\ ~Marked(TitlesOf(db, looks, Top.id, n)) /\ scan'.stack = After(n, looks)
          /\ scan'.track.name = n /\ scan'.track.stamp = looks
    BY <2>1, NewFileDoes
  <2>3. PICK id : id = Top.id
    OBVIOUS
  <2>4. Top'.id = id
    <3>1. looks \in Contents \cup {Dir}
      OBVIOUS
    <3>2. /\ Len(After(n, looks)) = Len(scan.stack)
          /\ \A i \in 1..Len(scan.stack) : After(n, looks)[i].id = scan.stack[i].id
      BY <1>1, <3>1, AfterDoes
    <3>3. Len(scan.stack) \in 1..Len(scan.stack)
      BY <1>1, TopTyped
    <3>. QED  BY <2>2, <2>3, <3>2, <3>3 DEF Top
  <2>5. db' = db
    BY <2>1 DEF NewFile, tables
  <2>6. TitlesOf(db, looks, id, n) = {}
    <3>1. CASE state = "CREATINGDB"
      BY <1>5, <3>1 DEF TitlesOf, SameFile
    <3>2. CASE state = "UPDATINGDB"
      BY <2>2, <2>3, <3>2 DEF Marked
    <3>. QED  BY <1>2, <3>1, <3>2
  <2>. QED  BY <2>2, <2>4, <2>5, <2>6 DEF NoSuchTitle
<1>. QED  BY <1>1, <1>2, <1>4, <1>6, <1>7 DEF OrphanInv, ArtistUsed, AlbumUsed, InFile

\* Reading the tags: the database stays.
LEMMA OrphansTags ==
  ASSUME TypeInv, OrphanInv, NoTrouble, Tags
  PROVE  OrphanInv'
<1>1. /\ scan.pc = "tags" /\ scan'.pc \in {"walk", "artist"} /\ db' = db /\ state' = state
      /\ scan.pc \in InFile /\ scan.pc \in Walking
      /\ scan'.stack = scan.stack /\ scan'.dbVersion = scan.dbVersion
      /\ scan'.pc = "artist" =>
           scan'.track.name = scan.track.name /\ scan'.track.stamp = scan.track.stamp
  BY TagsDoes DEF InFile, Walking, shared
<1>2. /\ db.file = "whole" /\ state \in {"CREATINGDB", "UPDATINGDB"} /\ NoSuchTitle /\ FirstScan
      /\ \A x \in db.artists : \E t \in db.titles : t.artist = x.id
      /\ \A x \in db.albums : \E t \in db.titles : t.album = x.id
  BY <1>1 DEF OrphanInv, ArtistUsed, AlbumUsed, Walking
<1>3. scan'.pc = "artist" => NoSuchTitle'
  BY <1>1, <1>2 DEF NoSuchTitle, TitlesOf, Top
<1>4. \A U : Walked(U) => Walked(U)'
  BY <1>1, WalkedOn DEF InFile
<1>5. \A U : Unseen(U) => Unseen(U)'
  BY <1>1 DEF Unseen, InFile
<1>6. FirstScan'
  BY <1>1, <1>2, <1>4, <1>5 DEF FirstScan
<1>. QED  BY <1>1, <1>2, <1>3, <1>6 DEF OrphanInv, ArtistUsed, AlbumUsed, InFile

\* Looking up artist or album: the titles, and what the walk has come to, stay.
LEMMA OrphansLookUp ==
  ASSUME TypeInv, OrphanInv, NoTrouble, LookUp,
         \A x \in db'.artists : ArtistUsed(x)', \A x \in db'.albums : AlbumUsed(x)'
  PROVE  OrphanInv'
<1>1. /\ scan.pc \in InFile /\ scan'.pc \in InFile /\ scan.pc \in Walking /\ scan'.pc # "down"
      /\ scan'.pc \notin {"sample", "settle", "begin"}
      /\ scan'.stack = scan.stack /\ scan'.dbVersion = scan.dbVersion
      /\ scan'.track.name = scan.track.name /\ scan'.track.stamp = scan.track.stamp
      /\ db'.titles = db.titles /\ db'.paths = db.paths /\ db'.file = db.file /\ state' = state
  BY LookUpDoes DEF LookUp, InFile, Walking, shared
<1>2. /\ db.file = "whole" /\ state \in {"CREATINGDB", "UPDATINGDB"} /\ NoSuchTitle /\ FirstScan
  BY <1>1 DEF OrphanInv, Walking
<1>3. NoSuchTitle'
  BY <1>1, <1>2 DEF NoSuchTitle, TitlesOf, Top
<1>4. \A U : Walked(U) => Walked(U)'
  BY <1>1, WalkedOn
<1>5. \A U : Unseen(U) => Unseen(U)'
  BY <1>1 DEF Unseen
<1>6. FirstScan'
  BY <1>1, <1>2, <1>4, <1>5 DEF FirstScan
<1>. QED  BY <1>1, <1>2, <1>3, <1>6 DEF OrphanInv

\* No failure, and the next ids are free: looking up answers with a row that is there.
LEMMA OrphansArtist ==
  ASSUME TypeInv, IdsInv, OrphanInv, NoTrouble, blind = {}, ~Used("failure"),
         ArtistCached \/ ArtistFound \/ ArtistAdded \/ ArtistFails
  PROVE  OrphanInv'
<1>1. /\ scan.pc = "artist" /\ scan'.pc = "album" /\ db'.titles = db.titles
      /\ scan \in Scanner /\ db \in Database /\ scan.highest.artists \in Nat
      /\ \A a \in db.artists : a.id \in Nat /\ a.id <= scan.highest.artists
      /\ db.file = "whole" /\ LookUp
  <2>1. /\ scan.pc = "artist"
    BY DEF ArtistCached, ArtistFound, ArtistAdded, ArtistFails
  <2>2. LookUp
    BY DEF LookUp
  <2>3. scan'.pc = "album"
    <3>1. CASE ArtistCached
      BY <3>1, IdNumbers DEF ArtistCached, Scanner
    <3>2. CASE ArtistFound
      BY <2>1, <3>2, IdNumbers, GotArtistDoes DEF ArtistFound, ArtistsNamed, Id
    <3>3. CASE ArtistFails
      BY <2>1, <3>3, IdNumbers, GotArtistDoes DEF ArtistFails, Id
    <3>4. CASE ArtistAdded
      <4>1. PICK id : id = scan.highest.artists + 1
        OBVIOUS
      <4>2. GotArtist(id, id, TRUE)
        BY <3>4, <4>1 DEF ArtistAdded
      <4>3. id \in Nat /\ id \in Id
        BY <4>1, IdNumbers DEF Id
      <4>. QED  BY <2>1, <4>2, <4>3, GotArtistDoes
    <3>. QED  BY <3>1, <3>2, <3>3, <3>4
  <2>. QED  BY <2>1, <2>2, <2>3, LookUpDoes, IdNumbers DEF IdsInv, OrphanInv
<1>2. /\ \A x \in db.artists : \E t \in db.titles : t.artist = x.id
      /\ \A x \in db.albums : \E t \in db.titles : t.album = x.id
  BY <1>1 DEF OrphanInv, ArtistUsed, AlbumUsed
<1>3. CASE ArtistCached \/ ArtistFound \/ ArtistFails
  <2>1. db' = db
    BY <1>3 DEF ArtistCached, ArtistFound, ArtistFails, tables
  <2>2. /\ \A x \in db'.artists : ArtistUsed(x)'
        /\ \A x \in db'.albums : AlbumUsed(x)'
    BY <1>2, <2>1 DEF ArtistUsed, AlbumUsed
  <2>. QED  BY <1>1, <2>2, OrphansLookUp
<1>4. CASE ArtistAdded
  <2>1. PICK id, row : /\ id = scan.highest.artists + 1
                       /\ row = [id |-> id, name |-> scan.track.artist]
    OBVIOUS
  <2>2. /\ db' = [db EXCEPT !.artists = @ \cup {row}] /\ GotArtist(id, id, TRUE)
    BY <1>4, <2>1 DEF ArtistAdded, Write
  <2>3. id \in Nat /\ id \in Id
    BY <1>1, <2>1 DEF Id
  <2>4. db'.artists = db.artists \cup {row} /\ db'.albums = db.albums /\ row.id = id
    BY <1>1, <2>1, <2>2 DEF Database
  <2>5. scan'.track.artistId = id
    BY <1>1, <2>2, <2>3, GotArtistDoes
  <2>6. /\ \A x \in db'.artists : ArtistUsed(x)'
        /\ \A x \in db'.albums : AlbumUsed(x)'
    BY <1>1, <1>2, <2>4, <2>5 DEF ArtistUsed, AlbumUsed
  <2>. QED  BY <1>1, <2>6, OrphansLookUp
<1>. QED  BY <1>3, <1>4

LEMMA OrphansAlbum ==
  ASSUME TypeInv, IdsInv, OrphanInv, NoTrouble, blind = {}, ~Used("failure"),
         AlbumCached \/ AlbumFound \/ AlbumAdded \/ AlbumFails
  PROVE  OrphanInv'
<1>1. /\ scan.pc = "album" /\ scan'.pc = "title" /\ db'.titles = db.titles
      /\ scan \in Scanner /\ db \in Database /\ scan.highest.albums \in Nat
      /\ db.file = "whole" /\ LookUp /\ scan'.track.artistId = scan.track.artistId
  <2>1. /\ scan.pc = "album"
    BY DEF AlbumCached, AlbumFound, AlbumAdded, AlbumFails
  <2>2. LookUp
    BY DEF LookUp
  <2>3. scan'.pc = "title" /\ scan'.track.artistId = scan.track.artistId
    <3>1. CASE AlbumCached
      BY <3>1, IdNumbers DEF AlbumCached, Scanner
    <3>2. CASE AlbumFound
      BY <2>1, <3>2, IdNumbers, GotAlbumDoes DEF AlbumFound, AlbumsOfTrack, AlbumsNamed, Id
    <3>3. CASE AlbumFails
      <4>1. CASE scan' = [scan EXCEPT !.pc = "title", !.albumId = FAILURE]
        BY <4>1, IdNumbers DEF Scanner
      <4>2. CASE GotAlbum(0, scan.highest.albums, FALSE)
        BY <2>1, <4>2, IdNumbers, GotAlbumDoes DEF Id
      <4>. QED  BY <3>3, <4>1, <4>2 DEF AlbumFails
    <3>4. CASE AlbumAdded
      <4>1. PICK id : id = scan.highest.albums + 1
        OBVIOUS
      <4>2. GotAlbum(id, id, TRUE)
        BY <3>4, <4>1 DEF AlbumAdded
      <4>3. id \in Nat /\ id \in Id
        BY <4>1, IdNumbers DEF Id
      <4>. QED  BY <2>1, <4>2, <4>3, GotAlbumDoes
    <3>. QED  BY <3>1, <3>2, <3>3, <3>4
  <2>. QED  BY <2>1, <2>2, <2>3, LookUpDoes, IdNumbers DEF OrphanInv
<1>2. /\ \A x \in db.artists : (\E t \in db.titles : t.artist = x.id) \/ scan.track.artistId = x.id
      /\ \A x \in db.albums : \E t \in db.titles : t.album = x.id
  BY <1>1 DEF OrphanInv, ArtistUsed, AlbumUsed
<1>3. CASE AlbumCached \/ AlbumFound \/ AlbumFails
  <2>1. db' = db
    BY <1>3 DEF AlbumCached, AlbumFound, AlbumFails, tables
  <2>2. /\ \A x \in db'.artists : ArtistUsed(x)'
        /\ \A x \in db'.albums : AlbumUsed(x)'
    BY <1>1, <1>2, <2>1 DEF ArtistUsed, AlbumUsed
  <2>. QED  BY <1>1, <2>2, OrphansLookUp
<1>4. CASE AlbumAdded
  <2>1. PICK id, row : /\ id = scan.highest.albums + 1
                       /\ row = [id |-> id, artist |-> scan.track.artistId, name |-> scan.track.album]
    OBVIOUS
  <2>2. /\ db' = [db EXCEPT !.albums = @ \cup {row}] /\ GotAlbum(id, id, TRUE)
    BY <1>4, <2>1 DEF AlbumAdded, Write
  <2>3. id \in Nat /\ id \in Id
    BY <1>1, <2>1 DEF Id
  <2>4. db'.albums = db.albums \cup {row} /\ db'.artists = db.artists /\ row.id = id
    BY <1>1, <2>1, <2>2 DEF Database
  <2>5. scan'.albumId = id
    BY <1>1, <2>2, <2>3, GotAlbumDoes
  <2>6. /\ \A x \in db'.artists : ArtistUsed(x)'
        /\ \A x \in db'.albums : AlbumUsed(x)'
    BY <1>1, <1>2, <2>4, <2>5 DEF ArtistUsed, AlbumUsed
  <2>. QED  BY <1>1, <2>6, OrphansLookUp
<1>. QED  BY <1>3, <1>4

\* The INSERT succeeds: its id is free, and so is its place in the index.
LEMMA OrphansInsert ==
  ASSUME TypeInv, IdsInv, WalkInv, OrphanInv, NoTrouble, blind = {}, ~Used("failure"),
         InsertTitle \/ InsertTitleFails
  PROVE  OrphanInv'
<1>1. /\ scan.pc = "title" /\ scan.pc \in InFile /\ scan.pc \in Walking
      /\ db.file = "whole" /\ NoSuchTitle /\ FirstScan /\ state \in {"CREATINGDB", "UPDATINGDB"}
      /\ \A x \in db.artists : (\E t \in db.titles : t.artist = x.id) \/ scan.track.artistId = x.id
      /\ \A x \in db.albums : (\E t \in db.titles : t.album = x.id) \/ scan.albumId = x.id
  <2>1. scan.pc = "title" /\ scan.pc \in InFile /\ scan.pc \in Walking /\ scan.pc # "down"
    BY DEF InsertTitle, InsertTitleFails, InFile, Walking
  <2>. QED  BY <2>1 DEF OrphanInv, ArtistUsed, AlbumUsed
<1>2. CASE InsertTitleFails
  <2>1. ~Fails
    BY <1>1 DEF Fails
  <2>2. ~TitleFits(db, NewTitle)
    BY <1>2, <2>1 DEF InsertTitleFails
  <2>3. NewTitle.id \notin Ids(db.titles)
    BY <1>1 DEF NewTitle, IdsInv, Ids
  <2>4. TitlesOf(db, NewTitle.stamp, NewTitle.parent, NewTitle.name) = {}
    BY <1>1 DEF NoSuchTitle, NewTitle
  <2>. QED  BY <2>2, <2>3, <2>4 DEF TitleFits
<1>3. CASE InsertTitle
  <2>1. PICK row : row = NewTitle
    OBVIOUS
  <2>2. /\ scan'.pc = "walk" /\ scan'.stack = scan.stack /\ scan'.dbVersion = scan.dbVersion
        /\ db'.titles = db.titles \cup {row} /\ db'.paths = db.paths
        /\ db'.artists = db.artists /\ db'.albums = db.albums /\ db'.file = db.file
        /\ row.album = scan.albumId /\ row.artist = scan.track.artistId
        /\ row.name = scan.track.name /\ state' = state
    BY <1>3, <2>1, InsertDoes DEF InsertTitle, shared
  <2>3. \A U : Walked(U) => Walked(U)' /\ scan.track.name \notin U
    BY <1>1, <2>2, WalkedOn DEF Walked, InFile
  <2>4. \A U : Walked(U) /\ Unseen(U) => Unseen(U)'
    BY <2>2, <2>3 DEF Unseen, InFile
  <2>5. FirstScan'
    BY <1>1, <2>2, <2>3, <2>4 DEF FirstScan
  <2>6. /\ \A x \in db'.artists : \E t \in db'.titles : t.artist = x.id
        /\ \A x \in db'.albums : \E t \in db'.titles : t.album = x.id
    BY <1>1, <2>2
  <2>. QED  BY <1>1, <2>2, <2>5, <2>6 DEF OrphanInv, ArtistUsed, AlbumUsed, InFile
<1>. QED  BY <1>2, <1>3

\* A start, with the empty tables of the first one.
LEMMA OrphansStart ==
  ASSUME TypeInv, TagInv, NoneYet, NoTrouble, ~Used("failure"), Start
  PROVE  OrphanInv'
<1>1. scan.pc = "down" /\ (StartNew \/ StartAgain)
  BY StartDoes DEF Start, StartNewFails, StartAgainFails
<1>2. live.file = "none" /\ saved.file = "none"
  BY <1>1 DEF TagInv, FirstLife, NoneYet, NoFile, EmptyDatabase, NoTrouble
<1>3. StartNew
  BY <1>1, <1>2 DEF StartAgain, Restored
<1>4. scan'.pc = "sample" /\ db' = EmptyDatabase
  BY <1>3, StartDoes DEF Start, StartNew
<1>5. /\ EmptyDatabase.titles = {} /\ EmptyDatabase.artists = {} /\ EmptyDatabase.albums = {}
      /\ EmptyDatabase.file = "whole"
  BY DEF EmptyDatabase
<1>. QED  BY <1>4, <1>5 DEF OrphanInv, FirstScan, Walking, InFile

\* Between two walks the first scan stays the first one only until it begins.
LEMMA RestCreating ==
  ASSUME TypeInv, Rest, state' = "CREATINGDB", scan'.pc \in {"sample", "settle", "begin"}
  PROVE  state = "CREATINGDB" /\ scan.pc \in {"sample", "settle", "begin"}
<1>1. scan \in Scanner
  BY IdNumbers
<1>2. CASE SampleSame \/ SampleChanged \/ Settle
  BY <1>2 DEF SampleSame, SampleChanged, Settle, shared
<1>3. CASE SaveSize \/ SaveCounter
  BY <1>3, SaveDoes
<1>4. CASE DropTitles \/ DropPaths \/ DropArtist \/ DropAlbum
  BY <1>4, DropTitlesDoes, DropPathsDoes, DropArtistDoes, DropAlbumDoes
<1>5. CASE EndWalk \/ ArtistsDropped \/ AlbumsDropped \/ NothingToAnnounce \/ CopyDone
  BY <1>1, <1>5 DEF Scanner, EndWalk, ArtistsDropped, AlbumsDropped, NothingToAnnounce, CopyDone
<1>6. CASE DropFails
  BY <1>1, <1>6 DEF Scanner, DropFails
<1>7. CASE Announce
  BY <1>1, <1>7 DEF Scanner, Announce
<1>. QED  BY <1>2, <1>3, <1>4, <1>5, <1>6, <1>7 DEF Rest

\* A step between two walks after which each artist and album has a title or is noted.
LEMMA OrphansKept ==
  ASSUME TypeInv, OrphanInv, NoTrouble, Rest,
         \A x \in db'.artists : ArtistUsed(x)', \A x \in db'.albums : AlbumUsed(x)'
  PROVE  OrphanInv'
<1>1. /\ scan.pc \notin Walking \cup {"down"} /\ scan'.pc \notin Walking \cup {"down"}
      /\ db'.file = db.file /\ db'.titles \subseteq db.titles /\ scan'.pc \notin InFile
  BY RestDoes, RestKeeps DEF Rest, Walking, InFile
<1>2. state' = "CREATINGDB" /\ scan'.pc \in {"sample", "settle", "begin"}
        => state = "CREATINGDB" /\ scan.pc \in {"sample", "settle", "begin"}
  BY RestCreating
<1>3. FirstScan'
  <2>1. FirstScan
    BY DEF OrphanInv
  <2>. QED  BY <1>1, <1>2, <2>1 DEF FirstScan
<1>. QED  BY <1>1, <1>3 DEF OrphanInv

\* A step between two walks: what is removed has no title, and what is noted is looked at.
LEMMA OrphansRest ==
  ASSUME TypeInv, OrphanInv, NoTrouble, ~Used("failure"), Rest
  PROVE  OrphanInv'
<1>1. /\ scan \in Scanner /\ scan.pc \notin Walking \cup {"down"}
      /\ scan'.pc \notin Walking \cup {"down"} /\ db.file = "whole"
      /\ \A x \in db.artists :
           \/ \E t \in db.titles : t.artist = x.id
           \/ scan.pc \in {"paths", "artists"} /\ x.id \in scan.deadArtists
      /\ \A x \in db.albums :
           \/ \E t \in db.titles : t.album = x.id
           \/ scan.pc \in {"paths", "artists", "albums"} /\ x.id \in scan.deadAlbums
  BY RestDoes, IdNumbers DEF Rest, OrphanInv, ArtistUsed, AlbumUsed, Walking
<1>. SUFFICES /\ \A x \in db'.artists :
                   \/ \E t \in db'.titles : t.artist = x.id
                   \/ scan'.pc \in {"paths", "artists"} /\ x.id \in scan'.deadArtists
              /\ \A x \in db'.albums :
                   \/ \E t \in db'.titles : t.album = x.id
                   \/ scan'.pc \in {"paths", "artists", "albums"} /\ x.id \in scan'.deadAlbums
  <2>1. \A x \in db'.artists : ArtistUsed(x)'
    BY DEF ArtistUsed
  <2>2. \A x \in db'.albums : AlbumUsed(x)'
    BY DEF AlbumUsed
  <2>. QED  BY <2>1, <2>2, OrphansKept
<1>2. CASE DropTitles
  <2>1. /\ scan.pc = "titles" /\ scan'.pc = "paths"
        /\ db'.titles = db.titles \ Stale(db.titles, scan.dbVersion)
        /\ db'.artists = db.artists /\ db'.albums = db.albums
        /\ scan'.deadArtists = ArtistsOf(Stale(db.titles, scan.dbVersion))
        /\ scan'.deadAlbums = AlbumsOf(Stale(db.titles, scan.dbVersion))
    BY <1>2, DropTitlesDoes
  <2>2. PICK stale : stale = Stale(db.titles, scan.dbVersion)
    OBVIOUS
  <2>3. \A t \in db.titles : t \in db'.titles
                             \/ (t.artist \in scan'.deadArtists /\ t.album \in scan'.deadAlbums)
    BY <2>1, <2>2 DEF ArtistsOf, AlbumsOf
  <2>. QED  BY <1>1, <2>1, <2>3
<1>3. CASE DropPaths
  BY <1>1, <1>3, DropPathsDoes
<1>4. CASE DropArtist
  <2>1. PICK id \in scan.deadArtists, orphan \in BOOLEAN :
          /\ Counted(orphan, \A t \in db.titles : t.artist # id)
          /\ db'.artists = IF orphan THEN {a \in db.artists : a.id # id} ELSE db.artists
          /\ db'.titles = db.titles /\ db'.albums = db.albums
          /\ scan.pc = "artists" /\ scan'.pc = "artists"
          /\ scan'.deadArtists = scan.deadArtists \ {id} /\ scan'.deadAlbums = scan.deadAlbums
    BY <1>4, DropArtistDoes
  <2>2. orphan = \A t \in db.titles : t.artist # id
    BY <2>1 DEF Counted
  <2>3. CASE orphan
    BY <1>1, <2>1, <2>3
  <2>4. CASE ~orphan
    <3>1. \E t \in db.titles : t.artist = id
      BY <2>2, <2>4
    <3>. QED  BY <1>1, <2>1, <2>4, <3>1
  <2>. QED  BY <2>3, <2>4
<1>5. CASE DropAlbum
  <2>1. PICK id \in scan.deadAlbums, orphan \in BOOLEAN :
          /\ Counted(orphan, \A t \in db.titles : t.album # id)
          /\ db'.albums = IF orphan THEN {a \in db.albums : a.id # id} ELSE db.albums
          /\ db'.titles = db.titles /\ db'.artists = db.artists
          /\ scan.pc = "albums" /\ scan'.pc = "albums"
          /\ scan'.deadAlbums = scan.deadAlbums \ {id} /\ scan'.deadArtists = scan.deadArtists
    BY <1>5, DropAlbumDoes
  <2>2. orphan = \A t \in db.titles : t.album # id
    BY <2>1 DEF Counted
  <2>3. CASE orphan
    BY <1>1, <2>1, <2>3
  <2>4. CASE ~orphan
    <3>1. \E t \in db.titles : t.album = id
      BY <2>2, <2>4
    <3>. QED  BY <1>1, <2>1, <2>4, <3>1
  <2>. QED  BY <2>3, <2>4
<1>6. CASE ArtistsDropped
  <2>1. /\ scan.pc = "artists" /\ scan'.pc = "albums" /\ scan.deadArtists = {}
        /\ scan'.deadAlbums = scan.deadAlbums /\ db' = db
    BY <1>1, <1>6 DEF ArtistsDropped, Scanner, tables
  <2>. QED  BY <1>1, <2>1
<1>7. CASE AlbumsDropped
  <2>1. scan.pc = "albums" /\ scan'.pc = "finish" /\ scan.deadAlbums = {} /\ db' = db
    BY <1>1, <1>7 DEF AlbumsDropped, Scanner, tables
  <2>. QED  BY <1>1, <2>1
<1>8. CASE DropFails
  BY <1>1, <1>8 DEF DropFails, Fails
<1>9. CASE SaveSize \/ SaveCounter
  BY <1>1, <1>9, SaveDoes DEF SaveSize, SaveCounter
<1>10. CASE SampleSame \/ SampleChanged \/ Settle \/ EndWalk \/ Announce \/ NothingToAnnounce
            \/ CopyDone
  <2>1. db' = db /\ scan.pc \notin {"paths", "artists", "albums"}
    BY <1>10 DEF SampleSame, SampleChanged, Settle, EndWalk, Announce, NothingToAnnounce,
       CopyDone, tables
  <2>. QED  BY <1>1, <2>1
<1>. QED  BY <1>2, <1>3, <1>4, <1>5, <1>6, <1>7, <1>8, <1>9, <1>10 DEF Rest

\* The first scan begins with empty tables, and with all of the media directory before it.
LEMMA OrphansBegin ==
  ASSUME TypeInv, OrphanInv, NoTrouble, ~Used("failure"), Begin
  PROVE  OrphanInv'
<1>1. /\ scan.pc = "begin" /\ db' = db /\ scan'.pc = "walk"
      /\ state' = IF state = "CREATINGDB" THEN state ELSE "UPDATINGDB"
  BY BeginDoes
<1>2. /\ db.file = "whole" /\ FirstScan
      /\ \A x \in db.artists : \E t \in db.titles : t.artist = x.id
      /\ \A x \in db.albums : \E t \in db.titles : t.album = x.id
  BY <1>1 DEF OrphanInv, ArtistUsed, AlbumUsed
<1>3. Walked(Names)'
  BY <1>1, WalkedBegin
<1>4. state' = "CREATINGDB" => Unseen(Names)'
  <2>1. state' = "CREATINGDB" => db'.titles = {}
    BY <1>1, <1>2 DEF FirstScan
  <2>. QED  BY <2>1 DEF Unseen
<1>5. FirstScan'
  BY <1>1, <1>3, <1>4 DEF FirstScan
<1>. QED  BY <1>1, <1>2, <1>5 DEF OrphanInv, ArtistUsed, AlbumUsed, InFile

LEMMA OrphansLeave ==
  ASSUME TypeInv, OrphanInv, NoTrouble, LeaveDir
  PROVE  OrphanInv'
<1>1. /\ scan.pc = "walk" /\ scan'.pc \in {"walk", "end"} /\ db' = db /\ state' = state
  BY LeftDoes DEF LeaveDir, tables, shared
<1>2. /\ db.file = "whole" /\ FirstScan /\ state \in {"CREATINGDB", "UPDATINGDB"}
      /\ \A x \in db.artists : \E t \in db.titles : t.artist = x.id
      /\ \A x \in db.albums : \E t \in db.titles : t.album = x.id
  BY <1>1 DEF OrphanInv, ArtistUsed, AlbumUsed, Walking
<1>3. \A U \in SUBSET Names : Walked(U) => Walked(U)'
  BY WalkedLeave
<1>4. \A U \in SUBSET Names : Unseen(U) => Unseen(U)'
  BY <1>1 DEF Unseen, InFile
<1>5. FirstScan'
  BY <1>1, <1>2, <1>3, <1>4 DEF FirstScan, Walking
<1>. QED  BY <1>1, <1>2, <1>5 DEF OrphanInv, ArtistUsed, AlbumUsed, InFile

LEMMA OrphansNext ==
  TypeInv /\ IdsInv /\ WalkInv /\ TagInv /\ NoneYet /\ Sighted /\ OrphanInv /\ [Next]_vars
    => OrphanInv'
<1>. SUFFICES ASSUME TypeInv, IdsInv, WalkInv, TagInv, NoneYet, Sighted, OrphanInv, [Next]_vars,
                     NoTrouble'
              PROVE  OrphanInv'
  BY DEF OrphanInv
<1>0. /\ NoTrouble /\ ~Used("failure") /\ blind = {}
      /\ ~(\E machine \in BOOLEAN : Crash(machine))
  BY NoTroubleNext DEF Sighted
<1>1. CASE Start
  BY <1>0, <1>1, OrphansStart
<1>9. CASE Tags
  BY <1>0, <1>9, OrphansTags
<1>2. CASE \E n \in Names : Visit(n)
  BY <1>0, <1>2, OrphansVisit
<1>3. CASE LookUp
  BY <1>0, <1>3, OrphansArtist, OrphansAlbum DEF LookUp
<1>4. CASE InsertTitle \/ InsertTitleFails
  BY <1>0, <1>4, OrphansInsert
<1>5. CASE LeaveDir
  BY <1>0, <1>5, OrphansLeave
<1>6. CASE Begin
  BY <1>0, <1>6, OrphansBegin
<1>7. CASE Rest
  BY <1>0, <1>7, OrphansRest
<1>8. CASE DiskStep \/ UNCHANGED vars
  <2>1. UNCHANGED <<scan, db, state>>
    BY <1>8 DEF DiskStep, PutFile, RemoveFile, MakeDir, MoveDirAway, ChangeTo, tables, shared, vars
  <2>2. /\ \A U : Walked(U) => Walked(U)'
        /\ \A U : Unseen(U) => Unseen(U)'
    BY <2>1 DEF Walked, FolderOf, Top, Unseen
  <2>3. FirstScan => FirstScan'
    BY <2>1, <2>2 DEF FirstScan
  <2>4. NoSuchTitle => NoSuchTitle'
    BY <2>1 DEF NoSuchTitle, TitlesOf, Top
  <2>. QED  BY <1>0, <2>1, <2>3, <2>4 DEF OrphanInv, ArtistUsed, AlbumUsed
<1>. QED  BY <1>0, <1>1, <1>2, <1>3, <1>4, <1>5, <1>6, <1>7, <1>8, <1>9, Steps DEF Next

\* While nothing fails, every artist and album of the database has a title when a scan is over
\* (remove_stale_entries, mps-librarydbd.c): nothing is left behind, however the disk changed
\* while the scan went on, and the INSERT for which a row was put in cannot be refused.
THEOREM LibraryNoOrphans == Spec => []NoOrphans
<1>1. Init => TagInv /\ NoneYet /\ Sighted /\ OrphanInv
  <2>1. Down.pc = "down" /\ NoFile.titles = {} /\ NoFile.artists = {} /\ NoFile.albums = {}
    BY DEF Down, NoFile, EmptyDatabase
  <2>2. Init => TagInv
    BY <2>1 DEF Init, TagInv, Agree, FirstLife
  <2>3. Init => OrphanInv
    BY <2>1 DEF Init, OrphanInv, FirstScan, Walking, InFile
  <2>4. Init => NoneYet
    BY DEF Init, NoneYet, NoFile, EmptyDatabase
  <2>5. Init => Sighted
    BY DEF Init, Sighted
  <2>. QED  BY <2>2, <2>3, <2>4, <2>5
<1>2. LiveInv /\ OrphanInv => NoOrphans
  BY DEF LiveInv, OrphanInv, NoTrouble, ArtistUsed, AlbumUsed, NoOrphans, Walking
<1>3. TypeInv /\ IdsInv /\ WalkInv /\ TagInv /\ NoneYet /\ Sighted /\ OrphanInv /\ [Next]_vars
        => (TagInv /\ NoneYet /\ Sighted /\ OrphanInv)'
  BY TagsNext, NoneYetNext, SightedNext, OrphansNext
<1>. QED  BY <1>1, <1>2, <1>3, IdsAlways, PlacesAlways, PTL DEF Spec

-----------------------------------------------------------------------------
(***************************************************************************)
(* Titles keep their ids.  In a quiet scan the row of a file that is still *)
(* there is found again and marked; it is found by the id of its folder,   *)
(* so no folder may have two rows.                                         *)
(***************************************************************************)
OneFolder(d) == \A p, q \in d.paths : p.name = q.name => p = q

\* The folder of each folder has a row, and not an older one.
Rooted(d) == \A p \in d.paths : FolderIn(d.paths, p.version, In[p.name], p.parent)

NewFolders(U) == \A p \in db.paths : p.name \notin U

FirstFolders ==
  state = "CREATINGDB" =>
    /\ scan.pc \in {"sample", "settle", "begin"} => db.paths = {}
    /\ scan.pc \in Walking => \E U \in SUBSET Names : Walked(U) /\ NewFolders(U)

\* The titles readers see during a scan are in the scanner's table too.
StillThere ==
  scan.pc \in Walking \cup {"end"} => \A t \in live.titles : \E u \in db.titles : SameTitle(t, u)

KeepInv ==
  NoTrouble => ~ahead /\ OneFolder(db) /\ Rooted(db) /\ FirstFolders /\ StillThere

LEMMA FolderNewer ==
  ASSUME NEW rows, NEW more, NEW v \in Nat,
         \A p \in rows : p.version \in Nat /\ \E q \in more :
            SamePath(p, q) /\ q.version \in Nat /\ q.version >= p.version,
         NEW d, NEW id, FolderIn(rows, v, d, id)
  PROVE  FolderIn(more, v, d, id)
<1>1. CASE d = Root
  BY <1>1 DEF FolderIn
<1>2. CASE d # Root
  <2>1. PICK p \in rows : p.name = d /\ p.id = id /\ p.version >= v
    BY <1>2 DEF FolderIn
  <2>2. PICK q \in more : SamePath(p, q) /\ q.version \in Nat /\ q.version >= p.version
    BY <2>1
  <2>3. q.name = d /\ q.id = id /\ q.version >= v
    BY <2>1, <2>2 DEF SamePath
  <2>. QED  BY <1>2, <2>3 DEF FolderIn
<1>. QED  BY <1>1, <1>2

\* A folder that has one row leads to one id.
LEMMA OneId ==
  ASSUME NEW d, OneFolder(d), NEW v, NEW w, NEW n, NEW i, NEW j,
         FolderIn(d.paths, v, n, i), FolderIn(d.paths, w, n, j)
  PROVE  i = j
BY DEF OneFolder, FolderIn

\* The first scan has no row for a folder still to come, a later one looks for it: either
\* way the row that is put in is the folder's only one.
LEMMA NoSuchFolder ==
  ASSUME TypeInv, WalkInv, OneFolder(db), Rooted(db), FirstFolders,
         state \in {"CREATINGDB", "UPDATINGDB"}, NEW n \in Names, NewDir(n)
  PROVE  \A p \in db.paths : p.name # n
<1>1. scan.pc = "walk" /\ scan.pc \in Walking /\ Visit(n)
  BY DEF NewDir, Visits, Walking, Visit
<1>2. CASE state = "CREATINGDB"
  <2>1. PICK U \in SUBSET Names : Walked(U) /\ NewFolders(U)
    BY <1>1, <1>2 DEF FirstFolders
  <2>2. n \in U
    BY <1>1, <2>1, WalkedVisit
  <2>. QED  BY <2>1, <2>2 DEF NewFolders
<1>3. CASE state = "UPDATINGDB"
  <2>1. PICK id, d, v : id = Top.id /\ d = Top.dir /\ v = scan.dbVersion
    OBVIOUS
  <2>2. In[n] = d
    <3>1. PICK U \in SUBSET Names : Walked(U)
      BY <1>1 DEF WalkInv
    <3>. QED  BY <1>1, <2>1, <3>1, WalkedVisit
  <2>3. FolderIn(db.paths, v, d, id)
    BY <1>1, <2>1, TopFolder DEF FolderOf
  <2>4. PathsOf(db, id, n) = {}
    BY <1>3, <2>1 DEF NewDir, Marked
  <2>5. ASSUME NEW p \in db.paths, p.name = n PROVE FALSE
    <3>1. PICK w, j : w = p.version /\ j = p.parent
      OBVIOUS
    <3>2. FolderIn(db.paths, w, d, j)
      BY <2>2, <2>5, <3>1 DEF Rooted
    <3>3. j = id
      BY <2>3, <3>2, OneId
    <3>. QED  BY <2>4, <2>5, <3>1, <3>3 DEF PathsOf
  <2>. QED  BY <2>5
<1>. QED  BY <1>2, <1>3

\* A row that gets the number of the scan stays the folder's only one.
LEMMA OneFolderVisit ==
  ASSUME TypeInv, WalkInv, OneFolder(db), Rooted(db), FirstFolders,
         state \in {"CREATINGDB", "UPDATINGDB"}, NEW n \in Names, Visit(n)
  PROVE  OneFolder(db')
<1>1. CASE MarkDir(n) \/ MarkDirNoId(n)
  <2> DEFINE known == PathsOf(db, Top.id, n)
             marked(o) == [o EXCEPT !.version = scan.dbVersion]
  <2>1. db' = [db EXCEPT !.paths = Touch(@, known, scan.dbVersion)]
    BY <1>1 DEF MarkDir, MarkDirNoId, Write
  <2>2. db'.paths = (db.paths \ known) \cup {marked(o) : o \in known}
    BY <2>1, IdNumbers DEF Touch, Database
  <2>3. known \subseteq db.paths
    BY DEF PathsOf
  <2>4. \A o \in known : marked(o).name = o.name
    BY <2>3 DEF TypeInv, TypeOK, Database, PathRow
  <2> HIDE DEF known, marked
  <2>5. ASSUME NEW p \in db'.paths, NEW q \in db'.paths, p.name = q.name
        PROVE  p = q
    <3>1. PICK o \in db.paths : o.name = p.name /\ ((o \notin known /\ p = o) \/ (o \in known /\ p = marked(o)))
      BY <2>2, <2>3, <2>4
    <3>2. PICK r \in db.paths : r.name = q.name /\ ((r \notin known /\ q = r) \/ (r \in known /\ q = marked(r)))
      BY <2>2, <2>3, <2>4
    <3>3. o = r
      BY <2>5, <3>1, <3>2 DEF OneFolder
    <3>. QED  BY <3>1, <3>2, <3>3
  <2>. QED  BY <2>5 DEF OneFolder
<1>2. CASE NewDir(n)
  <2>1. PICK row : row = [id |-> scan.highest.paths + 1, parent |-> Top.id, name |-> n,
                          version |-> scan.dbVersion]
    OBVIOUS
  <2>2. db' = [db EXCEPT !.paths = @ \cup {row}]
    BY <1>2, <2>1 DEF NewDir, Write
  <2>3. db'.paths = db.paths \cup {row} /\ row.name = n
    BY <2>1, <2>2, IdNumbers DEF Database
  <2>4. \A p \in db.paths : p.name # n
    BY <1>2, NoSuchFolder
  <2>. QED  BY <2>3, <2>4 DEF OneFolder
<1>3. CASE PassOver(n) \/ NewFile(n) \/ MarkFails(n) \/ NewDirFails(n)
  <2>1. db' = db
    BY <1>3 DEF PassOver, NewFile, MarkFails, NewDirFails, tables
  <2>. QED  BY <2>1
<1>4. CASE MarkFile(n)
  <2>1. PICK looks \in Contents :
          db' = [db EXCEPT !.titles = Touch(@, TitlesOf(db, looks, Top.id, n), scan.dbVersion)]
    BY <1>4 DEF MarkFile, Write
  <2>2. TitlesOf(db, looks, Top.id, n) \in SUBSET db.titles
    BY DEF TitlesOf
  <2>3. db'.paths = db.paths
    BY <2>1, <2>2, TitlesMarked
  <2>. QED  BY <2>3 DEF OneFolder
<1>. QED  BY <1>1, <1>2, <1>3, <1>4 DEF Visit

LEMMA RootedVisit ==
  ASSUME TypeInv, WalkInv, Rooted(db), \A r \in db.paths : r.version <= scan.dbVersion,
         NEW n \in Names, Visit(n)
  PROVE  Rooted(db')
<1>1. scan.pc \in Walking /\ scan.dbVersion \in Nat /\ \A p \in db.paths : p.version \in Nat
  BY VisitIn, Versions DEF Walking
<1>2. PICK v, id, d : v = scan.dbVersion /\ id = Top.id /\ d = Top.dir
  OBVIOUS
<1>3. /\ \A p \in db.paths : \E q \in db'.paths : SamePath(p, q) /\ (q = p \/ q.version = v)
      /\ \A q \in db'.paths : q \in db.paths \/ (q.version = v /\ q.parent = id /\ q.name = n)
  BY <1>2, VisitPaths
<1>4. PICK rows, more : rows = db.paths /\ more = db'.paths
  OBVIOUS
<1>5. \A p \in rows : p.version \in Nat /\ \E q \in more :
         SamePath(p, q) /\ q.version \in Nat /\ q.version >= p.version
  BY <1>1, <1>2, <1>3, <1>4
<1>6. In[n] = d /\ FolderIn(rows, v, d, id)
  <2>1. PICK U \in SUBSET Names : Walked(U)
    BY <1>1 DEF WalkInv
  <2>2. In[n] = d
    BY <1>2, <2>1, WalkedVisit
  <2>. QED  BY <1>1, <1>2, <1>4, <2>2, TopFolder DEF FolderOf
<1>7. ASSUME NEW q \in more PROVE FolderIn(more, q.version, In[q.name], q.parent)
  <2>1. CASE q \in rows
    <3>1. PICK w, e, i : w = q.version /\ e = In[q.name] /\ i = q.parent
      OBVIOUS
    <3>2. FolderIn(rows, w, e, i) /\ w \in Nat
      BY <1>1, <1>4, <2>1, <3>1 DEF Rooted
    <3>3. FolderIn(more, w, e, i)
      BY <1>5, <3>2, FolderNewer
    <3>. QED  BY <3>1, <3>3
  <2>2. CASE q.version = v /\ q.parent = id /\ q.name = n
    <3>1. FolderIn(more, v, d, id)
      BY <1>1, <1>2, <1>5, <1>6, FolderNewer
    <3>. QED  BY <1>6, <2>2, <3>1
  <2>. QED  BY <1>3, <1>4, <2>1, <2>2
<1>. QED  BY <1>4, <1>7 DEF Rooted

LEMMA KeepVisit ==
  ASSUME TypeInv, WalkInv, PathInv, OrphanInv, KeepInv, NoTrouble, NEW n \in Names, Visit(n)
  PROVE  KeepInv'
<1>1. /\ scan.pc = "walk" /\ scan.pc \in Walking /\ scan.pc \notin InFile
      /\ scan'.pc \in {"walk", "tags"} /\ state' = state /\ ahead' = ahead /\ live' \in {live, db'}
      /\ state \in {"CREATINGDB", "UPDATINGDB"}
      /\ ~ahead /\ OneFolder(db) /\ Rooted(db) /\ FirstFolders /\ StillThere
      /\ \A r \in db.paths : r.version <= scan.dbVersion
  BY VisitIn DEF shared, Walking, InFile, OrphanInv, KeepInv, PathInv
<1>2. OneFolder(db') /\ Rooted(db')
  BY <1>1, OneFolderVisit, RootedVisit
<1>3. /\ \A t \in db.titles : \E u \in db'.titles : SameTitle(t, u)
      /\ \A u \in db'.titles : \E t \in db.titles : SameTitle(t, u)
  BY VisitTitles
<1>4. StillThere'
  <2>1. \A t : SameTitle(t, t)
    BY DEF SameTitle
  <2>2. \A t \in live.titles : \E u \in db'.titles : SameTitle(t, u)
    <3>1. \A t \in live.titles : \E u \in db.titles : SameTitle(t, u)
      BY <1>1 DEF StillThere
    <3>2. \A t, u, w : SameTitle(t, u) /\ SameTitle(u, w) => SameTitle(t, w)
      BY DEF SameTitle
    <3>. QED  BY <1>3, <3>1, <3>2
  <2>. QED  BY <1>1, <2>1, <2>2 DEF StillThere
<1>6. FirstFolders'
  <2>1. ASSUME state = "CREATINGDB"
        PROVE  \E U \in SUBSET Names : Walked(U)' /\ NewFolders(U)'
    <3>1. PICK U \in SUBSET Names : Walked(U) /\ NewFolders(U)
      BY <1>1, <2>1 DEF FirstFolders
    <3>2. Walked(U \ {n})'
      BY <3>1, WalkedVisit
    <3>3. NewFolders(U \ {n})'
      BY <3>1, VisitPaths DEF NewFolders
    <3>. QED  BY <3>2, <3>3
  <2>. QED  BY <1>1, <2>1 DEF FirstFolders
<1>. QED  BY <1>1, <1>2, <1>4, <1>6 DEF KeepInv

\* Between two walks rows only go, and a folder that goes leaves none behind that lies in it.
LEMMA RootedRest ==
  ASSUME TypeInv, OneFolder(db), Rooted(db), Rest
  PROVE  OneFolder(db') /\ Rooted(db')
<1>1. CASE DropPaths
  <2>1. PICK v : v = scan.dbVersion
    OBVIOUS
  <2>2. v \in Nat /\ \A p \in db.paths : p.version \in Nat
    BY <2>1, Versions
  <2>3. db'.paths = db.paths \ Stale(db.paths, v)
    BY <1>1, <2>1, DropPathsDoes
  <2>4. \A p \in db.paths : p \in db'.paths <=> p.version >= v
    BY <2>2, <2>3 DEF Stale
  <2>5. ASSUME NEW p \in db'.paths
        PROVE  FolderIn(db'.paths, p.version, In[p.name], p.parent)
    <3>1. p \in db.paths /\ p.version >= v
      BY <2>3, <2>4, <2>5
    <3>2. FolderIn(db.paths, p.version, In[p.name], p.parent)
      BY <3>1 DEF Rooted
    <3>3. CASE In[p.name] = Root
      BY <3>2, <3>3 DEF FolderIn
    <3>4. CASE In[p.name] # Root
      <4>1. PICK q \in db.paths : q.name = In[p.name] /\ q.id = p.parent /\ q.version >= p.version
        BY <3>2, <3>4 DEF FolderIn
      <4>2. q \in db'.paths
        BY <2>2, <2>4, <3>1, <4>1
      <4>. QED  BY <3>4, <4>1, <4>2 DEF FolderIn
    <3>. QED  BY <3>3, <3>4
  <2>6. db'.paths \subseteq db.paths
    BY <2>3
  <2>. QED  BY <2>5, <2>6 DEF Rooted, OneFolder
<1>2. CASE ~DropPaths
  <2>1. db'.paths = db.paths
    BY <1>2, RestTables, DropTitlesDoes
  <2>. QED  BY <2>1 DEF Rooted, OneFolder
<1>. QED  BY <1>1, <1>2

LEMMA KeepRest ==
  ASSUME TypeInv, KeepInv, LiveInv, NoTrouble, Rest
  PROVE  KeepInv'
<1>1. /\ scan.pc \notin Walking \cup {"down"} /\ scan'.pc \notin Walking \cup {"down"}
      /\ ahead' = ahead /\ live' = db' /\ db'.titles \subseteq db.titles
      /\ ~ahead /\ OneFolder(db) /\ Rooted(db) /\ FirstFolders
  BY RestDoes, RestKeeps, RestLive DEF Rest, KeepInv
<1>2. OneFolder(db') /\ Rooted(db')
  BY <1>1, RootedRest
<1>3. FirstFolders'
  <2>1. ASSUME state' = "CREATINGDB", scan'.pc \in {"sample", "settle", "begin"}
        PROVE  db'.paths = {}
    <3>1. state = "CREATINGDB" /\ scan.pc \in {"sample", "settle", "begin"}
      BY <2>1, RestCreating
    <3>2. db.paths = {}
      BY <1>1, <3>1 DEF FirstFolders
    <3>3. db'.paths = db.paths
      BY <3>1, RestTables, DropTitlesDoes, DropPathsDoes
    <3>. QED  BY <3>2, <3>3
  <2>. QED  BY <1>1, <2>1 DEF FirstFolders
<1>4. StillThere'
  <2>1. \A t : SameTitle(t, t)
    BY DEF SameTitle
  <2>. QED  BY <1>1, <2>1 DEF StillThere
<1>. QED  BY <1>1, <1>2, <1>3, <1>4 DEF KeepInv

LEMMA KeepLookUp ==
  ASSUME TypeInv, KeepInv, NoTrouble, LookUp
  PROVE  KeepInv'
<1>1. /\ scan.pc \in InFile /\ scan'.pc \in InFile /\ scan.pc \in Walking /\ scan'.pc \in Walking
      /\ scan'.pc \notin {"sample", "settle", "begin"}
      /\ scan'.stack = scan.stack /\ scan'.dbVersion = scan.dbVersion
      /\ scan'.track.name = scan.track.name /\ scan'.track.stamp = scan.track.stamp
      /\ db'.titles = db.titles /\ db'.paths = db.paths /\ live' \in {live, db'}
      /\ state' = state /\ ahead' = ahead
  BY LookUpDoes DEF LookUp, InFile, Walking, shared
<1>2. ~ahead /\ OneFolder(db) /\ Rooted(db) /\ FirstFolders /\ StillThere
  BY DEF KeepInv
<1>3. OneFolder(db') /\ Rooted(db')
  BY <1>1, <1>2 DEF OneFolder, Rooted
<1>4. FirstFolders'
  <2>1. \A U : Walked(U) => Walked(U)'
    BY <1>1, WalkedOn
  <2>2. \A U : NewFolders(U) => NewFolders(U)'
    BY <1>1 DEF NewFolders
  <2>. QED  BY <1>1, <1>2, <2>1, <2>2 DEF FirstFolders
<1>5. StillThere'
  <2>1. \A t : SameTitle(t, t)
    BY DEF SameTitle
  <2>. QED  BY <1>1, <1>2, <2>1 DEF StillThere
<1>. QED  BY <1>1, <1>2, <1>3, <1>4, <1>5 DEF KeepInv

LEMMA KeepTags ==
  ASSUME TypeInv, KeepInv, NoTrouble, Tags
  PROVE  KeepInv'
<1>1. /\ scan.pc = "tags" /\ scan'.pc \in {"walk", "artist"} /\ state' = state /\ ahead' = ahead
      /\ scan.pc \in InFile /\ scan.pc \in Walking /\ db' = db /\ live' = live
      /\ scan'.stack = scan.stack /\ scan'.dbVersion = scan.dbVersion
      /\ scan'.pc = "artist" => scan'.track.name = scan.track.name
  BY TagsDoes DEF InFile, Walking, shared
<1>2. ~ahead /\ OneFolder(db) /\ Rooted(db) /\ FirstFolders /\ StillThere
  BY DEF KeepInv
<1>3. FirstFolders'
  <2>1. \A U : Walked(U) => Walked(U)'
    BY <1>1, WalkedOn DEF InFile
  <2>2. \A U : NewFolders(U) => NewFolders(U)'
    BY <1>1 DEF NewFolders
  <2>. QED  BY <1>1, <1>2, <2>1, <2>2 DEF FirstFolders
<1>4. StillThere'
  BY <1>1, <1>2 DEF StillThere
<1>. QED  BY <1>1, <1>2, <1>3, <1>4 DEF KeepInv

LEMMA KeepInsert ==
  ASSUME TypeInv, KeepInv, NoTrouble, InsertTitle
  PROVE  KeepInv'
<1>1. PICK row : row = NewTitle
  OBVIOUS
<1>2. /\ scan.pc \in InFile /\ scan.pc \in Walking /\ scan'.pc = "walk" /\ scan'.stack = scan.stack
      /\ scan'.dbVersion = scan.dbVersion /\ state' = state /\ ahead' = ahead
      /\ db'.titles = db.titles \cup {row} /\ db'.paths = db.paths /\ live' \in {live, db'}
      /\ row.name = scan.track.name /\ row.stamp = scan.track.stamp
  BY <1>1, InsertDoes DEF InFile, Walking, shared, history
<1>3. ~ahead /\ OneFolder(db) /\ Rooted(db) /\ FirstFolders /\ StillThere
  BY DEF KeepInv
<1>4. OneFolder(db') /\ Rooted(db')
  BY <1>2, <1>3 DEF OneFolder, Rooted
<1>5. FirstFolders'
  <2>1. \A U : Walked(U) => Walked(U)'
    BY <1>2, WalkedOn DEF InFile
  <2>2. \A U : NewFolders(U) => NewFolders(U)'
    BY <1>2 DEF NewFolders
  <2>. QED  BY <1>2, <1>3, <2>1, <2>2 DEF FirstFolders
<1>6. StillThere'
  <2>1. \A t : SameTitle(t, t)
    BY DEF SameTitle
  <2>. QED  BY <1>2, <1>3, <2>1 DEF StillThere
<1>. QED  BY <1>2, <1>3, <1>4, <1>5, <1>6 DEF KeepInv

LEMMA KeepInsertFails ==
  ASSUME TypeInv, KeepInv, NoTrouble, InsertTitleFails
  PROVE  KeepInv'
<1>1. /\ scan.pc = "title" /\ scan.pc \in InFile /\ scan.pc \in Walking /\ scan.stack # <<>>
      /\ scan'.pc = "walk" /\ scan'.stack = GivenUp /\ scan'.dbVersion = scan.dbVersion
      /\ db' = db /\ live' = live /\ state' = state /\ ahead' = ahead
  BY InsertFailsDoes, InsertFailsLeaves DEF InFile, Walking, shared
<1>2. ~ahead /\ OneFolder(db) /\ Rooted(db) /\ FirstFolders /\ StillThere
  BY DEF KeepInv
<1>3. FirstFolders'
  <2>1. \A U \in SUBSET Names : Walked(U) => Walked(U)'
    BY <1>1, WalkedGivenUp
  <2>2. \A U : NewFolders(U) => NewFolders(U)'
    BY <1>1 DEF NewFolders
  <2>. QED  BY <1>1, <1>2, <2>1, <2>2 DEF FirstFolders
<1>4. StillThere'
  BY <1>1, <1>2 DEF StillThere
<1>. QED  BY <1>1, <1>2, <1>3, <1>4 DEF KeepInv

LEMMA KeepLeave ==
  ASSUME TypeInv, KeepInv, NoTrouble, LeaveDir
  PROVE  KeepInv'
<1>1. /\ scan.pc = "walk" /\ scan.pc \in Walking /\ scan'.pc \in {"walk", "end"}
      /\ db' = db /\ live' = live /\ state' = state /\ ahead' = ahead
  BY LeftDoes DEF LeaveDir, tables, shared, history, Walking
<1>2. ~ahead /\ OneFolder(db) /\ Rooted(db) /\ FirstFolders /\ StillThere
  BY DEF KeepInv
<1>3. FirstFolders'
  <2>1. \A U \in SUBSET Names : Walked(U) => Walked(U)'
    BY WalkedLeave
  <2>2. \A U : NewFolders(U) => NewFolders(U)'
    BY <1>1 DEF NewFolders
  <2>. QED  BY <1>1, <1>2, <2>1, <2>2 DEF FirstFolders
<1>4. StillThere'
  BY <1>1, <1>2 DEF StillThere
<1>. QED  BY <1>1, <1>2, <1>3, <1>4 DEF KeepInv

LEMMA KeepBegin ==
  ASSUME TypeInv, KeepInv, LiveInv, NoTrouble, Begin
  PROVE  KeepInv'
<1>1. /\ scan.pc = "begin" /\ scan'.pc \in {"walk", "end"}
      /\ db' = db /\ live' = live /\ ahead' = ahead /\ live = db
      /\ state' = IF state = "CREATINGDB" THEN state ELSE "UPDATINGDB"
  BY BeginDoes DEF LiveInv, Walking
<1>2. ~ahead /\ OneFolder(db) /\ Rooted(db) /\ FirstFolders
  BY DEF KeepInv
<1>3. FirstFolders'
  <2>1. ASSUME state' = "CREATINGDB", scan'.pc = "walk"
        PROVE  Walked(Names)' /\ NewFolders(Names)'
    <3>1. db.paths = {}
      BY <1>1, <1>2, <2>1 DEF FirstFolders
    <3>2. Walked(Names)'
      BY <2>1, WalkedBegin
    <3>. QED  BY <1>1, <3>1, <3>2 DEF NewFolders
  <2>. QED  BY <1>1, <2>1 DEF FirstFolders, Walking
<1>4. StillThere'
  <2>1. \A t : SameTitle(t, t)
    BY DEF SameTitle
  <2>. QED  BY <1>1, <2>1 DEF StillThere
<1>. QED  BY <1>1, <1>2, <1>3, <1>4 DEF KeepInv

LEMMA KeepStart ==
  ASSUME TypeInv, TagInv, NoneYet, KeepInv, NoTrouble, ~Used("failure"), Start
  PROVE  KeepInv'
<1>1. scan.pc = "down" /\ (StartNew \/ StartAgain)
  BY StartDoes DEF Start, StartNewFails, StartAgainFails
<1>2. live.file = "none" /\ saved.file = "none"
  BY <1>1 DEF TagInv, FirstLife, NoneYet, NoFile, EmptyDatabase, NoTrouble
<1>3. StartNew
  BY <1>1, <1>2 DEF StartAgain, Restored
<1>4. scan'.pc = "sample" /\ db' = EmptyDatabase /\ ahead' = ahead
  BY <1>3, StartDoes DEF StartNew, Start, history
<1>5. EmptyDatabase.titles = {} /\ EmptyDatabase.paths = {}
  BY DEF EmptyDatabase
<1>6. ~ahead
  BY DEF KeepInv
<1>. QED  BY <1>4, <1>5, <1>6 DEF KeepInv, OneFolder, Rooted, FirstFolders, StillThere, Walking

LEMMA KeepNext ==
  /\ TypeInv /\ WalkInv /\ TagInv /\ NoneYet /\ OrphanInv /\ PathInv /\ LiveInv /\ KeepInv
  /\ [Next]_vars
  => KeepInv'
<1>. SUFFICES ASSUME TypeInv, WalkInv, TagInv, NoneYet, OrphanInv, PathInv, LiveInv, KeepInv,
                     [Next]_vars, NoTrouble'
              PROVE  KeepInv'
  BY DEF KeepInv
<1>0. NoTrouble /\ ~Used("failure") /\ ~(\E machine \in BOOLEAN : Crash(machine))
  BY NoTroubleNext
<1>1. CASE Start
  BY <1>0, <1>1, KeepStart
<1>9. CASE Tags
  BY <1>0, <1>9, KeepTags
<1>2. CASE \E n \in Names : Visit(n)
  BY <1>0, <1>2, KeepVisit
<1>3. CASE LookUp
  BY <1>0, <1>3, KeepLookUp
<1>4. CASE InsertTitle \/ InsertTitleFails
  BY <1>0, <1>4, KeepInsert, KeepInsertFails
<1>5. CASE LeaveDir
  BY <1>0, <1>5, KeepLeave
<1>6. CASE Begin
  BY <1>0, <1>6, KeepBegin
<1>7. CASE Rest
  BY <1>0, <1>7, KeepRest
<1>8. CASE DiskStep \/ UNCHANGED vars
  <2>1. UNCHANGED <<scan, db, live, state, ahead>>
    BY <1>8 DEF DiskStep, PutFile, RemoveFile, MakeDir, MoveDirAway, ChangeTo, tables, shared, vars
  <2>2. /\ \A U : Walked(U) => Walked(U)'
        /\ \A U : NewFolders(U) => NewFolders(U)'
    BY <2>1 DEF Walked, FolderOf, Top, NewFolders
  <2>3. FirstFolders => FirstFolders'
    BY <2>1, <2>2 DEF FirstFolders
  <2>4. StillThere => StillThere'
    BY <2>1 DEF StillThere
  <2>. QED  BY <1>0, <2>1, <2>3, <2>4 DEF KeepInv
<1>. QED  BY <1>0, <1>1, <1>2, <1>3, <1>4, <1>5, <1>6, <1>7, <1>8, <1>9, Steps DEF Next

\* A title readers see, of a file that is there, stays or is found again.
LEMMA KeptInScan ==
  ASSUME StillThere, scan.pc \in Walking \cup {"end"}, live' \in {live, db, db'},
         live' = db' => \A t \in db.titles : \E u \in db'.titles : SameTitle(t, u),
         NEW t \in live.titles
  PROVE  \E u \in live'.titles : u.id = t.id /\ u.name = t.name
<1>1. PICK o \in db.titles : SameTitle(t, o)
  BY DEF StillThere
<1>2. CASE live' = live
  BY <1>2
<1>3. CASE live' = db
  BY <1>1, <1>3 DEF SameTitle
<1>4. CASE live' = db'
  <2>1. PICK u \in db'.titles : SameTitle(o, u)
    BY <1>4
  <2>. QED  BY <1>1, <1>4, <2>1 DEF SameTitle
<1>. QED  BY <1>2, <1>3, <1>4

\* The title of a file that is there has the number of the scan that saw it.
LEMMA KeptInRemoval ==
  ASSUME TypeInv, LiveInv, CoverInv, UniqueInv, KeepInv, NoTrouble, DropTitles, steady',
         NEW t \in live.titles, Music(t.name), disk[t.name] = t.stamp,
         t.parent \in IdOf(In[t.name], live.paths)
  PROVE  \E u \in live'.titles : u.id = t.id /\ u.name = t.name
<1>1. PICK v, n, d : v = scan.dbVersion /\ n = t.name /\ d = In[n]
  OBVIOUS
<1>2. /\ scan.pc = "titles" /\ live = db /\ live' = db' /\ steady
      /\ db'.titles = db.titles \ Stale(db.titles, v)
      /\ OneFolder(db) /\ Unique(db)
      /\ v \in Nat /\ \A r \in db.titles : r.version \in Nat
  BY <1>1, DropTitlesDoes, RestDoes, RestLive, Versions
     DEF LiveInv, Rest, KeepInv, UniqueInv, Walking
<1>3. n \in Names /\ Music(n)
  BY <1>1 DEF Music, IsMusic, Names
<1>4. PICK u \in db.titles : u.name = n /\ u.stamp = disk[n] /\ u.version >= v /\ FolderOf(d, u.parent)
  <2>1. Known(n)
    BY <1>2, <1>3 DEF CoverInv
  <2>. QED  BY <1>1, <2>1 DEF Known
<1>5. t.parent = u.parent
  <2>1. FolderIn(db.paths, v, d, u.parent)
    BY <1>1, <1>4 DEF FolderOf
  <2>2. t.parent \in IdOf(d, db.paths)
    BY <1>1, <1>2
  <2>. QED  BY <1>2, <2>1, <2>2 DEF FolderIn, IdOf, OneFolder
<1>6. t = u
  BY <1>1, <1>2, <1>4, <1>5 DEF Unique
<1>. QED  BY <1>1, <1>2, <1>4, <1>6 DEF Stale

LEMMA TitlesKept ==
  ASSUME TypeInv, TagInv, LiveInv, CoverInv, UniqueInv, KeepInv, [Next]_vars,
         NoTrouble', steady',
         NEW t \in live.titles, Music(t.name), disk[t.name] = t.stamp,
         t.parent \in IdOf(In[t.name], live.paths)
  PROVE  \E u \in live'.titles : u.id = t.id /\ u.name = t.name
<1>0. /\ NoTrouble /\ ~(\E machine \in BOOLEAN : Crash(machine)) /\ StillThere
  BY NoTroubleNext DEF KeepInv
<1>1. CASE Start
  <2>1. scan.pc = "down"
    BY <1>1, StartDoes
  <2>2. live.titles = {}
    BY <1>0, <2>1 DEF TagInv, FirstLife, NoTrouble, CutOff, NoFile, EmptyDatabase
  <2>. QED  BY <2>2
<1>2. ASSUME NEW n \in Names, Visit(n)
      PROVE  \E u \in live'.titles : u.id = t.id /\ u.name = t.name
  <2>1. scan.pc \in Walking /\ live' \in {live, db'}
    BY <1>2, VisitIn DEF Walking
  <2>2. \A o \in db.titles : \E u \in db'.titles : SameTitle(o, u)
    BY <1>2, VisitTitles
  <2>. QED  BY <1>0, <2>1, <2>2, KeptInScan
<1>3. CASE LookUp \/ InsertTitle
  <2>1. scan.pc \in Walking /\ live' \in {live, db'} /\ db.titles \subseteq db'.titles
    BY <1>3, LookUpDoes, InsertDoes DEF LookUp, Walking
  <2>2. \A o : SameTitle(o, o)
    BY DEF SameTitle
  <2>. QED  BY <1>0, <2>1, <2>2, KeptInScan
<1>4. CASE InsertTitleFails \/ Tags \/ LeaveDir \/ Begin \/ DiskStep \/ UNCHANGED vars
  <2>1. live' = live
    BY <1>4, InsertFailsLeaves, TagsDoes, BeginDoes DEF LeaveDir, DiskStep, PutFile, RemoveFile, MakeDir,
       MoveDirAway, ChangeTo, tables, vars
  <2>. QED  BY <2>1
<1>5. CASE EndWalk
  <2>1. scan.pc = "end" /\ live' = db /\ db' = db
    BY <1>5 DEF EndWalk
  <2>2. \A o : SameTitle(o, o)
    BY DEF SameTitle
  <2>. QED  BY <1>0, <2>1, <2>2, KeptInScan
<1>6. CASE DropTitles
  BY <1>0, <1>6, KeptInRemoval
<1>7. CASE Rest /\ ~EndWalk /\ ~DropTitles
  <2>1. live' = db' /\ db'.titles = db.titles
    BY <1>7, RestLive, RestTables, DropPathsDoes
  <2>2. live = db
    <3>1. scan.pc # "end"
      BY <1>7 DEF Rest, SampleSame, SampleChanged, Settle, DropPaths, DropArtist, ArtistsDropped,
         DropAlbum, AlbumsDropped, DropFails, Announce, NothingToAnnounce, CopyDone, SaveSize,
         SaveCounter
    <3>. QED  BY <1>7, <3>1, RestDoes DEF Rest, LiveInv
  <2>. QED  BY <2>1, <2>2
<1>. QED  BY <1>0, <1>1, <1>2, <1>3, <1>4, <1>5, <1>6, <1>7, Steps DEF Next

\* While nothing fails, a title whose file is left where it is keeps its row through every step
\* of a scan, whoever reads (mps_librarydb_traverse_directory and remove_stale_entries,
\* mps-librarydbd.c): the file is looked up by the id of its folder, its folder keeps its own
\* row and id from scan to scan, and so the title's id in playlists stays good.
THEOREM LibraryTitlesKeepIds == Spec => TitlesKeepIds
<1> DEFINE Inv == /\ TypeInv /\ IdsInv /\ WalkInv /\ TreeInv /\ LiveInv /\ PathInv
                  /\ CoverInv /\ UniqueInv /\ TagInv /\ NoneYet /\ Sighted /\ OrphanInv
                  /\ KeepInv
<1>1. Init => /\ PathInv /\ CoverInv /\ UniqueInv /\ TagInv /\ NoneYet /\ Sighted
              /\ OrphanInv /\ KeepInv
  <2>1. /\ Down.pc = "down" /\ NoFile.titles = {} /\ NoFile.paths = {}
        /\ NoFile.artists = {} /\ NoFile.albums = {}
    BY DEF Down, NoFile, EmptyDatabase
  <2>2. Init => PathInv /\ CoverInv /\ UniqueInv
    BY <2>1 DEF Init, PathInv, Parented, CoverInv, UniqueInv, Unique
  <2>3. Init => TagInv
    BY <2>1 DEF Init, TagInv, Agree, FirstLife
  <2>4. Init => OrphanInv
    BY <2>1 DEF Init, OrphanInv, FirstScan, Walking, InFile
  <2>5. Init => KeepInv
    BY <2>1 DEF Init, KeepInv, OneFolder, Rooted, FirstFolders, StillThere, Walking
  <2>6. Init => NoneYet
    BY DEF Init, NoneYet, NoFile, EmptyDatabase
  <2>7. Init => Sighted
    BY DEF Init, Sighted
  <2>. QED  BY <2>2, <2>3, <2>4, <2>5, <2>6, <2>7
<1>2. Inv /\ [Next]_vars
        => (/\ PathInv /\ CoverInv /\ UniqueInv /\ TagInv /\ NoneYet /\ Sighted
            /\ OrphanInv /\ KeepInv)'
  BY PathsNext, CoverNext, UniqueNext, TagsNext, NoneYetNext, SightedNext, OrphansNext, KeepNext
<1>3. Inv /\ [Next]_vars =>
        (spent'.failure = 0 /\ spent'.crash = 0 /\ steady' =>
           \A t \in live.titles :
             Music(t.name) /\ disk[t.name] = t.stamp
               /\ t.parent \in IdOf(In[t.name], live.paths) /\ HasPlace(t.name)
               => \E u \in live'.titles : u.id = t.id /\ u.name = t.name)
  BY TitlesKept DEF NoTrouble
<1>. QED  BY <1>1, <1>2, <1>3, IdsAlways, PlacesAlways, PTL DEF Spec, TitlesKeepIds
=============================================================================
