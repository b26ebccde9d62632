------------------------------ MODULE MCLibrary ------------------------------
(***************************************************************************)
(* The constants of the small instances of LibraryScan and LibraryQuery    *)
(* for TLC: a file in the media directory, and a folder with another one.  *)
(***************************************************************************)
EXTENDS Integers, FiniteSetsExt, TLC

CONSTANTS song, track, folder, media, a, b, c, text

MCFiles == {song, track}
MCDirs  == {folder}
MCIn    == [n \in {song, track, folder} |-> IF n = track THEN folder ELSE media]

\* a and c have the same tags, b and c the same album name of two artists.
MCContents == {a, b, c, text}
MCAudio    == {a, b, c}
MCArtistOf == [x \in MCAudio |-> IF x = b THEN "Bach" ELSE "Abba"]
MCAlbumOf  == [x \in MCAudio |-> "Hits"]
MCHolds    == [f \in MCFiles |-> IF f = song THEN {a, b} ELSE {c}]
MCNoise    == [f \in MCFiles |-> IF f = song THEN {a, b, text} ELSE {c}]

MCOne      == [f \in MCFiles |-> IF f = song THEN {b} ELSE {c}]

\* A title, all artists, an artist, an album, a folder.
MCAsked == {1, 100, 101, 201, 301}
MCMp3   == {track}

\* No two disks have the same free space.
MCSize(x) == CASE x = a -> 1 [] x = b -> 2 [] x = c -> 3 [] x = text -> 5 [] OTHER -> 0
MCFree == [t \in [MCFiles \cup MCDirs -> MCContents \cup {"directory", "absent"}] |->
             20 - MapThenSumSet(LAMBDA f : MCSize(t[f]), MCFiles)]
=============================================================================
