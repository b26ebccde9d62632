---------------------------- MODULE MCPlaylistDb ----------------------------
(***************************************************************************)
(* Small instances of PlaylistDb for TLC.                                  *)
(***************************************************************************)
EXTENDS PlaylistDb, TLC

CONSTANTS t1, t2, album, junk

MCTitles   == {t1, t2}
MCFolders  == {album}
MCOtherIds == {junk}
MCContents == [f \in MCFolders |-> <<t1, t2>>]
MCRequests == {<<t1>>, <<junk, album>>}
MCPlaces   == MCRequests \cup {<<t2, album>>}
MCCounts   == {1, ALL}

\* Statements whose failure leaves nothing half done.
HarmlessSteps == {"count", "max", "next", "item", "rfirst", "rnext", "rdelete", "first", "row"}
AllSteps      == HarmlessSteps \cup {"insert", "rrelink"}
NoSteps       == {}
InsertStep    == {"insert"}

\* Only single titles, for runs about other things.
OneTitle == {<<t1>>}
=============================================================================
