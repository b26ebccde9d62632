------------------------------ MODULE MCPlayer ------------------------------
(***************************************************************************)
(* Small instances of Player for TLC.                                      *)
(***************************************************************************)
EXTENDS Player, TLC

CONSTANTS t1, t2, album, junk

MCTitles   == {t1, t2}
MCFolders  == {album}
MCOtherIds == {junk}
MCContents == [f \in MCFolders |-> <<t1, t2>>]
TwoTitles  == {<<t1, t2>>}
OneTitle   == {<<t1>>}
MCCounts   == {1, ALL}
NoSteps    == {}
One        == {1}

NoQueries  == {}
RowQuery   == {"row"}
AllQueries == {"advance", "recount", "row", "last", "lastrow", "count", "title", "expect"}

Cmd(op, skip) == [op |-> op, skip |-> skip]
Stop        == Cmd("stop", "absolute")
Pause       == Cmd("pause", "absolute")
Play(skip)  == Cmd("play", skip)
AllCommands == {Stop, Pause} \cup {Play(skip) : skip \in Skips}
NoCommands  == {}
PauseOrGo   == {Pause, Play("absolute")}
=============================================================================
