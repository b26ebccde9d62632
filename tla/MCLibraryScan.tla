--------------------------- MODULE MCLibraryScan ----------------------------
(* Small instances of the scanner for TLC. *)
EXTENDS LibraryScan, MCLibrary
=============================================================================
