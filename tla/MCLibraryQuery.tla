--------------------------- MODULE MCLibraryQuery ---------------------------
(* Small instances of the scanner with queries for TLC. *)
EXTENDS LibraryQuery, MCLibrary
=============================================================================
