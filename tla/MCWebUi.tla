------------------------------- MODULE MCWebUi -------------------------------
(* A small instance of WebUi for TLC. *)
EXTENDS WebUi, TLC

CONSTANTS first, second

MCEntries == {first, second}
=============================================================================
