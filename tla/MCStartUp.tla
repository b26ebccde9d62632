------------------------------ MODULE MCStartUp ------------------------------
(* A small instance of StartUp for TLC. *)
EXTENDS StartUp, TLC

CONSTANTS
  server, server2, tool, scanner, player, adder, adder2, adder3, setter1, setter2,
  mediaDir, other, old, new, broken

MCFirstFiles ==
  { << [name |-> other, value |-> old], [name |-> mediaDir, value |-> old],
       [name |-> other, value |-> old] >>,
    << [name |-> mediaDir, value |-> old], [name |-> broken, value |-> old],
       [name |-> other, value |-> old] >> }

\* A start as startup.sh makes it, with a page at work; a server started again; the region
\* initialised under a running server; the first adds; the configuration being changed.
MCCasts ==
  { {server, scanner, player, adder},
    {server, server2, scanner, player},
    {server, tool, scanner, player},
    {adder, adder2, adder3},
    {scanner, setter1, setter2} }
=============================================================================
