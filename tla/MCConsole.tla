----------------------------- MODULE MCConsole ------------------------------
(***************************************************************************)
(* An instance of Console for TLC: two threads on a screen of two rows.    *)
(***************************************************************************)
EXTENDS Console

CONSTANTS idle, a

TwoWriters == {idle, a}
Letters == {"A"}
=============================================================================
