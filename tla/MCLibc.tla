------------------------------- MODULE MCLibc -------------------------------
(***************************************************************************)
(* An instance of Libc for TLC: strings of two letters, words of a byte,   *)
(* and fields narrower than, as wide as and wider than their numbers.      *)
(***************************************************************************)
EXTENDS Libc

TwoLetters == {0, 65, 66}
SomeWidths == {-4, -2, 0, 1, 3, 5}
=============================================================================
