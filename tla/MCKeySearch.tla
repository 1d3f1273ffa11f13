---------------------------- MODULE MCKeySearch ----------------------------
(***************************************************************************)
(* Instances of KeySearch for TLC: every sorted map of up to MaxLength     *)
(* entries, repeated codes included, and every code.                       *)
(***************************************************************************)
EXTENDS KeySearch

SmallCodes == 0 .. 6
=============================================================================
