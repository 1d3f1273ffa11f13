----------------------------- MODULE MCProcess -----------------------------
(***************************************************************************)
(* Instances of Process for TLC; its constants are numbers.                *)
(***************************************************************************)
EXTENDS Process
=============================================================================
