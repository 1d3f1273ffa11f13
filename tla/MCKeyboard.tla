----------------------------- MODULE MCKeyboard -----------------------------
(***************************************************************************)
(* The instance of Keyboard for TLC: two codes, each the code of a basic   *)
(* and of an extended key; one of the four keys is in no map.              *)
(***************************************************************************)
EXTENDS Keyboard

AllKeys == {"basic", "extended"} \X {1, 2}
AllButOne == AllKeys \ {<<"extended", 2>>}
Characters == {<<"basic", 1>>}
=============================================================================
