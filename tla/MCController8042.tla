-------------------------- MODULE MCController8042 --------------------------
(***************************************************************************)
(* An instance of Controller8042 for TLC: the command byte with the        *)
(* interrupt on, as a firmware with a keyboard menu leaves it, with it     *)
(* off, and with the keyboard off too; the two bytes that Enter sends      *)
(* when it is released.                                                    *)
(***************************************************************************)
EXTENDS Controller8042

LeftByFirmware == {37, 36, 52}
EnterReleased == {240, 90}
=============================================================================
