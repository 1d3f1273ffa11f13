-------------------------- MODULE MCPageAllocator --------------------------
(***************************************************************************)
(* Instances of PageAllocator for TLC.  WordBits is a proper divisor of    *)
(* NumFrames, so that bits share words and runs cross from one to the      *)
(* next.                                                                   *)
(***************************************************************************)
EXTENDS PageAllocator

CONSTANTS t1, t2

OneThread == {t1}
TwoThreads == {t1, t2}
=============================================================================
