------------------------------ MODULE KeyQueue ------------------------------
(***************************************************************************)
(* What the key buffer of kbd-handler.c promises the code that reads it: a *)
(* queue of a fixed capacity which, when it is full, makes room for a new  *)
(* byte by losing the oldest.                                              *)
(***************************************************************************)
EXTENDS Naturals, Sequences

CONSTANTS
    Bytes,       \* what the keyboard sends
    Capacity     \* the most bytes the queue keeps

VARIABLES
    queue,       \* the bytes nobody has taken yet, oldest first
    taken,       \* the byte that was taken last
    lost         \* what was lost last: nothing, the oldest byte or all

vars == <<queue, taken, lost>>

Init == queue = <<>> /\ taken \in Bytes /\ lost = "nothing"

Put ==
    /\ Len(queue) < Capacity
    /\ \E b \in Bytes : queue' = Append(queue, b)
    /\ UNCHANGED <<taken, lost>>

Overrun ==
    /\ Len(queue) = Capacity
    /\ \E b \in Bytes : queue' = Append(Tail(queue), b)
    /\ lost' = "oldest"
    /\ UNCHANGED taken

Take ==
    /\ queue # <<>>
    /\ taken' = Head(queue)
    /\ queue' = Tail(queue)
    /\ UNCHANGED lost

Flush ==
    /\ queue' = <<>>
    /\ lost' = IF queue = <<>> THEN lost ELSE "all"
    /\ UNCHANGED taken

Next == Put \/ Overrun \/ Take \/ Flush

Spec == Init /\ [][Next]_vars
=============================================================================
