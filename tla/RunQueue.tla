------------------------------ MODULE RunQueue ------------------------------
(***************************************************************************)
(* What the scheduler of kernel/sched.c promises: the tasks take turns in  *)
(* the order in which they were added, and a new task is added behind all  *)
(* the others.                                                             *)
(***************************************************************************)
EXTENDS Naturals, Sequences

CONSTANTS
    Tasks,       \* the tasks there can be
    Idle         \* the task that is there from the start

VARIABLES
    queue,       \* the tasks in the order they were added
    turn         \* the place in queue of the task whose turn it is

vars == <<queue, turn>>

Init == queue = <<Idle>> /\ turn = 1

Append_(t) ==
    /\ \A i \in DOMAIN queue : queue[i] # t
    /\ queue' = Append(queue, t)
    /\ UNCHANGED turn

TakeTurn ==
    /\ turn' = IF turn = Len(queue) THEN 1 ELSE turn + 1
    /\ UNCHANGED queue

Next == TakeTurn \/ \E t \in Tasks : Append_(t)

Spec == Init /\ [][Next]_vars
=============================================================================
