---------------------------- MODULE MCScheduler ----------------------------
(***************************************************************************)
(* Instances of Scheduler for TLC: the idle task and the tasks it or the   *)
(* others add, with the timer (line 0) and the keyboard (line 1), or with  *)
(* lines of every kind: a serial port's (3), the master's last (7) and the *)
(* clock's on the slave (8).                                               *)
(***************************************************************************)
EXTENDS Scheduler

CONSTANTS idle, a, b

ThreeTasks == {idle, a, b}
TwoTasks == {idle, a}
TimerAndKeyboard == {0, 1}
AllKinds == {0, 3, 7, 8}
=============================================================================
