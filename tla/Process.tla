------------------------------ MODULE Process ------------------------------
(***************************************************************************)
(* Creation of kernel threads, kernel/process.c: kernel_thread takes the   *)
(* next task_struct of a static array, builds the frame the thread starts  *)
(* from, and adds it to the run queue.  Any context may call it: the idle  *)
(* task or a thread that was created before.                               *)
(*                                                                         *)
(* The contexts are preemptive; Switch stands for what module Scheduler    *)
(* models in detail, and the critical section of add_task_to_run_queue is  *)
(* one step here, which that module's CriticalSections justifies.          *)
(***************************************************************************)
EXTENDS Integers, Sequences

CONSTANTS
    MaxThreads,  \* CONFIG_MAX_CREATE_THREADS
    MaxCalls     \* bound: calls of kernel_thread by one context

ASSUME ProcessAssumption ==
    /\ MaxThreads \in Nat \ {0}
    /\ MaxCalls \in Nat

Idle == -1
Structs == 0 .. MaxThreads - 1
Contexts == {Idle} \cup Structs

VARIABLES
    task_struct_array_index,
    allocated_index,  \* per context, the local of get_free_task_struct
    frame,            \* per struct, how far the frame of the thread is built
    esp,              \* per struct, is its stack pointer set to the frame?
    queue,            \* the created threads on the run queue
    cpu, IFlag,       \* the running context, the interrupt flag
    pc,               \* per context, where in kernel_thread it is
    eflags,           \* per context, the flag the critical section saved
    calls             \* per context, its calls so far

alloc == <<task_struct_array_index, allocated_index>>
thread == <<frame, esp, queue>>
vars == <<alloc, thread, cpu, IFlag, pc, eflags, calls>>

\* The steps that build a frame: the argument and the return address hello on the
\* stack, then the registers.
Unbuilt == "nothing"
Built == "registers"

Init ==
    /\ task_struct_array_index = 0
    /\ allocated_index = [c \in Contexts |-> 0]
    /\ frame = [s \in Structs |-> Unbuilt]
    /\ esp = [s \in Structs |-> FALSE]
    /\ queue = <<>>
    /\ cpu = Idle
    /\ IFlag = TRUE
    /\ pc = [c \in Contexts |-> "out"]
    /\ eflags = [c \in Contexts |-> FALSE]
    /\ calls = [c \in Contexts |-> 0]

Live == {Idle} \cup {queue[i] : i \in DOMAIN queue}

\* The timer takes the CPU from the running context and gives it to another.
Switch ==
    /\ IFlag
    /\ \E c \in Live \ {cpu} : cpu' = c
    /\ UNCHANGED <<alloc, thread, IFlag, pc, eflags, calls>>

\* The running context c goes from one place to the next.
From(c, here, there) == cpu = c /\ pc[c] = here /\ pc' = [pc EXCEPT ![c] = there]

kernel_thread(c) ==
    /\ calls[c] < MaxCalls
    /\ From(c, "out", "enter")
    /\ calls' = [calls EXCEPT ![c] = @ + 1]
    /\ UNCHANGED <<alloc, thread, cpu, IFlag, eflags>>

(***************************************************************************)
(* get_free_task_struct.                                                   *)
(***************************************************************************)
\* ENTER_CRITICAL_SECTION: pushf and cli.
enter_pushf(c) ==
    /\ From(c, "enter", "cli")
    /\ eflags' = [eflags EXCEPT ![c] = IFlag]
    /\ UNCHANGED <<alloc, thread, cpu, IFlag, calls>>

\* Mutated form: no cli.
enter_cli_missing(c) ==
    /\ From(c, "cli", "load")
    /\ UNCHANGED <<alloc, thread, cpu, IFlag, eflags, calls>>

enter_cli(c) ==
    /\ From(c, "cli", "load")
    /\ IFlag' = FALSE
    /\ UNCHANGED <<alloc, thread, cpu, eflags, calls>>

\* allocated_index = task_struct_array_index++: a load and a store.
load_index(c) ==
    /\ From(c, "load", "store")
    /\ allocated_index' = [allocated_index EXCEPT ![c] = task_struct_array_index]
    /\ UNCHANGED <<task_struct_array_index, thread, cpu, IFlag, eflags, calls>>

store_index(c) ==
    /\ From(c, "store", "exit")
    /\ task_struct_array_index' = allocated_index[c] + 1
    /\ UNCHANGED <<allocated_index, thread, cpu, IFlag, eflags, calls>>

\* EXIT_CRITICAL_SECTION.
exit_popf(c) ==
    /\ From(c, "exit", "assert")
    /\ IFlag' = eflags[c]
    /\ UNCHANGED <<alloc, thread, cpu, eflags, calls>>

\* Mutated form: off by one.
AssertFires_late(i) == i > MaxThreads

\* _ASSERT(allocated_index < CONFIG_MAX_CREATE_THREADS, ...) tests
\* ! allocated_index < CONFIG_MAX_CREATE_THREADS, in which ! binds tighter than <.
AssertFires(i) == (IF i = 0 THEN 1 ELSE 0) < MaxThreads

assert_index(c) ==
    /\ From(c, "assert", IF AssertFires(allocated_index[c]) THEN "report" ELSE "stack")
    /\ UNCHANGED <<alloc, thread, cpu, IFlag, eflags, calls>>

\* When it fires the caller reports the error and then loops for ever.
display_error_info(c) ==
    /\ From(c, "report", "spin")
    /\ UNCHANGED <<alloc, thread, cpu, IFlag, eflags, calls>>

(***************************************************************************)
(* The rest of kernel_thread.                                              *)
(***************************************************************************)
\* The argument and the return address go to the thread's stack.
build_stack(c) ==
    /\ From(c, "stack", "registers")
    /\ frame' = [frame EXCEPT ![allocated_index[c]] = "stack"]
    /\ UNCHANGED <<alloc, esp, queue, cpu, IFlag, eflags, calls>>

\* Below them the isr_registers_t, with fn as eip and IF set in eflags.
build_registers(c) ==
    /\ From(c, "registers", "esp")
    /\ frame' = [frame EXCEPT ![allocated_index[c]] = Built]
    /\ UNCHANGED <<alloc, esp, queue, cpu, IFlag, eflags, calls>>

\* Mutated form: the stack pointer is not stored.
store_esp_missing(c) ==
    /\ From(c, "esp", "add")
    /\ UNCHANGED <<alloc, thread, cpu, IFlag, eflags, calls>>

store_esp(c) ==
    /\ From(c, "esp", "add")
    /\ esp' = [esp EXCEPT ![allocated_index[c]] = TRUE]
    /\ UNCHANGED <<alloc, frame, queue, cpu, IFlag, eflags, calls>>

add_task_to_run_queue(c) ==
    /\ From(c, "add", "out")
    /\ queue' = Append(queue, allocated_index[c])
    /\ UNCHANGED <<alloc, frame, esp, cpu, IFlag, eflags, calls>>

Step(c) ==
    \/ enter_pushf(c) \/ enter_cli(c) \/ load_index(c) \/ store_index(c)
    \/ exit_popf(c) \/ assert_index(c) \/ display_error_info(c) \/ build_stack(c) \/ build_registers(c)
    \/ store_esp(c) \/ add_task_to_run_queue(c)

Next == Switch \/ \E c \in Contexts : kernel_thread(c) \/ Step(c)

Spec == Init /\ [][Next]_vars

(***************************************************************************)
(* Properties.                                                             *)
(***************************************************************************)
TypeOK ==
    /\ task_struct_array_index \in Nat
    /\ allocated_index \in [Contexts -> Nat]
    /\ frame \in [Structs -> {Unbuilt, "stack", Built}]
    /\ esp \in [Structs -> BOOLEAN]
    /\ queue \in Seq(Structs)
    /\ cpu \in Contexts
    /\ IFlag \in BOOLEAN
    /\ pc \in [Contexts -> {"out", "enter", "cli", "load", "store", "exit", "assert",
                            "report", "spin", "stack", "registers", "esp", "add"}]
    /\ eflags \in [Contexts -> BOOLEAN]
    /\ calls \in [Contexts -> 0 .. MaxCalls]

\* The calls that have been given an index.
Given == {c \in Contexts : pc[c] \in {"exit", "assert", "report", "spin", "stack", "registers",
                                      "esp", "add"}}

\* Preempted or not, no two calls are given the same task_struct, and none that a
\* thread on the run queue already lives in (process.c:49-58).
DistinctStructs ==
    /\ \A c, d \in Given : allocated_index[c] = allocated_index[d] => c = d
    /\ \A c \in Given, i \in DOMAIN queue : queue[i] # allocated_index[c]
    /\ \A i, j \in DOMAIN queue : queue[i] = queue[j] => i = j

\* The scheduler can switch to every thread on the run queue at any time: its frame
\* is complete and its esp set, and nobody is writing to it (process.c:76-122).
ReadyToRun ==
    \A i \in DOMAIN queue : frame[queue[i]] = Built /\ esp[queue[i]]

\* "only limited number of threads can be created" (process.c:41-44): a call is
\* stopped by the assertion when, and only when, the array is used up.
StopsAtLimit ==
    \A c \in Contexts :
        /\ pc[c] \in {"report", "spin"} => allocated_index[c] \geq MaxThreads
        /\ pc[c] \in {"stack", "registers", "esp", "add"} => allocated_index[c] < MaxThreads
=============================================================================
