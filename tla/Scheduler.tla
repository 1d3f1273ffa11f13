----------------------------- MODULE Scheduler -----------------------------
(***************************************************************************)
(* Preemption on one i386 CPU: the run queue and the switch of             *)
(* kernel/sched.c, the interrupt stub of vectors.S, the dispatch of isr.c, *)
(* the timer handler, and the critical sections of asm-utils.S.            *)
(*                                                                         *)
(* The CPU executes on the stack of one task.  An interrupt is a frame on  *)
(* that stack; the IDT holds trap gates, so that the processor leaves the  *)
(* interrupt flag set and the stub's first instruction, cli, is a step in  *)
(* front of which another interrupt may be taken.  schedule_pending stores *)
(* the stack pointer of the interrupted task and hands the stub the one of *)
(* the next, whose topmost frame the stub then returns from.               *)
(*                                                                         *)
(* The two 8259s are as init_APIC programs them: edge triggered, fixed     *)
(* priority, nothing masked, end of interrupt by command, the slave on     *)
(* line 2 of the master.  The code the tasks run is any code that opens    *)
(* and closes critical sections and adds tasks to the run queue.           *)
(***************************************************************************)
EXTENDS Integers, Sequences, FiniteSets

CONSTANTS
    Tasks,       \* the task_structs
    Idle,        \* idle_task_s, on whose stack kernel_main ends up
    NULL,        \* the null pointer
    Lines,       \* the interrupt lines in use, the slave's from 8 on
    MaxNesting   \* bound: critical sections a task is inside of at once

Timer == 0
Cascade == 2
Last == 7
MasterLines == 0 .. 7
SlaveLines == 8 .. 15

ASSUME SchedulerAssumption ==
    /\ Idle \in Tasks
    /\ NULL \notin Tasks
    /\ Lines \subseteq (MasterLines \cup SlaveLines) \ {Cascade}
    /\ Timer \in Lines
    /\ MaxNesting \in Nat

VARIABLES
    head,             \* head of the run queue
    next, prev,       \* the links of the task_structs
    current_task,
    schedule_request, \* is it non-zero?
    esp,              \* task_struct.esp: whose stack, and how many frames deep
    cpu,              \* the task on whose stack the CPU executes
    IFlag,            \* the interrupt flag (IF) of EFLAGS
    stack,            \* per task, the interrupt frames on its stack
    irr, in_service,  \* the request and in-service registers of the 8259s
    tpc,              \* per task, where its own code is
    flags,            \* per task, the interrupt flags its critical sections saved
    node, task,       \* add_task_to_run_queue: its local and its argument
    order             \* history: the tasks in the order they were linked

links == <<head, next, prev, order>>
pic == <<irr, in_service>>
code == <<tpc, flags, node, task>>
vars == <<links, current_task, schedule_request, esp, cpu, IFlag, stack, pic, code>>

\* A stack pointer: the stack of a task with a number of frames on it.
Garbage == [of |-> NULL, depth |-> 0]
Top(t) == [of |-> t, depth |-> Len(stack[t])]

\* A frame: the line that interrupted and how far the stub is with it.  New is
\* the frame kernel_thread builds for a task that never ran.
New == -1
Frame(l, at) == [line |-> l, at |-> at]
frame == stack[cpu][Len(stack[cpu])]
Stubs == {"cli", "handler", "request", "iret"}

\* The stub of the topmost frame moves on.
Advance(at) == stack' = [stack EXCEPT ![cpu][Len(stack[cpu])].at = at]

(***************************************************************************)
(* init_schedular: the queue is the idle task, which is running, and       *)
(* schedule_request starts at 0x10.  Then kernel_main executes sti.        *)
(***************************************************************************)
Init ==
    /\ head = Idle
    /\ next = [t \in Tasks |-> NULL]
    /\ prev = [t \in Tasks |-> NULL]
    /\ order = <<Idle>>
    /\ current_task = Idle
    /\ schedule_request = TRUE
    /\ esp = [t \in Tasks |-> Garbage]
    /\ cpu = Idle
    /\ IFlag = TRUE
    /\ stack = [t \in Tasks |-> <<>>]
    /\ irr = {}
    /\ in_service = {}
    /\ tpc = [t \in Tasks |-> IF t = Idle THEN "run" ELSE "none"]
    /\ flags = [t \in Tasks |-> <<>>]
    /\ node = [t \in Tasks |-> NULL]
    /\ task = [t \in Tasks |-> NULL]

(***************************************************************************)
(* The 8259 and the processor.                                             *)
(***************************************************************************)
Raise(l) ==
    /\ l \notin irr
    /\ irr' = irr \cup {l}
    /\ UNCHANGED <<links, current_task, schedule_request, esp, cpu, IFlag, stack,
                   in_service, code>>

\* The line of the master on which a request reaches the processor.
MasterLine(l) == IF l \in SlaveLines THEN Cascade ELSE l

\* The requests the 8259s pass on: neither on the slave nor on the master is a line
\* of the same or higher priority in service.
Deliverable ==
    {l \in irr : /\ \A k \in in_service \cap MasterLines : MasterLine(l) < k
                 /\ l \in SlaveLines => \A k \in in_service \cap SlaveLines : l < k}

\* The processor takes an interrupt before the next instruction, the slave's between
\* the master's 1 and 3.  It goes through a trap gate: IF stays as it is.
Interrupt ==
    /\ IFlag
    /\ \E l \in Deliverable :
          /\ \A k \in Deliverable : MasterLine(l) \leq MasterLine(k)
          /\ l \in SlaveLines => \A k \in Deliverable \cap SlaveLines : l \leq k
          /\ irr' = irr \ {l}
          /\ in_service' = in_service \cup {l, MasterLine(l)}
          /\ stack' = [stack EXCEPT ![cpu] = Append(@, Frame(l, "cli"))]
    /\ UNCHANGED <<links, current_task, schedule_request, esp, cpu, IFlag, code>>

\* A request that was passed on and is gone by the time the processor asks for its
\* number is answered with the master's last line, which is not put in service.  No
\* request is passed on while the timer's line is in service.  Bound: one at a time
\* on a stack.
Spurious ==
    /\ IFlag
    /\ Last \in Lines
    /\ Timer \notin in_service
    /\ \A i \in DOMAIN stack[cpu] : stack[cpu][i].line # Last
    /\ stack' = [stack EXCEPT ![cpu] = Append(@, Frame(Last, "cli"))]
    /\ UNCHANGED <<links, current_task, schedule_request, esp, cpu, IFlag, pic, code>>

\* The processor executes the next instruction.
Executes == ~ IFlag \/ Deliverable = {}

\* It is in the stub, at the given place.
InStub(at) == Executes /\ stack[cpu] # <<>> /\ frame.at = at

(***************************************************************************)
(* The interrupt stub.                                                     *)
(***************************************************************************)
\* Mutated form: the stub leaves interrupts on.
stub_cli_open ==
    /\ InStub("cli")
    /\ Advance("handler")
    /\ UNCHANGED <<links, current_task, schedule_request, esp, cpu, IFlag, pic, code>>

stub_cli ==
    /\ InStub("cli")
    /\ IFlag' = FALSE
    /\ Advance("handler")
    /\ UNCHANGED <<links, current_task, schedule_request, esp, cpu, pic, code>>

\* The number a line's stub pushes.  init_APIC has the lines start at vector 32; the
\* IDT has a stub for each vector up to 38, and ISR20 for the rest.
int_no(l) == IF 32 + l \leq 38 THEN 32 + l ELSE 20

\* The non-specific end of interrupt command clears the in-service bit of the
\* highest priority, if there is any.
EOI == LET master == in_service \cap MasterLines IN
       in_service \ {l \in master : \A k \in master : l \leq k}

\* timer_isr, the handler of the timer's line, asks for a switch; no other handler does.
timer_isr == schedule_request' = (schedule_request \/ frame.line = Timer)

\* Mutated forms: no EOI; ISR20 is counted among the vectors of the 8259.
isr_handler_no_eoi ==
    /\ InStub("handler")
    /\ timer_isr
    /\ Advance("request")
    /\ UNCHANGED <<links, current_task, esp, cpu, IFlag, pic, code>>

isr_handler_any_eoi ==
    /\ InStub("handler")
    /\ in_service' = EOI
    /\ timer_isr
    /\ Advance("request")
    /\ UNCHANGED <<links, current_task, esp, cpu, IFlag, irr, code>>

\* isr_handler: the EOI to the master for vectors 32 to 47 (none above 39 is ever
\* pushed, so none to the slave), then the handler of the line.
isr_handler ==
    /\ InStub("handler")
    /\ in_service' = IF int_no(frame.line) \in 32 .. 47 THEN EOI ELSE in_service
    /\ timer_isr
    /\ Advance("request")
    /\ UNCHANGED <<links, current_task, esp, cpu, IFlag, irr, code>>

\* Mutated form: no way back from the end of the queue.
get_next_task_stay(t) == IF next[t] = NULL THEN t ELSE next[t]

get_next_task(t) == IF next[t] = NULL THEN head ELSE next[t]

\* No request: the stub goes on with the frame it has.
schedule_not_pending ==
    /\ InStub("request")
    /\ ~ schedule_request
    /\ Advance("iret")
    /\ UNCHANGED <<links, current_task, schedule_request, esp, cpu, IFlag, pic, code>>

\* Mutated forms: the stack pointer is not stored; it is stored after the switch.
schedule_pending_no_save ==
    /\ InStub("request")
    /\ schedule_request
    /\ schedule_request' = FALSE
    /\ current_task' = get_next_task(current_task)
    /\ cpu' = esp[current_task'].of
    /\ Advance("iret")
    /\ UNCHANGED <<links, esp, IFlag, pic, code>>

schedule_pending_late_save ==
    /\ InStub("request")
    /\ schedule_request
    /\ schedule_request' = FALSE
    /\ current_task' = get_next_task(current_task)
    /\ esp' = [esp EXCEPT ![current_task'] = Top(cpu)]
    /\ cpu' = esp'[current_task'].of
    /\ Advance("iret")
    /\ UNCHANGED <<links, IFlag, pic, code>>

\* schedule_pending, and the stub's change to the stack it returns.
schedule_pending ==
    /\ InStub("request")
    /\ schedule_request
    /\ schedule_request' = FALSE
    /\ esp' = [esp EXCEPT ![current_task] = Top(cpu)]
    /\ current_task' = get_next_task(current_task)
    /\ cpu' = esp'[current_task'].of
    /\ Advance("iret")
    /\ UNCHANGED <<links, IFlag, pic, code>>

\* The pops, sti and iret: sti delays interrupts by one instruction, and every
\* frame's EFLAGS have IF set.
stub_iret ==
    /\ InStub("iret")
    /\ IFlag' = TRUE
    /\ stack' = [stack EXCEPT ![cpu] = SubSeq(@, 1, Len(@) - 1)]
    /\ UNCHANGED <<links, current_task, schedule_request, esp, cpu, pic, code>>

Stub == stub_cli \/ isr_handler \/ schedule_not_pending \/ schedule_pending \/ stub_iret

(***************************************************************************)
(* The tasks.                                                              *)
(***************************************************************************)
\* Task t executes its own code at the given place.
At(t, place) == Executes /\ cpu = t /\ stack[t] = <<>> /\ tpc[t] = place

Goto(t, place) == tpc' = [tpc EXCEPT ![t] = place]

machine == <<current_task, schedule_request, cpu, stack, pic>>

\* disable_interrupts, from ENTER_CRITICAL_SECTION: pushf ...
disable_interrupts(t) ==
    /\ \/ At(t, "run") /\ Len(flags[t]) < MaxNesting /\ Goto(t, "cli")
       \/ At(t, "add") /\ Goto(t, "cli add")
    /\ flags' = [flags EXCEPT ![t] = Append(@, IFlag)]
    /\ UNCHANGED <<links, esp, IFlag, machine, node, task>>

\* Mutated form: cli is missing.
disable_interrupts_cli_open(t) ==
    /\ \/ At(t, "cli") /\ Goto(t, "run") /\ UNCHANGED node
       \/ At(t, "cli add") /\ Goto(t, "walk") /\ node' = [node EXCEPT ![t] = head]
    /\ UNCHANGED <<links, esp, IFlag, machine, flags, task>>

\* ... and cli.
disable_interrupts_cli(t) ==
    /\ \/ At(t, "cli") /\ Goto(t, "run") /\ UNCHANGED node
       \/ At(t, "cli add") /\ Goto(t, "walk") /\ node' = [node EXCEPT ![t] = head]
    /\ IFlag' = FALSE
    /\ UNCHANGED <<links, esp, machine, flags, task>>

\* Mutated form: sti instead of popf.
restore_interrupts_sti(t) ==
    /\ At(t, "run") \/ At(t, "exit")
    /\ flags[t] # <<>>
    /\ IFlag' = TRUE
    /\ flags' = [flags EXCEPT ![t] = SubSeq(@, 1, Len(@) - 1)]
    /\ Goto(t, "run")
    /\ UNCHANGED <<links, esp, machine, node, task>>

\* restore_interrupts, from EXIT_CRITICAL_SECTION.
restore_interrupts(t) ==
    /\ At(t, "run") \/ At(t, "exit")
    /\ flags[t] # <<>>
    /\ IFlag' = flags[t][Len(flags[t])]
    /\ flags' = [flags EXCEPT ![t] = SubSeq(@, 1, Len(@) - 1)]
    /\ Goto(t, "run")
    /\ UNCHANGED <<links, esp, machine, node, task>>

\* kernel_thread, up to the call of add_task_to_run_queue: a new task gets a
\* frame to start from.
kernel_thread(t) ==
    /\ At(t, "run")
    /\ \E n \in Tasks :
          /\ tpc[n] = "none"
          /\ stack' = [stack EXCEPT ![n] = <<Frame(New, "iret")>>]
          /\ esp' = [esp EXCEPT ![n] = [of |-> n, depth |-> 1]]
          /\ tpc' = [tpc EXCEPT ![n] = "run", ![t] = "add"]
          /\ task' = [task EXCEPT ![t] = n]
    /\ UNCHANGED <<links, current_task, schedule_request, cpu, IFlag, pic, flags, node>>

\* Mutated form: a task is linked behind the head.
find_tail_head(t) ==
    /\ At(t, "walk")
    /\ Goto(t, "link next")
    /\ UNCHANGED <<links, esp, IFlag, machine, flags, node, task>>

\* The body of add_task_to_run_queue: walk to the end, then three stores.
find_tail(t) ==
    /\ At(t, "walk")
    /\ IF next[node[t]] # NULL
       THEN node' = [node EXCEPT ![t] = next[node[t]]] /\ UNCHANGED tpc
       ELSE Goto(t, "link next") /\ UNCHANGED node
    /\ UNCHANGED <<links, esp, IFlag, machine, flags, task>>

link_next(t) ==
    /\ At(t, "link next")
    /\ next' = [next EXCEPT ![node[t]] = task[t]]
    /\ order' = Append(order, task[t])
    /\ Goto(t, "link prev")
    /\ UNCHANGED <<head, prev, esp, IFlag, machine, flags, node, task>>

link_prev(t) ==
    /\ At(t, "link prev")
    /\ prev' = [prev EXCEPT ![task[t]] = node[t]]
    /\ Goto(t, "end")
    /\ UNCHANGED <<head, next, order, esp, IFlag, machine, flags, node, task>>

link_end(t) ==
    /\ At(t, "end")
    /\ next' = [next EXCEPT ![task[t]] = NULL]
    /\ Goto(t, "exit")
    /\ UNCHANGED <<head, prev, order, esp, IFlag, machine, flags, node, task>>

Task(t) == \/ disable_interrupts(t) \/ disable_interrupts_cli(t) \/ restore_interrupts(t)
           \/ kernel_thread(t)
           \/ find_tail(t) \/ link_next(t) \/ link_prev(t) \/ link_end(t)

Next == \/ \E l \in Lines : Raise(l)
        \/ Interrupt \/ Spurious
        \/ Stub
        \/ \E t \in Tasks : Task(t)

Spec == Init /\ [][Next]_vars

\* The processor keeps executing, the 8254 keeps ticking, and a task leaves its
\* critical sections: the outermost too, however many it nests in it one by one.
Fairness ==
    /\ WF_vars(Interrupt) /\ WF_vars(Stub)
    /\ WF_vars(Raise(Timer))
    /\ \A t \in Tasks :
          /\ WF_vars(disable_interrupts_cli(t) \/ restore_interrupts(t))
          /\ SF_vars(Len(flags[t]) = 1 /\ restore_interrupts(t))
          /\ WF_vars(At(t, "add") /\ disable_interrupts(t))
          /\ WF_vars(find_tail(t) \/ link_next(t) \/ link_prev(t) \/ link_end(t))

FairSpec == Spec /\ Fairness

(***************************************************************************)
(* Properties.                                                             *)
(***************************************************************************)
Places == {"none", "run", "cli", "add", "cli add", "walk", "link next", "link prev",
           "end", "exit"}
TaskOrNull == Tasks \cup {NULL}

TypeOK ==
    /\ head \in Tasks
    /\ next \in [Tasks -> TaskOrNull]
    /\ prev \in [Tasks -> TaskOrNull]
    /\ order \in Seq(Tasks)
    /\ current_task \in Tasks
    /\ schedule_request \in BOOLEAN
    /\ esp \in [Tasks -> [of : TaskOrNull, depth : Nat]]
    /\ cpu \in Tasks
    /\ IFlag \in BOOLEAN
    /\ stack \in [Tasks -> Seq([line : Lines \cup {New}, at : Stubs])]
    /\ irr \subseteq Lines
    /\ in_service \subseteq Lines \cup {Cascade}
    /\ tpc \in [Tasks -> Places]
    /\ flags \in [Tasks -> Seq(BOOLEAN)]
    /\ node \in [Tasks -> TaskOrNull]
    /\ task \in [Tasks -> TaskOrNull]

\* Some task is between the stores of add_task_to_run_queue.
Linking == \E t \in Tasks : tpc[t] \in {"link prev", "end"}

\* Except between the stores that link a task, the links are one list without a
\* cycle that starts at head, in the order in which the tasks were added, and prev
\* undoes next (sched.c:112-133), whatever interrupted whom.
QueueWellFormed ==
    /\ head = order[1]
    /\ \A i, j \in DOMAIN order : order[i] = order[j] => i = j
    /\ ~ Linking =>
        \A i \in DOMAIN order :
            /\ next[order[i]] = IF i = Len(order) THEN NULL ELSE order[i + 1]
            /\ prev[order[i]] = IF i = 1 THEN NULL ELSE order[i - 1]

\* How many critical sections a task is inside of: pushf has saved a flag for each,
\* and cli has been executed for all but perhaps the last.
Depth(t) == Len(flags[t]) - (IF tpc[t] \in {"cli", "cli add"} THEN 1 ELSE 0)

\* A task inside a critical section is the only one, and has the CPU to itself from
\* the first cli to the last popf, nested sections included (kernel.h:32-33).
CriticalSections ==
    \A t \in Tasks : Depth(t) > 0 =>
        /\ ~ IFlag /\ cpu = t /\ stack[t] = <<>>
        /\ \A u \in Tasks \ {t} : Depth(u) = 0

\* Every task in the queue that is not running can be switched to: its esp is the
\* top of its own stack, and what is there is a frame the stub can return from.
\* Idle's 0xDEADBEEF (idle.c:14-18) is never used.
ContextCoherent ==
    /\ cpu = current_task
    /\ \A i \in DOMAIN order :
          order[i] # cpu =>
              LET t == order[i] IN
              esp[t] = Top(t) /\ stack[t] # <<>> /\ stack[t][Len(stack[t])].at = "iret"

\* The frames whose stub has yet to get past isr_handler.
Pending ==
    {f \in UNION {{t} \X DOMAIN stack[t] : t \in Tasks} :
        stack[f[1]][f[2]].at \in {"cli", "handler"}}
LineOf(f) == stack[f[1]][f[2]].line

\* An EOI names no line, and a stub may end the service of another one's line (its task
\* was switched away in front of its cli), but none is sent too many (isr.c:28-39): the lines of the master up to 6 that are in
\* service are as many as the EOIs to come, and one more for each line of the slave
\* that was taken, none of which is ever acknowledged (idt.c:104-106).
EOIBalance ==
    Cardinality(in_service \cap (0 .. 6)) =
        Cardinality({f \in Pending : LineOf(f) \in 0 .. 6})
            + Cardinality(in_service \cap SlaveLines)

\* The timer is safe from that: its EOI ends its service and no other's, and as long
\* as it is in service its stub is the one that runs.
TimerEndsOwnService ==
    Timer \in in_service =>
        /\ stack[cpu] # <<>> /\ frame.line = Timer /\ frame.at \in {"cli", "handler"}
        /\ EOI = in_service \ {Timer}

\* Lines from 7 on, whose vectors run ISR20, are served once: no EOI that is sent
\* for another line ever ends their service.
UnhandledOnce == [][in_service \cap (Last .. 15) \subseteq in_service']_vars

\* A stack (DEFAULT_STACK_SIZE, one page) never holds more frames than there are
\* lines, although the stub can be interrupted before its cli, and one spurious.
StackBounded ==
    \A t \in Tasks :
        Len(stack[t]) \leq Cardinality(Lines) + (IF Last \in Lines THEN 1 ELSE 0)

\* A switch goes to the next task in the order of addition, and back to the first.
Turn == CHOOSE i \in DOMAIN order : order[i] = current_task
Turns == INSTANCE RunQueue WITH queue <- order, turn <- Turn
RoundRobin == Turns!Spec

\* Every task that was added runs, again and again.
EveryTaskRuns ==
    \A t \in Tasks : (\E i \in DOMAIN order : order[i] = t) ~> cpu = t

\* No tick stays pending: its interrupt is taken.
EveryTickTaken == Timer \in irr ~> Timer \notin irr

=============================================================================
