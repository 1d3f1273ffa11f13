--------------------------- MODULE SchedulerProofs ---------------------------
(***************************************************************************)
(* Proofs about Scheduler, for any number of tasks, any lines, and any     *)
(* nesting of critical sections: the run queue is well formed, critical    *)
(* sections are exclusive, every task that is not running can be switched  *)
(* to, and the tasks take turns.  After these, the interrupts.             *)
(***************************************************************************)
EXTENDS Scheduler, SequenceTheorems, FiniteSetTheorems, TLAPS

FrameType == [line : Lines \cup {New}, at : Stubs]

(***************************************************************************)
(* Sequences used as stacks.                                               *)
(***************************************************************************)
LEMMA Topped ==
    ASSUME NEW S, NEW s \in Seq(S), s # <<>>, NEW e \in S
    PROVE  LET r == [s EXCEPT ![Len(s)] = e] IN
           /\ r \in Seq(S)
           /\ Len(s) \in Nat \ {0}
           /\ Len(r) = Len(s)
           /\ r[Len(s)] = e
           /\ \A i \in 1 .. Len(s) : i # Len(s) => r[i] = s[i]
  <1>1. Len(s) \in Nat \ {0}
    BY EmptySeq
  <1> QED BY <1>1, ExceptSeq

LEMMA Pushed ==
    ASSUME NEW S, NEW s \in Seq(S), NEW e \in S
    PROVE  LET r == Append(s, e) IN
           /\ r \in Seq(S)
           /\ r # <<>>
           /\ Len(s) \in Nat
           /\ Len(r) = Len(s) + 1
           /\ r[Len(r)] = e
           /\ \A i \in 1 .. Len(s) : r[i] = s[i]
  BY AppendProperties, LenProperties

LEMMA Popped ==
    ASSUME NEW S, NEW s \in Seq(S), s # <<>>
    PROVE  LET r == SubSeq(s, 1, Len(s) - 1) IN
           /\ r \in Seq(S)
           /\ Len(s) \in Nat \ {0}
           /\ Len(r) = Len(s) - 1
           /\ \A i \in 1 .. Len(s) - 1 : r[i] = s[i]
  <1>1. Len(s) \in Nat \ {0}
    BY EmptySeq
  <1> DEFINE n == Len(s) - 1
  <1>2. n \in Nat /\ 1 \in Int /\ n - 1 + 1 = n
    BY <1>1
  <1>3. \A i \in 1 .. n : s[i] \in S
    BY <1>1, ElementOfSeq
  <1>4. \A i \in 1 .. n : 1 + i - 1 = i
    BY <1>2
  <1> HIDE DEF n
  <1>5. /\ SubSeq(s, 1, n) \in Seq(S)
        /\ Len(SubSeq(s, 1, n)) = IF 1 \leq n THEN n - 1 + 1 ELSE 0
        /\ \A i \in 1 .. n - 1 + 1 : SubSeq(s, 1, n)[i] = s[1 + i - 1]
    BY <1>2, <1>3, SubSeqProperties
  <1>6. /\ SubSeq(s, 1, n) \in Seq(S)
        /\ Len(SubSeq(s, 1, n)) = n
        /\ \A i \in 1 .. n : SubSeq(s, 1, n)[i] = s[i]
    BY <1>2, <1>4, <1>5
  <1> QED BY <1>1, <1>6 DEF n

LEMMA EmptyIsZero ==
    ASSUME NEW S, NEW s \in Seq(S)
    PROVE  Len(s) \in Nat /\ (s = <<>> <=> Len(s) = 0)
  BY EmptySeq, LenProperties

(***************************************************************************)
(* The inductive invariant.                                                *)
(***************************************************************************)
Added == {order[i] : i \in DOMAIN order}

\* add_task_to_run_queue before and after the task is linked.
Adding(t) == tpc[t] \in {"add", "cli add", "walk", "link next"}
LinkingBy(t) == tpc[t] \in {"link prev", "end"}

\* The places of add_task_to_run_queue inside of its critical section.
Inside(t) == tpc[t] \in {"walk", "link next", "link prev", "end", "exit"}

\* The links are the list of the tasks in order; only the prev of the last one may be
\* still to come.
QueueInv ==
    /\ order # <<>> /\ head = order[1]
    /\ \A i, j \in DOMAIN order : order[i] = order[j] => i = j
    /\ \A i \in DOMAIN order : next[order[i]] = IF i = Len(order) THEN NULL ELSE order[i + 1]
    /\ \A t \in Tasks \ Added : next[t] = NULL
    /\ \A i \in DOMAIN order :
          \/ i = Len(order) /\ \E t \in Tasks : tpc[t] = "link prev"
          \/ prev[order[i]] = IF i = 1 THEN NULL ELSE order[i - 1]

\* A task that is being added has a frame, is in no queue, and nobody else adds it.
AddInv ==
    /\ \A t \in Tasks : Adding(t) => task[t] \in Tasks \ Added /\ tpc[task[t]] = "run"
    /\ \A t, u \in Tasks : Adding(t) /\ Adding(u) /\ task[t] = task[u] => t = u
    /\ \A t \in Tasks : tpc[t] = "walk" => node[t] \in Added
    /\ \A t \in Tasks : tpc[t] = "link next" => node[t] = order[Len(order)]
    /\ \A t \in Tasks : LinkingBy(t) =>
          /\ Len(order) > 1
          /\ task[t] = order[Len(order)] /\ node[t] = order[Len(order) - 1]

\* The task has saved the flag and is about to turn interrupts off.
BeforeCli(t) == tpc[t] \in {"cli", "cli add"}

\* Of the flags a task has saved the first says that interrupts were on, the others
\* that they were off.
FlagInv(t) ==
    /\ \A k \in 1 .. Len(flags[t]) : flags[t][k] <=> k = 1
    /\ BeforeCli(t) \/ Inside(t) => flags[t] # <<>>

Ready(t) == esp[t] = Top(t) /\ stack[t] # <<>> /\ stack[t][Len(stack[t])].at = "iret"

\* A stack: what lies below another frame is in front of its cli, a task with a frame is
\* in no critical section, and one that does not run is ready to.
StackInv(t) ==
    /\ \A i \in 1 .. Len(stack[t]) - 1 : stack[t][i].at = "cli"
    /\ \A i \in 1 .. Len(stack[t]) : stack[t][i].line = New => stack[t][i].at = "iret"
    /\ stack[t] # <<>> => Depth(t) = 0
    /\ tpc[t] = "none" => t \notin Added /\ stack[t] = <<>>
    /\ t \notin Added => tpc[t] \in {"none", "run"} /\ flags[t] = <<>>
    /\ tpc[t] # "none" /\ t # cpu => Ready(t)

\* IF is off from the stub's cli to its iret and in critical sections.
CpuInv ==
    /\ cpu = current_task /\ cpu \in Added
    /\ IFlag <=> IF stack[cpu] = <<>> THEN Depth(cpu) = 0 ELSE frame.at = "cli"

IInv ==
    /\ TypeOK /\ QueueInv /\ AddInv /\ CpuInv
    /\ \A t \in Tasks : FlagInv(t) /\ StackInv(t)

LEMMA InitInv == Init => IInv
  <1> SUFFICES ASSUME Init PROVE IInv
    OBVIOUS
  <1> USE SchedulerAssumption DEF Init
  <1>1. Len(order) = 1 /\ DOMAIN order = {1} /\ order[1] = Idle /\ order \in Seq(Tasks)
    OBVIOUS
  <1>2. Added = {Idle}
    BY <1>1 DEF Added
  <1>3. TypeOK
    BY DEF TypeOK, TaskOrNull, Garbage, Places
  <1>4. QueueInv
    BY <1>1, <1>2 DEF QueueInv
  <1>5. AddInv /\ CpuInv
    BY <1>1, <1>2 DEF AddInv, CpuInv, Adding, LinkingBy, Depth
  <1>6. \A t \in Tasks : FlagInv(t) /\ StackInv(t)
    BY <1>1, <1>2 DEF FlagInv, StackInv, Inside, BeforeCli, Depth
  <1> QED BY <1>3, <1>4, <1>5, <1>6 DEF IInv

\* Only the link stores change the queue.
LEMMA QueueKept ==
    ASSUME QueueInv, UNCHANGED links, \A t \in Tasks : tpc[t] = "link prev" => tpc'[t] = "link prev"
    PROVE  QueueInv' /\ UNCHANGED Added
  <1>1. UNCHANGED <<Added, head, next, prev, order>>
    BY DEF links, Added
  <1> QED BY <1>1 DEF QueueInv

\* The 8259s, the processor and the stub leave the queue and the tasks' code alone.
LEMMA CodeKept ==
    ASSUME QueueInv, AddInv, \A t \in Tasks : FlagInv(t), UNCHANGED <<links, code>>
    PROVE  QueueInv' /\ AddInv' /\ (\A t \in Tasks : FlagInv(t)')
  <1> USE DEF links, code
  <1>1. UNCHANGED <<Added, head, next, prev, order, tpc, flags, node, task>>
    BY DEF Added
  <1>2. QueueInv'
    BY <1>1, QueueKept
  <1>3. AddInv'
    BY <1>1 DEF AddInv, Adding, LinkingBy
  <1>4. \A t \in Tasks : FlagInv(t)'
    BY <1>1 DEF FlagInv, Inside, BeforeCli
  <1> QED BY <1>2, <1>3, <1>4

\* How many critical sections a task is in.
LEMMA DepthType ==
    ASSUME TypeOK, NEW t \in Tasks, FlagInv(t)
    PROVE  /\ Len(flags[t]) \in Nat
           /\ flags[t] = <<>> <=> Len(flags[t]) = 0
           /\ Depth(t) \in Nat
           /\ Depth(t) = 0 <=> flags[t] = <<>> \/ (Len(flags[t]) = 1 /\ BeforeCli(t))
           /\ Depth(t) = IF BeforeCli(t) THEN Len(flags[t]) - 1 ELSE Len(flags[t])
  <1>1. Len(flags[t]) \in Nat /\ (flags[t] = <<>> <=> Len(flags[t]) = 0)
    BY EmptyIsZero DEF TypeOK
  <1>2. CASE BeforeCli(t)
    <2>1. flags[t] # <<>> /\ Depth(t) = Len(flags[t]) - 1
      BY <1>2 DEF FlagInv, Depth, BeforeCli
    <2> QED BY <1>1, <1>2, <2>1
  <1>3. CASE ~ BeforeCli(t)
    <2>1. Depth(t) = Len(flags[t]) - 0
      BY <1>3 DEF Depth, BeforeCli
    <2> QED BY <1>1, <1>3, <2>1
  <1> QED BY <1>2, <1>3

\* A task in a critical section is the one that runs.
LEMMA InsideRuns ==
    ASSUME IInv, NEW t \in Tasks, Depth(t) > 0
    PROVE  t = cpu /\ stack[t] = <<>> /\ ~ IFlag
  <1>1. Depth(t) \in Nat /\ flags[t] # <<>>
    <2>1. TypeOK /\ FlagInv(t)
      BY DEF IInv
    <2> QED BY <2>1, DepthType
  <1>2. StackInv(t) /\ CpuInv
    BY DEF IInv
  <1>3. stack[t] = <<>>
    BY <1>1, <1>2 DEF StackInv
  <1>4. t = cpu
    BY <1>1, <1>2, <1>3 DEF StackInv, Ready
  <1> QED BY <1>1, <1>2, <1>3, <1>4 DEF CpuInv

(***************************************************************************)
(* The 8259s, the processor and the stub.                                  *)
(***************************************************************************)
\* What the steps of the stub do to the stacks.
LEMMA Advanced ==
    ASSUME TypeOK, stack[cpu] # <<>>, NEW a \in Stubs, Advance(a)
    PROVE  LET n == Len(stack[cpu]) IN
           /\ n \in Nat \ {0}
           /\ stack' \in [Tasks -> Seq(FrameType)]
           /\ \A t \in Tasks \ {cpu} : stack'[t] = stack[t]
           /\ stack'[cpu] # <<>> /\ Len(stack'[cpu]) = n
           /\ \A i \in 1 .. n : i # n => stack'[cpu][i] = stack[cpu][i]
           /\ stack'[cpu][n].at = a /\ stack'[cpu][n].line = frame.line
  <1> DEFINE s == stack[cpu]
             n == Len(s)
             e == [s[n] EXCEPT !.at = a]
             r == [s EXCEPT ![n] = e]
  <1>1. s \in Seq(FrameType) /\ cpu \in Tasks
    BY DEF TypeOK, FrameType
  <1>2. n \in Nat \ {0}
    BY <1>1, EmptyIsZero
  <1>3. s[n] \in FrameType
    BY <1>1, <1>2, ElementOfSeq
  <1>4. e \in FrameType /\ e.at = a /\ e.line = s[n].line
    BY <1>3 DEF FrameType
  <1>5. stack' = [stack EXCEPT ![cpu] = r]
    BY DEF Advance
  <1> HIDE DEF e
  <1>6. /\ r \in Seq(FrameType) /\ Len(r) = n /\ r[n] = e
        /\ \A i \in 1 .. n : i # n => r[i] = s[i]
    BY <1>1, <1>4, Topped
  <1>7. r # <<>>
    BY <1>2, <1>6, EmptyIsZero
  <1> HIDE DEF r
  <1>8. stack \in [Tasks -> Seq(FrameType)]
    BY DEF TypeOK, FrameType
  <1> QED BY <1>1, <1>2, <1>4, <1>5, <1>6, <1>7, <1>8 DEF frame

\* Nothing StackInv and CpuInv speak of changes.
LEMMA StacksKept ==
    ASSUME IInv, UNCHANGED <<links, code, current_task, esp, cpu, IFlag, stack>>
    PROVE  CpuInv' /\ (\A t \in Tasks : StackInv(t)')
  <1> USE DEF links, code
  <1>1. UNCHANGED Added /\ \A t \in Tasks : Depth(t)' = Depth(t)
    BY DEF Added, Depth
  <1>2. CpuInv'
    BY <1>1 DEF IInv, CpuInv, frame, TypeOK
  <1>3. \A t \in Tasks : StackInv(t)'
    BY <1>1 DEF IInv, StackInv, Ready, Top
  <1> QED BY <1>2, <1>3

\* A frame is put on the stack the CPU executes on, in front of its cli.
LEMMA PushInv ==
    ASSUME IInv, NEW l \in Lines, IFlag,
           stack' = [stack EXCEPT ![cpu] = Append(@, Frame(l, "cli"))],
           UNCHANGED <<links, code, current_task, esp, cpu, IFlag>>
    PROVE  /\ stack' \in [Tasks -> Seq(FrameType)]
           /\ CpuInv' /\ (\A t \in Tasks : StackInv(t)')
  <1> USE DEF links, code
  <1> DEFINE s == stack[cpu]
             f == Frame(l, "cli")
             r == Append(s, f)
  <1>1. stack \in [Tasks -> Seq(FrameType)] /\ cpu \in Tasks /\ s \in Seq(FrameType)
    BY DEF IInv, TypeOK, FrameType
  <1>2. f \in FrameType /\ f.at = "cli" /\ f.line = l /\ l # New
    BY SchedulerAssumption DEF Frame, FrameType, Stubs, New, MasterLines, SlaveLines
  <1> HIDE DEF f
  <1>3. /\ r \in Seq(FrameType) /\ r # <<>>
        /\ Len(s) \in Nat /\ Len(r) = Len(s) + 1 /\ r[Len(r)] = f
        /\ \A i \in 1 .. Len(s) : r[i] = s[i]
    BY <1>1, <1>2, Pushed
  <1> HIDE DEF r
  <1>4. stack' = [stack EXCEPT ![cpu] = r]
    BY DEF r, f
  <1>5. UNCHANGED Added /\ \A t \in Tasks : Depth(t)' = Depth(t)
    BY DEF Added, Depth
  <1>6. CpuInv /\ StackInv(cpu) /\ cpu \in Added /\ tpc[cpu] # "none"
    BY <1>1 DEF IInv, CpuInv, StackInv
  <1>7. s = <<>> \/ s[Len(s)].at = "cli"
    BY <1>6 DEF CpuInv, frame
  <1>8. Depth(cpu) = 0
    BY <1>6 DEF CpuInv, StackInv
  <1>9. CpuInv'
    BY <1>1, <1>2, <1>3, <1>4, <1>5, <1>6 DEF CpuInv, frame
  <1>10. ASSUME NEW t \in Tasks, t = cpu PROVE StackInv(t)'
    <2>1. \A i \in 1 .. Len(r) - 1 : r[i].at = "cli"
      <3>1. ASSUME NEW i \in 1 .. Len(s) PROVE r[i].at = "cli"
        BY <1>3, <1>6, <1>7, <3>1, EmptyIsZero, <1>1 DEF StackInv
      <3> QED BY <1>3, <3>1
    <2>2. \A i \in 1 .. Len(r) : r[i].line = New => r[i].at = "iret"
      <3>1. ASSUME NEW i \in 1 .. Len(s), r[i].line = New PROVE r[i].at = "iret"
        BY <1>3, <1>6, <3>1 DEF StackInv
      <3> QED BY <1>2, <1>3, <3>1
    <2>3. stack'[t] = r
      BY <1>1, <1>4, <1>10
    <2> QED BY <1>5, <1>6, <1>8, <1>10, <2>1, <2>2, <2>3 DEF StackInv
  <1>11. ASSUME NEW t \in Tasks, t # cpu PROVE StackInv(t)'
    <2>1. stack'[t] = stack[t]
      BY <1>1, <1>4, <1>11
    <2> QED BY <1>5, <1>11, <2>1 DEF IInv, StackInv, Ready, Top
  <1> QED BY <1>1, <1>3, <1>4, <1>9, <1>10, <1>11

\* The stub moves on behind its cli, and stays on the stack.
LEMMA AdvanceInv ==
    ASSUME IInv, stack[cpu] # <<>>, NEW a \in {"handler", "request", "iret"}, Advance(a),
           frame.at # "iret", ~ IFlag',
           UNCHANGED <<links, code, current_task, esp, cpu>>
    PROVE  /\ stack' \in [Tasks -> Seq(FrameType)]
           /\ CpuInv' /\ (\A t \in Tasks : StackInv(t)')
  <1> USE DEF links, code
  <1> DEFINE n == Len(stack[cpu])
  <1>1. TypeOK /\ cpu \in Tasks /\ a \in Stubs
    BY DEF IInv, TypeOK, Stubs
  <1>2. /\ n \in Nat \ {0}
        /\ stack' \in [Tasks -> Seq(FrameType)]
        /\ \A t \in Tasks \ {cpu} : stack'[t] = stack[t]
        /\ stack'[cpu] # <<>> /\ Len(stack'[cpu]) = n
        /\ \A i \in 1 .. n : i # n => stack'[cpu][i] = stack[cpu][i]
        /\ stack'[cpu][n].at = a /\ stack'[cpu][n].line = frame.line
    BY <1>1, Advanced
  <1>3. UNCHANGED Added /\ \A t \in Tasks : Depth(t)' = Depth(t)
    BY DEF Added, Depth
  <1>4. CpuInv /\ StackInv(cpu) /\ tpc[cpu] # "none"
    BY <1>1 DEF IInv, CpuInv, StackInv
  <1>5. frame.line # New
    BY <1>2, <1>4 DEF StackInv, frame
  <1>6. CpuInv'
    BY <1>2, <1>3, <1>4 DEF CpuInv, frame
  <1>7. ASSUME NEW t \in Tasks, t = cpu PROVE StackInv(t)'
    BY <1>2, <1>3, <1>4, <1>5, <1>7 DEF StackInv
  <1>8. ASSUME NEW t \in Tasks, t # cpu PROVE StackInv(t)'
    <2>1. stack'[t] = stack[t]
      BY <1>2, <1>8
    <2> QED BY <1>3, <1>8, <2>1 DEF IInv, StackInv, Ready, Top
  <1> QED BY <1>2, <1>6, <1>7, <1>8

LEMMA RaiseInv == ASSUME IInv, NEW l \in Lines, Raise(l) PROVE IInv'
  <1> USE DEF Raise
  <1>1. TypeOK'
    BY DEF IInv, TypeOK, links, code
  <1>2. CpuInv' /\ (\A t \in Tasks : StackInv(t)')
    BY StacksKept
  <1> QED BY <1>1, <1>2, CodeKept DEF IInv

LEMMA InterruptInv == ASSUME IInv, Interrupt PROVE IInv'
  <1> PICK l \in Deliverable :
          /\ irr' = irr \ {l}
          /\ in_service' = in_service \cup {l, MasterLine(l)}
          /\ stack' = [stack EXCEPT ![cpu] = Append(@, Frame(l, "cli"))]
    BY DEF Interrupt
  <1>1. l \in Lines /\ IFlag /\ UNCHANGED <<links, current_task, schedule_request, esp, cpu, IFlag, code>>
    BY DEF Interrupt, Deliverable, IInv, TypeOK
  <1>2. /\ stack' \in [Tasks -> Seq(FrameType)]
        /\ CpuInv' /\ (\A t \in Tasks : StackInv(t)')
    BY <1>1, PushInv
  <1>3. TypeOK'
    BY <1>1, <1>2 DEF IInv, TypeOK, links, code, FrameType, MasterLine
  <1> QED BY <1>1, <1>2, <1>3, CodeKept DEF IInv

LEMMA SpuriousInv == ASSUME IInv, Spurious PROVE IInv'
  <1> USE DEF Spurious
  <1>1. /\ stack' \in [Tasks -> Seq(FrameType)]
        /\ CpuInv' /\ (\A t \in Tasks : StackInv(t)')
    BY PushInv
  <1>2. TypeOK'
    BY <1>1 DEF IInv, TypeOK, links, code, pic, FrameType
  <1> QED BY <1>1, <1>2, CodeKept DEF IInv

LEMMA CliInv == ASSUME IInv, stub_cli PROVE IInv'
  <1> USE DEF stub_cli, InStub
  <1>1. /\ stack' \in [Tasks -> Seq(FrameType)]
        /\ CpuInv' /\ (\A t \in Tasks : StackInv(t)')
    BY AdvanceInv
  <1>2. TypeOK'
    BY <1>1 DEF IInv, TypeOK, links, code, pic, FrameType
  <1> QED BY <1>1, <1>2, CodeKept DEF IInv

LEMMA HandlerInv == ASSUME IInv, isr_handler PROVE IInv'
  <1> USE DEF isr_handler, timer_isr, InStub
  <1>1. ~ IFlag'
    BY DEF IInv, CpuInv
  <1>2. /\ stack' \in [Tasks -> Seq(FrameType)]
        /\ CpuInv' /\ (\A t \in Tasks : StackInv(t)')
    BY <1>1, AdvanceInv
  <1>3. in_service' \subseteq in_service
    BY DEF EOI
  <1>4. TypeOK'
    BY <1>2, <1>3 DEF IInv, TypeOK, links, code, FrameType
  <1> QED BY <1>2, <1>4, CodeKept DEF IInv

LEMMA NotPendingInv == ASSUME IInv, schedule_not_pending PROVE IInv'
  <1> USE DEF schedule_not_pending, InStub
  <1>1. ~ IFlag'
    BY DEF IInv, CpuInv
  <1>2. /\ stack' \in [Tasks -> Seq(FrameType)]
        /\ CpuInv' /\ (\A t \in Tasks : StackInv(t)')
    BY <1>1, AdvanceInv
  <1>3. TypeOK'
    BY <1>2 DEF IInv, TypeOK, links, code, pic, FrameType
  <1> QED BY <1>2, <1>3, CodeKept DEF IInv

LEMMA OrderType ==
    ASSUME TypeOK, QueueInv
    PROVE  /\ order \in Seq(Tasks) /\ Len(order) \in Nat \ {0}
           /\ DOMAIN order = 1 .. Len(order)
           /\ \A i \in DOMAIN order : order[i] \in Tasks
           /\ Added \subseteq Tasks
  <1>1. order \in Seq(Tasks) /\ order # <<>>
    BY DEF TypeOK, QueueInv
  <1>2. Len(order) \in Nat \ {0} /\ DOMAIN order = 1 .. Len(order)
    BY <1>1, EmptySeq, LenProperties
  <1>3. \A i \in DOMAIN order : order[i] \in Tasks
    BY <1>1, <1>2, ElementOfSeq
  <1> QED BY <1>1, <1>2, <1>3 DEF Added

\* The queue goes round: behind the last task comes the first.
LEMMA NextTask ==
    ASSUME IInv, NEW k \in DOMAIN order
    PROVE  LET j == IF k = Len(order) THEN 1 ELSE k + 1 IN
           j \in DOMAIN order /\ get_next_task(order[k]) = order[j]
  <1>1. TypeOK /\ QueueInv /\ NULL \notin Tasks
    BY SchedulerAssumption DEF IInv
  <1>2. /\ head = order[1]
        /\ next[order[k]] = IF k = Len(order) THEN NULL ELSE order[k + 1]
    BY <1>1 DEF QueueInv
  <1> QED BY <1>1, <1>2, OrderType DEF get_next_task

\* The switch: the task that was interrupted becomes ready, and the next one runs.
LEMMA PendingInv == ASSUME IInv, schedule_pending PROVE IInv'
  <1> USE DEF schedule_pending, InStub
  <1> DEFINE n == Len(stack[cpu])
  <1>1. TypeOK /\ CpuInv /\ cpu \in Tasks /\ current_task = cpu /\ ~ IFlag /\ ~ IFlag'
    BY DEF IInv, TypeOK, CpuInv
  <1>2. PICK u \in Added : u \in Tasks /\ current_task' = u
    <2>1. PICK k \in DOMAIN order : order[k] = current_task
      BY <1>1 DEF CpuInv, Added
    <2>2. \A i \in DOMAIN order : order[i] \in Tasks
      BY OrderType DEF IInv
    <2> QED BY <2>1, <2>2, NextTask DEF Added
  <1>3. /\ n \in Nat \ {0}
        /\ stack' \in [Tasks -> Seq(FrameType)]
        /\ \A t \in Tasks \ {cpu} : stack'[t] = stack[t]
        /\ stack'[cpu] # <<>> /\ Len(stack'[cpu]) = n
        /\ \A i \in 1 .. n : i # n => stack'[cpu][i] = stack[cpu][i]
        /\ stack'[cpu][n].at = "iret" /\ stack'[cpu][n].line = frame.line
    BY <1>1, Advanced DEF Stubs
  <1>4. UNCHANGED Added /\ \A t \in Tasks : Depth(t)' = Depth(t)
    BY DEF Added, Depth, links, code
  <1>5. /\ esp'[cpu] = Top(cpu) /\ \A t \in Tasks \ {cpu} : esp'[t] = esp[t]
        /\ esp' \in [Tasks -> [of : TaskOrNull, depth : Nat]]
    BY <1>1, <1>3 DEF TypeOK, Top, TaskOrNull
  <1>6. \A t \in Tasks : StackInv(t) /\ (t \in Added => tpc[t] # "none")
    BY DEF IInv, StackInv
  <1>7. ASSUME NEW t \in Tasks, tpc[t] # "none" PROVE Ready(t)'
    <2>1. CASE t = cpu
      BY <1>3, <1>5, <2>1 DEF Ready, Top
    <2>2. CASE t # cpu
      <3>1. Ready(t)
        BY <1>6, <1>7, <2>2 DEF StackInv
      <3> QED BY <1>3, <1>5, <2>2, <3>1 DEF Ready, Top
    <2> QED BY <2>1, <2>2
  <1>8. cpu' = u
    <2>1. CASE u = cpu
      BY <1>1, <1>2, <1>5, <2>1 DEF Top
    <2>2. CASE u # cpu
      <3>1. esp[u] = Top(u)
        BY <1>2, <1>6, <2>2 DEF StackInv, Ready
      <3> QED BY <1>2, <1>5, <2>2, <3>1 DEF Top
    <2> QED BY <2>1, <2>2
  <1>9. CpuInv'
    <2>1. Ready(u)'
      BY <1>2, <1>6, <1>7
    <2> QED BY <1>1, <1>2, <1>4, <1>8, <2>1 DEF CpuInv, frame, Ready
  <1>10. ASSUME NEW t \in Tasks PROVE StackInv(t)'
    <2>1. UNCHANGED <<tpc, flags>>
      BY DEF code
    <2>2. CASE t = cpu
      <3>1. frame.line # New
        <4>1. frame.at = "request" /\ StackInv(cpu)
          BY <1>1, <1>6
        <4> QED BY <1>3, <4>1 DEF StackInv, frame
      <3>2. stack[t] # <<>> /\ tpc[t] # "none" /\ t \in Added
        BY <1>1, <1>6, <2>2 DEF CpuInv
      <3>3. \A i \in 1 .. Len(stack'[t]) : i # Len(stack'[t]) => stack'[t][i] = stack[t][i]
        BY <1>3, <2>2
      <3>4. \A i \in 1 .. Len(stack'[t]) - 1 : stack'[t][i].at = "cli"
        BY <1>3, <1>6, <2>2, <3>3 DEF StackInv
      <3>5. \A i \in 1 .. Len(stack'[t]) : stack'[t][i].line = New => stack'[t][i].at = "iret"
        BY <1>3, <1>6, <2>2, <3>1, <3>3 DEF StackInv
      <3>6. Depth(t)' = 0
        BY <1>4, <1>6, <3>2 DEF StackInv
      <3> QED BY <1>4, <1>7, <2>1, <3>2, <3>4, <3>5, <3>6 DEF StackInv
    <2>3. CASE t # cpu
      <3>1. stack'[t] = stack[t]
        BY <1>3, <2>3
      <3> QED BY <1>4, <1>6, <1>7, <2>1, <3>1 DEF StackInv
    <2> QED BY <2>2, <2>3
  <1>11. TypeOK'
    BY <1>1, <1>2, <1>3, <1>5, <1>8 DEF TypeOK, links, code, pic, FrameType
  <1> QED BY <1>9, <1>10, <1>11, CodeKept DEF IInv

LEMMA IretInv == ASSUME IInv, stub_iret PROVE IInv'
  <1> DEFINE s == stack[cpu]
             n == Len(s)
             r == SubSeq(s, 1, n - 1)
  <1>1. /\ stack \in [Tasks -> Seq(FrameType)] /\ cpu \in Tasks /\ s \in Seq(FrameType)
        /\ s # <<>>
    BY DEF IInv, TypeOK, FrameType, stub_iret, InStub
  <1>2. /\ r \in Seq(FrameType) /\ n \in Nat \ {0} /\ Len(r) = n - 1
        /\ \A i \in 1 .. n - 1 : r[i] = s[i]
    BY <1>1, Popped
  <1>3. /\ stack' = [stack EXCEPT ![cpu] = r] /\ IFlag'
        /\ UNCHANGED <<links, code, pic, current_task, schedule_request, esp, cpu>>
    BY DEF stub_iret
  <1> HIDE DEF r
  <1>4. stack'[cpu] = r /\ \A t \in Tasks \ {cpu} : stack'[t] = stack[t]
    BY <1>1, <1>3
  <1>5. UNCHANGED <<Added, tpc, flags>> /\ \A t \in Tasks : Depth(t)' = Depth(t)
    BY <1>3 DEF Added, Depth, links, code
  <1>6. CpuInv /\ StackInv(cpu) /\ \A t \in Tasks : StackInv(t)
    BY <1>1 DEF IInv
  <1>7. \A i \in 1 .. n - 1 : r[i] = s[i] /\ r[i].at = "cli"
    BY <1>2, <1>6 DEF StackInv
  <1>8. Depth(cpu) = 0 /\ tpc[cpu] # "none"
    BY <1>1, <1>6 DEF StackInv, CpuInv
  <1>9. r = <<>> <=> n - 1 = 0
    BY <1>2, EmptyIsZero
  <1>10. CpuInv'
    <2>1. UNCHANGED <<cpu, current_task>> /\ stack'[cpu'] = r /\ Depth(cpu)' = 0
      BY <1>1, <1>3, <1>4, <1>5, <1>8
    <2>2. r # <<>> => r[Len(r)].at = "cli"
      BY <1>2, <1>7, <1>9
    <2>3. r # <<>> => frame'.at = "cli"
      BY <2>1, <2>2 DEF frame
    <2> QED BY <1>3, <1>5, <1>6, <2>1, <2>3 DEF CpuInv
  <1>11. ASSUME NEW t \in Tasks PROVE StackInv(t)'
    <2>1. CASE t = cpu
      <3>1. stack'[t] = r /\ t = cpu'
        BY <1>3, <1>4, <2>1
      <3>2. \A i \in 1 .. Len(r) : r[i].line = New => r[i].at = "iret"
        BY <1>2, <1>6, <1>7 DEF StackInv
      <3>3. \A i \in 1 .. Len(r) - 1 : r[i].at = "cli"
        BY <1>2, <1>7
      <3> QED BY <1>5, <1>6, <1>8, <2>1, <3>1, <3>2, <3>3 DEF StackInv
    <2>2. CASE t # cpu
      <3>1. stack'[t] = stack[t] /\ cpu' = cpu /\ esp' = esp
        BY <1>3, <1>4, <2>2
      <3> QED BY <1>5, <1>6, <2>2, <3>1 DEF StackInv, Ready, Top
    <2> QED BY <2>1, <2>2
  <1>12. TypeOK'
    BY <1>1, <1>2, <1>3 DEF IInv, TypeOK, links, code, pic, FrameType
  <1> QED BY <1>3, <1>10, <1>11, <1>12, CodeKept DEF IInv

(***************************************************************************)
(* The tasks.                                                              *)
(***************************************************************************)
\* The task that executes its own code.
LEMMA OwnCode ==
    ASSUME IInv, NEW t \in Tasks, cpu = t, stack[t] = <<>>
    PROVE  /\ t \in Added /\ tpc[t] # "none"
           /\ IFlag <=> Depth(t) = 0
           /\ \A u \in Tasks : Depth(u) > 0 => u = t
           /\ \A u \in Tasks : Inside(u) => u = t
  <1>1. CpuInv /\ StackInv(t) /\ TypeOK /\ \A u \in Tasks : FlagInv(u)
    BY DEF IInv
  <1>2. \A u \in Tasks : Depth(u) > 0 => u = t
    BY InsideRuns
  <1>3. ASSUME NEW u \in Tasks, Inside(u) PROVE u = t
    <2>1. flags[u] # <<>> /\ ~ BeforeCli(u)
      BY <1>1, <1>3 DEF FlagInv, Inside, BeforeCli
    <2>2. Depth(u) > 0
      BY <1>1, <2>1, DepthType
    <2> QED BY <1>2, <2>2
  <1> QED BY <1>1, <1>2, <1>3 DEF CpuInv, StackInv

\* A step of a task that changes no stack leaves every task ready that was.
LEMMA TaskStacks ==
    ASSUME IInv, NEW t \in Tasks, cpu = t, stack[t] = <<>>, tpc'[t] # "none",
           UNCHANGED <<stack, esp, cpu>>,
           \A u \in Tasks \ {t} : flags'[u] = flags[u] /\ tpc'[u] = tpc[u],
           Added \subseteq Added',
           \A u \in Tasks : u \in Added' => u \in Added \/ tpc[u] # "none"
    PROVE  \A u \in Tasks : StackInv(u)'
  <1>1. t \in Added
    BY OwnCode
  <1>2. ASSUME NEW u \in Tasks, u # t PROVE StackInv(u)'
    <2>1. StackInv(u) /\ flags'[u] = flags[u] /\ tpc'[u] = tpc[u] /\ Depth(u)' = Depth(u)
      BY <1>2 DEF IInv, Depth
    <2> QED BY <1>2, <2>1 DEF StackInv, Ready, Top
  <1>3. ASSUME NEW u \in Tasks, u = t PROVE StackInv(u)'
    <2>1. \A i : i \notin 1 .. Len(stack[u]) /\ i \notin 1 .. Len(stack[u]) - 1
      BY <1>3
    <2> QED BY <1>1, <1>3, <2>1 DEF StackInv
  <1> QED BY <1>2, <1>3

\* A step of the task that is not yet, or no longer, in the middle of the link stores.
LEMMA AddKept ==
    ASSUME AddInv, NEW t \in Tasks, t \in Added, UNCHANGED <<order, task>>,
           \A u \in Tasks \ {t} : tpc'[u] = tpc[u] /\ node'[u] = node[u],
           Adding(t)' => Adding(t),
           LinkingBy(t)' => LinkingBy(t) /\ node'[t] = node[t],
           tpc'[t] = "walk" => node'[t] \in Added,
           tpc'[t] = "link next" => node'[t] = order[Len(order)]
    PROVE  AddInv'
  <1>1. UNCHANGED Added
    BY DEF Added
  <1>2. \A u \in Tasks : (Adding(u)' => Adding(u)) /\ (LinkingBy(u)' => LinkingBy(u) /\ node'[u] = node[u])
    BY DEF Adding, LinkingBy
  <1>3. \A u \in Tasks : Adding(u)' => task[u] \in Tasks \ Added /\ tpc'[task[u]] = "run"
    <2>1. \A u \in Tasks : Adding(u) => task[u] \in Tasks \ Added /\ tpc[task[u]] = "run"
      BY Zenon DEF AddInv
    <2>2. \A u \in Tasks \ Added : tpc'[u] = tpc[u]
      OBVIOUS
    <2> QED BY <1>2, <2>1, <2>2, Zenon
  <1>4. \A u, v \in Tasks : Adding(u)' /\ Adding(v)' /\ task[u] = task[v] => u = v
    BY <1>2 DEF AddInv
  <1>5. \A u \in Tasks : tpc'[u] = "walk" => node'[u] \in Added
    BY DEF AddInv
  <1>6. \A u \in Tasks : tpc'[u] = "link next" => node'[u] = order[Len(order)]
    BY DEF AddInv
  <1>7. \A u \in Tasks : LinkingBy(u)' =>
          /\ Len(order) > 1
          /\ task[u] = order[Len(order)] /\ node'[u] = order[Len(order) - 1]
    BY <1>2 DEF AddInv
  <1> QED BY <1>1, <1>3, <1>4, <1>5, <1>6, <1>7 DEF AddInv

\* pushf: the flag that is saved says whether the section is the outermost.
LEMMA DisableInv == ASSUME IInv, NEW t \in Tasks, disable_interrupts(t) PROVE IInv'
  <1> DEFINE s == flags[t]
             r == Append(s, IFlag)
  <1>1. /\ cpu = t /\ stack[t] = <<>> /\ tpc[t] \in {"run", "add"}
        /\ flags' = [flags EXCEPT ![t] = r]
        /\ tpc' = [tpc EXCEPT ![t] = IF tpc[t] = "run" THEN "cli" ELSE "cli add"]
        /\ UNCHANGED <<links, esp, IFlag, machine, node, task>>
    BY DEF disable_interrupts, At, Goto
  <1>2. /\ TypeOK /\ QueueInv /\ AddInv /\ CpuInv
        /\ \A u \in Tasks : FlagInv(u) /\ StackInv(u)
    BY DEF IInv
  <1>3. /\ t \in Added /\ (IFlag <=> Depth(t) = 0)
        /\ \A u \in Tasks : Depth(u) > 0 => u = t
    BY <1>1, OwnCode
  <1>4. /\ s \in Seq(BOOLEAN) /\ Len(s) \in Nat /\ IFlag \in BOOLEAN
        /\ r \in Seq(BOOLEAN) /\ Len(r) = Len(s) + 1 /\ r # <<>> /\ r[Len(s) + 1] = IFlag
        /\ \A i \in 1 .. Len(s) : r[i] = s[i]
    <2>1. s \in Seq(BOOLEAN) /\ IFlag \in BOOLEAN
      BY <1>2 DEF TypeOK
    <2>2. /\ Len(s) \in Nat /\ r \in Seq(BOOLEAN) /\ r # <<>>
          /\ Len(r) = Len(s) + 1 /\ r[Len(r)] = IFlag
          /\ \A i \in 1 .. Len(s) : r[i] = s[i]
      BY <2>1, Pushed
    <2> QED BY <2>1, <2>2
  <1> HIDE DEF r
  <1>5. /\ flags'[t] = r /\ tpc'[t] \in {"cli", "cli add"}
        /\ tpc'[t] = "cli add" => tpc[t] = "add"
        /\ \A u \in Tasks \ {t} : flags'[u] = flags[u] /\ tpc'[u] = tpc[u]
    BY <1>1, <1>2 DEF TypeOK
  <1>6. Depth(t) = Len(s)
    <2>1. FlagInv(t) /\ ~ BeforeCli(t)
      BY <1>1, <1>2 DEF BeforeCli
    <2> QED BY <1>2, <2>1, DepthType
  <1>7. Depth(t)' = Len(s)
    <2>1. Depth(t)' = Len(r) - 1
      BY <1>5 DEF Depth
    <2> QED BY <1>4, <2>1
  <1>8. TypeOK'
    BY <1>1, <1>2, <1>4 DEF TypeOK, Places, links, machine, pic
  <1>9. QueueInv' /\ UNCHANGED Added
    BY <1>1, <1>2, <1>5, QueueKept
  <1>10. AddInv'
    <2>1. /\ Adding(t)' => Adding(t)
          /\ ~ LinkingBy(t)' /\ tpc'[t] # "walk" /\ tpc'[t] # "link next"
      BY <1>5 DEF Adding, LinkingBy
    <2>2. UNCHANGED <<order, task, node>>
      BY <1>1 DEF links
    <2> QED BY <1>2, <1>3, <1>5, <2>1, <2>2, AddKept
  <1>11. CpuInv'
    BY <1>1, <1>2, <1>3, <1>6, <1>7, <1>9 DEF CpuInv, machine
  <1>12. \A u \in Tasks : StackInv(u)'
    BY <1>1, <1>5, <1>9, TaskStacks DEF machine
  <1>13. ASSUME NEW u \in Tasks PROVE FlagInv(u)'
    <2>1. CASE u = t
      <3>1. IFlag <=> Len(s) + 1 = 1
        BY <1>3, <1>4, <1>6
      <3>2. \A k \in 1 .. Len(s) : s[k] <=> k = 1
        BY <1>2 DEF FlagInv
      <3>3. \A k \in 1 .. Len(r) : r[k] <=> k = 1
        BY <1>4, <3>1, <3>2
      <3> QED BY <1>4, <1>5, <2>1, <3>3 DEF FlagInv
    <2>2. CASE u # t
      BY <1>2, <1>5, <2>2 DEF FlagInv, BeforeCli, Inside
    <2> QED BY <2>1, <2>2
  <1> QED BY <1>8, <1>9, <1>10, <1>11, <1>12, <1>13 DEF IInv

\* cli: from here on the section excludes everybody else.
LEMMA DisableCliInv == ASSUME IInv, NEW t \in Tasks, disable_interrupts_cli(t) PROVE IInv'
  <1>1. /\ cpu = t /\ stack[t] = <<>> /\ BeforeCli(t) /\ IFlag' = FALSE
        /\ tpc' = [tpc EXCEPT ![t] = IF tpc[t] = "cli" THEN "run" ELSE "walk"]
        /\ node' = IF tpc[t] = "cli" THEN node ELSE [node EXCEPT ![t] = head]
        /\ UNCHANGED <<links, esp, machine, flags, task>>
    BY DEF disable_interrupts_cli, At, Goto, BeforeCli
  <1>2. /\ TypeOK /\ QueueInv /\ AddInv /\ CpuInv
        /\ \A u \in Tasks : FlagInv(u) /\ StackInv(u)
    BY DEF IInv
  <1>3. /\ t \in Added
        /\ \A u \in Tasks : Inside(u) => u = t
    BY <1>1, OwnCode
  <1>4. /\ tpc'[t] = IF tpc[t] = "cli" THEN "run" ELSE "walk"
        /\ \A u \in Tasks \ {t} : flags'[u] = flags[u] /\ tpc'[u] = tpc[u] /\ node'[u] = node[u]
    BY <1>1, <1>2 DEF TypeOK
  <1>5. flags'[t] # <<>> /\ Len(flags'[t]) \in Nat \ {0}
    <2>1. flags[t] # <<>> /\ Len(flags[t]) \in Nat /\ (flags[t] = <<>> <=> Len(flags[t]) = 0)
      BY <1>1, <1>2, DepthType DEF FlagInv
    <2> QED BY <1>1, <2>1
  <1>6. Depth(t)' # 0
    <2>1. Depth(t)' = Len(flags'[t]) - 0
      BY <1>4 DEF Depth
    <2>2. Len(flags'[t]) - 0 # 0
      BY <1>5
    <2> QED BY <2>1, <2>2
  <1>7. head \in Added
    <2>1. head = order[1] /\ DOMAIN order = 1 .. Len(order) /\ Len(order) \in Nat \ {0}
      BY <1>2, OrderType DEF QueueInv
    <2>2. 1 \in DOMAIN order
      BY <2>1
    <2> QED BY <2>1, <2>2 DEF Added
  <1>8. TypeOK'
    <2>1. tpc' \in [Tasks -> Places] /\ IFlag' \in BOOLEAN
      <3>1. (IF tpc[t] = "cli" THEN "run" ELSE "walk") \in Places
        BY DEF Places
      <3> QED BY <1>1, <1>2, <3>1 DEF TypeOK
    <2>2. node' \in [Tasks -> TaskOrNull]
      <3>1. node \in [Tasks -> TaskOrNull] /\ head \in TaskOrNull
        BY <1>2 DEF TypeOK, TaskOrNull
      <3>2. [node EXCEPT ![t] = head] \in [Tasks -> TaskOrNull]
        BY <3>1
      <3> QED BY <1>1, <3>1, <3>2
    <2> QED BY <1>1, <1>2, <2>1, <2>2 DEF TypeOK, links, machine, pic
  <1>9. QueueInv' /\ UNCHANGED Added
    BY <1>1, <1>2, <1>4, QueueKept DEF BeforeCli
  <1>10. AddInv'
    <2>1. tpc'[t] = "walk" => node'[t] = head
      BY <1>1, <1>2, <1>4 DEF TypeOK
    <2>2. /\ Adding(t)' => Adding(t)
          /\ ~ LinkingBy(t)' /\ tpc'[t] # "link next"
      <3>1. CASE tpc[t] = "cli"
        BY <1>4, <3>1 DEF Adding, LinkingBy
      <3>2. CASE tpc[t] = "cli add"
        BY <1>4, <3>2 DEF Adding, LinkingBy
      <3> QED BY <1>1, <3>1, <3>2 DEF BeforeCli
    <2> QED BY <1>1, <1>2, <1>3, <1>4, <1>7, <2>1, <2>2, AddKept DEF links
  <1>11. CpuInv'
    BY <1>1, <1>2, <1>6, <1>9 DEF CpuInv, machine
  <1>12. \A u \in Tasks : StackInv(u)'
    BY <1>1, <1>4, <1>9, TaskStacks DEF machine
  <1>13. ASSUME NEW u \in Tasks PROVE FlagInv(u)'
    BY <1>1, <1>2, <1>4, <1>5 DEF FlagInv, BeforeCli, Inside
  <1> QED BY <1>8, <1>9, <1>10, <1>11, <1>12, <1>13 DEF IInv

\* popf: interrupts come back on with the outermost section only.
LEMMA RestoreInv == ASSUME IInv, NEW t \in Tasks, restore_interrupts(t) PROVE IInv'
  <1> DEFINE s == flags[t]
             n == Len(s)
             r == SubSeq(s, 1, n - 1)
  <1>1. /\ cpu = t /\ stack[t] = <<>> /\ tpc[t] \in {"run", "exit"} /\ s # <<>>
        /\ IFlag' = s[n]
        /\ flags' = [flags EXCEPT ![t] = r]
        /\ tpc' = [tpc EXCEPT ![t] = "run"]
        /\ UNCHANGED <<links, esp, machine, node, task>>
    BY DEF restore_interrupts, At, Goto
  <1>2. /\ TypeOK /\ QueueInv /\ AddInv /\ CpuInv
        /\ \A u \in Tasks : FlagInv(u) /\ StackInv(u)
    BY DEF IInv
  <1>3. t \in Added
    BY <1>1, OwnCode
  <1>4. /\ s \in Seq(BOOLEAN) /\ r \in Seq(BOOLEAN) /\ n \in Nat \ {0} /\ Len(r) = n - 1
        /\ \A i \in 1 .. n - 1 : r[i] = s[i]
    BY <1>1, <1>2, Popped DEF TypeOK
  <1> HIDE DEF r
  <1>5. \A k \in 1 .. n : s[k] <=> k = 1
    BY <1>2 DEF FlagInv
  <1>6. IFlag' \in BOOLEAN /\ (IFlag' <=> n = 1)
    <2>1. s[n] \in BOOLEAN /\ n \in 1 .. n
      BY <1>4, ElementOfSeq
    <2> QED BY <1>1, <1>5, <2>1
  <1>7. /\ flags'[t] = r /\ tpc'[t] = "run"
        /\ \A u \in Tasks \ {t} : flags'[u] = flags[u] /\ tpc'[u] = tpc[u]
    BY <1>1, <1>2 DEF TypeOK
  <1>8. Depth(t)' = n - 1
    BY <1>4, <1>7 DEF Depth
  <1>9. TypeOK'
    BY <1>1, <1>2, <1>4, <1>6 DEF TypeOK, Places, links, machine, pic
  <1>10. QueueInv' /\ UNCHANGED Added
    BY <1>1, <1>2, <1>7, QueueKept
  <1>11. AddInv'
    BY <1>1, <1>2, <1>3, <1>7, AddKept DEF Adding, LinkingBy, links
  <1>12. CpuInv'
    <2>1. IFlag' <=> Depth(t)' = 0
      BY <1>4, <1>6, <1>8
    <2> QED BY <1>1, <1>2, <1>10, <2>1 DEF CpuInv, machine
  <1>13. \A u \in Tasks : StackInv(u)'
    BY <1>1, <1>7, <1>10, TaskStacks DEF machine
  <1>14. ASSUME NEW u \in Tasks PROVE FlagInv(u)'
    <2>1. CASE u = t
      <3>1. \A k \in 1 .. Len(r) : r[k] <=> k = 1
        BY <1>4, <1>5
      <3> QED BY <1>7, <2>1, <3>1 DEF FlagInv, BeforeCli, Inside
    <2>2. CASE u # t
      BY <1>2, <1>7, <2>2 DEF FlagInv, BeforeCli, Inside
    <2> QED BY <2>1, <2>2
  <1> QED BY <1>9, <1>10, <1>11, <1>12, <1>13, <1>14 DEF IInv

LEMMA DepthKept ==
    ASSUME NEW u, BeforeCli(u)' <=> BeforeCli(u), flags'[u] = flags[u]
    PROVE  Depth(u)' = Depth(u)
  <1>1. CASE BeforeCli(u)
    BY <1>1 DEF Depth, BeforeCli
  <1>2. CASE ~ BeforeCli(u)
    BY <1>2 DEF Depth, BeforeCli
  <1> QED BY <1>1, <1>2

\* The walk stays inside of the queue and stops at its end.
LEMMA FindTailInv == ASSUME IInv, NEW t \in Tasks, find_tail(t) PROVE IInv'
  <1>1. /\ cpu = t /\ stack[t] = <<>> /\ tpc[t] = "walk"
        /\ IF next[node[t]] # NULL
           THEN node' = [node EXCEPT ![t] = next[node[t]]] /\ UNCHANGED tpc
           ELSE tpc' = [tpc EXCEPT ![t] = "link next"] /\ UNCHANGED node
        /\ UNCHANGED <<links, esp, IFlag, machine, flags, task>>
    BY DEF find_tail, At, Goto
  <1>2. /\ TypeOK /\ QueueInv /\ AddInv /\ CpuInv
        /\ \A u \in Tasks : FlagInv(u) /\ StackInv(u)
    BY DEF IInv
  <1>3. t \in Added
    BY <1>1, OwnCode
  <1>4. /\ tpc'[t] \in {"walk", "link next"}
        /\ \A u \in Tasks \ {t} : tpc'[u] = tpc[u] /\ node'[u] = node[u]
    BY <1>1, <1>2 DEF TypeOK
  <1>5. PICK i \in DOMAIN order : order[i] = node[t]
    <2>1. node[t] \in Added
      BY <1>1, <1>2, Zenon DEF AddInv
    <2> QED BY <2>1, Zenon DEF Added
  <1>6. /\ next[node[t]] = IF i = Len(order) THEN NULL ELSE order[i + 1]
        /\ i # Len(order) => i + 1 \in DOMAIN order /\ order[i + 1] \in Tasks
        /\ NULL \notin Tasks
    <2>1. /\ i # Len(order) => i + 1 \in DOMAIN order
          /\ \A k \in DOMAIN order : order[k] \in Tasks
      BY <1>2, <1>5, OrderType
    <2> QED BY <1>2, <1>5, <2>1, SchedulerAssumption DEF QueueInv
  <1>7. /\ tpc'[t] = "walk" => node'[t] \in Added
        /\ tpc'[t] = "link next" => node'[t] = order[Len(order)]
    BY <1>1, <1>2, <1>5, <1>6 DEF TypeOK, Added
  <1>8. TypeOK'
    <2>1. tpc' \in [Tasks -> Places] /\ node' \in [Tasks -> TaskOrNull]
      BY <1>1, <1>2, <1>6 DEF TypeOK, Places, TaskOrNull
    <2> QED BY <1>1, <1>2, <2>1 DEF TypeOK, links, machine, pic
  <1>9. QueueInv' /\ UNCHANGED Added
    BY <1>1, <1>2, <1>4, QueueKept
  <1>10. AddInv'
    <2>1. /\ Adding(t) /\ ~ LinkingBy(t)' /\ UNCHANGED <<order, task>>
      BY <1>1, <1>4 DEF Adding, LinkingBy, links
    <2> QED BY <1>2, <1>3, <1>4, <1>7, <2>1, AddKept
  <1>11. UNCHANGED <<stack, cpu, current_task, IFlag, flags>> /\ \A u \in Tasks : Depth(u)' = Depth(u)
    <2>1. /\ UNCHANGED <<stack, cpu, current_task, IFlag, flags>>
          /\ \A u \in Tasks : BeforeCli(u)' <=> BeforeCli(u)
      BY <1>1, <1>4 DEF BeforeCli, machine
    <2> QED BY <2>1, DepthKept
  <1>12. CpuInv'
    <2>1. (IFlag <=> Depth(t) = 0) /\ cpu \in Added /\ cpu = current_task
      BY <1>1, <1>2, OwnCode DEF CpuInv
    <2>2. cpu' = t /\ stack'[t] = <<>> /\ IFlag' = IFlag /\ Depth(t)' = Depth(t)
      BY <1>1, <1>11
    <2>3. IFlag' <=> Depth(t)' = 0
      BY <2>1, <2>2
    <2> QED BY <1>1, <1>9, <1>11, <2>1, <2>2, <2>3 DEF CpuInv
  <1>13. \A u \in Tasks : StackInv(u)'
    BY <1>1, <1>4, <1>9, <1>11, TaskStacks
  <1>14. \A u \in Tasks : FlagInv(u)'
    <2>1. Inside(t) /\ \A u \in Tasks \ {t} : Inside(u)' = Inside(u) /\ BeforeCli(u)' = BeforeCli(u)
      BY <1>1, <1>4 DEF Inside, BeforeCli
    <2>2. ~ BeforeCli(t)'
      BY <1>4 DEF BeforeCli
    <2> QED BY <1>2, <1>11, <2>1, <2>2 DEF FlagInv
  <1> QED BY <1>8, <1>9, <1>10, <1>12, <1>13, <1>14 DEF IInv

\* The store that puts the task into the queue: it has a frame to run from.
LEMMA LinkNextInv == ASSUME IInv, NEW t \in Tasks, link_next(t) PROVE IInv'
  <1> DEFINE L == Len(order)
             x == task[t]
             q == Append(order, x)
  <1>1. /\ cpu = t /\ stack[t] = <<>> /\ tpc[t] = "link next"
        /\ next' = [next EXCEPT ![node[t]] = x]
        /\ order' = q
        /\ tpc' = [tpc EXCEPT ![t] = "link prev"]
        /\ UNCHANGED <<head, prev, esp, IFlag, machine, flags, node, task>>
    BY DEF link_next, At, Goto
  <1>2. /\ TypeOK /\ QueueInv /\ AddInv /\ CpuInv
        /\ \A u \in Tasks : FlagInv(u) /\ StackInv(u)
    BY DEF IInv
  <1>3. t \in Added /\ \A u \in Tasks : Inside(u) => u = t
    BY <1>1, OwnCode
  <1>4. /\ tpc'[t] = "link prev"
        /\ \A u \in Tasks \ {t} : tpc'[u] = tpc[u]
    BY <1>1, <1>2 DEF TypeOK
  <1>5. /\ x = task[t] /\ x \in Tasks \ Added /\ tpc[x] = "run" /\ L = Len(order) /\ node[t] = order[L]
        /\ \A u \in Tasks \ {t} : Adding(u) => task[u] # x
    BY <1>1, <1>2 DEF AddInv, Adding
  <1>6. /\ order \in Seq(Tasks) /\ L \in Nat \ {0} /\ DOMAIN order = 1 .. L
        /\ \A i \in 1 .. L : order[i] \in Tasks
        /\ Added \subseteq Tasks
        /\ 1 \in 1 .. L /\ L \in 1 .. L
    <2>1. 1 \in 1 .. L /\ L \in 1 .. L
      BY <1>2, OrderType
    <2> QED BY <1>2, <2>1, OrderType
  <1>7. /\ order' \in Seq(Tasks) /\ order' # <<>> /\ Len(order') = L + 1 /\ order'[L + 1] = x
        /\ \A i \in 1 .. L : order'[i] = order[i]
        /\ DOMAIN order' = 1 .. L + 1
    <2>1. /\ q \in Seq(Tasks) /\ q # <<>> /\ Len(q) = L + 1 /\ q[Len(q)] = x
          /\ \A i \in 1 .. L : q[i] = order[i]
      BY <1>5, <1>6, Pushed
    <2>2. DOMAIN q = 1 .. Len(q)
      BY <2>1, LenProperties
    <2> QED BY <1>1, <2>1, <2>2
  <1> HIDE DEF q, L, x
  <1>8. /\ Added' = Added \cup {x}
        /\ \A i \in 1 .. L : order[i] \in Added
    <2>1. \A i \in 1 .. L : order[i] \in Added
      BY <1>6 DEF Added
    <2>2. \A i \in 1 .. L + 1 : i = L + 1 \/ i \in 1 .. L
      BY <1>6
    <2>3. L + 1 \in 1 .. L + 1 /\ 1 .. L \subseteq 1 .. L + 1
      BY <1>6
    <2>4. Added' \subseteq Added \cup {x}
      BY <1>7, <2>1, <2>2 DEF Added
    <2>5. Added \subseteq Added'
      BY <1>6, <1>7, <2>3 DEF Added
    <2>6. x \in Added'
      BY <1>7, <2>3 DEF Added
    <2> QED BY <2>1, <2>4, <2>5, <2>6
  <1>9. /\ next'[order[L]] = x
        /\ \A u \in Tasks : u # order[L] => next'[u] = next[u]
    BY <1>1, <1>2, <1>5, <1>6 DEF TypeOK
  <1>10. TypeOK'
    <2>1. tpc' \in [Tasks -> Places] /\ next' \in [Tasks -> TaskOrNull]
      BY <1>1, <1>2, <1>5 DEF TypeOK, Places, TaskOrNull
    <2> QED BY <1>1, <1>2, <1>7, <2>1 DEF TypeOK, machine, pic
  <1>11. QueueInv'
    <2>1. order' # <<>> /\ head' = order'[1]
      BY <1>1, <1>2, <1>6, <1>7 DEF QueueInv
    <2>2. \A i, j \in 1 .. L + 1 : order'[i] = order'[j] => i = j
      <3>1. \A i, j \in 1 .. L : order[i] = order[j] => i = j
        BY <1>2, <1>6 DEF QueueInv
      <3> QED BY <1>5, <1>6, <1>7, <1>8, <3>1
    <2>3. ASSUME NEW i \in 1 .. L + 1
          PROVE  next'[order'[i]] = IF i = L + 1 THEN NULL ELSE order'[i + 1]
      <3>1. CASE i = L + 1
        <4>1. next[x] = NULL /\ x # order[L]
          BY <1>2, <1>5, <1>6, <1>8 DEF QueueInv
        <4> QED BY <1>5, <1>7, <1>9, <3>1, <4>1
      <3>2. CASE i = L
        BY <1>6, <1>7, <1>9, <3>2
      <3>3. CASE i \in 1 .. L - 1
        <4>1. /\ i \in 1 .. L /\ i + 1 \in 1 .. L /\ L \in 1 .. L /\ i # L
          BY <1>6, <3>3
        <4>2. order[i] # order[L] /\ next[order[i]] = order[i + 1]
          BY <1>2, <1>5, <1>6, <4>1 DEF QueueInv
        <4>3. i # L + 1
          BY <1>6, <3>3
        <4> QED BY <1>6, <1>7, <1>9, <4>1, <4>2, <4>3
      <3> QED BY <1>6, <3>1, <3>2, <3>3
    <2>4. \A u \in Tasks \ Added' : next'[u] = NULL
      <3>1. \A u \in Tasks \ Added' : u \notin Added /\ u # order[L]
        BY <1>6, <1>8
      <3> QED BY <1>2, <1>9, <3>1 DEF QueueInv
    <2>5. ASSUME NEW i \in 1 .. L + 1
          PROVE  i = L + 1 \/ prev'[order'[i]] = IF i = 1 THEN NULL ELSE order'[i - 1]
      <3>1. \A u \in Tasks : tpc[u] # "link prev"
        BY <1>1, <1>3 DEF Inside
      <3>2. ASSUME i # L + 1 PROVE prev[order[i]] = IF i = 1 THEN NULL ELSE order[i - 1]
        <4>1. i \in 1 .. L
          BY <1>6, <3>2
        <4> QED BY <1>2, <1>6, <3>1, <4>1 DEF QueueInv
      <3>3. ASSUME i # L + 1 PROVE order'[i] = order[i] /\ (i # 1 => order'[i - 1] = order[i - 1])
        BY <1>6, <1>7, <3>3
      <3> QED BY <1>1, <3>2, <3>3
    <2>6. \E u \in Tasks : tpc'[u] = "link prev"
      BY <1>4
    <2>7. DOMAIN order' = 1 .. L + 1 /\ Len(order') = L + 1
      BY <1>7
    <2>8. \A i \in DOMAIN order' :
             next'[order'[i]] = IF i = Len(order') THEN NULL ELSE order'[i + 1]
      BY <2>3, <2>7, Zenon
    <2>9. \A i \in DOMAIN order' :
             \/ i = Len(order') /\ \E u \in Tasks : tpc'[u] = "link prev"
             \/ prev'[order'[i]] = IF i = 1 THEN NULL ELSE order'[i - 1]
      BY <2>5, <2>6, <2>7, Zenon
    <2> QED BY <2>1, <2>2, <2>4, <2>7, <2>8, <2>9, Zenon DEF QueueInv
  <1>12. AddInv'
    <2>1. \A u \in Tasks : Adding(u)' => Adding(u) /\ u # t
      BY <1>4 DEF Adding
    <2>2. \A u \in Tasks : Adding(u)' => task[u] \in Tasks \ Added' /\ tpc'[task[u]] = "run"
      <3>1. \A u \in Tasks : Adding(u)' => task[u] \in Tasks \ Added /\ tpc[task[u]] = "run" /\ task[u] # x
        BY <1>2, <1>5, <2>1 DEF AddInv
      <3> QED BY <1>3, <1>4, <1>8, <3>1
    <2>3. \A u, v \in Tasks : Adding(u)' /\ Adding(v)' /\ task[u] = task[v] => u = v
      BY <1>2, <2>1 DEF AddInv
    <2>4. \A u \in Tasks : tpc'[u] # "walk" /\ tpc'[u] # "link next"
      BY <1>3, <1>4 DEF Inside
    <2>5. \A u \in Tasks : LinkingBy(u)' => u = t
      BY <1>3, <1>4 DEF Inside, LinkingBy
    <2>6. Len(order') > 1 /\ task[t] = order'[Len(order')] /\ node[t] = order'[Len(order') - 1]
      BY <1>5, <1>6, <1>7
    <2> QED BY <1>1, <2>2, <2>3, <2>4, <2>5, <2>6 DEF AddInv
  <1>13. UNCHANGED <<stack, cpu, current_task, IFlag, flags>> /\ \A u \in Tasks : Depth(u)' = Depth(u)
    <2>1. /\ UNCHANGED <<stack, cpu, current_task, IFlag, flags>>
          /\ \A u \in Tasks : BeforeCli(u)' <=> BeforeCli(u)
      BY <1>1, <1>4 DEF BeforeCli, machine
    <2> QED BY <2>1, DepthKept
  <1>14. CpuInv'
    <2>1. (IFlag <=> Depth(t) = 0) /\ cpu \in Added /\ cpu = current_task
      BY <1>1, <1>2, OwnCode DEF CpuInv
    <2>2. cpu' = t /\ stack'[t] = <<>> /\ IFlag' = IFlag /\ Depth(t)' = Depth(t)
      BY <1>1, <1>13
    <2>3. IFlag' <=> Depth(t)' = 0
      BY <2>1, <2>2
    <2> QED BY <1>1, <1>8, <1>13, <2>1, <2>2, <2>3 DEF CpuInv
  <1>15. \A u \in Tasks : StackInv(u)'
    BY <1>1, <1>4, <1>5, <1>8, <1>13, TaskStacks
  <1>16. \A u \in Tasks : FlagInv(u)'
    <2>1. Inside(t) /\ \A u \in Tasks \ {t} : Inside(u)' = Inside(u) /\ BeforeCli(u)' = BeforeCli(u)
      BY <1>1, <1>4 DEF Inside, BeforeCli
    <2>2. ~ BeforeCli(t)'
      BY <1>4 DEF BeforeCli
    <2> QED BY <1>2, <1>13, <2>1, <2>2 DEF FlagInv
  <1> QED BY <1>10, <1>11, <1>12, <1>14, <1>15, <1>16 DEF IInv

\* The store of prev: the links are the list again.
LEMMA LinkPrevInv == ASSUME IInv, NEW t \in Tasks, link_prev(t) PROVE IInv'
  <1>1. /\ cpu = t /\ stack[t] = <<>> /\ tpc[t] = "link prev"
        /\ prev' = [prev EXCEPT ![task[t]] = node[t]]
        /\ tpc' = [tpc EXCEPT ![t] = "end"]
        /\ UNCHANGED <<head, next, order, esp, IFlag, machine, flags, node, task>>
    BY DEF link_prev, At, Goto
  <1>2. /\ TypeOK /\ QueueInv /\ AddInv /\ CpuInv
        /\ \A u \in Tasks : FlagInv(u) /\ StackInv(u)
    BY DEF IInv
  <1>3. t \in Added /\ \A u \in Tasks : Inside(u) => u = t
    BY <1>1, OwnCode
  <1>4. tpc'[t] = "end" /\ \A u \in Tasks \ {t} : tpc'[u] = tpc[u]
    BY <1>1, <1>2 DEF TypeOK
  <1>5. LinkingBy(t) /\ Inside(t) /\ ~ Adding(t)' /\ LinkingBy(t)'
    BY <1>1, <1>4 DEF LinkingBy, Inside, Adding
  <1>6. Len(order) > 1 /\ task[t] = order[Len(order)] /\ node[t] = order[Len(order) - 1]
    BY <1>2, <1>5 DEF AddInv
  <1>7. /\ Len(order) \in Nat \ {0} /\ DOMAIN order = 1 .. Len(order)
        /\ Len(order) \in DOMAIN order
        /\ \A i \in DOMAIN order : order[i] \in Tasks
    <2>1. Len(order) \in DOMAIN order
      BY <1>2, OrderType
    <2> QED BY <1>2, <2>1, OrderType
  <1>8. TypeOK'
    <2>1. tpc' \in [Tasks -> Places] /\ prev' \in [Tasks -> TaskOrNull]
      BY <1>1, <1>2 DEF TypeOK, Places, TaskOrNull
    <2> QED BY <1>1, <1>2, <2>1 DEF TypeOK, machine, pic
  <1>9. UNCHANGED Added
    BY <1>1 DEF Added
  <1>10. QueueInv'
    <2>1. ASSUME NEW i \in DOMAIN order PROVE prev'[order[i]] = IF i = 1 THEN NULL ELSE order[i - 1]
      <3>1. CASE i = Len(order)
        <4>1. prev'[order[i]] = order[i - 1]
          BY <1>1, <1>2, <1>6, <1>7, <3>1 DEF TypeOK
        <4>2. i # 1
          BY <1>6, <1>7, <3>1
        <4> QED BY <4>1, <4>2
      <3>2. CASE i # Len(order)
        <4>1. prev[order[i]] = IF i = 1 THEN NULL ELSE order[i - 1]
          BY <1>2, <3>2 DEF QueueInv
        <4>2. order[i] # order[Len(order)]
          BY <1>2, <1>7, <3>2 DEF QueueInv
        <4> QED BY <1>1, <1>2, <1>6, <1>7, <4>1, <4>2 DEF TypeOK
      <3> QED BY <3>1, <3>2
    <2> QED BY <1>1, <1>2, <1>9, <2>1 DEF QueueInv
  <1>11. AddInv'
    BY <1>1, <1>2, <1>3, <1>4, <1>5, AddKept
  <1>12. /\ UNCHANGED <<stack, cpu, current_task, IFlag, flags>>
         /\ \A u \in Tasks : BeforeCli(u)' <=> BeforeCli(u)
    BY <1>1, <1>4 DEF BeforeCli, machine
  <1>13. CpuInv'
    <2>1. (IFlag <=> Depth(t) = 0) /\ cpu \in Added /\ cpu = current_task
      BY <1>1, <1>2, OwnCode DEF CpuInv
    <2>2. cpu' = t /\ stack'[t] = <<>> /\ IFlag' = IFlag /\ Depth(t)' = Depth(t)
      BY <1>1, <1>12, DepthKept
    <2>3. IFlag' <=> Depth(t)' = 0
      BY <2>1, <2>2
    <2> QED BY <1>1, <1>9, <1>12, <2>1, <2>2, <2>3 DEF CpuInv
  <1>14. \A u \in Tasks : StackInv(u)'
    BY <1>1, <1>4, <1>9, <1>12, TaskStacks
  <1>15. \A u \in Tasks : FlagInv(u)'
    <2>1. \A u \in Tasks : Inside(u)' => Inside(u)
      BY <1>4, <1>5 DEF Inside
    <2> QED BY <1>2, <1>12, <2>1 DEF FlagInv
  <1> QED BY <1>8, <1>10, <1>11, <1>13, <1>14, <1>15 DEF IInv

\* The last store says what is so already.
LEMMA LinkEndInv == ASSUME IInv, NEW t \in Tasks, link_end(t) PROVE IInv'
  <1>1. /\ cpu = t /\ stack[t] = <<>> /\ tpc[t] = "end"
        /\ next' = [next EXCEPT ![task[t]] = NULL]
        /\ tpc' = [tpc EXCEPT ![t] = "exit"]
        /\ UNCHANGED <<head, prev, order, esp, IFlag, machine, flags, node, task>>
    BY DEF link_end, At, Goto
  <1>2. /\ TypeOK /\ QueueInv /\ AddInv /\ CpuInv
        /\ \A u \in Tasks : FlagInv(u) /\ StackInv(u)
    BY DEF IInv
  <1>3. t \in Added
    BY <1>1, OwnCode
  <1>4. tpc'[t] = "exit" /\ \A u \in Tasks \ {t} : tpc'[u] = tpc[u]
    BY <1>1, <1>2 DEF TypeOK
  <1>5. LinkingBy(t) /\ Inside(t) /\ ~ Adding(t)' /\ ~ LinkingBy(t)'
    BY <1>1, <1>4 DEF LinkingBy, Inside, Adding
  <1>6. next[task[t]] = NULL
    <2>1. task[t] = order[Len(order)]
      BY <1>2, <1>5 DEF AddInv
    <2>2. Len(order) \in DOMAIN order
      BY <1>2, OrderType
    <2> QED BY <1>2, <2>1, <2>2 DEF QueueInv
  <1>7. UNCHANGED links
    <2>1. next' = next
      BY <1>1, <1>2, <1>6 DEF TypeOK
    <2> QED BY <1>1, <2>1 DEF links
  <1>8. TypeOK'
    <2>1. tpc' \in [Tasks -> Places]
      BY <1>1, <1>2 DEF TypeOK, Places
    <2> QED BY <1>1, <1>2, <1>7, <2>1 DEF TypeOK, links, machine, pic
  <1>9. QueueInv' /\ UNCHANGED Added
    BY <1>1, <1>2, <1>4, <1>7, QueueKept
  <1>10. AddInv'
    BY <1>1, <1>2, <1>3, <1>4, <1>5, AddKept
  <1>11. /\ UNCHANGED <<stack, cpu, current_task, IFlag, flags>>
         /\ \A u \in Tasks : BeforeCli(u)' <=> BeforeCli(u)
    BY <1>1, <1>4 DEF BeforeCli, machine
  <1>12. CpuInv'
    <2>1. (IFlag <=> Depth(t) = 0) /\ cpu \in Added /\ cpu = current_task
      BY <1>1, <1>2, OwnCode DEF CpuInv
    <2>2. cpu' = t /\ stack'[t] = <<>> /\ IFlag' = IFlag /\ Depth(t)' = Depth(t)
      BY <1>1, <1>11, DepthKept
    <2>3. IFlag' <=> Depth(t)' = 0
      BY <2>1, <2>2
    <2> QED BY <1>1, <1>9, <1>11, <2>1, <2>2, <2>3 DEF CpuInv
  <1>13. \A u \in Tasks : StackInv(u)'
    BY <1>1, <1>4, <1>9, <1>11, TaskStacks
  <1>14. \A u \in Tasks : FlagInv(u)'
    <2>1. \A u \in Tasks : Inside(u)' => Inside(u)
      BY <1>4, <1>5 DEF Inside
    <2> QED BY <1>2, <1>11, <2>1 DEF FlagInv
  <1> QED BY <1>8, <1>9, <1>10, <1>12, <1>13, <1>14 DEF IInv

\* kernel_thread: the new task is in no queue yet, and has a frame to run from.
LEMMA KernelThreadInv == ASSUME IInv, NEW t \in Tasks, kernel_thread(t) PROVE IInv'
  <1> DEFINE f == Frame(New, "iret")
  <1> PICK n \in Tasks :
          /\ tpc[n] = "none"
          /\ stack' = [stack EXCEPT ![n] = <<f>>]
          /\ esp' = [esp EXCEPT ![n] = [of |-> n, depth |-> 1]]
          /\ tpc' = [tpc EXCEPT ![n] = "run", ![t] = "add"]
          /\ task' = [task EXCEPT ![t] = n]
    BY DEF kernel_thread
  <1>1. /\ cpu = t /\ stack[t] = <<>> /\ tpc[t] = "run"
        /\ UNCHANGED <<links, current_task, schedule_request, cpu, IFlag, pic, flags, node>>
    BY DEF kernel_thread, At
  <1>2. /\ TypeOK /\ QueueInv /\ AddInv /\ CpuInv
        /\ \A u \in Tasks : FlagInv(u) /\ StackInv(u)
    BY DEF IInv
  <1>3. t \in Added
    BY <1>1, OwnCode
  <1>4. n # t /\ n \notin Added /\ flags[n] = <<>>
    BY <1>1, <1>2 DEF StackInv
  <1>5. /\ tpc'[t] = "add" /\ tpc'[n] = "run"
        /\ \A u \in Tasks \ {t, n} : tpc'[u] = tpc[u]
    BY <1>2, <1>4 DEF TypeOK
  <1>6. /\ stack'[n] = <<f>> /\ Len(stack'[n]) = 1 /\ stack'[n][1] = f
        /\ esp'[n] = [of |-> n, depth |-> 1]
        /\ \A u \in Tasks \ {n} : stack'[u] = stack[u] /\ esp'[u] = esp[u]
    BY <1>2 DEF TypeOK
  <1>7. f \in FrameType /\ f.at = "iret"
    BY DEF Frame, FrameType, Stubs
  <1> HIDE DEF f
  <1>8. task'[t] = n /\ \A u \in Tasks \ {t} : task'[u] = task[u]
    BY <1>2 DEF TypeOK
  <1>9. TypeOK'
    <2>1. /\ tpc' \in [Tasks -> Places]
      BY <1>2 DEF TypeOK, Places
    <2>2. stack' \in [Tasks -> Seq(FrameType)]
      <3>1. <<f>> \in Seq(FrameType)
        BY <1>7
      <3>2. stack \in [Tasks -> Seq(FrameType)]
        BY <1>2 DEF TypeOK, FrameType
      <3> QED BY <3>1, <3>2
    <2>3. task' \in [Tasks -> TaskOrNull]
      BY <1>2 DEF TypeOK, TaskOrNull
    <2>4. esp' \in [Tasks -> [of : TaskOrNull, depth : Nat]]
      BY <1>2 DEF TypeOK, TaskOrNull
    <2> QED BY <1>1, <1>2, <2>1, <2>2, <2>3, <2>4 DEF TypeOK, links, pic, FrameType
  <1>10. QueueInv' /\ UNCHANGED Added
    <2>1. \A u \in Tasks : tpc[u] = "link prev" => tpc'[u] = "link prev"
      BY <1>1, <1>5
    <2> QED BY <1>1, <1>2, <2>1, QueueKept
  <1>11. AddInv'
    <2>1. \A u \in Tasks : Adding(u)' => u = t \/ (u # t /\ u # n /\ Adding(u))
      BY <1>5 DEF Adding
    <2>2. ASSUME NEW u \in Tasks, Adding(u), u # t
          PROVE  task[u] \in Tasks \ Added /\ task[u] # n /\ tpc'[task[u]] = "run"
      <3>1. task[u] \in Tasks \ Added /\ tpc[task[u]] = "run"
        BY <1>2, <2>2 DEF AddInv
      <3> QED BY <1>3, <1>5, <3>1
    <2>3. \A u \in Tasks : Adding(u)' => task'[u] \in Tasks \ Added' /\ tpc'[task'[u]] = "run"
      <3>1. task'[t] \in Tasks \ Added' /\ tpc'[task'[t]] = "run"
        BY <1>4, <1>5, <1>8, <1>10
      <3>2. ASSUME NEW u \in Tasks, Adding(u), u # t
            PROVE  task'[u] \in Tasks \ Added' /\ tpc'[task'[u]] = "run"
        BY <1>8, <1>10, <2>2, <3>2
      <3> QED BY <2>1, <3>1, <3>2
    <2>4. \A u, v \in Tasks : Adding(u)' /\ Adding(v)' /\ task'[u] = task'[v] => u = v
      <3>1. \A u, v \in Tasks : Adding(u) /\ Adding(v) /\ task[u] = task[v] => u = v
        BY <1>2 DEF AddInv
      <3> QED BY <1>8, <2>1, <2>2, <3>1
    <2>5. \A u \in Tasks : /\ tpc'[u] = "walk" => tpc[u] = "walk"
                           /\ tpc'[u] = "link next" => tpc[u] = "link next"
                           /\ LinkingBy(u)' => LinkingBy(u) /\ task'[u] = task[u]
      BY <1>5, <1>8 DEF LinkingBy
    <2>6. UNCHANGED <<order, node>>
      BY <1>1 DEF links
    <2>7. /\ \A u \in Tasks : tpc'[u] = "walk" => node'[u] \in Added'
          /\ \A u \in Tasks : tpc'[u] = "link next" => node'[u] = order'[Len(order')]
      BY <1>2, <1>10, <2>5, <2>6 DEF AddInv
    <2>8. \A u \in Tasks : LinkingBy(u)' =>
             /\ Len(order') > 1
             /\ task'[u] = order'[Len(order')] /\ node'[u] = order'[Len(order') - 1]
      <3>1. \A u \in Tasks : LinkingBy(u) =>
               /\ Len(order) > 1
               /\ task[u] = order[Len(order)] /\ node[u] = order[Len(order) - 1]
        BY <1>2, Zenon DEF AddInv
      <3>2. order' = order /\ node' = node
        BY <2>6
      <3> QED BY <2>5, <3>1, <3>2, Zenon
    <2> QED BY <2>3, <2>4, <2>7, <2>8 DEF AddInv
  <1>12. \A u \in Tasks : (BeforeCli(u)' <=> BeforeCli(u)) /\ Depth(u)' = Depth(u)
    <2>1. \A u \in Tasks : BeforeCli(u)' <=> BeforeCli(u)
      BY <1>1, <1>5 DEF BeforeCli
    <2> QED BY <1>1, <2>1, DepthKept
  <1>13. CpuInv'
    <2>1. (IFlag <=> Depth(t) = 0) /\ cpu \in Added /\ cpu = current_task
      BY <1>1, <1>2, OwnCode DEF CpuInv
    <2>2. cpu' = t /\ stack'[t] = <<>> /\ IFlag' = IFlag /\ Depth(t)' = Depth(t)
      BY <1>1, <1>4, <1>6, <1>12
    <2>3. IFlag' <=> Depth(t)' = 0
      BY <2>1, <2>2
    <2> QED BY <1>1, <1>10, <2>1, <2>2, <2>3 DEF CpuInv
  <1>14. ASSUME NEW u \in Tasks PROVE StackInv(u)'
    <2>1. CASE u = n
      <3>1. Depth(u)' = 0
        <4>1. Depth(u) = 0
          BY <1>2, <1>4, <2>1, DepthType
        <4> QED BY <1>12, <4>1
      <3>2. Ready(u)'
        <4>1. esp'[u] = [of |-> u, depth |-> Len(stack'[u])]
          BY <1>6, <2>1
        <4>2. stack'[u] # <<>> /\ stack'[u][Len(stack'[u])].at = "iret"
          BY <1>6, <1>7, <2>1
        <4> QED BY <4>1, <4>2 DEF Ready, Top
      <3>3. /\ \A i \in 1 .. Len(stack'[u]) - 1 : stack'[u][i].at = "cli"
            /\ \A i \in 1 .. Len(stack'[u]) : stack'[u][i].at = "iret"
        <4>1. Len(stack'[u]) = 1 /\ stack'[u][1].at = "iret"
          BY <1>6, <1>7, <2>1
        <4>2. (\A i \in 1 .. 1 : i = 1) /\ (\A i : i \notin 1 .. 1 - 1)
          OBVIOUS
        <4> QED BY <4>1, <4>2
      <3> QED BY <1>1, <1>4, <1>5, <1>10, <2>1, <3>1, <3>2, <3>3 DEF StackInv
    <2>2. CASE u = t
      <3>1. \A i : i \notin 1 .. Len(stack'[u]) /\ i \notin 1 .. Len(stack'[u]) - 1
        BY <1>1, <1>4, <1>6, <2>2
      <3> QED BY <1>1, <1>3, <1>4, <1>5, <1>6, <1>10, <2>2, <3>1 DEF StackInv
    <2>3. CASE u # n /\ u # t
      <3>1. /\ stack'[u] = stack[u] /\ esp'[u] = esp[u] /\ tpc'[u] = tpc[u]
            /\ flags'[u] = flags[u] /\ Depth(u)' = Depth(u) /\ cpu' = cpu
        BY <1>1, <1>5, <1>6, <1>12, <2>3
      <3>2. Ready(u) => Ready(u)'
        BY <3>1 DEF Ready, Top
      <3>3. StackInv(u)
        BY <1>2
      <3> QED BY <1>10, <3>1, <3>2, <3>3 DEF StackInv
    <2> QED BY <2>1, <2>2, <2>3
  <1>15. \A u \in Tasks : FlagInv(u)'
    <2>1. \A u \in Tasks : Inside(u)' => Inside(u)
      BY <1>5 DEF Inside
    <2> QED BY <1>1, <1>2, <1>12, <2>1 DEF FlagInv
  <1> QED BY <1>9, <1>10, <1>11, <1>13, <1>14, <1>15 DEF IInv

LEMMA StutterInv == ASSUME IInv, UNCHANGED vars PROVE IInv'
  <1>1. TypeOK'
    BY DEF IInv, TypeOK, vars, links, code, pic
  <1>2. CpuInv' /\ (\A t \in Tasks : StackInv(t)')
    BY StacksKept DEF vars
  <1> QED BY <1>1, <1>2, CodeKept DEF IInv, vars

LEMMA NextInv == IInv /\ [Next]_vars => IInv'
  <1> SUFFICES ASSUME IInv, [Next]_vars PROVE IInv'
    OBVIOUS
  <1>1. ASSUME NEW l \in Lines, Raise(l) PROVE IInv'
    BY <1>1, RaiseInv
  <1>2. CASE Interrupt \/ Spurious
    BY <1>2, InterruptInv, SpuriousInv
  <1>3. CASE Stub
    BY <1>3, CliInv, HandlerInv, NotPendingInv, PendingInv, IretInv DEF Stub
  <1>4. ASSUME NEW t \in Tasks, Task(t) PROVE IInv'
    BY <1>4, DisableInv, DisableCliInv, RestoreInv, KernelThreadInv, FindTailInv,
       LinkNextInv, LinkPrevInv, LinkEndInv DEF Task
  <1>5. CASE UNCHANGED vars
    BY <1>5, StutterInv
  <1> QED BY <1>1, <1>2, <1>3, <1>4, <1>5 DEF Next

THEOREM Inductive == Spec => []IInv
  BY InitInv, NextInv, PTL DEF Spec

(***************************************************************************)
(* What follows from it.                                                   *)
(***************************************************************************)
\* Whatever interrupts whom: the pointers are to tasks or null, a stack holds frames of
\* lines in use or the one that kernel_thread built, the 8259s serve lines in use.
THEOREM SchedulerTypeCorrect == Spec => []TypeOK
  <1>1. IInv => TypeOK
    BY DEF IInv
  <1> QED BY <1>1, Inductive, PTL

\* For any number of tasks that add tasks and are interrupted anywhere, the links of the
\* run queue are one list in order of addition, whenever none is being linked
\* (sched.c:112-133).
THEOREM RunQueueIsList == Spec => []QueueWellFormed
  <1>1. IInv => QueueWellFormed
    <2>1. ASSUME IInv, ~ Linking PROVE \A t \in Tasks : tpc[t] # "link prev"
      BY <2>1 DEF Linking
    <2> QED BY <2>1 DEF IInv, QueueInv, QueueWellFormed
  <1> QED BY <1>1, Inductive, PTL

\* Critical sections nested to any depth exclude every other task and every interrupt
\* (kernel.h:32-33, asm-utils.S).
THEOREM SectionsExclude == Spec => []CriticalSections
  <1>1. ASSUME IInv PROVE CriticalSections
    <2>1. ASSUME NEW t \in Tasks, Depth(t) > 0
          PROVE  /\ ~ IFlag /\ cpu = t /\ stack[t] = <<>>
                 /\ \A u \in Tasks \ {t} : Depth(u) = 0
      <3>1. ~ IFlag /\ cpu = t /\ stack[t] = <<>>
        BY <1>1, <2>1, InsideRuns
      <3>2. ASSUME NEW u \in Tasks \ {t} PROVE Depth(u) = 0
        <4>1. Depth(u) \in Nat
          BY <1>1, DepthType DEF IInv
        <4>2. ~ (Depth(u) > 0)
          BY <1>1, <3>1, InsideRuns
        <4> QED BY <4>1, <4>2
      <3> QED BY <3>1, <3>2
    <2> QED BY <2>1 DEF CriticalSections
  <1> QED BY <1>1, Inductive, PTL

\* Every task of the queue that is not running has a stack pointer of its own stack and a
\* frame the stub can return from, so that the switch of schedule_pending never loads
\* 0xDEADBEEF (sched.c, idle.c:14-18).
THEOREM SwitchesToFrames == Spec => []ContextCoherent
  <1>1. ASSUME IInv PROVE ContextCoherent
    <2>1. cpu = current_task
      BY <1>1 DEF IInv, CpuInv
    <2>2. ASSUME NEW i \in DOMAIN order, order[i] # cpu PROVE Ready(order[i])
      <3>1. order[i] \in Tasks /\ order[i] \in Added
        BY <1>1, OrderType DEF IInv, Added
      <3>2. StackInv(order[i])
        BY <1>1, <3>1 DEF IInv
      <3> QED BY <2>2, <3>1, <3>2 DEF StackInv
    <2> QED BY <2>1, <2>2 DEF ContextCoherent, Ready
  <1> QED BY <1>1, Inductive, PTL

(***************************************************************************)
(* The scheduler implements RunQueue.                                      *)
(***************************************************************************)
LEMMA PlaceIs ==
    ASSUME NEW S, NEW s \in Seq(S), NEW k \in DOMAIN s,
           \A i, j \in DOMAIN s : s[i] = s[j] => i = j
    PROVE  (CHOOSE i \in DOMAIN s : s[i] = s[k]) = k
  OBVIOUS

LEMMA TurnExists ==
    ASSUME IInv
    PROVE  \E k \in DOMAIN order : order[k] = current_task /\ Turn = k
  <1>1. PICK k \in DOMAIN order : order[k] = current_task
    BY DEF IInv, CpuInv, Added
  <1>2. order \in Seq(Tasks) /\ \A i, j \in DOMAIN order : order[i] = order[j] => i = j
    BY DEF IInv, TypeOK, QueueInv
  <1>3. (CHOOSE i \in DOMAIN order : order[i] = order[k]) = k
    BY <1>2, PlaceIs
  <1> QED BY <1>1, <1>3 DEF Turn

LEMMA InitTurns == Init => Turns!Init
  <1> SUFFICES ASSUME Init PROVE Turns!Init
    OBVIOUS
  <1>1. order = <<Idle>> /\ current_task = Idle /\ DOMAIN order = {1} /\ order[1] = Idle
    BY DEF Init
  <1>2. Turn = 1
    BY <1>1 DEF Turn
  <1> QED BY <1>1, <1>2 DEF Turns!Init

\* The switch is the next turn.
LEMMA SwitchTakesTurn == ASSUME IInv, IInv', schedule_pending PROVE Turns!TakeTurn
  <1>1. PICK k \in DOMAIN order : order[k] = current_task /\ Turn = k
    BY TurnExists
  <1> DEFINE j == IF k = Len(order) THEN 1 ELSE k + 1
  <1>2. j \in DOMAIN order /\ current_task' = order[j] /\ order' = order
    BY <1>1, NextTask DEF schedule_pending, links
  <1>3. order \in Seq(Tasks) /\ \A m, n \in DOMAIN order : order[m] = order[n] => m = n
    BY DEF IInv, TypeOK, QueueInv
  <1> HIDE DEF j
  <1>4. (CHOOSE i \in DOMAIN order : order[i] = order[j]) = j
    BY <1>2, <1>3, PlaceIs
  <1>5. Turn' = j
    BY <1>2, <1>4 DEF Turn
  <1> QED BY <1>1, <1>2, <1>5 DEF Turns!TakeTurn, j

\* Linking a task leaves the turn where it is.
LEMMA LinkAppends ==
    ASSUME IInv, IInv', NEW t \in Tasks, link_next(t)
    PROVE  task[t] \in Tasks /\ Turns!Append_(task[t])
  <1>1. PICK k \in DOMAIN order : order[k] = current_task /\ Turn = k
    BY TurnExists
  <1>2. /\ tpc[t] = "link next" /\ order' = Append(order, task[t])
        /\ current_task' = current_task
    BY DEF link_next, At, machine
  <1>3. task[t] \in Tasks \ Added
    <2>1. Adding(t)
      BY <1>2 DEF Adding
    <2> QED BY <2>1 DEF IInv, AddInv
  <1>4. /\ order \in Seq(Tasks) /\ Len(order) \in Nat /\ DOMAIN order = 1 .. Len(order)
    BY OrderType DEF IInv
  <1>5. k \in DOMAIN order' /\ order'[k] = order[k]
    <2>1. /\ order' \in Seq(Tasks) /\ Len(order') = Len(order) + 1
          /\ \A i \in 1 .. Len(order) : order'[i] = order[i]
      <3>1. task[t] \in Tasks /\ order \in Seq(Tasks)
        BY <1>3, <1>4
      <3>2. LET r == Append(order, task[t]) IN
            /\ r \in Seq(Tasks) /\ Len(r) = Len(order) + 1
            /\ \A i \in 1 .. Len(order) : r[i] = order[i]
        BY <3>1, Pushed
      <3> QED BY <1>2, <3>2
    <2>2. DOMAIN order' = 1 .. Len(order')
      BY <2>1, LenProperties
    <2> QED BY <1>4, <2>1, <2>2
  <1>6. order' \in Seq(Tasks) /\ \A m, n \in DOMAIN order' : order'[m] = order'[n] => m = n
    BY DEF IInv, TypeOK, QueueInv
  <1>7. (CHOOSE i \in DOMAIN order' : order'[i] = order'[k]) = k
    BY <1>5, <1>6, PlaceIs
  <1>8. Turn' = Turn
    BY <1>1, <1>2, <1>5, <1>7 DEF Turn
  <1>9. \A i \in DOMAIN order : order[i] # task[t]
    BY <1>3 DEF Added
  <1> QED BY <1>2, <1>3, <1>8, <1>9 DEF Turns!Append_

\* Every other step is none of the queue's.
LEMMA OtherSteps ==
    ASSUME [Next]_vars, ~ schedule_pending, ~ (\E t \in Tasks : link_next(t))
    PROVE  UNCHANGED <<order, current_task>>
  <1>1. ASSUME NEW l \in Lines, Raise(l) PROVE UNCHANGED <<order, current_task>>
    BY <1>1 DEF Raise, links
  <1>2. CASE Interrupt \/ Spurious
    BY <1>2 DEF Interrupt, Spurious, links
  <1>3. CASE Stub
    BY <1>3 DEF Stub, stub_cli, isr_handler, timer_isr, schedule_not_pending, stub_iret, links
  <1>4. ASSUME NEW t \in Tasks, Task(t) PROVE UNCHANGED <<order, current_task>>
    <2>1. CASE disable_interrupts(t) \/ disable_interrupts_cli(t) \/ restore_interrupts(t)
      BY <2>1 DEF disable_interrupts, disable_interrupts_cli, restore_interrupts, links, machine
    <2>2. CASE kernel_thread(t)
      BY <2>2 DEF kernel_thread, links
    <2>3. CASE find_tail(t) \/ link_prev(t) \/ link_end(t)
      BY <2>3 DEF find_tail, link_prev, link_end, links, machine
    <2> QED BY <1>4, <2>1, <2>2, <2>3 DEF Task
  <1>5. CASE UNCHANGED vars
    BY <1>5 DEF vars, links
  <1> QED BY <1>1, <1>2, <1>3, <1>4, <1>5 DEF Next

LEMMA NextTurns == IInv /\ IInv' /\ [Next]_vars => [Turns!Next]_(Turns!vars)
  <1> SUFFICES ASSUME IInv, IInv', [Next]_vars PROVE [Turns!Next]_(Turns!vars)
    OBVIOUS
  <1>1. CASE schedule_pending
    BY <1>1, SwitchTakesTurn DEF Turns!Next
  <1>2. ASSUME NEW t \in Tasks, link_next(t) PROVE Turns!Next
    BY <1>2, LinkAppends DEF Turns!Next
  <1>3. CASE UNCHANGED <<order, current_task>>
    BY <1>3 DEF Turns!vars, Turn
  <1> QED BY <1>1, <1>2, <1>3, OtherSteps

\* The tasks take turns in the order in which they were added, and a new one goes behind
\* all the others: get_next_task and add_task_to_run_queue, whatever is interrupted
\* (sched.c:47-54, 63-97, 106-129).
THEOREM TakesTurns == Spec => RoundRobin
  <1>1. IInv /\ [Next]_vars => IInv'
    BY NextInv
  <1> QED BY <1>1, InitInv, InitTurns, NextTurns, PTL DEF Spec, RoundRobin, Turns!Spec
-----------------------------------------------------------------------------
(***************************************************************************)
(* Proofs about the interrupts of Scheduler, for any set of lines and any  *)
(* number of tasks: the end of interrupt commands balance the lines in     *)
(* service, the timer ends its own service, the lines that no handler      *)
(* acknowledges stay in service, and stacks are bounded.                   *)
(***************************************************************************)

(***************************************************************************)
(* The frames that owe an EOI, for a value st of the stacks.               *)
(***************************************************************************)
\* The lines of the master that are acknowledged.
Low == 0 .. 6

Owes(st, t, i) ==
    /\ i \in 1 .. Len(st[t])
    /\ st[t][i].at \in {"cli", "handler"}
    /\ st[t][i].line \in Low

Owed(st) == {f \in Tasks \X Nat : Owes(st, f[1], f[2])}

LEMMA OwedIsPending ==
    ASSUME NEW st \in [Tasks -> Seq(FrameType)]
    PROVE  Owed(st) = {f \in {g \in UNION {{t} \X DOMAIN st[t] : t \in Tasks} :
                                  st[g[1]][g[2]].at \in {"cli", "handler"}} :
                           st[f[1]][f[2]].line \in Low}
  <1> DEFINE P == {f \in {g \in UNION {{t} \X DOMAIN st[t] : t \in Tasks} :
                              st[g[1]][g[2]].at \in {"cli", "handler"}} :
                       st[f[1]][f[2]].line \in Low}
  <1>1. \A t \in Tasks : DOMAIN st[t] = 1 .. Len(st[t]) /\ Len(st[t]) \in Nat
    BY LenProperties
  <1>2. ASSUME NEW f \in Owed(st) PROVE f \in P
    <2>1. f \in {f[1]} \X DOMAIN st[f[1]] /\ f[1] \in Tasks
      BY <1>1, <1>2 DEF Owed, Owes
    <2> QED BY <1>2, <2>1 DEF Owed, Owes
  <1>3. ASSUME NEW f \in P PROVE f \in Owed(st)
    <2>1. PICK t \in Tasks : f \in {t} \X DOMAIN st[t]
      OBVIOUS
    <2> QED BY <1>1, <1>3, <2>1 DEF Owed, Owes
  <1> QED BY <1>2, <1>3

LEMMA OwedSame ==
    ASSUME NEW st, NEW su, \A t \in Tasks, i \in Nat : Owes(su, t, i) <=> Owes(st, t, i)
    PROVE  Owed(su) = Owed(st)
  BY DEF Owed

\* Two sets that differ in one element at most.
LEMMA DifferAt ==
    ASSUME NEW U, NEW A \in SUBSET U, NEW B \in SUBSET U, NEW p \in U,
           \A q \in U : q # p => (q \in B <=> q \in A)
    PROVE  (p \in B => B = A \cup {p}) /\ (p \notin B => B = A \ {p})
  OBVIOUS

\* A new frame owes an EOI if its line is acknowledged.
LEMMA OwedPushed ==
    ASSUME NEW st \in [Tasks -> Seq(FrameType)], NEW t \in Tasks, NEW l \in Lines
    PROVE  LET f == Frame(l, "cli")
               su == [st EXCEPT ![t] = Append(@, f)]
               p == <<t, Len(st[t]) + 1>> IN
           /\ p \notin Owed(st)
           /\ Owed(su) = IF l \in Low THEN Owed(st) \cup {p} ELSE Owed(st)
  <1> DEFINE f == Frame(l, "cli")
             r == Append(st[t], f)
             su == [st EXCEPT ![t] = r]
             n == Len(st[t])
             p == <<t, n + 1>>
  <1>1. f \in FrameType /\ f.at = "cli" /\ f.line = l
    BY DEF Frame, FrameType, Stubs
  <1> HIDE DEF f
  <1>2. st[t] \in Seq(FrameType)
    OBVIOUS
  <1>3. n \in Nat /\ Len(r) = n + 1 /\ r[n + 1] = f /\ \A i \in 1 .. n : r[i] = st[t][i]
    <2>1. n \in Nat /\ Len(r) = n + 1 /\ r[Len(r)] = f /\ \A i \in 1 .. n : r[i] = st[t][i]
      BY <1>1, <1>2, Pushed
    <2> QED BY <2>1
  <1> HIDE DEF r
  <1>4. su[t] = r /\ \A u \in Tasks \ {t} : su[u] = st[u]
    OBVIOUS
  <1> HIDE DEF su, n
  <1>5. p \in Tasks \X Nat /\ p[1] = t /\ p[2] = n + 1
    BY <1>3
  <1> HIDE DEF p
  <1>6. p \notin Owed(st)
    <2>1. n + 1 \notin 1 .. n
      BY <1>3
    <2> QED BY <1>5, <2>1 DEF Owed, Owes, n
  <1>7. \A u \in Tasks, i \in Nat : <<u, i>> # p => (Owes(su, u, i) <=> Owes(st, u, i))
    <2> SUFFICES ASSUME NEW u \in Tasks, NEW i \in Nat, <<u, i>> # p
                 PROVE  Owes(su, u, i) <=> Owes(st, u, i)
      OBVIOUS
    <2>1. CASE u # t
      BY <1>4, <2>1 DEF Owes
    <2>2. CASE u = t
      <3>1. i # n + 1
        BY <2>2 DEF p
      <3>2. i \in 1 .. n + 1 <=> i \in 1 .. n
        BY <1>3, <3>1
      <3>3. i \in 1 .. n => su[u][i] = st[u][i]
        BY <1>3, <1>4, <2>2
      <3>4. Len(su[u]) = n + 1 /\ Len(st[u]) = n
        BY <1>3, <1>4, <2>2 DEF n
      <3> QED BY <3>2, <3>3, <3>4 DEF Owes
    <2> QED BY <2>1, <2>2
  <1>8. p \in Owed(su) <=> l \in Low
    <2>1. /\ su[t][n + 1].at = "cli" /\ su[t][n + 1].line = l
          /\ Len(su[t]) = n + 1 /\ n + 1 \in 1 .. n + 1
      BY <1>1, <1>3, <1>4
    <2> QED BY <1>5, <2>1 DEF Owed, Owes
  <1>9. \A q \in Tasks \X Nat : q # p => (q \in Owed(su) <=> q \in Owed(st))
    <2> SUFFICES ASSUME NEW q \in Tasks \X Nat, q # p
                 PROVE  q \in Owed(su) <=> q \in Owed(st)
      OBVIOUS
    <2>1. q = <<q[1], q[2]>> /\ q[1] \in Tasks /\ q[2] \in Nat
      OBVIOUS
    <2> QED BY <1>7, <2>1 DEF Owed
  <1>10. Owed(su) \subseteq Tasks \X Nat /\ Owed(st) \subseteq Tasks \X Nat
    BY DEF Owed
  <1>11. Owed(su) = IF l \in Low THEN Owed(st) \cup {p} ELSE Owed(st)
    <2>1. CASE l \in Low
      BY <1>5, <1>8, <1>9, <1>10, <2>1, DifferAt
    <2>2. CASE l \notin Low
      <3>1. Owed(su) = Owed(st) \ {p}
        BY <1>5, <1>8, <1>9, <1>10, <2>2, DifferAt
      <3> QED BY <1>6, <2>2, <3>1
    <2> QED BY <2>1, <2>2
  <1> QED BY <1>6, <1>11 DEF su, p, n, r, f

\* The stub of the topmost frame gets past isr_handler, or anywhere else.
LEMMA OwedAdvanced ==
    ASSUME TypeOK, stack[cpu] # <<>>, NEW a \in Stubs, Advance(a)
    PROVE  LET p == <<cpu, Len(stack[cpu])>> IN
           /\ p \in Owed(stack) <=> frame.at \in {"cli", "handler"} /\ frame.line \in Low
           /\ Owed(stack') = IF a \in {"cli", "handler"} /\ frame.line \in Low
                             THEN Owed(stack) \cup {p} ELSE Owed(stack) \ {p}
  <1> DEFINE n == Len(stack[cpu])
             p == <<cpu, n>>
  <1>1. /\ n \in Nat \ {0}
        /\ \A t \in Tasks \ {cpu} : stack'[t] = stack[t]
        /\ Len(stack'[cpu]) = n
        /\ \A i \in 1 .. n : i # n => stack'[cpu][i] = stack[cpu][i]
        /\ stack'[cpu][n].at = a /\ stack'[cpu][n].line = frame.line
    BY Advanced
  <1>2. cpu \in Tasks
    BY DEF TypeOK
  <1>3. p \in Tasks \X Nat /\ p[1] = cpu /\ p[2] = n /\ n \in 1 .. n
    BY <1>1, <1>2
  <1>4. p \in Owed(stack) <=> frame.at \in {"cli", "handler"} /\ frame.line \in Low
    BY <1>3 DEF Owed, Owes, frame
  <1>5. p \in Owed(stack') <=> a \in {"cli", "handler"} /\ frame.line \in Low
    BY <1>1, <1>3 DEF Owed, Owes
  <1> HIDE DEF p, n
  <1>6. \A u \in Tasks, i \in Nat : <<u, i>> # p => (Owes(stack', u, i) <=> Owes(stack, u, i))
    <2> SUFFICES ASSUME NEW u \in Tasks, NEW i \in Nat, <<u, i>> # p
                 PROVE  Owes(stack', u, i) <=> Owes(stack, u, i)
      OBVIOUS
    <2>1. CASE u # cpu
      BY <1>1, <2>1 DEF Owes
    <2>2. CASE u = cpu
      <3>1. i # n
        BY <2>2 DEF p
      <3>2. Len(stack[u]) = n /\ Len(stack'[u]) = n
        BY <1>1, <2>2 DEF n
      <3> QED BY <1>1, <2>2, <3>1, <3>2 DEF Owes
    <2> QED BY <2>1, <2>2
  <1>7. \A q \in Tasks \X Nat : q # p => (q \in Owed(stack') <=> q \in Owed(stack))
    <2> SUFFICES ASSUME NEW q \in Tasks \X Nat, q # p
                 PROVE  q \in Owed(stack') <=> q \in Owed(stack)
      OBVIOUS
    <2>1. q = <<q[1], q[2]>> /\ q[1] \in Tasks /\ q[2] \in Nat
      OBVIOUS
    <2> QED BY <1>6, <2>1 DEF Owed
  <1>8. Owed(stack') \subseteq Tasks \X Nat /\ Owed(stack) \subseteq Tasks \X Nat
    BY DEF Owed
  <1>9. /\ p \in Owed(stack') => Owed(stack') = Owed(stack) \cup {p}
        /\ p \notin Owed(stack') => Owed(stack') = Owed(stack) \ {p}
    BY <1>3, <1>7, <1>8, DifferAt
  <1> QED BY <1>4, <1>5, <1>9 DEF p, n

(***************************************************************************)
(* The end of interrupt commands.                                          *)
(***************************************************************************)
BalanceInv ==
    /\ IsFiniteSet(Owed(stack))
    /\ Cardinality(in_service \cap Low) =
          Cardinality(Owed(stack)) + Cardinality(in_service \cap SlaveLines)

LEMMA LineType == \A l \in Lines : l \in Nat /\ l \in 0 .. 15
  <1>1. \A l \in Lines : l \in 0 .. 7 \/ l \in 8 .. 15
    BY SchedulerAssumption DEF MasterLines, SlaveLines
  <1> QED BY <1>1

LEMMA SmallSets == IsFiniteSet(0 .. 15) /\ IsFiniteSet(Low) /\ IsFiniteSet(SlaveLines)
  <1>1. 0 \in Int /\ 6 \in Int /\ 8 \in Int /\ 15 \in Int
    OBVIOUS
  <1> QED BY <1>1, FS_Interval, Zenon DEF Low, SlaveLines

LEMMA InService ==
    ASSUME TypeOK
    PROVE  /\ in_service \in SUBSET (0 .. 15)
           /\ IsFiniteSet(in_service \cap Low) /\ Cardinality(in_service \cap Low) \in Nat
           /\ IsFiniteSet(in_service \cap SlaveLines)
           /\ Cardinality(in_service \cap SlaveLines) \in Nat
  <1>1. in_service \in SUBSET (0 .. 15)
    <2>1. Cascade \in 0 .. 15
      BY DEF Cascade
    <2>2. \A l \in in_service : l \in Lines \/ l = Cascade
      BY DEF TypeOK
    <2> QED BY <2>1, <2>2, LineType
  <1>2. IsFiniteSet(0 .. 15)
    BY SmallSets
  <1>3. IsFiniteSet(in_service \cap Low) /\ IsFiniteSet(in_service \cap SlaveLines)
    BY <1>1, <1>2, FS_Subset
  <1> QED BY <1>1, <1>3, FS_CardinalityType

\* A request is delivered if its line is not in service, and the timer is not.
LEMMA Delivered ==
    ASSUME TypeOK, NEW l \in Deliverable
    PROVE  /\ l \in Lines /\ l \in 0 .. 15 /\ l # Cascade
           /\ l \notin in_service /\ MasterLine(l) \notin in_service /\ Timer \notin in_service
           /\ l \in SlaveLines => MasterLine(l) = Cascade
           /\ l \notin SlaveLines => MasterLine(l) = l /\ l \in MasterLines
  <1>1. l \in Lines
    BY DEF Deliverable, TypeOK
  <1>2. l \in (MasterLines \cup SlaveLines) \ {Cascade}
    BY <1>1, SchedulerAssumption
  <1>3. /\ \A k \in in_service \cap MasterLines : MasterLine(l) < k
        /\ l \in SlaveLines => \A k \in in_service \cap SlaveLines : l < k
    BY DEF Deliverable
  <1>4. /\ l \in SlaveLines => MasterLine(l) = Cascade
        /\ l \notin SlaveLines => MasterLine(l) = l /\ l \in MasterLines
    BY <1>2 DEF MasterLine
  <1>5. MasterLine(l) \in 0 .. 7
    BY <1>4 DEF MasterLines, Cascade
  <1>6. MasterLine(l) \notin in_service /\ Timer \notin in_service
    BY <1>3, <1>5 DEF MasterLines, Timer
  <1>7. l \in 0 .. 15 /\ l # Cascade
    BY <1>2 DEF MasterLines, SlaveLines
  <1>8. l \notin in_service
    BY <1>3, <1>4, <1>6, <1>7
  <1> QED BY <1>1, <1>4, <1>6, <1>7, <1>8

\* An interrupt puts a line of the master in service and owes its EOI; the slave's puts
\* the cascade in service and owes none.
LEMMA InterruptBalance == ASSUME IInv, BalanceInv, Interrupt PROVE BalanceInv'
  <1> PICK l \in Deliverable :
          /\ in_service' = in_service \cup {l, MasterLine(l)}
          /\ stack' = [stack EXCEPT ![cpu] = Append(@, Frame(l, "cli"))]
    BY DEF Interrupt
  <1> DEFINE A == in_service \cap Low
             S == in_service \cap SlaveLines
             O == Owed(stack)
             p == <<cpu, Len(stack[cpu]) + 1>>
  <1>1. TypeOK /\ stack \in [Tasks -> Seq(FrameType)] /\ cpu \in Tasks
    BY DEF IInv, TypeOK, FrameType
  <1>2. /\ l \in Lines /\ l \in 0 .. 15 /\ l # Cascade
        /\ l \notin in_service /\ MasterLine(l) \notin in_service
        /\ l \in SlaveLines => MasterLine(l) = Cascade
        /\ l \notin SlaveLines => MasterLine(l) = l /\ l \in MasterLines
    BY <1>1, Delivered
  <1>3. p \notin O /\ Owed(stack') = IF l \in Low THEN O \cup {p} ELSE O
    BY <1>1, <1>2, OwedPushed
  <1>4. /\ IsFiniteSet(A) /\ IsFiniteSet(S) /\ IsFiniteSet(O)
        /\ Cardinality(A) \in Nat /\ Cardinality(S) \in Nat /\ Cardinality(O) \in Nat
        /\ Cardinality(A) = Cardinality(O) + Cardinality(S)
    BY <1>1, InService, FS_CardinalityType DEF BalanceInv
  <1> HIDE DEF p
  <1>5. CASE l \in Low
    <2>1. in_service' \cap Low = A \cup {l} /\ in_service' \cap SlaveLines = S /\ l \notin A
      BY <1>2, <1>5 DEF Low, SlaveLines, Cascade
    <2>2. /\ Cardinality(A \cup {l}) = Cardinality(A) + 1
          /\ IsFiniteSet(O \cup {p}) /\ Cardinality(O \cup {p}) = Cardinality(O) + 1
      BY <1>3, <1>4, <2>1, FS_AddElement
    <2>3. Owed(stack)' = O \cup {p}
      BY <1>3, <1>5
    <2> HIDE DEF A, S, O
    <2>4. Cardinality(A) + 1 = (Cardinality(O) + 1) + Cardinality(S)
      BY <1>4
    <2> QED BY <2>1, <2>2, <2>3, <2>4 DEF BalanceInv
  <1>6. CASE l \in SlaveLines
    <2>1. /\ in_service' \cap Low = A \cup {Cascade} /\ Cascade \notin A
          /\ in_service' \cap SlaveLines = S \cup {l} /\ l \notin S /\ l \notin Low
      BY <1>2, <1>6 DEF Low, SlaveLines, Cascade
    <2>2. /\ Cardinality(A \cup {Cascade}) = Cardinality(A) + 1
          /\ Cardinality(S \cup {l}) = Cardinality(S) + 1
      BY <1>4, <2>1, FS_AddElement
    <2>3. Owed(stack)' = O
      BY <1>3, <2>1
    <2> HIDE DEF A, S, O
    <2>4. Cardinality(A) + 1 = Cardinality(O) + (Cardinality(S) + 1)
      BY <1>4
    <2> QED BY <1>4, <2>1, <2>2, <2>3, <2>4 DEF BalanceInv
  <1>7. CASE l \notin Low /\ l \notin SlaveLines
    <2>1. in_service' \cap Low = A /\ in_service' \cap SlaveLines = S
      BY <1>2, <1>7
    <2> QED BY <1>3, <1>4, <1>7, <2>1 DEF BalanceInv
  <1> QED BY <1>5, <1>6, <1>7

LEMMA SpuriousBalance == ASSUME IInv, BalanceInv, Spurious PROVE BalanceInv'
  <1>1. stack \in [Tasks -> Seq(FrameType)] /\ cpu \in Tasks
    BY DEF IInv, TypeOK, FrameType
  <1>2. /\ Last \in Lines /\ in_service' = in_service
        /\ stack' = [stack EXCEPT ![cpu] = Append(@, Frame(Last, "cli"))]
    BY DEF Spurious, pic
  <1>3. Last \notin Low
    BY DEF Last, Low
  <1>4. Owed(stack') = Owed(stack)
    BY <1>1, <1>2, <1>3, OwedPushed
  <1> QED BY <1>2, <1>4 DEF BalanceInv

\* isr_handler sends an EOI if its frame owes one, and then some line up to 6 is in
\* service, so that the highest priority in service is one of them.
LEMMA HandlerEOI ==
    ASSUME IInv, BalanceInv, isr_handler
    PROVE  /\ in_service' \subseteq in_service
           /\ frame.line \notin Low => in_service' = in_service
           /\ frame.line \in Low => \E m \in in_service \cap Low : in_service' = in_service \ {m}
  <1> DEFINE A == in_service \cap Low
             O == Owed(stack)
             p == <<cpu, Len(stack[cpu])>>
  <1>1. /\ stack[cpu] # <<>> /\ frame.at = "handler" /\ Advance("request")
        /\ in_service' = IF int_no(frame.line) \in 32 .. 47 THEN EOI ELSE in_service
    BY DEF isr_handler, timer_isr, InStub
  <1>2. TypeOK /\ StackInv(cpu) /\ cpu \in Tasks
    BY DEF IInv, TypeOK
  <1>3. frame.line \in Lines
    <2>1. Len(stack[cpu]) \in Nat \ {0} /\ stack[cpu] \in Seq(FrameType)
      BY <1>1, <1>2, EmptyIsZero DEF TypeOK, FrameType
    <2>2. frame \in FrameType /\ Len(stack[cpu]) \in 1 .. Len(stack[cpu])
      BY <2>1, ElementOfSeq DEF frame
    <2>3. frame.line # New
      BY <1>1, <1>2, <2>2 DEF StackInv, frame
    <2> QED BY <2>2, <2>3 DEF FrameType
  <1>4. frame.line \in 0 .. 15
    BY <1>3, LineType
  <1>5. int_no(frame.line) \in 32 .. 47 <=> frame.line \in Low
    BY <1>4 DEF int_no, Low
  <1>6. ASSUME frame.line \in Low PROVE \E m \in A : EOI = in_service \ {m}
    <2>1. p \in O
      BY <1>1, <1>2, <1>6, OwedAdvanced DEF Stubs
    <2>2. IsFiniteSet(A) /\ Cardinality(A) \in Nat /\ Cardinality(O) \in Nat /\ IsFiniteSet(O)
          /\ Cardinality(A) = Cardinality(O) + Cardinality(in_service \cap SlaveLines)
          /\ Cardinality(in_service \cap SlaveLines) \in Nat
      BY <1>2, InService, FS_CardinalityType DEF BalanceInv
    <2>3. Cardinality(O) # 0
      BY <2>1, <2>2, FS_EmptySet
    <2>4. A # {}
      <3>1. Cardinality(A) # 0
        BY <2>2, <2>3
      <3> QED BY <3>1, FS_EmptySet
    <2>5. PICK m \in A : \A k \in in_service \cap MasterLines : m \leq k
      <3>1. in_service \in SUBSET (0 .. 15)
        BY <1>2, InService
      <3>2. \E m \in A : \A k \in A : m \leq k
        BY <2>4 DEF Low
      <3> QED BY <3>1, <3>2 DEF Low, MasterLines
    <2>6. {l \in in_service \cap MasterLines : \A k \in in_service \cap MasterLines : l \leq k} = {m}
      <3>1. m \in in_service \cap MasterLines
        BY DEF Low, MasterLines
      <3> QED BY <2>5, <3>1 DEF MasterLines
    <2> QED BY <2>6 DEF EOI
  <1> QED BY <1>1, <1>5, <1>6 DEF EOI

LEMMA HandlerBalance == ASSUME IInv, BalanceInv, isr_handler PROVE BalanceInv'
  <1> DEFINE A == in_service \cap Low
             S == in_service \cap SlaveLines
             O == Owed(stack)
             p == <<cpu, Len(stack[cpu])>>
  <1>1. TypeOK /\ stack[cpu] # <<>> /\ frame.at = "handler" /\ Advance("request")
    BY DEF IInv, isr_handler, timer_isr, InStub
  <1>2. (p \in O <=> frame.line \in Low) /\ Owed(stack') = O \ {p}
    BY <1>1, OwedAdvanced DEF Stubs
  <1>3. /\ IsFiniteSet(A) /\ IsFiniteSet(S) /\ IsFiniteSet(O)
        /\ Cardinality(A) \in Nat /\ Cardinality(S) \in Nat /\ Cardinality(O) \in Nat
        /\ Cardinality(A) = Cardinality(O) + Cardinality(S)
    BY <1>1, InService, FS_CardinalityType DEF BalanceInv
  <1>4. CASE frame.line \notin Low
    <2>1. in_service' = in_service /\ Owed(stack') = O
      BY <1>2, <1>4, HandlerEOI
    <2> QED BY <2>1 DEF BalanceInv
  <1>5. CASE frame.line \in Low
    <2>1. PICK m \in A : in_service' = in_service \ {m}
      BY <1>5, HandlerEOI
    <2>2. in_service' \cap Low = A \ {m} /\ in_service' \cap SlaveLines = S
      BY <2>1 DEF Low, SlaveLines
    <2> HIDE DEF p
    <2>3. /\ Cardinality(A \ {m}) = Cardinality(A) - 1
          /\ IsFiniteSet(O \ {p}) /\ Cardinality(O \ {p}) = Cardinality(O) - 1
      BY <1>2, <1>3, <1>5, FS_RemoveElement
    <2>4. Owed(stack)' = O \ {p}
      BY <1>2
    <2> HIDE DEF A, S, O
    <2>5. Cardinality(A) - 1 = (Cardinality(O) - 1) + Cardinality(S)
      BY <1>3
    <2> QED BY <2>2, <2>3, <2>4, <2>5 DEF BalanceInv
  <1> QED BY <1>4, <1>5

\* The rest of the stub, and the tasks, neither owe nor end anything.
LEMMA StubBalance ==
    ASSUME IInv, BalanceInv, stub_cli \/ schedule_not_pending \/ schedule_pending \/ stub_iret
    PROVE  BalanceInv' /\ in_service' = in_service
  <1> DEFINE O == Owed(stack)
             p == <<cpu, Len(stack[cpu])>>
  <1>1. TypeOK /\ stack \in [Tasks -> Seq(FrameType)] /\ cpu \in Tasks
    BY DEF IInv, TypeOK, FrameType
  <1>2. CASE stub_cli
    <2>1. /\ stack[cpu] # <<>> /\ frame.at = "cli" /\ Advance("handler")
          /\ in_service' = in_service
      BY <1>2 DEF stub_cli, InStub, pic
    <2>2. /\ p \in O <=> frame.line \in Low
          /\ Owed(stack') = IF frame.line \in Low THEN O \cup {p} ELSE O \ {p}
      BY <1>1, <2>1, OwedAdvanced DEF Stubs
    <2>3. Owed(stack') = O
      BY <2>2
    <2> QED BY <2>1, <2>3 DEF BalanceInv
  <1>3. CASE schedule_not_pending \/ schedule_pending
    <2>1. /\ stack[cpu] # <<>> /\ frame.at = "request" /\ Advance("iret")
          /\ in_service' = in_service
      BY <1>3 DEF schedule_not_pending, schedule_pending, InStub, pic
    <2>2. p \notin O /\ Owed(stack') = O \ {p}
      BY <1>1, <2>1, OwedAdvanced DEF Stubs
    <2>3. Owed(stack') = O
      BY <2>2
    <2> QED BY <2>1, <2>3 DEF BalanceInv
  <1>4. CASE stub_iret
    <2> DEFINE s == stack[cpu]
               n == Len(s)
               r == SubSeq(s, 1, n - 1)
    <2>1. /\ s # <<>> /\ s[n].at = "iret" /\ in_service' = in_service
          /\ stack' = [stack EXCEPT ![cpu] = r]
      BY <1>4 DEF stub_iret, InStub, frame, pic
    <2>2. /\ n \in Nat \ {0} /\ Len(r) = n - 1
          /\ \A i \in 1 .. n - 1 : r[i] = s[i]
      BY <1>1, <2>1, Popped
    <2> HIDE DEF r
    <2>3. stack'[cpu] = r /\ \A u \in Tasks \ {cpu} : stack'[u] = stack[u]
      BY <1>1, <2>1
    <2>4. ASSUME NEW u \in Tasks, NEW i \in Nat PROVE Owes(stack', u, i) <=> Owes(stack, u, i)
      <3>1. CASE u # cpu
        BY <2>3, <3>1 DEF Owes
      <3>2. CASE u = cpu /\ i # n
        <4>1. i \in 1 .. n <=> i \in 1 .. n - 1
          BY <2>2, <3>2
        <4> QED BY <2>2, <2>3, <3>2, <4>1 DEF Owes
      <3>3. CASE u = cpu /\ i = n
        <4>1. i \notin 1 .. n - 1
          BY <2>2, <3>3
        <4>2. ~ Owes(stack, u, i)
          BY <2>1, <3>3 DEF Owes
        <4> QED BY <2>2, <2>3, <3>3, <4>1, <4>2 DEF Owes
      <3> QED BY <3>1, <3>2, <3>3
    <2>5. Owed(stack') = O
      BY <2>4, OwedSame
    <2> QED BY <2>1, <2>5 DEF BalanceInv
  <1> QED BY <1>2, <1>3, <1>4

\* The frame of a new task owes no EOI.
LEMMA TaskBalance ==
    ASSUME IInv, BalanceInv, NEW t \in Tasks, Task(t)
    PROVE  BalanceInv' /\ in_service' = in_service
  <1>1. CASE kernel_thread(t)
    <2> DEFINE f == Frame(New, "iret")
    <2> PICK n \in Tasks : tpc[n] = "none" /\ stack' = [stack EXCEPT ![n] = <<f>>]
      BY <1>1 DEF kernel_thread
    <2>1. in_service' = in_service /\ stack \in [Tasks -> Seq(FrameType)]
      BY <1>1 DEF kernel_thread, pic, IInv, TypeOK, FrameType
    <2>2. stack[n] = <<>>
      BY DEF IInv, StackInv
    <2>3. f.at = "iret"
      BY DEF Frame
    <2> HIDE DEF f
    <2>4. stack'[n] = <<f>> /\ \A u \in Tasks \ {n} : stack'[u] = stack[u]
      BY <2>1
    <2>5. ASSUME NEW u \in Tasks, NEW i \in Nat PROVE Owes(stack', u, i) <=> Owes(stack, u, i)
      <3>1. CASE u # n
        BY <2>4, <3>1 DEF Owes
      <3>2. CASE u = n
        <4>1. ~ Owes(stack, u, i)
          BY <2>2, <3>2 DEF Owes
        <4>2. Len(stack'[u]) = 1 /\ stack'[u][1].at = "iret"
          BY <2>3, <2>4, <3>2
        <4>3. \A j \in 1 .. 1 : j = 1
          OBVIOUS
        <4> QED BY <4>1, <4>2, <4>3 DEF Owes
      <3> QED BY <3>1, <3>2
    <2>6. Owed(stack') = Owed(stack)
      BY <2>5, OwedSame
    <2> QED BY <2>1, <2>6 DEF BalanceInv
  <1>2. CASE ~ kernel_thread(t)
    <2>1. UNCHANGED <<stack, in_service>>
      BY <1>2 DEF Task, disable_interrupts, disable_interrupts_cli, restore_interrupts,
                  find_tail, link_next, link_prev, link_end, machine, pic
    <2> QED BY <2>1 DEF BalanceInv
  <1> QED BY <1>1, <1>2

LEMMA NextBalance == IInv /\ BalanceInv /\ [Next]_vars => BalanceInv'
  <1> SUFFICES ASSUME IInv, BalanceInv, [Next]_vars PROVE BalanceInv'
    OBVIOUS
  <1>1. ASSUME NEW l \in Lines, Raise(l) PROVE BalanceInv'
    BY <1>1 DEF Raise, BalanceInv
  <1>2. CASE Interrupt \/ Spurious
    BY <1>2, InterruptBalance, SpuriousBalance
  <1>3. CASE Stub
    BY <1>3, HandlerBalance, StubBalance DEF Stub
  <1>4. ASSUME NEW t \in Tasks, Task(t) PROVE BalanceInv'
    BY <1>4, TaskBalance
  <1>5. CASE UNCHANGED vars
    BY <1>5 DEF vars, pic, BalanceInv
  <1> QED BY <1>1, <1>2, <1>3, <1>4, <1>5 DEF Next

LEMMA InitBalance == Init => BalanceInv
  <1> SUFFICES ASSUME Init PROVE BalanceInv
    OBVIOUS
  <1>1. \A t \in Tasks, i \in Nat : ~ Owes(stack, t, i)
    BY DEF Init, Owes
  <1>2. Owed(stack) = {}
    BY <1>1 DEF Owed
  <1>3. in_service \cap Low = {} /\ in_service \cap SlaveLines = {}
    BY DEF Init
  <1>4. IsFiniteSet({}) /\ Cardinality({}) = 0
    BY FS_EmptySet
  <1> QED BY <1>2, <1>3, <1>4 DEF BalanceInv

\* No EOI names its line, and tasks are switched away in front of their cli, but the lines
\* up to 6 in service are at all times as many as the EOIs to come, and one for each line
\* of the slave, which is never acknowledged (isr.c:28-39, idt.c:104-106).
THEOREM EOIsBalance == Spec => []EOIBalance
  <1>1. IInv /\ BalanceInv => EOIBalance
    <2> SUFFICES ASSUME IInv, BalanceInv PROVE EOIBalance
      OBVIOUS
    <2>1. stack \in [Tasks -> Seq(FrameType)]
      BY DEF IInv, TypeOK, FrameType
    <2>2. Owed(stack) = {f \in Pending : LineOf(f) \in 0 .. 6}
      BY <2>1, OwedIsPending DEF Pending, LineOf, Low
    <2> QED BY <2>2 DEF BalanceInv, EOIBalance, Low
  <1> QED BY <1>1, InitInv, NextInv, InitBalance, NextBalance, PTL DEF Spec

\* Only the processor taking an interrupt puts a line in service.
LEMMA NoneServed ==
    ASSUME IInv, BalanceInv, [Next]_vars, ~ Interrupt
    PROVE  in_service' \subseteq in_service
  <1>1. ASSUME NEW l \in Lines, Raise(l) PROVE in_service' = in_service
    BY <1>1 DEF Raise
  <1>2. CASE Spurious
    BY <1>2 DEF Spurious, pic
  <1>3. CASE Stub
    BY <1>3, StubBalance, HandlerEOI DEF Stub
  <1>4. ASSUME NEW t \in Tasks, Task(t) PROVE in_service' = in_service
    BY <1>4, TaskBalance
  <1>5. CASE UNCHANGED vars
    BY <1>5 DEF vars, pic
  <1> QED BY <1>1, <1>2, <1>3, <1>4, <1>5 DEF Next

LEMMA NextHigh ==
    IInv /\ BalanceInv /\ [Next]_vars => in_service \cap (Last .. 15) \subseteq in_service'
  <1> SUFFICES ASSUME IInv, BalanceInv, [Next]_vars
               PROVE  in_service \cap (Last .. 15) \subseteq in_service'
    OBVIOUS
  <1>1. CASE isr_handler
    <2>1. Low \cap (Last .. 15) = {}
      BY DEF Low, Last
    <2> QED BY <1>1, <2>1, HandlerEOI
  <1>2. CASE Interrupt
    BY <1>2 DEF Interrupt
  <1>3. CASE ~ isr_handler /\ ~ Interrupt
    <2>1. ASSUME NEW l \in Lines, Raise(l) PROVE in_service' = in_service
      BY <2>1 DEF Raise
    <2>2. CASE Spurious
      BY <2>2 DEF Spurious, pic
    <2>3. CASE Stub
      BY <1>3, <2>3, StubBalance DEF Stub
    <2>4. ASSUME NEW t \in Tasks, Task(t) PROVE in_service' = in_service
      BY <2>4, TaskBalance
    <2>5. CASE UNCHANGED vars
      BY <2>5 DEF vars, pic
    <2> QED BY <1>3, <2>1, <2>2, <2>3, <2>4, <2>5 DEF Next
  <1> QED BY <1>1, <1>2, <1>3

\* A line from 7 on, whose vector runs ISR20, is served once and for all: the EOI of no
\* other line's handler ends its service (idt.c:104-106, isr.c:28-39).
THEOREM ServedOnce == Spec => UnhandledOnce
  <1>1. IInv /\ BalanceInv /\ [Next]_vars => [in_service \cap (Last .. 15) \subseteq in_service']_vars
    BY NextHigh
  <1> QED BY <1>1, InitInv, NextInv, InitBalance, NextBalance, PTL DEF Spec, UnhandledOnce

(***************************************************************************)
(* The timer.                                                              *)
(***************************************************************************)
TimerInv ==
    Timer \in in_service =>
        stack[cpu] # <<>> /\ frame.line = Timer /\ frame.at \in {"cli", "handler"}

LEMMA NextTimer == IInv /\ BalanceInv /\ TimerInv /\ [Next]_vars => TimerInv'
  <1> SUFFICES ASSUME IInv, BalanceInv, TimerInv, [Next]_vars PROVE TimerInv'
    OBVIOUS
  <1>1. TypeOK /\ cpu \in Tasks /\ stack \in [Tasks -> Seq(FrameType)] /\ stack[cpu] \in Seq(FrameType)
    BY DEF IInv, TypeOK, FrameType
  <1>2. CASE Interrupt
    <2> PICK l \in Deliverable :
            /\ in_service' = in_service \cup {l, MasterLine(l)}
            /\ stack' = [stack EXCEPT ![cpu] = Append(@, Frame(l, "cli"))]
      BY <1>2 DEF Interrupt
    <2> DEFINE f == Frame(l, "cli")
               r == Append(stack[cpu], f)
    <2>1. /\ l \in Lines /\ Timer \notin in_service
          /\ l \in SlaveLines => MasterLine(l) = Cascade
          /\ l \notin SlaveLines => MasterLine(l) = l
      BY <1>1, Delivered
    <2>2. Timer \in in_service' => l = Timer
      BY <2>1 DEF Timer, Cascade
    <2>3. f \in FrameType /\ f.at = "cli" /\ f.line = l
      BY <2>1 DEF Frame, FrameType, Stubs
    <2> HIDE DEF f
    <2>4. r # <<>> /\ r[Len(r)] = f
      BY <1>1, <2>3, Pushed
    <2>5. stack'[cpu] = r /\ cpu' = cpu
      BY <1>1, <1>2 DEF f, Interrupt
    <2> HIDE DEF r
    <2> QED BY <2>2, <2>3, <2>4, <2>5 DEF TimerInv, frame
  <1>3. CASE Timer \notin in_service /\ ~ Interrupt
    BY <1>3, NoneServed DEF TimerInv
  <1>4. CASE Timer \in in_service /\ ~ Interrupt
    <2>1. stack[cpu] # <<>> /\ frame.line = Timer /\ frame.at \in {"cli", "handler"}
      BY <1>4 DEF TimerInv
    <2>2. ASSUME NEW l \in Lines, Raise(l) PROVE TimerInv'
      BY <2>2 DEF TimerInv, Raise, frame
    <2>3. CASE stub_cli
      <3>1. Advance("handler") /\ cpu' = cpu
        BY <2>3 DEF stub_cli
      <3>2. LET n == Len(stack[cpu]) IN
            /\ stack'[cpu] # <<>> /\ Len(stack'[cpu]) = n
            /\ stack'[cpu][n].at = "handler" /\ stack'[cpu][n].line = frame.line
        BY <1>1, <2>1, <3>1, Advanced DEF Stubs
      <3> QED BY <2>1, <3>1, <3>2 DEF TimerInv, frame
    <2>4. CASE isr_handler
      <3>1. in_service' = EOI
        BY <2>1, <2>4 DEF isr_handler, timer_isr, int_no, Timer
      <3>2. in_service \in SUBSET (0 .. 15)
        BY <1>1, InService
      <3>3. Timer \notin EOI
        BY <3>2 DEF EOI, Timer, MasterLines
      <3> QED BY <3>1, <3>3 DEF TimerInv
    <2>5. ~ (schedule_not_pending \/ schedule_pending \/ stub_iret \/ Spurious)
      BY <1>4, <2>1 DEF schedule_not_pending, schedule_pending, stub_iret, InStub, Spurious
    <2>6. ASSUME NEW t \in Tasks PROVE ~ Task(t)
      <3>1. ~ (cpu = t /\ stack[t] = <<>>)
        BY <2>1
      <3> QED BY <3>1 DEF Task, disable_interrupts, disable_interrupts_cli, restore_interrupts,
                          kernel_thread, find_tail, link_next, link_prev, link_end, At
    <2>7. CASE UNCHANGED vars
      BY <2>7 DEF vars, pic, TimerInv, frame
    <2> QED BY <1>4, <2>2, <2>3, <2>4, <2>5, <2>6, <2>7 DEF Next, Stub
  <1> QED BY <1>2, <1>3, <1>4

\* The EOI of the timer's stub ends the timer's service and no other's, and as long as the
\* timer is in service its stub is the one that runs: no tick is lost to another handler
\* (isr.c:28-39).
THEOREM TimerOwnEOI == Spec => []TimerEndsOwnService
  <1>1. IInv /\ TimerInv => TimerEndsOwnService
    <2> SUFFICES ASSUME IInv, TimerInv, Timer \in in_service PROVE EOI = in_service \ {Timer}
      BY DEF TimerInv, TimerEndsOwnService
    <2>1. in_service \in SUBSET (0 .. 15)
      BY InService DEF IInv
    <2>2. {l \in in_service \cap MasterLines : \A k \in in_service \cap MasterLines : l \leq k}
             = {Timer}
      BY <2>1 DEF Timer, MasterLines
    <2> QED BY <2>2 DEF EOI
  <1>2. Init => TimerInv
    BY DEF Init, TimerInv
  <1> QED BY <1>1, <1>2, InitInv, NextInv, InitBalance, NextBalance, NextTimer, PTL DEF Spec

(***************************************************************************)
(* The size of the stacks.                                                 *)
(***************************************************************************)
\* The places of the frames of some lines on a stack.
FramesOf(s, L) == {i \in 1 .. Len(s) : s[i].line \in L}

\* A stack: no more frames of acknowledged lines than there are, of the last line one that
\* is spurious and one that is not, of the slave's, which stay in service, one each, and
\* nothing on top of the frame of a task that never ran.
SizeInv(t) ==
    /\ Cardinality(FramesOf(stack[t], Low)) \leq Cardinality(Lines \cap Low)
    /\ Cardinality(FramesOf(stack[t], {Last})) \leq IF Last \in in_service THEN 2 ELSE 1
    /\ \A i \in FramesOf(stack[t], SlaveLines) : stack[t][i].line \in in_service
    /\ \A i, j \in FramesOf(stack[t], SlaveLines) : stack[t][i].line = stack[t][j].line => i = j
    /\ FramesOf(stack[t], {New}) # {} => Len(stack[t]) = 1

CascadeInv == Cascade \in in_service => in_service \cap SlaveLines # {}

LEMMA FramesFinite ==
    ASSUME NEW S, NEW s \in Seq(S), NEW L
    PROVE  IsFiniteSet(FramesOf(s, L)) /\ Cardinality(FramesOf(s, L)) \in Nat
  <1>1. Len(s) \in Int /\ 1 \in Int
    BY LenProperties
  <1>2. IsFiniteSet(1 .. Len(s))
    BY <1>1, FS_Interval, Zenon
  <1>3. FramesOf(s, L) \in SUBSET (1 .. Len(s))
    BY DEF FramesOf
  <1> QED BY <1>2, <1>3, FS_Subset, FS_CardinalityType

LEMMA FramesPushed ==
    ASSUME NEW s \in Seq(FrameType), NEW e \in FrameType, NEW L
    PROVE  LET r == Append(s, e)
               n == Len(s) + 1 IN
           /\ n \notin FramesOf(s, L)
           /\ e.line \in L => FramesOf(r, L) = FramesOf(s, L) \cup {n}
           /\ e.line \notin L => FramesOf(r, L) = FramesOf(s, L)
  <1> DEFINE r == Append(s, e)
             n == Len(s) + 1
  <1>1. /\ Len(s) \in Nat /\ Len(r) = n /\ r[n] = e
        /\ \A i \in 1 .. Len(s) : r[i] = s[i]
    BY Pushed
  <1>2. \A i : i \in 1 .. n <=> i \in 1 .. Len(s) \/ i = n
    BY <1>1
  <1>3. n \notin 1 .. Len(s)
    BY <1>1
  <1> HIDE DEF n, r
  <1> QED BY <1>1, <1>2, <1>3 DEF FramesOf, n, r

\* A stack whose frames stay, or go, keeps within the bounds.
LEMMA SizeKept ==
    ASSUME NEW t \in Tasks, SizeInv(t), stack[t] \in Seq(FrameType), stack'[t] \in Seq(FrameType),
           Len(stack'[t]) \leq Len(stack[t]),
           \A i \in 1 .. Len(stack'[t]) : stack'[t][i].line = stack[t][i].line,
           in_service \cap (Last .. 15) \subseteq in_service'
    PROVE  SizeInv(t)'
  <1> DEFINE s == stack[t]
             r == stack'[t]
  <1>1. Len(s) \in Nat /\ Len(r) \in Nat
    BY LenProperties
  <1>2. \A i \in 1 .. Len(r) : i \in 1 .. Len(s)
    BY <1>1
  <1>3. ASSUME NEW L
        PROVE  /\ FramesOf(r, L) \subseteq FramesOf(s, L)
               /\ Cardinality(FramesOf(r, L)) \leq Cardinality(FramesOf(s, L))
               /\ Cardinality(FramesOf(r, L)) \in Nat /\ Cardinality(FramesOf(s, L)) \in Nat
    <2>1. FramesOf(r, L) \subseteq FramesOf(s, L)
      BY <1>2 DEF FramesOf
    <2> QED BY <2>1, FramesFinite, FS_Subset
  <1>4. Cardinality(FramesOf(r, Low)) \leq Cardinality(Lines \cap Low)
    <2>1. IsFiniteSet(Lines \cap Low) /\ Cardinality(Lines \cap Low) \in Nat
      BY SmallSets, FS_Intersection, FS_CardinalityType
    <2> QED BY <1>3, <2>1 DEF SizeInv
  <1>5. Cardinality(FramesOf(r, {Last})) \leq IF Last \in in_service' THEN 2 ELSE 1
    <2>1. Last \in in_service => Last \in in_service'
      BY DEF Last
    <2>2. Cardinality(FramesOf(s, {Last})) \leq IF Last \in in_service THEN 2 ELSE 1
      BY DEF SizeInv
    <2> QED BY <1>3, <2>1, <2>2
  <1>6. SlaveLines \subseteq Last .. 15
    BY DEF SlaveLines, Last
  <1>7. /\ \A i \in FramesOf(r, SlaveLines) : r[i].line \in in_service'
        /\ \A i, j \in FramesOf(r, SlaveLines) : r[i].line = r[j].line => i = j
    <2>1. \A i \in FramesOf(r, SlaveLines) :
             i \in FramesOf(s, SlaveLines) /\ r[i].line = s[i].line /\ r[i].line \in SlaveLines
      BY <1>3 DEF FramesOf
    <2> QED BY <1>6, <2>1 DEF SizeInv
  <1>8. FramesOf(r, {New}) # {} => Len(r) = 1
    <2> SUFFICES ASSUME NEW i \in FramesOf(r, {New}) PROVE Len(r) = 1
      OBVIOUS
    <2>1. Len(s) = 1 /\ i \in 1 .. Len(r)
      BY <1>3 DEF SizeInv, FramesOf
    <2> QED BY <1>1, <2>1
  <1> QED BY <1>4, <1>5, <1>7, <1>8 DEF SizeInv

LEMMA SizeSame ==
    ASSUME NEW t \in Tasks, SizeInv(t), stack[t] \in Seq(FrameType), stack'[t] = stack[t],
           in_service \cap (Last .. 15) \subseteq in_service'
    PROVE  SizeInv(t)'
  <1>1. Len(stack[t]) \in Nat /\ Len(stack'[t]) = Len(stack[t]) /\ stack'[t] \in Seq(FrameType)
    BY LenProperties
  <1>2. Len(stack'[t]) \leq Len(stack[t])
    BY <1>1
  <1>3. \A i \in 1 .. Len(stack'[t]) : stack'[t][i].line = stack[t][i].line
    OBVIOUS
  <1> QED BY <1>1, <1>2, <1>3, SizeKept

\* As many EOIs can be owed as there are lines that are acknowledged: the cascade in service
\* makes no more of them, as a line of the slave is then in service.
LEMMA OwedBound ==
    ASSUME NEW sv \in SUBSET (Lines \cup {Cascade}), Cascade \in sv => sv \cap SlaveLines # {},
           NEW k \in Nat, Cardinality(sv \cap Low) = k + Cardinality(sv \cap SlaveLines)
    PROVE  k \leq Cardinality(Lines \cap Low)
  <1>1. IsFiniteSet(Low) /\ IsFiniteSet(SlaveLines)
    BY SmallSets
  <1> DEFINE A == sv \cap Low
             S == sv \cap SlaveLines
             M == Lines \cap Low
  <1>2. /\ IsFiniteSet(A) /\ IsFiniteSet(S) /\ IsFiniteSet(M)
        /\ Cardinality(A) \in Nat /\ Cardinality(S) \in Nat /\ Cardinality(M) \in Nat
    BY <1>1, FS_Intersection, FS_CardinalityType
  <1>3. CASE Cascade \notin sv
    <2>1. A \in SUBSET M
      BY <1>3
    <2>2. Cardinality(A) \leq Cardinality(M)
      BY <1>2, <2>1, FS_Subset
    <2> QED BY <1>2, <2>2
  <1>4. CASE Cascade \in sv
    <2>1. A \in SUBSET (M \cup {Cascade})
      OBVIOUS
    <2>2. IsFiniteSet(M \cup {Cascade}) /\ Cardinality(M \cup {Cascade}) \leq Cardinality(M) + 1
      <3>1. /\ IsFiniteSet(M \cup {Cascade})
            /\ Cardinality(M \cup {Cascade}) =
                  IF Cascade \in M THEN Cardinality(M) ELSE Cardinality(M) + 1
        BY <1>2, FS_AddElement
      <3> QED BY <1>2, <3>1
    <2>3. Cardinality(A) \leq Cardinality(M \cup {Cascade}) /\ Cardinality(M \cup {Cascade}) \in Nat
      BY <2>1, <2>2, FS_Subset, FS_CardinalityType
    <2>4. Cardinality(S) # 0
      BY <1>2, <1>4, FS_EmptySet
    <2> QED BY <1>2, <2>2, <2>3, <2>4
  <1> QED BY <1>3, <1>4

LEMMA NextCascade == IInv /\ BalanceInv /\ CascadeInv /\ [Next]_vars => CascadeInv'
  <1> SUFFICES ASSUME IInv, BalanceInv, CascadeInv, [Next]_vars PROVE CascadeInv'
    OBVIOUS
  <1>1. in_service \cap SlaveLines \subseteq in_service'
    <2>1. in_service \cap (Last .. 15) \subseteq in_service'
      BY NextHigh
    <2>2. SlaveLines \subseteq Last .. 15
      BY DEF SlaveLines, Last
    <2> QED BY <2>1, <2>2
  <1>2. CASE Interrupt
    <2> PICK l \in Deliverable : in_service' = in_service \cup {l, MasterLine(l)}
      BY <1>2 DEF Interrupt
    <2>1. l # Cascade /\ (l \notin SlaveLines => MasterLine(l) = l)
      BY Delivered DEF IInv
    <2> QED BY <1>1, <2>1 DEF CascadeInv
  <1>3. CASE ~ Interrupt
    BY <1>1, <1>3, NoneServed DEF CascadeInv
  <1> QED BY <1>2, <1>3

\* When an interrupt is taken, every frame of the stack is in front of its cli.
LEMMA AllBeforeCli ==
    ASSUME IInv, IFlag
    PROVE  \A i \in 1 .. Len(stack[cpu]) : stack[cpu][i].at = "cli"
  <1>1. cpu \in Tasks /\ stack[cpu] \in Seq(FrameType) /\ CpuInv /\ StackInv(cpu)
    BY DEF IInv, TypeOK, FrameType
  <1>2. Len(stack[cpu]) \in Nat
    BY <1>1, LenProperties
  <1>3. ASSUME NEW i \in 1 .. Len(stack[cpu]) PROVE stack[cpu][i].at = "cli"
    <2>1. stack[cpu] # <<>>
      BY <1>1, <1>2, EmptyIsZero
    <2>2. frame.at = "cli"
      BY <1>1, <2>1 DEF CpuInv
    <2>3. CASE i = Len(stack[cpu])
      BY <2>2, <2>3 DEF frame
    <2>4. CASE i # Len(stack[cpu])
      <3>1. i \in 1 .. Len(stack[cpu]) - 1
        BY <1>2, <2>4
      <3> QED BY <1>1, <3>1 DEF StackInv
    <2> QED BY <2>3, <2>4
  <1> QED BY <1>3

\* The frame that is pushed keeps the stack within its bounds.
LEMMA PushSize ==
    ASSUME IInv, BalanceInv', CascadeInv', TypeOK', NEW t \in Tasks, t = cpu, SizeInv(t), IFlag,
           NEW l \in Lines, stack'[t] = Append(stack[t], Frame(l, "cli")),
           in_service \subseteq in_service',
           l = Last => IF Last \in in_service' THEN Last \notin in_service \/ FramesOf(stack[t], {Last}) = {}
                                               ELSE FramesOf(stack[t], {Last}) = {},
           l \in SlaveLines => l \in in_service' /\ l \notin in_service
    PROVE  SizeInv(t)'
  <1> DEFINE s == stack[t]
             f == Frame(l, "cli")
             r == stack'[t]
             n == Len(s) + 1
  <1>1. s \in Seq(FrameType) /\ r \in Seq(FrameType) /\ Len(s) \in Nat
    BY LenProperties DEF IInv, TypeOK, FrameType
  <1>2. f \in FrameType /\ f.at = "cli" /\ f.line = l /\ l \in Nat
    BY LineType DEF Frame, FrameType, Stubs
  <1> HIDE DEF f
  <1>3. /\ Len(r) = n /\ r[n] = f /\ \A i \in 1 .. Len(s) : r[i] = s[i]
    <2>1. LET q == Append(s, f) IN
          Len(q) = Len(s) + 1 /\ q[Len(q)] = f /\ \A i \in 1 .. Len(s) : q[i] = s[i]
      BY <1>1, <1>2, Pushed
    <2>2. r = Append(s, f)
      BY DEF f
    <2> QED BY <2>1, <2>2
  <1>4. ASSUME NEW L
        PROVE  /\ n \notin FramesOf(s, L)
               /\ l \in L => FramesOf(r, L) = FramesOf(s, L) \cup {n}
               /\ l \notin L => FramesOf(r, L) = FramesOf(s, L)
    <2>1. r = Append(s, f)
      BY DEF f
    <2> QED BY <1>1, <1>2, <2>1, FramesPushed
  <1>5. \A i \in 1 .. Len(r) : r[i].at = "cli"
    <2>1. \A i \in 1 .. Len(s) : s[i].at = "cli"
      BY AllBeforeCli
    <2>2. \A i \in 1 .. n : i \in 1 .. Len(s) \/ i = n
      BY <1>1
    <2> QED BY <1>2, <1>3, <2>1, <2>2
  <1> HIDE DEF r, s, n
  <1>6. Cardinality(FramesOf(r, Low)) \leq Cardinality(Lines \cap Low)
    <2> DEFINE O == Owed(stack')
               g == [i \in FramesOf(r, Low) |-> <<t, i>>]
               k == Cardinality(O)
    <2>1. ASSUME NEW i \in FramesOf(r, Low) PROVE <<t, i>> \in O
      <3>1. i \in 1 .. Len(stack'[t]) /\ stack'[t][i].at = "cli" /\ stack'[t][i].line \in Low
        BY <1>5 DEF FramesOf, r
      <3>2. i \in Nat
        BY <3>1
      <3> QED BY <3>1, <3>2 DEF Owed, Owes
    <2>2. IsFiniteSet(O) /\ k \in Nat
      BY FS_CardinalityType DEF BalanceInv
    <2> HIDE DEF O
    <2>3. g \in Injection(FramesOf(r, Low), O)
      BY <2>1 DEF Injection, IsInjective
    <2>4. Cardinality(FramesOf(r, Low)) \leq k
      BY <2>2, <2>3, FS_Injection
    <2>5. /\ in_service' \in SUBSET (Lines \cup {Cascade})
          /\ Cascade \in in_service' => in_service' \cap SlaveLines # {}
          /\ Cardinality(in_service' \cap Low) = k + Cardinality(in_service' \cap SlaveLines)
      BY DEF TypeOK, CascadeInv, BalanceInv, O
    <2>6. k \leq Cardinality(Lines \cap Low)
      BY <2>2, <2>5, OwedBound
    <2>7. Cardinality(Lines \cap Low) \in Nat /\ Cardinality(FramesOf(r, Low)) \in Nat
      BY <1>1, SmallSets, FS_Intersection, FS_CardinalityType, FramesFinite DEF r
    <2> QED BY <2>2, <2>4, <2>6, <2>7
  <1>7. Cardinality(FramesOf(r, {Last})) \leq IF Last \in in_service' THEN 2 ELSE 1
    <2> DEFINE F == FramesOf(s, {Last})
    <2>1. IsFiniteSet(F) /\ Cardinality(F) \in Nat /\ Cardinality(F) \leq IF Last \in in_service THEN 2 ELSE 1
      BY <1>1, FramesFinite DEF SizeInv, s
    <2>2. CASE l # Last
      <3>1. FramesOf(r, {Last}) = F
        BY <1>4, <2>2
      <3> QED BY <2>1, <3>1
    <2>3. CASE l = Last
      <3>1. FramesOf(r, {Last}) = F \cup {n} /\ n \notin F
        BY <1>4, <2>3
      <3> HIDE DEF F
      <3>2. Cardinality(F \cup {n}) = Cardinality(F) + 1
        BY <2>1, <3>1, FS_AddElement
      <3>3. F = {} => Cardinality(F) = 0
        BY FS_EmptySet
      <3>4. IF Last \in in_service' THEN Last \notin in_service \/ F = {} ELSE F = {}
        BY <2>3 DEF F, s
      <3>5. CASE F = {}
        <4>1. Cardinality(FramesOf(r, {Last})) = 0 + 1
          BY <3>1, <3>2, <3>3, <3>5
        <4> QED BY <4>1
      <3>6. CASE F # {}
        <4>1. Last \in in_service' /\ Last \notin in_service
          BY <3>4, <3>6
        <4>2. Cardinality(F) \leq 1
          BY <2>1, <4>1
        <4>3. Cardinality(FramesOf(r, {Last})) = Cardinality(F) + 1
          BY <3>1, <3>2
        <4>4. Cardinality(F) + 1 \leq 2
          BY <2>1, <4>2
        <4> QED BY <4>1, <4>3, <4>4
      <3> QED BY <3>5, <3>6
    <2> QED BY <2>2, <2>3
  <1>8. ASSUME NEW i \in FramesOf(r, SlaveLines)
        PROVE  /\ r[i].line \in in_service'
               /\ i = n => r[i].line \notin in_service
               /\ i # n => i \in FramesOf(s, SlaveLines) /\ r[i].line = s[i].line
                           /\ r[i].line \in in_service
    <2>1. CASE i = n
      <3>1. l \in SlaveLines /\ r[i].line = l
        BY <1>2, <1>3, <1>8, <2>1 DEF FramesOf
      <3> QED BY <2>1, <3>1
    <2>2. CASE i # n
      <3>1. i \in FramesOf(s, SlaveLines)
        BY <1>4, <1>8, <2>2
      <3>2. r[i].line = s[i].line
        BY <1>3, <3>1 DEF FramesOf
      <3>3. s[i].line \in in_service
        BY <3>1 DEF SizeInv, s
      <3> QED BY <2>2, <3>1, <3>2, <3>3
    <2> QED BY <2>1, <2>2
  <1>9. \A i, j \in FramesOf(r, SlaveLines) : r[i].line = r[j].line => i = j
    <2>1. \A i, j \in FramesOf(s, SlaveLines) : s[i].line = s[j].line => i = j
      BY DEF SizeInv, s
    <2> QED BY <1>8, <2>1
  <1>10. FramesOf(r, {New}) = {}
    <2> SUFFICES ASSUME NEW i \in FramesOf(r, {New}) PROVE FALSE
      OBVIOUS
    <2>1. i \in 1 .. Len(r) /\ r[i].line = New /\ r[i].at = "cli"
      BY <1>5 DEF FramesOf
    <2>2. StackInv(t) /\ l # New
      BY <1>2 DEF IInv, New
    <2>3. i = n \/ i \in 1 .. Len(s)
      BY <1>1, <1>3, <2>1 DEF n
    <2> QED BY <1>2, <1>3, <2>1, <2>2, <2>3 DEF StackInv, s
  <1> QED BY <1>6, <1>7, <1>8, <1>9, <1>10 DEF SizeInv, r

LEMMA InterruptSize ==
    ASSUME IInv, BalanceInv', CascadeInv', TypeOK', Interrupt, \A t \in Tasks : SizeInv(t)
    PROVE  \A t \in Tasks : SizeInv(t)'
  <1> PICK l \in Deliverable :
          /\ in_service' = in_service \cup {l, MasterLine(l)}
          /\ stack' = [stack EXCEPT ![cpu] = Append(@, Frame(l, "cli"))]
    BY DEF Interrupt
  <1>1. /\ l \in Lines /\ l \notin in_service /\ l \in in_service' /\ IFlag
        /\ in_service \subseteq in_service'
    BY Delivered DEF IInv, Interrupt
  <1>2. stack \in [Tasks -> Seq(FrameType)] /\ stack' \in [Tasks -> Seq(FrameType)] /\ cpu \in Tasks
    BY DEF IInv, TypeOK, FrameType
  <1>3. ASSUME NEW t \in Tasks, t = cpu PROVE SizeInv(t)'
    <2>1. stack'[t] = Append(stack[t], Frame(l, "cli"))
      BY <1>2, <1>3
    <2>2. l = Last => Last \in in_service' /\ Last \notin in_service
      BY <1>1
    <2> QED BY <1>1, <1>3, <2>1, <2>2, PushSize
  <1>4. ASSUME NEW t \in Tasks, t # cpu PROVE SizeInv(t)'
    <2>1. stack'[t] = stack[t] /\ stack[t] \in Seq(FrameType)
      BY <1>2, <1>4
    <2> QED BY <1>1, <2>1, SizeSame
  <1> QED BY <1>3, <1>4

LEMMA SpuriousSize ==
    ASSUME IInv, BalanceInv', CascadeInv', TypeOK', Spurious, \A t \in Tasks : SizeInv(t)
    PROVE  \A t \in Tasks : SizeInv(t)'
  <1>1. /\ Last \in Lines /\ in_service' = in_service /\ IFlag
        /\ stack' = [stack EXCEPT ![cpu] = Append(@, Frame(Last, "cli"))]
        /\ \A i \in DOMAIN stack[cpu] : stack[cpu][i].line # Last
    BY DEF Spurious, pic
  <1>2. stack \in [Tasks -> Seq(FrameType)] /\ cpu \in Tasks /\ stack[cpu] \in Seq(FrameType)
    BY DEF IInv, TypeOK, FrameType
  <1>3. ASSUME NEW t \in Tasks, t = cpu PROVE SizeInv(t)'
    <2>1. stack'[t] = Append(stack[t], Frame(Last, "cli"))
      BY <1>1, <1>2, <1>3
    <2>2. DOMAIN stack[t] = 1 .. Len(stack[t])
      BY <1>2, <1>3, LenProperties
    <2>3. FramesOf(stack[t], {Last}) = {}
      BY <1>1, <1>3, <2>2 DEF FramesOf
    <2>4. Last \notin SlaveLines
      BY DEF Last, SlaveLines
    <2> QED BY <1>1, <1>3, <2>1, <2>3, <2>4, PushSize
  <1>4. ASSUME NEW t \in Tasks, t # cpu PROVE SizeInv(t)'
    <2>1. stack'[t] = stack[t] /\ stack[t] \in Seq(FrameType)
      BY <1>1, <1>2, <1>4
    <2> QED BY <1>1, <2>1, SizeSame
  <1> QED BY <1>3, <1>4

\* The stub pushes nothing.
LEMMA StubSize ==
    ASSUME IInv, BalanceInv, TypeOK', [Next]_vars, Stub, NEW t \in Tasks, SizeInv(t)
    PROVE  SizeInv(t)'
  <1>1. /\ stack \in [Tasks -> Seq(FrameType)] /\ stack' \in [Tasks -> Seq(FrameType)]
        /\ cpu \in Tasks /\ TypeOK
        /\ stack[t] \in Seq(FrameType) /\ stack'[t] \in Seq(FrameType)
    BY DEF IInv, TypeOK, FrameType
  <1>2. in_service \cap (Last .. 15) \subseteq in_service'
    BY NextHigh
  <1>3. Len(stack[t]) \in Nat
    BY <1>1, LenProperties
  <1>4. ASSUME NEW a \in Stubs, stack[cpu] # <<>>, Advance(a) PROVE SizeInv(t)'
    <2>1. LET n == Len(stack[cpu]) IN
          /\ \A u \in Tasks \ {cpu} : stack'[u] = stack[u]
          /\ Len(stack'[cpu]) = n
          /\ \A i \in 1 .. n : i # n => stack'[cpu][i] = stack[cpu][i]
          /\ stack'[cpu][n].line = stack[cpu][n].line
      BY <1>1, <1>4, Advanced DEF frame
    <2>2. /\ Len(stack'[t]) \leq Len(stack[t])
          /\ \A i \in 1 .. Len(stack'[t]) : stack'[t][i].line = stack[t][i].line
      <3>1. CASE t = cpu
        BY <1>3, <2>1, <3>1
      <3>2. CASE t # cpu
        BY <1>3, <2>1, <3>2
      <3> QED BY <3>1, <3>2
    <2> QED BY <1>1, <1>2, <2>2, SizeKept
  <1>5. CASE stub_cli
    BY <1>4, <1>5 DEF stub_cli, InStub, Stubs
  <1>6. CASE isr_handler
    BY <1>4, <1>6 DEF isr_handler, timer_isr, InStub, Stubs
  <1>7. CASE schedule_not_pending \/ schedule_pending
    BY <1>4, <1>7 DEF schedule_not_pending, schedule_pending, InStub, Stubs
  <1>8. CASE stub_iret
    <2> DEFINE s == stack[cpu]
               r == SubSeq(s, 1, Len(s) - 1)
    <2>1. s # <<>> /\ s \in Seq(FrameType) /\ stack' = [stack EXCEPT ![cpu] = r]
      BY <1>1, <1>8 DEF stub_iret, InStub
    <2>2. /\ Len(s) \in Nat \ {0} /\ Len(r) = Len(s) - 1
          /\ \A i \in 1 .. Len(s) - 1 : r[i] = s[i]
      BY <2>1, Popped
    <2> HIDE DEF r
    <2>3. stack'[cpu] = r /\ \A u \in Tasks \ {cpu} : stack'[u] = stack[u]
      BY <1>1, <2>1
    <2>4. /\ Len(stack'[t]) \leq Len(stack[t])
          /\ \A i \in 1 .. Len(stack'[t]) : stack'[t][i].line = stack[t][i].line
      <3>1. CASE t = cpu
        BY <2>2, <2>3, <3>1
      <3>2. CASE t # cpu
        BY <1>3, <2>3, <3>2
      <3> QED BY <3>1, <3>2
    <2> QED BY <1>1, <1>2, <2>4, SizeKept
  <1> QED BY <1>5, <1>6, <1>7, <1>8 DEF Stub

LEMMA TaskSize ==
    ASSUME IInv, BalanceInv, TypeOK', NEW u \in Tasks, Task(u), NEW t \in Tasks, SizeInv(t)
    PROVE  SizeInv(t)'
  <1>1. /\ stack \in [Tasks -> Seq(FrameType)] /\ stack[t] \in Seq(FrameType)
        /\ stack'[t] \in Seq(FrameType)
    BY DEF IInv, TypeOK, FrameType
  <1>2. in_service' = in_service
    BY TaskBalance
  <1>4. CASE stack'[t] = stack[t]
    BY <1>1, <1>2, <1>4, SizeSame
  <1>5. CASE stack'[t] # stack[t]
    <2>1. kernel_thread(u)
      BY <1>5 DEF Task, disable_interrupts, disable_interrupts_cli, restore_interrupts,
                  find_tail, link_next, link_prev, link_end, machine
    <2> DEFINE f == Frame(New, "iret")
    <2>2. stack'[t] = <<f>>
      BY <1>1, <1>5, <2>1 DEF kernel_thread
    <2>3. f.line = New
      BY DEF Frame
    <2> HIDE DEF f
    <2>4. Len(stack'[t]) = 1 /\ \A i \in 1 .. 1 : stack'[t][i].line = New
      BY <2>2, <2>3
    <2>5. New \notin Low /\ New \notin {Last} /\ New \notin SlaveLines
      BY DEF New, Low, Last, SlaveLines
    <2>6. /\ FramesOf(stack'[t], Low) = {} /\ FramesOf(stack'[t], {Last}) = {}
          /\ FramesOf(stack'[t], SlaveLines) = {}
      BY <2>4, <2>5 DEF FramesOf
    <2>7. Cardinality({}) = 0 /\ Cardinality(Lines \cap Low) \in Nat
      BY SmallSets, FS_EmptySet, FS_Intersection, FS_CardinalityType
    <2>8. /\ Cardinality(FramesOf(stack'[t], Low)) \leq Cardinality(Lines \cap Low)
          /\ Cardinality(FramesOf(stack'[t], {Last})) \leq IF Last \in in_service' THEN 2 ELSE 1
      BY <2>6, <2>7
    <2> QED BY <2>4, <2>6, <2>8 DEF SizeInv
  <1> QED BY <1>4, <1>5

LEMMA NextSize ==
    ASSUME IInv, BalanceInv, IInv', BalanceInv', CascadeInv', [Next]_vars, \A t \in Tasks : SizeInv(t)
    PROVE  \A t \in Tasks : SizeInv(t)'
  <1>1. TypeOK'
    BY DEF IInv
  <1>2. ASSUME NEW t \in Tasks, UNCHANGED <<stack, in_service>> PROVE SizeInv(t)'
    BY <1>2 DEF SizeInv
  <1>3. ASSUME NEW l \in Lines, Raise(l) PROVE \A t \in Tasks : SizeInv(t)'
    BY <1>2, <1>3 DEF Raise
  <1>4. CASE Interrupt \/ Spurious
    BY <1>1, <1>4, InterruptSize, SpuriousSize
  <1>5. CASE Stub
    BY <1>1, <1>5, StubSize
  <1>6. ASSUME NEW u \in Tasks, Task(u) PROVE \A t \in Tasks : SizeInv(t)'
    BY <1>1, <1>6, TaskSize
  <1>7. CASE UNCHANGED vars
    BY <1>2, <1>7 DEF vars, pic
  <1> QED BY <1>3, <1>4, <1>5, <1>6, <1>7 DEF Next

LEMMA InitSize == Init => CascadeInv /\ \A t \in Tasks : SizeInv(t)
  <1> SUFFICES ASSUME Init PROVE CascadeInv /\ \A t \in Tasks : SizeInv(t)
    OBVIOUS
  <1>1. CascadeInv
    BY DEF Init, CascadeInv
  <1>2. ASSUME NEW t \in Tasks PROVE SizeInv(t)
    <2>1. stack[t] = <<>> /\ Last \notin in_service
      BY DEF Init
    <2>2. /\ FramesOf(stack[t], Low) = {} /\ FramesOf(stack[t], {Last}) = {}
          /\ FramesOf(stack[t], SlaveLines) = {} /\ FramesOf(stack[t], {New}) = {}
      BY <2>1 DEF FramesOf
    <2>3. Cardinality({}) = 0 /\ Cardinality(Lines \cap Low) \in Nat
      BY SmallSets, FS_EmptySet, FS_Intersection, FS_CardinalityType
    <2>4. /\ Cardinality(FramesOf(stack[t], Low)) \leq Cardinality(Lines \cap Low)
          /\ Cardinality(FramesOf(stack[t], {Last})) \leq IF Last \in in_service THEN 2 ELSE 1
      BY <2>2, <2>3
    <2> QED BY <2>2, <2>4 DEF SizeInv
  <1> QED BY <1>1, <1>2

\* The lines are those of the three kinds.
LEMMA LinesCounted ==
    /\ IsFiniteSet(Lines) /\ Cardinality(Lines) \in Nat
    /\ Cardinality(Lines \cap Low) \in Nat /\ Cardinality(Lines \cap SlaveLines) \in Nat
    /\ Cardinality(Lines) = Cardinality(Lines \cap Low) + Cardinality(Lines \cap SlaveLines)
                               + (IF Last \in Lines THEN 1 ELSE 0)
  <1> DEFINE A == Lines \cap Low
             B == Lines \cap SlaveLines
             C == Lines \cap {Last}
  <1>1. /\ IsFiniteSet(A) /\ IsFiniteSet(B)
        /\ Cardinality(A) \in Nat /\ Cardinality(B) \in Nat
    BY SmallSets, FS_Intersection, FS_CardinalityType
  <1>2. Lines = (A \cup B) \cup C
    BY LineType DEF Low, SlaveLines, Last
  <1>3. A \cap B = {} /\ Last \notin A \cup B
    BY DEF Low, SlaveLines, Last
  <1>4. IsFiniteSet(A \cup B) /\ Cardinality(A \cup B) = Cardinality(A) + Cardinality(B)
    <2>1. /\ IsFiniteSet(A \cup B)
          /\ Cardinality(A \cup B) = Cardinality(A) + Cardinality(B) - Cardinality(A \cap B)
      BY <1>1, FS_Union
    <2>2. Cardinality(A \cap B) = 0
      BY <1>3, FS_EmptySet
    <2> QED BY <1>1, <2>1, <2>2
  <1> HIDE DEF A, B
  <1>5. CASE Last \in Lines
    <2>1. Lines = (A \cup B) \cup {Last}
      BY <1>2, <1>5
    <2>2. /\ IsFiniteSet((A \cup B) \cup {Last})
          /\ Cardinality((A \cup B) \cup {Last}) = Cardinality(A \cup B) + 1
      BY <1>3, <1>4, FS_AddElement
    <2>3. /\ Cardinality(Lines) = Cardinality(A) + Cardinality(B) + 1 /\ IsFiniteSet(Lines)
          /\ Cardinality(A) \in Nat /\ Cardinality(B) \in Nat
      <3>1. Cardinality(Lines) = Cardinality(A \cup B) + 1 /\ IsFiniteSet(Lines)
        BY <2>1, <2>2
      <3> QED BY <1>4, <3>1, <1>1 DEF A, B
    <2>4. Cardinality(Lines) \in Nat
      BY <2>3
    <2> QED BY <1>5, <2>3, <2>4 DEF A, B
  <1>6. CASE Last \notin Lines
    <2>1. Lines = A \cup B
      BY <1>2, <1>6
    <2>2. /\ Cardinality(Lines) = Cardinality(A) + Cardinality(B) + 0 /\ IsFiniteSet(Lines)
          /\ Cardinality(A) \in Nat /\ Cardinality(B) \in Nat
      <3>1. Cardinality(Lines) = Cardinality(A \cup B) /\ IsFiniteSet(Lines)
        BY <1>4, <2>1
      <3> QED BY <1>1, <1>4, <3>1 DEF A, B
    <2>3. Cardinality(Lines) \in Nat
      BY <2>2
    <2> QED BY <1>6, <2>2, <2>3 DEF A, B
  <1> QED BY <1>5, <1>6

\* A stack never holds more frames than there are lines, and one that is spurious, although
\* the stub can be interrupted in front of its cli and tasks are switched away there: one
\* page, DEFAULT_STACK_SIZE, is enough (process.c).
THEOREM StacksBounded == Spec => []StackBounded
  <1>1. ASSUME TypeOK, \A t \in Tasks : SizeInv(t) PROVE StackBounded
    <2> SUFFICES ASSUME NEW t \in Tasks
                 PROVE  Len(stack[t]) \leq Cardinality(Lines) + (IF Last \in Lines THEN 1 ELSE 0)
      BY DEF StackBounded
    <2> DEFINE s == stack[t]
               A == FramesOf(s, Low)
               B == FramesOf(s, SlaveLines)
               C == FramesOf(s, {Last})
    <2>1. s \in Seq(FrameType) /\ Len(s) \in Nat /\ SizeInv(t)
      BY <1>1, LenProperties DEF TypeOK, FrameType
    <2>2. \A i \in 1 .. Len(s) : s[i].line \in Lines \/ s[i].line = New
      <3>1. \A i \in 1 .. Len(s) : s[i] \in FrameType
        BY <2>1, ElementOfSeq
      <3> HIDE DEF s
      <3> QED BY <3>1 DEF FrameType
    <2>3. CASE FramesOf(s, {New}) # {}
      <3>1. Len(s) = 1
        BY <2>1, <2>3 DEF SizeInv
      <3>2. Cardinality(Lines) # 0
        BY LinesCounted, FS_EmptySet, SchedulerAssumption
      <3> QED BY <3>1, <3>2, LinesCounted
    <2>4. CASE FramesOf(s, {New}) = {}
      <3>1. \A i \in 1 .. Len(s) : s[i].line \in Lines
        BY <2>2, <2>4 DEF FramesOf
      <3>2. 1 .. Len(s) = (A \cup B) \cup C
        <4>1. \A l \in Lines : l \in Low \/ l \in SlaveLines \/ l = Last
          BY LineType DEF Low, SlaveLines, Last
        <4> QED BY <3>1, <4>1 DEF FramesOf
      <3>3. /\ IsFiniteSet(A) /\ IsFiniteSet(B) /\ IsFiniteSet(C)
            /\ Cardinality(A) \in Nat /\ Cardinality(B) \in Nat /\ Cardinality(C) \in Nat
        BY <2>1, FramesFinite
      <3>4. Cardinality(B) \leq Cardinality(Lines \cap SlaveLines)
        <4> DEFINE g == [i \in B |-> s[i].line]
        <4>1. \A i \in B : s[i].line \in Lines \cap SlaveLines
          BY <3>1 DEF FramesOf
        <4>2. \A i, j \in B : s[i].line = s[j].line => i = j
          BY <2>1 DEF SizeInv
        <4> HIDE DEF B
        <4>3. g \in Injection(B, Lines \cap SlaveLines)
          BY <4>1, <4>2 DEF Injection, IsInjective
        <4>4. IsFiniteSet(Lines \cap SlaveLines)
          BY SmallSets, FS_Intersection
        <4> QED BY <4>3, <4>4, FS_Injection
      <3>5. Cardinality(C) \leq IF Last \in Lines THEN 2 ELSE 0
        <4>1. CASE Last \in Lines
          <5>1. Cardinality(C) \leq 2
            BY <2>1, <3>3 DEF SizeInv
          <5> QED BY <4>1, <5>1
        <4>2. CASE Last \notin Lines
          <5>1. C = {}
            BY <3>1, <4>2 DEF FramesOf
          <5> QED BY <4>2, <5>1, FS_EmptySet
        <4> QED BY <4>1, <4>2
      <3>6. Cardinality(A) \leq Cardinality(Lines \cap Low)
        BY <2>1 DEF SizeInv
      <3> HIDE DEF A, B, C
      <3>7. Len(s) \leq Cardinality(A) + Cardinality(B) + Cardinality(C)
        <4>1. Cardinality(1 .. Len(s)) = Len(s)
          <5>1. 1 \in Int /\ Len(s) \in Int
            BY <2>1
          <5>2. Cardinality(1 .. Len(s)) = IF 1 > Len(s) THEN 0 ELSE Len(s) - 1 + 1
            BY <5>1, FS_Interval, Zenon
          <5> QED BY <2>1, <5>2
        <4>2. IsFiniteSet(A \cup B) /\ Cardinality(A \cup B) \leq Cardinality(A) + Cardinality(B)
              /\ Cardinality(A \cup B) \in Nat
          <5>1. /\ IsFiniteSet(A \cup B)
                /\ Cardinality(A \cup B) = Cardinality(A) + Cardinality(B) - Cardinality(A \cap B)
            BY <3>3, FS_Union
          <5>2. Cardinality(A \cap B) \in Nat /\ Cardinality(A \cup B) \in Nat
            BY <3>3, <5>1, FS_Intersection, FS_CardinalityType
          <5> QED BY <3>3, <5>1, <5>2
        <4>3. Cardinality((A \cup B) \cup C) \leq Cardinality(A \cup B) + Cardinality(C)
          <5>1. Cardinality((A \cup B) \cup C) =
                   Cardinality(A \cup B) + Cardinality(C) - Cardinality((A \cup B) \cap C)
            BY <3>3, <4>2, FS_Union
          <5>2. Cardinality((A \cup B) \cap C) \in Nat
            BY <3>3, <4>2, FS_Intersection, FS_CardinalityType
          <5> QED BY <3>3, <4>2, <5>1, <5>2
        <4>4. Cardinality((A \cup B) \cup C) = Len(s)
          BY <3>2, <4>1
        <4> HIDE DEF s
        <4>5. Len(s) \leq Cardinality(A \cup B) + Cardinality(C)
          BY <4>3, <4>4
        <4> QED BY <2>1, <3>3, <4>2, <4>5
      <3> QED BY <2>1, <3>3, <3>4, <3>5, <3>6, <3>7, LinesCounted
    <2> QED BY <2>3, <2>4
  <1>2. IInv => TypeOK
    BY DEF IInv
  <1> DEFINE Size == \A t \in Tasks : SizeInv(t)
  <1>3. Init => CascadeInv /\ Size
    BY InitSize
  <1>4. IInv /\ BalanceInv /\ IInv' /\ BalanceInv' /\ CascadeInv' /\ Size /\ [Next]_vars => Size'
    BY NextSize
  <1>5. TypeOK /\ Size => StackBounded
    BY <1>1
  <1> HIDE DEF Size
  <1> QED BY <1>2, <1>3, <1>4, <1>5, InitInv, NextInv, InitBalance, NextBalance,
             NextCascade, PTL DEF Spec
=============================================================================
