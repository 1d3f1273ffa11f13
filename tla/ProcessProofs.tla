---------------------------- MODULE ProcessProofs ----------------------------
(***************************************************************************)
(* Proofs about Process, for any number of task_structs, contexts and      *)
(* calls: kernel_thread gives no task_struct away twice and puts only      *)
(* complete threads on the run queue, however the contexts preempt each    *)
(* other.                                                                  *)
(***************************************************************************)
EXTENDS Process, TLAPS

\* The places between cli and popf of get_free_task_struct.
Inside == {"load", "store", "exit"}

\* The places at which a call has an index that is its own.
Owning == {"exit", "assert", "report", "spin", "stack", "registers", "esp", "add"}

\* The critical section: the context inside of it runs with interrupts off, and
\* nobody else turns them off.
SectionInv ==
    /\ \A c \in Contexts :
          /\ pc[c] \in Inside => c = cpu /\ ~ IFlag
          /\ pc[c] \in Inside \cup {"cli"} => eflags[c]
    /\ ~ IFlag => pc[cpu] \in Inside

\* Every index that was given out is below the next one, also the one whose store
\* is still to come, and what is on the run queue was given out.
IndexInv ==
    /\ \A c \in Contexts : pc[c] \in Owning => allocated_index[c] < task_struct_array_index
    /\ \A c \in Contexts : pc[c] = "store" => allocated_index[c] = task_struct_array_index
    /\ \A i \in DOMAIN queue : queue[i] < task_struct_array_index

\* How far the frame of the thread is when the call is at a place.
FrameInv ==
    \A c \in Contexts :
        /\ pc[c] \in {"esp", "add"} => frame[allocated_index[c]] = Built
        /\ pc[c] = "add" => esp[allocated_index[c]]

\* The index is in the array when it is used: the assertion lets a call pass only if
\* there is one task_struct in the array and the index is 0.
LimitInv ==
    \A c \in Contexts :
        pc[c] \in {"stack", "registers", "esp", "add"} => allocated_index[c] < MaxThreads

IInv == TypeOK /\ SectionInv /\ IndexInv /\ DistinctStructs /\ ReadyToRun /\ FrameInv /\ LimitInv

LEMMA InitInv == Init => IInv
  BY ProcessAssumption
  DEF Init, IInv, TypeOK, SectionInv, IndexInv, DistinctStructs, ReadyToRun, LimitInv, Inside,
      Owning, Given, Structs, Unbuilt

\* A switch changes nothing but cpu, and is not possible in a critical section.
LEMMA SwitchInv == IInv /\ Switch => IInv'
  <1> SUFFICES ASSUME IInv, Switch PROVE IInv'
    OBVIOUS
  <1> USE ProcessAssumption DEF IInv, Switch, alloc, thread
  <1>1. TypeOK'
    BY DEF TypeOK, Live, Contexts
  <1>2. SectionInv'
    BY DEF SectionInv
  <1>3. IndexInv' /\ DistinctStructs' /\ ReadyToRun' /\ FrameInv' /\ LimitInv'
    BY DEF IndexInv, DistinctStructs, ReadyToRun, FrameInv, LimitInv, Given
  <1> QED BY <1>1, <1>2, <1>3

LEMMA CallInv ==
    ASSUME IInv, NEW c \in Contexts, kernel_thread(c)
    PROVE  IInv'
  <1> USE ProcessAssumption DEF IInv, kernel_thread, From, alloc, thread
  <1>1. TypeOK'
    BY DEF TypeOK
  <1>2. SectionInv'
    BY DEF SectionInv, Inside
  <1>3. IndexInv'
    BY DEF IndexInv, Owning
  <1>4. DistinctStructs'
    BY DEF DistinctStructs, Given
  <1>5. ReadyToRun' /\ FrameInv'
    BY DEF ReadyToRun, FrameInv
  <1>6. LimitInv'
    BY DEF LimitInv
  <1> QED BY <1>1, <1>2, <1>3, <1>4, <1>5, <1>6

LEMMA PushfInv ==
    ASSUME IInv, NEW c \in Contexts, enter_pushf(c)
    PROVE  IInv'
  <1> USE ProcessAssumption DEF IInv, enter_pushf, From, alloc, thread
  <1>1. TypeOK'
    BY DEF TypeOK
  <1>2. SectionInv'
    BY DEF TypeOK, SectionInv, Inside
  <1>3. IndexInv'
    BY DEF IndexInv, Owning
  <1>4. DistinctStructs'
    BY DEF DistinctStructs, Given
  <1>5. ReadyToRun' /\ FrameInv'
    BY DEF ReadyToRun, FrameInv
  <1>6. LimitInv'
    BY DEF LimitInv
  <1> QED BY <1>1, <1>2, <1>3, <1>4, <1>5, <1>6

LEMMA CliInv ==
    ASSUME IInv, NEW c \in Contexts, enter_cli(c)
    PROVE  IInv'
  <1> USE ProcessAssumption DEF IInv, enter_cli, From, alloc, thread
  <1>1. TypeOK'
    BY DEF TypeOK
  <1>2. SectionInv'
    BY DEF TypeOK, SectionInv, Inside
  <1>3. IndexInv'
    BY DEF IndexInv, Owning
  <1>4. DistinctStructs'
    BY DEF DistinctStructs, Given
  <1>5. ReadyToRun' /\ FrameInv'
    BY DEF ReadyToRun, FrameInv
  <1>6. LimitInv'
    BY DEF LimitInv
  <1> QED BY <1>1, <1>2, <1>3, <1>4, <1>5, <1>6

LEMMA LoadInv ==
    ASSUME IInv, NEW c \in Contexts, load_index(c)
    PROVE  IInv'
  <1> USE ProcessAssumption DEF IInv, load_index, From, alloc, thread
  <1>1. TypeOK'
    BY DEF TypeOK
  <1>2. SectionInv'
    BY DEF SectionInv, Inside
  <1>3. IndexInv'
    BY DEF TypeOK, IndexInv, Owning
  <1>4. DistinctStructs'
    BY DEF DistinctStructs, Given
  <1>5. ReadyToRun' /\ FrameInv'
    BY DEF ReadyToRun, FrameInv
  <1>6. LimitInv'
    BY DEF LimitInv
  <1> QED BY <1>1, <1>2, <1>3, <1>4, <1>5, <1>6

LEMMA StoreInv ==
    ASSUME IInv, NEW c \in Contexts, store_index(c)
    PROVE  IInv'
  <1> USE ProcessAssumption DEF IInv, store_index, From, alloc, thread
  <1>1. TypeOK'
    BY DEF TypeOK
  <1>2. SectionInv'
    BY DEF SectionInv, Inside
  <1>3. IndexInv'
    BY DEF TypeOK, IndexInv, SectionInv, Inside, Structs
  <1>4. DistinctStructs'
    BY DEF TypeOK, DistinctStructs, IndexInv, Given, Owning
  <1>5. ReadyToRun' /\ FrameInv'
    BY DEF ReadyToRun, FrameInv
  <1>6. LimitInv'
    BY DEF LimitInv
  <1> QED BY <1>1, <1>2, <1>3, <1>4, <1>5, <1>6

LEMMA PopfInv ==
    ASSUME IInv, NEW c \in Contexts, exit_popf(c)
    PROVE  IInv'
  <1> USE ProcessAssumption DEF IInv, exit_popf, From, alloc, thread
  <1>1. TypeOK'
    BY DEF TypeOK
  <1>2. SectionInv'
    BY DEF TypeOK, SectionInv, Inside
  <1>3. IndexInv'
    BY DEF IndexInv, Owning
  <1>4. DistinctStructs'
    BY DEF DistinctStructs, Given
  <1>5. ReadyToRun' /\ FrameInv'
    BY DEF ReadyToRun, FrameInv
  <1>6. LimitInv'
    BY DEF LimitInv
  <1> QED BY <1>1, <1>2, <1>3, <1>4, <1>5, <1>6

LEMMA AssertInv ==
    ASSUME IInv, NEW c \in Contexts, assert_index(c)
    PROVE  IInv'
  <1> USE ProcessAssumption DEF IInv, assert_index, From, alloc, thread
  <1>1. TypeOK'
    BY DEF TypeOK
  <1>2. SectionInv'
    BY DEF SectionInv, Inside
  <1>3. IndexInv'
    BY DEF IndexInv, Owning
  <1>4. DistinctStructs'
    BY DEF DistinctStructs, Given
  <1>5. ReadyToRun' /\ FrameInv'
    BY DEF ReadyToRun, FrameInv
  <1>6. LimitInv'
    BY DEF LimitInv, AssertFires
  <1> QED BY <1>1, <1>2, <1>3, <1>4, <1>5, <1>6

LEMMA ReportInv ==
    ASSUME IInv, NEW c \in Contexts, display_error_info(c)
    PROVE  IInv'
  <1> USE ProcessAssumption DEF IInv, display_error_info, From, alloc, thread
  <1>1. TypeOK'
    BY DEF TypeOK
  <1>2. SectionInv'
    BY DEF SectionInv, Inside
  <1>3. IndexInv'
    BY DEF IndexInv, Owning
  <1>4. DistinctStructs'
    BY DEF DistinctStructs, Given
  <1>5. ReadyToRun' /\ FrameInv'
    BY DEF ReadyToRun, FrameInv
  <1>6. LimitInv'
    BY DEF LimitInv
  <1> QED BY <1>1, <1>2, <1>3, <1>4, <1>5, <1>6

LEMMA StackInv ==
    ASSUME IInv, NEW c \in Contexts, build_stack(c)
    PROVE  IInv'
  <1> USE ProcessAssumption DEF IInv, build_stack, From, alloc, thread
  <1>1. TypeOK'
    BY DEF TypeOK
  <1>2. SectionInv'
    BY DEF SectionInv, Inside
  <1>3. IndexInv'
    BY DEF IndexInv, Owning
  <1>4. DistinctStructs'
    BY DEF DistinctStructs, Given
  <1>5. ReadyToRun' /\ FrameInv'
    BY DEF ReadyToRun, FrameInv, DistinctStructs, Given
  <1>6. LimitInv'
    BY DEF LimitInv
  <1> QED BY <1>1, <1>2, <1>3, <1>4, <1>5, <1>6

LEMMA RegistersInv ==
    ASSUME IInv, NEW c \in Contexts, build_registers(c)
    PROVE  IInv'
  <1> USE ProcessAssumption DEF IInv, build_registers, From, alloc, thread
  <1>1. TypeOK'
    BY DEF TypeOK
  <1>2. SectionInv'
    BY DEF SectionInv, Inside
  <1>3. IndexInv'
    BY DEF IndexInv, Owning
  <1>4. DistinctStructs'
    BY DEF DistinctStructs, Given
  <1>5. ReadyToRun' /\ FrameInv'
    BY DEF TypeOK, ReadyToRun, FrameInv, LimitInv, Structs
  <1>6. LimitInv'
    BY DEF LimitInv
  <1> QED BY <1>1, <1>2, <1>3, <1>4, <1>5, <1>6

LEMMA EspInv ==
    ASSUME IInv, NEW c \in Contexts, store_esp(c)
    PROVE  IInv'
  <1> USE ProcessAssumption DEF IInv, store_esp, From, alloc, thread
  <1>1. TypeOK'
    BY DEF TypeOK
  <1>2. SectionInv'
    BY DEF SectionInv, Inside
  <1>3. IndexInv'
    BY DEF IndexInv, Owning
  <1>4. DistinctStructs'
    BY DEF DistinctStructs, Given
  <1>5. ReadyToRun' /\ FrameInv'
    BY DEF TypeOK, ReadyToRun, FrameInv, LimitInv, Structs
  <1>6. LimitInv'
    BY DEF LimitInv
  <1> QED BY <1>1, <1>2, <1>3, <1>4, <1>5, <1>6

LEMMA AddInv ==
    ASSUME IInv, NEW c \in Contexts, add_task_to_run_queue(c)
    PROVE  IInv'
  <1> USE ProcessAssumption DEF IInv, add_task_to_run_queue, From, alloc, thread
  <1>1. TypeOK'
    BY DEF TypeOK, Structs, LimitInv
  <1>2. SectionInv'
    BY DEF SectionInv, Inside
  <1>3. IndexInv'
    BY DEF IndexInv, Owning
  <1>4. DistinctStructs'
    BY DEF TypeOK, DistinctStructs, Given
  <1>5. ReadyToRun' /\ FrameInv'
    BY DEF ReadyToRun, FrameInv
  <1>6. LimitInv'
    BY DEF LimitInv
  <1> QED BY <1>1, <1>2, <1>3, <1>4, <1>5, <1>6

LEMMA NextInv == IInv /\ [Next]_vars => IInv'
  <1> SUFFICES ASSUME IInv, [Next]_vars PROVE IInv'
    OBVIOUS
  <1>1. CASE UNCHANGED vars
    BY <1>1
    DEF vars, alloc, thread, IInv, TypeOK, SectionInv, IndexInv, DistinctStructs, ReadyToRun,
        FrameInv, LimitInv, Given
  <1>2. ASSUME NEW c \in Contexts, Step(c) PROVE IInv'
    BY <1>2, PushfInv, CliInv, LoadInv, StoreInv, PopfInv, AssertInv, ReportInv, StackInv,
       RegistersInv, EspInv, AddInv
    DEF Step
  <1> QED BY <1>1, <1>2, SwitchInv, CallInv DEF Next

LEMMA Inductive == Spec => []IInv
  BY InitInv, NextInv, PTL DEF Spec

\* No index leaves the array of task_structs, although only the assertion, whose test is
\* misspelt, looks at it (process.c:56).
THEOREM ProcessTypeCorrect == Spec => []TypeOK
  <1>1. IInv => TypeOK
    BY DEF IInv
  <1> QED BY <1>1, Inductive, PTL

\* No two calls of get_free_task_struct are given the same task_struct, and none that a
\* thread on the run queue lives in (process.c:49-58).
THEOREM OwnStructs == Spec => []DistinctStructs
  <1>1. IInv => DistinctStructs
    BY DEF IInv
  <1> QED BY <1>1, Inductive, PTL

\* kernel_thread adds a thread to the run queue only when its frame is complete and its
\* esp stored, and nobody writes to it afterwards (process.c:76-122).
THEOREM CompleteThreads == Spec => []ReadyToRun
  <1>1. IInv => ReadyToRun
    BY DEF IInv
  <1> QED BY <1>1, Inductive, PTL

\* With an array of one task_struct the assertion stops exactly the calls that find it
\* used up.  The run process_limit shows that a longer array is not used at all.
THEOREM LimitOfOne == MaxThreads = 1 => (Spec => []StopsAtLimit)
  <1> SUFFICES ASSUME MaxThreads = 1 PROVE Spec => []StopsAtLimit
    OBVIOUS
  <1> DEFINE Stopped == \A c \in Contexts : pc[c] \in {"report", "spin"} => allocated_index[c] \geq 1
  <1>1. Init => Stopped
    BY DEF Init
  <1>2. IInv /\ Stopped /\ [Next]_vars => Stopped'
    BY DEF IInv, TypeOK, vars, alloc, Next, Switch, From, Step, kernel_thread, enter_pushf,
           enter_cli, load_index, store_index, exit_popf, assert_index, display_error_info,
           build_stack, build_registers, store_esp, add_task_to_run_queue, AssertFires
  <1>3. IInv /\ Stopped => StopsAtLimit
    BY DEF IInv, LimitInv, StopsAtLimit
  <1>4. Spec => []Stopped
    BY <1>1, <1>2, Inductive, PTL DEF Spec
  <1> QED BY <1>3, <1>4, Inductive, PTL

\* A call gets past the assertion.
Passed(c) == pc[c] \in {"stack", "registers", "esp", "add"}

\* With an array of more than one task_struct the assertion, whose ! binds tighter than
\* its <, stops every call: no thread is ever created (process.c:56).
THEOREM NoThreadBeyondOne == MaxThreads > 1 => (Spec => [](queue = <<>>))
  <1> SUFFICES ASSUME MaxThreads > 1 PROVE Spec => [](queue = <<>>)
    OBVIOUS
  <1> DEFINE Nobody == queue = <<>> /\ \A c \in Contexts : ~ Passed(c)
  <1>1. Init => Nobody
    BY DEF Init, Passed
  <1>2. IInv /\ Nobody /\ [Next]_vars => Nobody'
    BY ProcessAssumption
    DEF IInv, TypeOK, Passed, vars, thread, Next, Switch, From, Step, kernel_thread,
        enter_pushf, enter_cli, load_index, store_index, exit_popf, assert_index,
        display_error_info, build_stack, build_registers, store_esp, add_task_to_run_queue,
        AssertFires
  <1>3. Nobody => queue = <<>>
    OBVIOUS
  <1> QED BY <1>1, <1>2, <1>3, Inductive, PTL DEF Spec

=============================================================================
