# Ganoid in TLA+

Ganoid is a small i386 kernel: Multiboot start, a physical page allocator, an
interrupt subsystem on the 8259, a preemptive round-robin scheduler, kernel threads, a
PS/2 keyboard driver and a VGA console. This directory holds TLA+ modules for its
core, the TLC configurations that check them and proofs that TLAPS checks.

## Inventory

`kernel_main` (`arch/i386/kernel/init.c:31-78`) initialises the parts below in this
order: console, Multiboot information, page allocator, interrupt dispatcher, IDT, 8259,
keyboard, timer, scheduler. Then it executes `sti` and becomes the idle task, which
prints for ever. From that point on the timer preempts whatever runs, so everything a
thread calls is concurrent with everything another thread calls. The only means of
exclusion is the critical section, which turns interrupts off on the one CPU.

| Component | State | Operations | What it must do | Where |
|---|---|---|---|---|
| Discovery of RAM, `sysinfo.c`, `page.c` | `mi`, `mboot_mmap`, `drive_info`, `ram_map` | `read_multiboot_information`, `parse_mboot_information`, `init_page_allocator` | clear the bits of RAM and of nothing else, keep the kernel's frames, refuse tables that do not fit | `BootMemory` |
| Page allocator, `mm/page.c`, `mm/heap.c` | `free_bm` | `get_free_pages`, `free_page`, `kmalloc` | give a page to one caller, lose none, stay inside `free_bm`, answer | `PageAllocator`, `PagePool` |
| Scheduler, `sched.c`, `vectors.S`, `asm-utils.S`, `timer.c` | run queue, `current_task`, `schedule_request`, saved `esp` | `add_task_to_run_queue`, `schedule_pending`, the stub, `disable_interrupts`, `restore_interrupts`, `timer_isr` | return every context where it was interrupted, serve in turn, exclude | `Scheduler`, `RunQueue` |
| Interrupt dispatch, `isr.c`, `idt.c`, `apic.c` | IDT, `isr_handlers`, the 8259 | `isr_handler`, `add_isr_handler`, `init_APIC` | acknowledge each interrupt once, leave no line blocked | `Scheduler` |
| Kernel threads, `process.c` | `task_struct_array`, its index | `kernel_thread` | a struct of its own for each thread, complete before it is queued; stop at the limit | `Process` |
| Keyboard, `kbd-handler.c`, `clib.c` | ring, `head`, `tail`, decoder state | `kbd_isr`, `read_key`, `flush_kbd_buffer`, `getc`, `binary_search_key` | keys in order and each once, recover after overlapping keys | `Keyboard`, `KeyQueue`, `KeySearch` |
| 8042, `kbd.S` | controller and LED state | `init_kbd`, `enable_keyboard_int` | finish, take each answer for what it answers, leave the interrupt on | `Controller8042` |
| Console, `vga.c` | cursor, video memory | `vga_putc`, `vga_scroll_up`, `move_cursor` | write on the screen, keep the cursor on it | `Console`, `Terminal` |
| C library, `string.c`, `stdlib.c`, `vsprintf.c` | none | `memmove`, `strcmp`, `itoa`, `simple_strtoull`, ... | agree with their C definitions | `Libc` |
| Diagnostics, `kdebug.c`, `kdebug.h` | none | `_ASSERT`, `kernel_fault`, dumps | stop the kernel when, and only when, something is wrong | `_ASSERT` in `Process`, `kernel_fault` in `BootMemory` |
| GDT, boot code, CPU identification, timer divisor | processor tables | set-up | | not modelled: straight-line code, run once |
| Paging, `bootmem.c`, `free-pages.c`, `slab.c` | | | | not modelled: not started by this kernel |
| ACPICA, `lib/acpi` | | | | not modelled: third party, and "not functional now" |

How they interact: the boot loader's map becomes `ram_map` and then the initial
`free_bm`. Threads call the allocator, `kernel_thread` and `getc` directly. `kernel_thread`
builds the frame that the stub later returns from and calls `add_task_to_run_queue`.
The stub calls `isr_handler`, which sends the EOI and calls `timer_isr` (sets
`schedule_request`) or `kbd_isr` (fills the ring), and then, if there is a request,
`schedule_pending`, whose result it loads into the stack pointer.

What is hard: code that shares words, links or cursors with a preemptive thread
(`page.c`, `sched.c`, `vga.c`); the instant between the trap gate and the stub's `cli`;
stack pointers saved in one context and used in another; bounded tables; a byte-wise
keyboard protocol in which sequences overlap, are split between calls or are cut by an
overflow; and boundary arithmetic in the boot-time map. `PROJECT.json` lists each of
these under `hazards`, with its line and the properties that would catch it.

## Plan

1. *Core (done).* `PagePool`, `PageAllocator`, its proofs; `RunQueue`, `Scheduler`;
   `Process`; `BootMemory`; `KeyQueue`, `Keyboard`; `KeySearch`, its proofs.
2. *Breadth (done).* Both 8259s in `Scheduler`; `Controller8042`; `Terminal`, `Console`;
   `Libc`.
3. *Proofs (done for every module; of `Libc`, for `string.c`).* Each module states its
   `TypeOK` for these proofs; a run lists it where it adds to the other properties.
4. *Left over.* Two compositions: `Scheduler` with the keyboard's reader, so that `SF` of
   `kbd_isr` below is derived instead of assumed, and `Controller8042` with `Keyboard`.
   The parser of format strings in `vsprintf.c`.

## Modules

The names of operators and actions are those of the C functions wherever one of them
is one function, and otherwise say which part of a function they are; `map` in
`PROJECT.json` gives the lines. A definition `x_y` whose comment says "Mutated form" is a
faulty variant of `x`. It is not part of the specification: replacing `x` by it must make
TLC report the property it is paired with, which shows that the property says something
about the code.

**PageAllocator** (abstract: **PagePool**). `busy` is the set of frames whose bit is set
in `free_bm`. `pc` says where a caller is: the loop test of `find_free_bits_range`
(`range`), `find_first_free` (`scan`), the loop over the bits that follow (`follow`), and
`fp_setbit_range` (`set`) or `fp_clearbit` (`clear`). A bit that is read is a step; a bit
that is written is two, since the build uses `-O0` and `free_bm[index] |= mask` loads a
word, changes a register (`word`) and stores it (`store`, `wipe`). The words are kept,
because that is where two callers collide. `held` and `lost` are history: the code keeps
no accounting. `PagePool` promises lowest fit and refusal only when nothing fits; a grant
happens when `get_free_pages` returns. It keeps one thing about the code that a purer pool
would not have: a run starting at frame 0 is answered with `NULL` and is nobody's.

**BootMemory.** The map is chosen by `Init`; one step per entry. Addresses are scaled to
pages of two bytes and eight frames, with arithmetic modulo their product in place of
modulo 2^32. The frame behind the kernel is left out of the pool by the code
(`GANOID_AREA_END + PAGE_SIZE`), and `AllRamFree` says that it is the only one. Of
the table of drives there is the length: one that is too long for `drive_info` is the second
reason to give booting up. What it says of the drives is only printed.

**Scheduler** (abstract: **RunQueue**). One CPU executes on the stack of one task, `cpu`.
A stack is a sequence of interrupt frames; a frame is a line and how far the stub is with
it. An `esp` is a stack and a depth, so that returning to a wrong place is visible.
`Interrupt` is enabled in front of every instruction when `IFlag` is set, the stub's `cli`
included, and takes precedence over the next instruction, as in the processor. The two 8259s
have request and in-service registers, fixed priority and the slave on line 2; a request
that is gone when its number is asked for becomes a spurious one on line 7. `int_no` is the
number the stub pushes: a line up to 6 has a stub of its own, the others run `ISR20`, for
which `isr_handler` sends no EOI and calls no handler. Tasks open and close nested
critical sections (`pushf`, `cli` and `popf` are steps) and add tasks, one step for each
store to a link. `sti; iret` is one step because `sti` delays interrupts by one instruction.

**Process.** Any context, the idle task or a thread that was created, may call
`kernel_thread`, and may be preempted at every step where interrupts are on. The switch
and the critical section of `add_task_to_run_queue` are one step each; `Scheduler` has
them in detail and `CriticalSections` justifies it. `AssertFires` is `_ASSERT` as the
preprocessor leaves it.

**Keyboard** (abstract: **KeyQueue**). The keyboard is external: keys go down, repeat and
come up, and their bytes in scan code set 2 wait in `wire`. `kbd_isr` is one step, since it
runs with interrupts off. `read_key` is its critical section, one step for the byte that is
given to the state machine and one for the increment of `tail`. `NextState` and `IsMake` are
`keyboard_state_machine`; `repeat_key` is not kept because it is never set without `make`.
`binary_search_key` here is membership in a map, which `KeySearch` establishes. One thread
reads; nothing in `read_key` is shared outside the critical section.

**KeySearch** is `binary_search_key` step by step, from every sorted map and every code.

**Controller8042.** `init_kbd_handler` is a sequence of bytes to send and answers to read,
written with one operator per function of `kbd.S`; `pc` is a place in it, `al` what was
read last. `wait_and_send` and `wait_and_read` are the waits with the port access that
follows. The count of a wait may run out at any time, since nothing says how fast the
8042 is; then a byte that was not taken yet is overwritten, and a read returns the old byte
again. An answer other than the one wanted leads to `init_kbd_error`, whose `ret` returns,
after a refusal by the keyboard, to the caller of `send_command_and_data_to_kbd_wait_ack`
(the answer skips the rest of that function) and, after a failed self test, to whatever
was in `ebx` (`Astray`). The 8042 and the keyboard are external: an input buffer, an output
buffer in which answers queue, the command byte, a keyboard that acknowledges, asks for a
byte again, or sends a key. `firmware`, `gave_up`, `keys` and `resends` are history.

**Console** (abstract: **Terminal**). `cursor_x` and `cursor_y` are bytes, and each load, store
or test of them in `vga_putc`, `vga_scroll_up` and `move_cursor` is a step of a writer. One
writer never stops, as `do_idle` does; the others print a bounded number of characters.
`alone` says that there are no others: only then are the cells and the CRT controller
followed, which is what `TerminalSpec` needs. Copying the rows and the four port writes of
`move_cursor` are one step each: no other step reads what they write. Attributes are left
out, the black one of a cleared row included. `Terminal` is rows of text of which the screen
shows the last.

**Libc.** A behaviour is one call, of a function of `string.c` on a memory of a few bytes or
of `itoa` on a word, with every argument for which C defines the call. Loops are written as
what they leave behind: the memory after the bytes were copied in order, the first place
that stops a comparison. `Digits` is
the loop of `itoa`, with its divisor and products in a `long` that wraps. `Number` stands for
both loops that add up digits: `atoi` adds from the last and `simple_strtoull` from the first,
in a word either way.

`MC*` modules only add the sets that the `.cfg` files need.

## Runs

| Run | Result | What it shows |
|---|---|---|
| `pages_one_caller` | passes | nothing but RAM, no bit outside `free_bm`, no bit lost or set in excess (`Conserved`), `PoolSpec`, every request the first run can serve is answered |
| `pages_shared` | `HeldBusy` violated | two callers find one page free before either marks it, and both are given it |
| `boot_memory` | passes | aligned maps: pool = RAM outside the kernel; tables that do not fit are refused, no others |
| `scheduler` | passes | queue, contexts, exclusion, turns; no starvation |
| `interrupts` | passes | lines of every kind on both 8259s: which EOI ends which service, stack depth, no tick pending for ever |
| `process` | passes | distinct structs, complete threads, the limit of one |
| `process_limit` | `StopsAtLimit` violated | a limit of two or more: the assertion fires at once |
| `keyboard` | passes | lossy queue, order, resynchronisation, every key is reported |
| `key_search` | passes | agrees with membership, ends |
| `controller8042` | passes | answers are not mixed up, return to the caller, the outcome, the end of the dialogue |
| `console` | passes | a lone writer stays on the screen and sees a `Terminal`; after a race the cursor comes back |
| `libc` | passes | comparisons, copies and conversions: where they do what C says, and exactly how they miss it elsewhere |

A violated property is what a comment of the source says; the finding in `PROJECT.json`
quotes it and explains the counterexample. The weaker property that does hold is checked or
proved beside it: `RamOnly` beside `HeldBusy`, and `StopsAtLimit` itself with a limit of one.

### What the code does otherwise than it says

Met while modelling, and visible in the modules, without a run of its own:

- `page.c:65, 73`: a bit is written by a load and a store of a word that 32 pages share. A caller
  that is preempted between the two while it frees a page takes back the marks another caller
  has made in that word meanwhile, so that `free_page` frees more than its page. The model has
  these steps, but it takes them longer to violate `HeldBusy` than the race of `page.c:155` in
  `pages_shared`, in which two callers find the same page free before either marks it, and
  which bit operations that nothing can interrupt would not cure. `OnlyRam` is proved with both.
- `page.c:170`: a request that needs more than the first free run is never answered, since
  the search is sent back to the last free bit of the run that was too short, where it finds
  one bit and goes back there again. `page.c:143-144` says that a value is returned.
  `FirstRunAnswered` is what does hold.
- `page.c:149`: `find_first_free` is called with `from` = 0 by every request, although
  `page.c:108` assumes that it never is.
- `page.c:255`: a region that ends within a page gives the pool a page that is not RAM to its
  end (`page.c:25`: "only pages which map to RAM"). `sysinfo.c:99`: addresses are cut to 32
  bits, so a region above 4 GB frees frames that are not RAM. `page.c:234`: a region that ends
  exactly where the kernel's image ends is freed with the kernel in it. In `BootMemory.cfg`,
  `Maps <- UnalignedMaps` and `Maps <- HighMaps` make `OnlyRam` fail, and `Maps <- ExactMaps`
  makes `KernelKept` fail.
- `kbd-handler.c:454`: of an extended key pressed while a basic key is held, the code is
  returned as the basic key with the same code; `kbd-handler.c:405-407` says that no key is
  guessed. `InOrder` and `InSync` are what does hold.
- `idt.c:104-106`, `apic.c:42`: all lines are unmasked, although the comment says all but the
  cascade are masked, and those from 7 on run `ISR20`. They are served once, and the first
  interrupt from the slave leaves line 2 of the master in service, which blocks lines 3 to 7
  and the rest of the slave until some stub's EOI happens to end it (`UnhandledOnce`,
  `EOIBalance`).
- `isr.c:38`: a stub whose task is switched away in front of its `cli` leaves its EOI for
  later, and the EOI another line sends meanwhile may end its service instead. The timer
  cannot be hit (`TimerEndsOwnService`).
- `vectors.S:94`: the stub always pushes 0 as error code, so an exception that has one
  returns to a wrong place. No handler is registered for exceptions.
- `kbd.S:119, 152, 271`: a byte from the keyboard in the output buffer is taken for the answer
  of the 8042. Before the self test, `init_kbd` ends astray (`ReturnsToCaller` says when);
  later, an acknowledgement can be written back as the command byte, which turns the
  keyboard off (`Initialised` says what still holds: the interrupt is on).
- `kbd.S:216`: when the keyboard refuses a byte, `init_kbd` goes on and returns 0, so that
  `kernel_main` reports success, with LEDs or scan code set as they were.
- `vga.c:89`: the cursor is compared with the end of the screen for equality, so that two
  writers can push it past the end. What is then printed goes to memory behind the screen,
  until the byte wraps (`Recovers`).
- `string.c:36`: `memmove` copies nothing unless the destination overlaps the source from
  above. `string.c:54`: `strcmp` returns 0 if the first string is a beginning of the second.
  `string.c:103`: `strncpy` clears one byte too few, and all of the memory behind if the source
  has n characters or more. `string.c:131`: `strncat` writes no end if the source has more than n,
  the opposite of what `string.c:132` says. `stdlib.c:65`: base 0 refuses decimal numbers. `Compares` and
  `ReadBack` say what does hold, and `Copies` also what exactly happens where it does not
  (`Departs`). Outside ACPICA the kernel calls none of these.

### Bounds, and why they are enough

- Pages: 6 frames in words of 3 with requests of 0 to 3 pages for one caller, 4 in words
  of 2 with up to 2 pages for two. Runs cross words, start at 0, are too short, and reach the
  last frame; two callers meet in a word. Every set of free frames is an initial state.
  `UIntMax` = 15 only has to exceed every index by more than `MaxCount`.
- Boot: 8 frames of 2 bytes, up to three regions in a table of two, and 0 to 2 bytes of drives
  in a table of one. Every kind of region occurs: below, around and above the kernel,
  unavailable, one too many.
- Scheduler: three tasks, so that a queue has a first, a middle and a last, and two lines, so
  that one interrupts the other's stub in either order. Two nested sections are the least that
  tell `popf` from `sti`. `interrupts` has two tasks and a line of each kind: the timer, one
  with an EOI that lies below the cascade, the master's last, and one of the slave.
- Process: the limit of one is the only one whose assertion does not fire at once; with the
  idle task there are two creators, two calls each.
- Keyboard: a ring of 4 in place of 10 holds 3 bytes, less than the 5 of an extended key
  that goes down and up, so it overflows in every phase of a sequence. There are two
  basic keys and two extended ones that share their codes, one of the four is in no map, and
  two presses or repeats, which may overlap. A third press, with three keys and without
  liveness, has been checked too (6.0 million states) and shows nothing further.
- 8042: one key, of two bytes in either order before or during the dialogue, and two bytes
  refused, so that a command and its data, or both LED commands, can be. Late and missing
  answers have no bound. The firmware leaves the interrupt on, off, or the keyboard off.
- Console: 2 by 2 cells, tabs of 2, so that each of them meets the end of a row and of the
  screen; bytes of five values, so that a cursor behind the screen has somewhere to be before
  it wraps. One character of the second writer is enough for that.
- C library: 6 bytes of memory and counts up to 4, so that areas are disjoint, overlap in
  either direction, and strings are shorter than, as long as and longer than the count; two
  letters tell less from greater. Words of 8 bits have numbers of one to three digits, and
  every value and sign is tried.
- Search: lengths 1 to 5 cover an interval that is halved evenly and unevenly, and codes
  below, above, between and equal to entries, repeated entries included.

`CHECK_DEADLOCK FALSE` stands only where the program is over: booting, one search, one call of
the C library, and the initialisation of the 8042.

### Fairness

- `PageAllocator`: weak fairness of each caller's steps. A call never waits, and the
  scheduler gives every task its turn (`EveryTaskRuns`).
- `KeySearch`: weak fairness of the next step; nothing else is involved.
- `Scheduler`: the processor goes on executing (`Interrupt`, `Stub`), a task gets through
  its critical sections and link stores when it has the CPU (strong fairness for leaving the
  outermost, since the code in one is finite but may contain others), and the 8254 ticks. Nothing
  is assumed about the keyboard line or about tasks adding tasks.
- `Keyboard`: weak fairness of the reader, a thread that keeps calling `getc`, and strong
  fairness of `kbd_isr`: the reader's critical section disables it again and again, but a
  pending interrupt is taken as soon as `popf` sets IF (`Scheduler`'s `Executes`). Nothing is
  assumed about the keyboard.
- `Controller8042`: weak fairness of the driver, which runs with interrupts off. Nothing is
  assumed about the 8042, which need not answer.
- `Console`: weak fairness of each writer inside `vga_putc`, since every task gets the CPU again
  (`EveryTaskRuns`), and strong fairness of printing a line end by the writer that never stops:
  what `do_idle` prints ends in one.

## Proofs

TLAPS checks the modules `*Proofs`, one for each module they are about; `KeyboardProofs`
has the proofs of `KeySearch` too, and `SchedulerProofs` the tasks first and then the 8259s. A theorem about a property a run checks names the
same definition: the run has a small instance, the theorem every value of the constants that
satisfies the module's `ASSUME`. Where the property is not inductive, the invariant that is
(`IInv`) was first model-checked on the run's instance.

**PageAllocator, any number of frames and callers.** `TypeCorrect`, `SearchInBounds` and
`OnlyRam` hold however callers race. Bounds do not follow from types: the loop over the bits
that follow the first free one never compares its index with the end of `free_bm`. It stops
because the last frame is busy, and that frame stays busy only because no caller is ever
given it, which again needs the bounds. The inductive invariant `IInv` ties these together:
frames outside `usable` are in `busy` and in every `word` a caller is about to store (this is
what makes stale stores harmless to them), every frame of a run that is being examined or
marked is usable, and the frame being freed is usable.

**PageAllocator, one caller.** `NothingLost`, `HeldMarkedBusy` and `ImplementsPool` assume
`SingleCaller`, and `pages_shared` shows that they need it. `SInv` adds that `word` is the
current word of `free_bm`, that the bits the caller examined are still free and that `busy`
is exactly the union in `Conserved`. `ImplementsPool` needs in addition (`RInv`) that no run
that fits starts below the bit the search is at: the fact that makes a grant the lowest fit
and a refusal justified. Each action is then a `PagePool` step or a stutter.

Assumption used: `FramesAssumption`, in particular that `unsigned` holds every index plus a
count, and the last frame of the address space is not RAM (in `Init`), as on a PC, where the
firmware is there.

**KeySearch, maps of any length, any codes.** The invariant is that the code lies between the
entries at the ends of the interval, both included. `SearchCorrect` needs it for the answer
"not found": what is left out lies strictly below or above. `SearchNoOverread` follows since
an interval of one index has its only entry equal to the code.

**Scheduler, any tasks, any lines, any nesting** (`SchedulerAssumption`; `Tasks` need not be
finite). None of the properties is inductive alone: the list is well formed because only one
task links at a time, which is so because interrupts are off in a critical section, which
is so because `popf` restores the right flag and because `iret` turns interrupts on only for a
task that is in none, which again needs that a frame is returned to on the stack it was pushed
on. `IInv` has one conjunct for each: `QueueInv` (the links, all the time, also between the two
stores), `AddInv` (where `walk` may be, and that a task is added once), `FlagInv` (of the
saved flags the first says on, the others off), `StackInv` (frames below the top are in front
of their `cli`; a task with a frame is in no section; who does not run can be switched to) and
`CpuInv` (what IF is). `RunQueueIsList`, `SectionsExclude`, `SwitchesToFrames` follow.
`TakesTurns` is the refinement of `RunQueue`: `schedule_pending` is a turn, the store of
`link next` is the addition, every other step a stutter.

**Scheduler, the 8259s.** On top of `IInv`: `BalanceInv` counts the frames that owe an EOI
(`EOIsBalance`), from which it follows that an EOI always finds a line up to 6 to end, so that
it never ends one from 7 on (`ServedOnce`). `TimerInv` says that the stub of the timer is
the top frame while the timer is in service (`TimerOwnEOI`): nothing of higher priority
exists. `StacksBounded` needs an invariant per stack (`SizeInv`): frames of lines that are
acknowledged are no more than there are such lines, those of the slave are in service for
good, and of the master's last line there is one spurious frame at most besides the real one.

**Process, any limit and number of calls.** `IInv` adds to the properties that interrupts are off
between the load and the store of `task_struct_array_index` (`SectionInv`), that every index
given out is below it (`IndexInv`), and how far the frame of a thread is (`FrameInv`).
`LimitOfOne` is `StopsAtLimit` for an array of one. `NoThreadBeyondOne` is the other side of
the violated run `process_limit`: with a larger array, of whatever size, nothing is ever put on the run
queue, since `!` binds tighter than `<` in what the assertion tests.

**Keyboard, a ring of any size, any keys.** The indices modulo `KBD_BUFFER_SIZE` are replaced
by lemmas about the ring as a sequence: storing at `head` appends, moving `tail` drops the
first (`SizeSteps` and those after it). `ImplementsQueue` maps each action to one of `KeyQueue`, the
overwriting of the oldest byte included. The other two theorems rest on `SyncInv`. It speaks of
`Machine`, the state of the state machine with the keys the reader has returned or is about
to: the bytes still to be parsed, in the ring or on the wire, lead it to a state between two
keys, and to the first one if no key is down (`Resynchronises`); and, if extended keys did not
overlap, the keys it then has are those that were typed, and a key of the kind it expects is
down (`ReturnsInOrder`). `Leads` says this with the machines passed through, so that a byte is
taken off the front by `parse` and put at the end by a key stroke without a recursion. The keys
`typed` that the maps know are a recursive function of a sequence, and so the two facts about it,
and that the reader never gives a key back (`LeadsOn`), are by induction: `Induction` is proved
from the least element that every set of numbers has, which the library's `WFMin` gives.

**Console, a screen and tabs of any size.** `IInv` says for each place of `vga_putc` where the
cursor of a lone writer may be and which characters get there (`LoneInv`); `LoneWriter` follows. For
`ImplementsTerminal`, `PageInv` says for each place how far the cells are from `Terminal`'s page of
the last character to that of this one, with the rows below the cursor blank and the cursor behind
the last row only at a row's start. The steps that matter are `put`, `vga_scroll_up`
(which is `Tail` on rows) and `store_y` (which appends the blank row below).

**BootMemory, any map, pages and address space of any size.** What the boot loader passes
is not the kernel's to choose, so what is assumed of it is in each theorem's hypotheses
and nothing is in the module's `ASSUME` but the types. `MapsFit` assumes nothing: neither
copy is overrun, and the kernel gives up for a map or a table of drives that does not fit
and for nothing else. `Below` (available regions are not empty, and end before the last
page, where a PC has firmware) keeps the 32 bit addresses from wrapping. `RamFreed` needs
also `WholePages`; without it `PartlyRamFreed` says what is left, that a page of the pool
has some RAM in it (the divergence at `page.c:255` above). `KernelNeverFreed` needs no
alignment, but `KernelLoaded`: a region has the kernel and at least a byte behind it, and
no other overlaps that region. Each hypothesis is necessary: of the sets in
`MCBootMemory`, `HighMaps` breaks `Below`, `UnalignedMaps` breaks `WholePages`,
`ExactMaps` breaks `KernelLoaded`, and each makes a property fail; `AlignedMaps`, which
the run has, satisfies all three. The invariant relates the frames to the loops: the copy
is the map itself (`CopyInv`), `ram_map` has the available regions up to `i` and no others
(`KeptInv`), and a frame is free just if a region up to `i` cleared it (`BusyInv`). What
remains is arithmetic of pages and addresses.

**Controller8042, any command byte, any keys, any number of keys and refusals.** The dialogue is
composed of operators, one per function of `kbd.S`; the lemma `Dialogue` spells it out, place by
place. `WireInv` says for each place what is under way between the driver, the 8042 and
the keyboard as long as nothing disturbs them: at most one thing, either the byte the driver sent
last or the one answer to it (`AnswersInStep`). It needs `ByteInv`, what the command byte is at
each place and what the driver has read of it, and `KeyboardInv`, which command a byte of data
belongs to if the keyboard refused none. `TestInv` (`Returns`) says that an undisturbed driver is
past the self test only if the 8042 passed it. `LastInv` is the part that holds however
much is typed: the last byte written has the interrupt on. `LeftInitialised` takes the
outcome from these. A firmware that leaves the keyboard off finds it on afterwards, since the first
byte sent to the keyboard turns it on in the 8042; `Initialised` says so.

**Libc, a memory of any size, strings and counts of any length.** Here the invariant is no
more than what `Init` says of the arguments and that the result is `Apply` of them; the
work is in what the loops compute. `Copy` is a recursive function of how many bytes are
done: `Moved` says what the memory then is, provided that no byte is written before it is
read, and by `Induction` it is that after each (`CopyIs`). `PlacedUpwards` and
`PlacedDownwards` check the proviso, the first from `Disjoint`, the second from `d > s`;
they are where `memmove_up` would fail. `strlen` and the places at which comparisons stop
are least elements (`EndOf`, `FirstDiffers`, `FirstStops`). With `Written`, the memory
after bytes and then zeros were put somewhere, the theorem about copies names the whole
memory after every defined call that writes: `CopiesRight` is `CopiesLikeC`, for the calls
that do what C says (`LikeC`), and `Departs`, for what the others do instead.
`ComparesRight` says that the first difference decides (`DecidesLess`), the end of a
string being less than any character. It assumes `SevenBits`: characters are signed here
and not in C's `strcmp`, so that others are ordered otherwise.

Only model-checked: all liveness (`FirstRunAnswered`, `Ends`, `Reported`, `EveryTaskRuns`,
`EveryTickTaken`, `Terminates`, `Recovers`), which is out of the prover's reach; and `ReadBack` of
`Libc`, whose numbers in digits need facts about powers that the solvers do not have and a
theory of texts, each step of the parser being a search in one.

## Not modelled

- ACPICA (`lib/acpi`, `include/acpi`) is Intel's reference interpreter, vendored, and more than
  nine tenths of the lines of code in the repository. Ganoid's own part of it is the service layer, which is
  ACPICA's for Unix, and `ganoid-acpi.c`; `Kconfig:15` says that ACPI "is not functional now",
  and without `CONFIG_ENABLE_ACPI` none of it is called. The share of the repository that the
  modules map is therefore small whatever is modelled of the kernel; of the kernel's own code
  that is executed, what is left is set-up and output.
- GDT, boot code, CPU identification and the 8254's divisor: straight-line code, executed once,
  with neither a choice nor a concurrent actor.
- `paging.c`: the call of `init_paging` is commented out (`init.c:61`). `bootmem.c`,
  `free-pages.c` and `slab.c` have no caller.
- The parser of format strings in `vsprintf.c`, whose flags are never reset between directives
  (no format of the kernel has a flag), and the dumps and tables that are only printed.
- Exceptions, and the spurious interrupt of the slave, which is to the processor like any other
  line of the slave.

## Limits

Some properties speak of the undisturbed case only. `WritesOnScreen` and `TerminalSpec` are
about a lone writer; of two there is only `Recovers`. `InStep`, `ReturnsToCaller` and `Initialised` leave
out a wait that gave up; after one there is only `Terminates`. The runs of the allocator that pass have one caller; what holds for
several is proved (`SearchInBounds`, `OnlyRam`).

One CPU, as the kernel assumes. Registers and data on the stacks are not modelled, only which
stack and frame a context returns to. The end of a thread (`hello`) and the use of memory by its
owner are not modelled. The remaining parts are listed with their reasons under `components`.
