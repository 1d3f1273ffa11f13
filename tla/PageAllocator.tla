--------------------------- MODULE PageAllocator ---------------------------
(***************************************************************************)
(* The physical page allocator, mm/page.c, and its only client in the      *)
(* tree, kmalloc of mm/heap.c.                                             *)
(*                                                                         *)
(* The allocator keeps one bit per page frame of the 32 bit address space  *)
(* in the array free_bm; a set bit says busy.  get_free_pages searches it  *)
(* bit by bit for a run of free frames and then sets the bits of the run   *)
(* one by one; free_page clears one bit.  Nothing is locked, and the       *)
(* kernel's threads are preemptive, so every read of a bit is a step, and  *)
(* setting or clearing one is two: the build (-O0) loads the word, changes *)
(* it in a register and stores it back.                                    *)
(*                                                                         *)
(* init_page_allocator is abstracted to its outcome, the set of frames it  *)
(* cleared (module BootMemory models how it finds them).                   *)
(***************************************************************************)
EXTENDS Integers

CONSTANTS
    NumFrames,   \* NUM_FRAMES, page frames in the address space
    WordBits,    \* NUM_BITS_PER_UINT, frames that share a word of free_bm
    UIntMax,     \* the largest unsigned
    MaxCount,    \* bound: the largest count a caller asks for
    PageSize,    \* PAGE_SIZE, in the unit kmalloc's sizes are given in
    Threads      \* the threads that call the allocator

ASSUME FramesAssumption ==
    /\ NumFrames \in Nat \ {0}
    /\ WordBits \in Nat \ {0}
    /\ MaxCount \in Nat
    /\ PageSize \in Nat \ {0}
    /\ UIntMax \in Nat
    /\ UIntMax >= NumFrames + MaxCount

VARIABLES
    busy,        \* free_bm: the frames whose bit is set
    usable,      \* the frames init_page_allocator found to be free RAM
    pc,          \* per thread, where in the allocator it is
    count,       \* get_free_pages: the argument
    l_start_bit, \* find_free_bits_range: where the next attempt starts
    first_free_bit, \* find_free_bits_range: the first frame of this attempt
    bit,         \* the bit a loop is at: i of find_first_free, b of
                 \* find_free_bits_range, bit of fp_setbit_range, b of fp_clearbit
    word,        \* the busy frames of a word of free_bm, in a register
    held,        \* history: frames the callers were given and have not freed
    lost         \* history: frames of the runs that were answered with NULL

search == <<count, l_start_bit, first_free_bit>>
vars == <<busy, usable, pc, search, bit, word, held, lost>>

Frames == 0 .. NumFrames - 1
LAST_BIT_NO == NumFrames - 1

\* The frames whose bits are in the same word of free_bm as the bit of b.
WordOf(b) == {f \in Frames : f \div WordBits = b \div WordBits}

\* Mutated form: the last page of the run is not looked at.
remaining_bits_short(t) == IF count[t] < 2 THEN 0 ELSE count[t] - 2

\* count - 1 in unsigned arithmetic.
remaining_bits(t) == IF count[t] = 0 THEN UIntMax ELSE count[t] - 1

\* Mutated form: one page too many.
last_bit_no_inclusive(t) == first_free_bit[t] + count[t]

\* The last bit of the run that is being set.
last_bit_no(t) == first_free_bit[t] + count[t] - 1

(***************************************************************************)
(* The caller's side.                                                      *)
(***************************************************************************)
PCs == {"idle", "range", "scan", "follow", "set", "store", "clear", "wipe"}

\* Mutated form: all memory is RAM, up to the last frame.
Init_all_ram ==
    /\ usable = Frames
    /\ busy = {}
    /\ pc = [t \in Threads |-> "idle"]
    /\ count = [t \in Threads |-> 0]
    /\ l_start_bit = [t \in Threads |-> 0]
    /\ first_free_bit = [t \in Threads |-> 0]
    /\ bit = [t \in Threads |-> 0]
    /\ word = [t \in Threads |-> {}]
    /\ held = [t \in Threads |-> {}]
    /\ lost = {}

\* Frame 0 may be usable (a PC reports its low memory as RAM), the last one is
\* not: the top of the 32 bit address space is the firmware's.
Init ==
    /\ usable \in SUBSET (Frames \ {LAST_BIT_NO})
    /\ busy = Frames \ usable
    /\ pc = [t \in Threads |-> "idle"]
    /\ count = [t \in Threads |-> 0]
    /\ l_start_bit = [t \in Threads |-> 0]
    /\ first_free_bit = [t \in Threads |-> 0]
    /\ bit = [t \in Threads |-> 0]
    /\ word = [t \in Threads |-> {}]
    /\ held = [t \in Threads |-> {}]
    /\ lost = {}

\* Entry of get_free_pages and of find_free_bits_range.
Call(t, n) ==
    /\ pc[t] = "idle"
    /\ pc' = [pc EXCEPT ![t] = "range"]
    /\ count' = [count EXCEPT ![t] = n]
    /\ l_start_bit' = [l_start_bit EXCEPT ![t] = 0]
    /\ UNCHANGED <<busy, usable, first_free_bit, bit, word, held, lost>>

get_free_pages(t) == \E n \in 0 .. MaxCount : Call(t, n)

\* kmalloc asks for one page more than the whole pages of the size.
kmalloc(t) ==
    \E size \in 0 .. MaxCount * PageSize :
        /\ size \div PageSize + 1 \leq MaxCount
        /\ Call(t, size \div PageSize + 1)

(***************************************************************************)
(* The search.                                                             *)
(***************************************************************************)
\* The condition of the outer loop; when it fails the caller gets NULL.
find_free_bits_range(t) ==
    /\ pc[t] = "range"
    /\ IF l_start_bit[t] + remaining_bits(t) \leq LAST_BIT_NO
       THEN /\ pc' = [pc EXCEPT ![t] = "scan"]
            /\ bit' = [bit EXCEPT ![t] = l_start_bit[t]]
       ELSE /\ pc' = [pc EXCEPT ![t] = "idle"]
            /\ UNCHANGED bit
    /\ UNCHANGED <<busy, usable, search, word, held, lost>>

\* Mutated form: a busy bit is looked at again.
find_first_free_stuck(t) ==
    /\ pc[t] = "scan"
    /\ bit[t] \notin busy
    /\ first_free_bit' = [first_free_bit EXCEPT ![t] = bit[t]]
    /\ bit' = [bit EXCEPT ![t] = @ + 1]
    /\ pc' = [pc EXCEPT ![t] = "follow"]
    /\ UNCHANGED <<busy, usable, count, l_start_bit, word, held, lost>>

\* One bit of find_first_free.
find_first_free(t) ==
    /\ pc[t] = "scan"
    /\ \/ /\ bit[t] \geq NumFrames
          /\ pc' = [pc EXCEPT ![t] = "idle"]
          /\ UNCHANGED <<bit, first_free_bit>>
       \/ /\ bit[t] < NumFrames
          /\ bit[t] \in busy
          /\ bit' = [bit EXCEPT ![t] = @ + 1]
          /\ UNCHANGED <<pc, first_free_bit>>
       \/ /\ bit[t] < NumFrames
          /\ bit[t] \notin busy
          /\ first_free_bit' = [first_free_bit EXCEPT ![t] = bit[t]]
          /\ bit' = [bit EXCEPT ![t] = @ + 1]
          /\ pc' = [pc EXCEPT ![t] = "follow"]
    /\ UNCHANGED <<busy, usable, count, l_start_bit, word, held, lost>>

\* One bit of the loop over the bits that follow the first free one.  A busy
\* one sends the search back to the last free bit before it (i is the number
\* of free bits that follow the first one).
check_following(t) ==
    LET i == bit[t] - first_free_bit[t] - 1 IN
    /\ pc[t] = "follow"
    /\ \/ /\ i = remaining_bits(t)
          /\ pc' = [pc EXCEPT ![t] = "set"]
          /\ bit' = [bit EXCEPT ![t] = first_free_bit[t]]
          /\ UNCHANGED l_start_bit
       \/ /\ i < remaining_bits(t)
          /\ bit[t] \notin busy
          /\ bit' = [bit EXCEPT ![t] = @ + 1]
          /\ UNCHANGED <<pc, l_start_bit>>
       \/ /\ i < remaining_bits(t)
          /\ bit[t] \in busy
          /\ l_start_bit' = [l_start_bit EXCEPT ![t] = first_free_bit[t] + i]
          /\ pc' = [pc EXCEPT ![t] = "range"]
          /\ UNCHANGED bit
    /\ UNCHANGED <<busy, usable, count, first_free_bit, word, held, lost>>

(***************************************************************************)
(* Marking the run: fp_setbit_range and fp_setbit.                         *)
(***************************************************************************)
\* fp_setbit loads the word; after the last bit get_free_pages returns the
\* address of the run, which is NULL when the run starts at frame 0.
fp_setbit_range(t) ==
    /\ pc[t] = "set"
    /\ \/ /\ bit[t] \leq last_bit_no(t)
          /\ word' = [word EXCEPT ![t] = busy \cap WordOf(bit[t])]
          /\ pc' = [pc EXCEPT ![t] = "store"]
          /\ UNCHANGED <<held, lost>>
       \/ /\ bit[t] > last_bit_no(t)
          /\ pc' = [pc EXCEPT ![t] = "idle"]
          /\ IF first_free_bit[t] = 0
             THEN /\ lost' = lost \cup (0 .. last_bit_no(t))
                  /\ UNCHANGED held
             ELSE /\ held' = [held EXCEPT ![t] =
                                @ \cup (first_free_bit[t] .. last_bit_no(t))]
                  /\ UNCHANGED lost
          /\ UNCHANGED word
    /\ UNCHANGED <<busy, usable, search, bit>>

\* fp_setbit stores the word with the bit set.
fp_setbit(t) ==
    /\ pc[t] = "store"
    /\ busy' = (busy \ WordOf(bit[t])) \cup word[t] \cup {bit[t]}
    /\ bit' = [bit EXCEPT ![t] = @ + 1]
    /\ pc' = [pc EXCEPT ![t] = "set"]
    /\ UNCHANGED <<usable, search, word, held, lost>>

(***************************************************************************)
(* free_page: a caller gives back a page it holds, never page 0.           *)
(***************************************************************************)
free_page(t) ==
    /\ pc[t] = "idle"
    /\ \E f \in held[t] :
          /\ f # 0
          /\ held' = [held EXCEPT ![t] = @ \ {f}]
          /\ bit' = [bit EXCEPT ![t] = f]
    /\ pc' = [pc EXCEPT ![t] = "clear"]
    /\ UNCHANGED <<busy, usable, search, word, lost>>

\* fp_clearbit loads the word ...
fp_clearbit(t) ==
    /\ pc[t] = "clear"
    /\ word' = [word EXCEPT ![t] = busy \cap WordOf(bit[t])]
    /\ pc' = [pc EXCEPT ![t] = "wipe"]
    /\ UNCHANGED <<busy, usable, search, bit, held, lost>>

\* Mutated form: the word is stored unchanged.
fp_clearbit_store_same(t) ==
    /\ pc[t] = "wipe"
    /\ busy' = (busy \ WordOf(bit[t])) \cup word[t]
    /\ pc' = [pc EXCEPT ![t] = "idle"]
    /\ UNCHANGED <<usable, search, bit, word, held, lost>>

\* ... and stores it with the bit clear.
fp_clearbit_store(t) ==
    /\ pc[t] = "wipe"
    /\ busy' = (busy \ WordOf(bit[t])) \cup (word[t] \ {bit[t]})
    /\ pc' = [pc EXCEPT ![t] = "idle"]
    /\ UNCHANGED <<usable, search, bit, word, held, lost>>

\* The steps of a call that is under way.
Step(t) == \/ find_free_bits_range(t) \/ find_first_free(t) \/ check_following(t)
           \/ fp_setbit_range(t) \/ fp_setbit(t)
           \/ fp_clearbit(t) \/ fp_clearbit_store(t)

Next == \E t \in Threads :
           get_free_pages(t) \/ kmalloc(t) \/ free_page(t) \/ Step(t)

Spec == Init /\ [][Next]_vars

\* A thread inside the allocator keeps running: it never waits for anything,
\* and the run queue is served round robin (module Scheduler).
FairSpec == Spec /\ \A t \in Threads : WF_vars(Step(t))

(***************************************************************************)
(* Properties.                                                             *)
(***************************************************************************)
TypeOK ==
    /\ busy \subseteq Frames
    /\ usable \subseteq Frames \ {LAST_BIT_NO}
    /\ pc \in [Threads -> PCs]
    /\ count \in [Threads -> 0 .. MaxCount]
    /\ l_start_bit \in [Threads -> Frames]
    /\ first_free_bit \in [Threads -> Frames]
    /\ bit \in [Threads -> 0 .. NumFrames]
    /\ word \in [Threads -> SUBSET Frames]
    /\ held \in [Threads -> SUBSET Frames]
    /\ lost \subseteq Frames

\* The threads that are between the search and the return of get_free_pages,
\* and those inside free_page.
Marking(t) == pc[t] \in {"set", "store"}
Clearing(t) == pc[t] \in {"clear", "wipe"}

\* The bits of its run that a marking thread has set so far.
Marked(t) == IF Marking(t) THEN first_free_bit[t] .. bit[t] - 1 ELSE {}

\* The frame a thread is freeing: no longer the caller's, not yet in the pool.
InFree(t) == IF Clearing(t) THEN {bit[t]} ELSE {}

\* No bit outside free_bm is ever tested or set, although neither the loop of
\* find_free_bits_range over the following bits nor fp_setbit_range compares
\* its bit with LAST_BIT_NO (page.c:158-162, 86-92), however the callers
\* interleave.
InBounds ==
    \A t \in Threads :
        /\ pc[t] = "follow" /\ bit[t] - first_free_bit[t] \leq remaining_bits(t)
              => bit[t] < NumFrames
        /\ Marking(t) => last_bit_no(t) < NumFrames

\* "allocate only pages which map to RAM" (page.c:22-25), however the callers
\* interleave: get_free_pages never hands out, and the races on a word of
\* free_bm never free, a frame that init_page_allocator left busy.
RamOnly ==
    /\ \A t \in Threads : held[t] \subseteq usable
    /\ Frames \ usable \subseteq busy

\* With one caller no bit is lost or set in excess: the busy frames are exactly
\* the ones that are not RAM, the ones the caller holds, those answered with
\* NULL, and the part a call is working on.
Conserved ==
    \A t \in Threads :
        busy = (Frames \ usable) \cup held[t] \cup lost \cup Marked(t) \cup InFree(t)

\* "Marks them as busy" (page.c:7-8): a page that somebody holds is busy, so
\* nobody else can be given it.
HeldBusy == \A t \in Threads : held[t] \subseteq busy

\* The first run of free frames is shorter than n.
FirstRunShort(n) ==
    \E f \in Frames \ busy :
        /\ \A g \in Frames \ busy : f \leq g
        /\ \E g \in busy : f < g /\ g < f + n

\* A request that the first free run can serve, or that finds nothing free at
\* all, is answered.  One that needs a later run may be searched for ever, since the
\* search is sent back into the run that was too short (page.c:170).
FirstRunAnswered ==
    \A t \in Threads :
        (pc[t] = "range" /\ l_start_bit[t] = 0 /\ ~ FirstRunShort(count[t]))
            ~> pc[t] = "idle"

(***************************************************************************)
(* With one caller the allocator implements the pool of module PagePool.   *)
(* The pool grants a run when get_free_pages returns: the bits that are    *)
(* already set still count as free, and a page counts as held until its    *)
(* bit is cleared.                                                         *)
(***************************************************************************)
Pool == INSTANCE PagePool WITH
            free <- (Frames \ busy) \cup UNION {Marked(t) : t \in Threads},
            held <- [t \in Threads |-> held[t] \cup InFree(t)],
            want <- [t \in Threads |-> IF pc[t] = "idle" \/ Clearing(t)
                                       THEN -1 ELSE count[t]]

PoolSpec == Pool!Spec

=============================================================================
