------------------------ MODULE PageAllocatorProofs ------------------------
(***************************************************************************)
(* Proofs about PageAllocator.  The first part holds for any number of     *)
(* callers, however their steps interleave; the second part needs callers  *)
(* that do not overlap (SingleCaller).                                     *)
(***************************************************************************)
EXTENDS PageAllocator, TLAPS

(***************************************************************************)
(* Any number of callers.                                                  *)
(***************************************************************************)
Searching(t) == pc[t] \in {"scan", "follow", "set", "store"}

\* What a thread knows about the run it is looking at or marking.
RunInv(t) ==
    /\ Searching(t) => count[t] \geq 1
    /\ pc[t] = "follow" =>
          /\ first_free_bit[t] < bit[t]
          /\ bit[t] \leq LAST_BIT_NO
          /\ bit[t] \leq first_free_bit[t] + count[t]
          /\ first_free_bit[t] .. bit[t] - 1 \subseteq usable
    /\ Marking(t) =>
          /\ first_free_bit[t] \leq bit[t]
          /\ bit[t] \leq last_bit_no(t) + 1
          /\ last_bit_no(t) < NumFrames
          /\ first_free_bit[t] .. last_bit_no(t) \subseteq usable
    /\ pc[t] = "store" => bit[t] \leq last_bit_no(t)
    /\ Clearing(t) => bit[t] \in usable

\* A word in a register never lost the bit of a frame that is not RAM.
WordInv(t) ==
    pc[t] \in {"store", "wipe"} =>
        (Frames \ usable) \cap WordOf(bit[t]) \subseteq word[t]

IInv == TypeOK /\ RamOnly /\ \A t \in Threads : RunInv(t) /\ WordInv(t)

LEMMA WordOfFrames == \A b : WordOf(b) \subseteq Frames
  BY DEF WordOf

LEMMA InitIInv == Init => IInv
  BY FramesAssumption
  DEF Init, IInv, TypeOK, RamOnly, RunInv, WordInv, Searching, Marking, Clearing,
      PCs, Frames, LAST_BIT_NO

LEMMA CallIInv ==
    ASSUME IInv, NEW t \in Threads, NEW n \in 0 .. MaxCount, Call(t, n)
    PROVE  IInv'
  <1> USE FramesAssumption DEF IInv, Call
  <1>1. TypeOK'
    BY DEF TypeOK, PCs, Frames
  <1>2. RamOnly'
    BY DEF RamOnly
  <1>3. ASSUME NEW u \in Threads PROVE RunInv(u)' /\ WordInv(u)'
    BY DEF TypeOK, RunInv, WordInv, Searching, Marking, Clearing, last_bit_no
  <1> QED BY <1>1, <1>2, <1>3

LEMMA RangeIInv ==
    ASSUME IInv, NEW t \in Threads, find_free_bits_range(t)
    PROVE  IInv'
  <1> USE FramesAssumption DEF IInv, find_free_bits_range, search
  <1>1. TypeOK'
    BY DEF TypeOK, PCs, Frames, LAST_BIT_NO
  <1>2. RamOnly'
    BY DEF RamOnly
  <1>3. ASSUME NEW u \in Threads PROVE RunInv(u)' /\ WordInv(u)'
    BY <1>3 DEF TypeOK, RunInv, WordInv, Searching, Marking, Clearing, last_bit_no,
           remaining_bits, LAST_BIT_NO, Frames
  <1> QED BY <1>1, <1>2, <1>3

LEMMA ScanIInv ==
    ASSUME IInv, NEW t \in Threads, find_first_free(t)
    PROVE  IInv'
  <1> USE FramesAssumption DEF IInv, find_first_free
  <1>1. TypeOK'
    BY DEF TypeOK, PCs, Frames
  <1>2. RamOnly'
    BY DEF RamOnly
  <1>3. ASSUME NEW u \in Threads PROVE RunInv(u)' /\ WordInv(u)'
    <2>1. CASE u # t
      BY <2>1 DEF TypeOK, RunInv, WordInv, Searching, Marking, Clearing, last_bit_no
    <2>2. CASE u = t
      <3>1. bit[t] \in Nat /\ count[t] \geq 1
        BY DEF TypeOK, RunInv, Searching
      <3>2. CASE pc'[t] # "follow"
        BY <2>2, <3>1, <3>2 DEF TypeOK, RunInv, WordInv, Searching, Marking, Clearing
      <3>3. CASE pc'[t] = "follow"
        <4>1. bit[t] \in usable /\ bit[t] < LAST_BIT_NO
          BY <3>1, <3>3 DEF TypeOK, RamOnly, Frames, LAST_BIT_NO
        <4>2. first_free_bit'[t] = bit[t] /\ bit'[t] = bit[t] + 1
          BY <3>3 DEF TypeOK
        <4>3. first_free_bit'[t] .. bit'[t] - 1 \subseteq usable
          BY <3>1, <4>1, <4>2
        <4> QED
          BY <2>2, <3>1, <3>3, <4>1, <4>2, <4>3
          DEF TypeOK, RunInv, WordInv, Searching, Marking, Clearing, LAST_BIT_NO
      <3> QED BY <3>2, <3>3
    <2> QED BY <2>1, <2>2
  <1> QED BY <1>1, <1>2, <1>3

LEMMA FollowIInv ==
    ASSUME IInv, NEW t \in Threads, check_following(t)
    PROVE  IInv'
  <1> USE FramesAssumption DEF IInv, check_following
  <1>1. TypeOK'
    BY DEF TypeOK, PCs, Frames, RunInv, LAST_BIT_NO
  <1>2. RamOnly'
    BY DEF RamOnly
  <1>3. ASSUME NEW u \in Threads PROVE RunInv(u)' /\ WordInv(u)'
    <2>1. CASE u # t
      BY <2>1 DEF TypeOK, RunInv, WordInv, Searching, Marking, Clearing, last_bit_no
    <2>2. CASE u = t
      BY <2>2 DEF TypeOK, RamOnly, RunInv, WordInv, Searching, Marking, Clearing,
             last_bit_no, remaining_bits, Frames, LAST_BIT_NO
    <2> QED BY <2>1, <2>2
  <1> QED BY <1>1, <1>2, <1>3

LEMMA SetRangeIInv ==
    ASSUME IInv, NEW t \in Threads, fp_setbit_range(t)
    PROVE  IInv'
  <1> USE FramesAssumption DEF IInv, fp_setbit_range, search
  <1>1. TypeOK'
    <2>1. first_free_bit[t] .. last_bit_no(t) \in SUBSET Frames
      BY DEF TypeOK, RunInv, Marking
    <2>2. held' \in [Threads -> SUBSET Frames] /\ lost' \subseteq Frames
      BY <2>1 DEF TypeOK
    <2>3. word' \in [Threads -> SUBSET Frames] /\ pc' \in [Threads -> PCs]
      BY DEF TypeOK, PCs
    <2> QED BY <2>2, <2>3 DEF TypeOK
  <1>2. RamOnly'
    BY DEF TypeOK, RamOnly, RunInv, Marking, last_bit_no
  <1>3. ASSUME NEW u \in Threads PROVE RunInv(u)' /\ WordInv(u)'
    <2>1. CASE u # t
      BY <2>1 DEF TypeOK, RunInv, WordInv, Searching, Marking, Clearing, last_bit_no
    <2>2. CASE u = t
      <3>1. RunInv(t)'
        BY DEF TypeOK, RunInv, Searching, Marking, Clearing, last_bit_no
      <3>2. WordInv(t)'
        BY DEF TypeOK, RamOnly, WordInv
      <3> QED BY <2>2, <3>1, <3>2
    <2> QED BY <2>1, <2>2
  <1> QED BY <1>1, <1>2, <1>3

LEMMA SetIInv ==
    ASSUME IInv, NEW t \in Threads, fp_setbit(t)
    PROVE  IInv'
  <1> USE FramesAssumption DEF IInv, fp_setbit, search
  <1>1. TypeOK'
    <2>1. bit[t] \in Frames
      BY DEF TypeOK, RunInv, Marking, last_bit_no, Frames
    <2>2. busy' \subseteq Frames
      BY <2>1 DEF TypeOK
    <2>3. bit' \in [Threads -> 0 .. NumFrames] /\ pc' \in [Threads -> PCs]
      BY <2>1 DEF TypeOK, PCs, Frames
    <2> QED BY <2>2, <2>3 DEF TypeOK
  <1>2. RamOnly'
    BY DEF TypeOK, RamOnly, WordInv
  <1>3. ASSUME NEW u \in Threads PROVE RunInv(u)' /\ WordInv(u)'
    <2>1. CASE u # t
      BY <2>1 DEF TypeOK, RunInv, WordInv, Searching, Marking, Clearing, last_bit_no
    <2>2. CASE u = t
      <3>1. RunInv(t)'
        BY DEF TypeOK, RunInv, Searching, Marking, Clearing, last_bit_no, Frames
      <3>2. WordInv(t)'
        BY DEF TypeOK, WordInv
      <3> QED BY <2>2, <3>1, <3>2
    <2> QED BY <2>1, <2>2
  <1> QED BY <1>1, <1>2, <1>3

LEMMA FreeIInv ==
    ASSUME IInv, NEW t \in Threads, free_page(t)
    PROVE  IInv'
  <1> USE FramesAssumption DEF IInv, free_page, search
  <1>1. TypeOK'
    BY DEF TypeOK, PCs, Frames
  <1>2. RamOnly'
    BY DEF TypeOK, RamOnly
  <1>3. ASSUME NEW u \in Threads PROVE RunInv(u)' /\ WordInv(u)'
    BY <1>3 DEF TypeOK, RamOnly, RunInv, WordInv, Searching, Marking, Clearing,
           last_bit_no
  <1> QED BY <1>1, <1>2, <1>3

LEMMA ClearIInv ==
    ASSUME IInv, NEW t \in Threads, fp_clearbit(t) \/ fp_clearbit_store(t)
    PROVE  IInv'
  <1> USE FramesAssumption DEF IInv, fp_clearbit, fp_clearbit_store, search
  <1>1. TypeOK'
    BY DEF TypeOK, PCs
  <1>2. RamOnly'
    BY DEF TypeOK, RamOnly, RunInv, WordInv, Clearing
  <1>3. ASSUME NEW u \in Threads PROVE RunInv(u)' /\ WordInv(u)'
    BY <1>3 DEF TypeOK, RamOnly, RunInv, WordInv, Searching, Marking, Clearing,
           last_bit_no
  <1> QED BY <1>1, <1>2, <1>3

LEMMA NextIInv == IInv /\ [Next]_vars => IInv'
  <1> SUFFICES ASSUME IInv, [Next]_vars PROVE IInv'
    OBVIOUS
  <1>1. CASE UNCHANGED vars
    BY <1>1
    DEF vars, search, IInv, TypeOK, RamOnly, RunInv, WordInv, Searching, Marking,
        Clearing, last_bit_no
  <1>2. ASSUME NEW t \in Threads,
               get_free_pages(t) \/ kmalloc(t) \/ free_page(t) \/ Step(t)
        PROVE  IInv'
    <2>1. ASSUME NEW n \in 0 .. MaxCount, Call(t, n) PROVE IInv'
      BY <2>1, CallIInv
    <2>2. CASE kmalloc(t)
      <3>1. PICK size \in 0 .. MaxCount * PageSize :
                /\ size \div PageSize + 1 \leq MaxCount
                /\ Call(t, size \div PageSize + 1)
        BY <2>2 DEF kmalloc
      <3>2. size \in Nat
        BY <3>1
      <3>3. size \div PageSize + 1 \in 0 .. MaxCount
        BY <3>1, <3>2, FramesAssumption
      <3> QED BY <3>1, <3>3, <2>1
    <2> QED
      BY <1>2, <2>1, <2>2, RangeIInv, ScanIInv, FollowIInv, SetRangeIInv, SetIInv,
         FreeIInv, ClearIInv
      DEF get_free_pages, Step
  <1> QED BY <1>1, <1>2 DEF Next

LEMMA IInvInBounds == IInv => InBounds
  BY FramesAssumption
  DEF IInv, TypeOK, RunInv, InBounds, Marking, LAST_BIT_NO

\* The types of free_bm and of every caller's registers, for any number of
\* callers of get_free_pages, kmalloc and free_page.
THEOREM TypeCorrect == Spec => []TypeOK
  BY InitIInv, NextIInv, PTL DEF Spec, IInv

\* The search and the marking never leave free_bm, for any number of callers.
THEOREM SearchInBounds == Spec => []InBounds
  <1>1. Spec => []IInv
    BY InitIInv, NextIInv, PTL DEF Spec
  <1> QED BY <1>1, IInvInBounds, PTL

\* get_free_pages hands out RAM pages only, for any number of callers.
THEOREM OnlyRam == Spec => []RamOnly
  BY InitIInv, NextIInv, PTL DEF Spec, IInv

(***************************************************************************)
(* Callers that do not overlap.                                            *)
(***************************************************************************)
SingleCaller == \A t, u \in Threads : t = u

RunOf(t) == first_free_bit[t] .. last_bit_no(t)

\* What the only caller knows: the frames it is looking at or still has to mark
\* are free, nobody holds any frame of its run or the frame it is freeing, and
\* the word in its register is the word in memory.
OwnInv(t) ==
    /\ pc[t] = "follow" =>
          (first_free_bit[t] .. bit[t] - 1) \cap busy = {}
    /\ Marking(t) =>
          /\ (bit[t] .. last_bit_no(t)) \cap busy = {}
          /\ RunOf(t) \cap (held[t] \cup lost) = {}
    /\ Clearing(t) => bit[t] \notin held[t] \cup lost
    /\ pc[t] \in {"store", "wipe"} => word[t] = busy \cap WordOf(bit[t])
    /\ held[t] \cap lost = {}
    /\ lost \subseteq usable
    /\ busy = (Frames \ usable) \cup held[t] \cup lost \cup Marked(t) \cup InFree(t)

SInv == IInv /\ \A t \in Threads : OwnInv(t)

LEMMA InWordOf == \A b \in Frames : b \in WordOf(b)
  BY DEF WordOf

LEMMA InitOwn == Init => \A t \in Threads : OwnInv(t)
  BY DEF Init, OwnInv, Marking, Clearing, Marked, InFree

LEMMA CallOwn ==
    ASSUME SInv, NEW t \in Threads, NEW n \in 0 .. MaxCount, Call(t, n)
    PROVE  OwnInv(t)'
  BY DEF SInv, IInv, TypeOK, OwnInv, Call, Marking, Clearing, Marked, InFree

LEMMA RangeOwn ==
    ASSUME SInv, NEW t \in Threads, find_free_bits_range(t)
    PROVE  OwnInv(t)'
  BY DEF SInv, IInv, TypeOK, OwnInv, find_free_bits_range, search, Marking, Clearing,
         Marked, InFree

LEMMA ScanOwn ==
    ASSUME SInv, NEW t \in Threads, find_first_free(t)
    PROVE  OwnInv(t)'
  <1> USE DEF SInv, find_first_free
  <1>1. pc'[t] # pc[t] \/ pc'[t] = "scan"
    BY DEF IInv, TypeOK
  <1>2. pc'[t] \in {"idle", "scan", "follow"}
    BY DEF IInv, TypeOK
  <1>3. pc'[t] = "follow" => (first_free_bit'[t] .. bit'[t] - 1) \cap busy = {}
    BY DEF IInv, TypeOK, Frames
  <1> QED
    BY <1>2, <1>3 DEF OwnInv, Marking, Clearing, Marked, InFree

LEMMA FollowOwn ==
    ASSUME SInv, NEW t \in Threads, check_following(t)
    PROVE  OwnInv(t)'
  <1> USE DEF SInv, check_following
  <1> DEFINE i == bit[t] - first_free_bit[t] - 1
  <1>1. /\ bit[t] \in Nat /\ first_free_bit[t] \in Nat /\ count[t] \in Nat \ {0}
        /\ remaining_bits(t) = count[t] - 1
    BY FramesAssumption DEF IInv, TypeOK, RunInv, Searching, Frames, remaining_bits
  <1>2. CASE i = remaining_bits(t) /\ pc'[t] = "set" /\ bit'[t] = first_free_bit[t]
    <2>1. last_bit_no(t) = bit[t] - 1
      BY <1>1, <1>2 DEF last_bit_no
    <2>2. RunOf(t) \cap busy = {}
      BY <2>1 DEF OwnInv, RunOf
    <2>3. /\ Marking(t)' /\ ~ Clearing(t)' /\ pc'[t] \notin {"store", "wipe", "follow"}
          /\ RunOf(t)' = RunOf(t) /\ last_bit_no(t)' = last_bit_no(t)
          /\ ~ Marking(t) /\ ~ Clearing(t)
      BY <1>2 DEF Marking, Clearing, RunOf, last_bit_no
    <2>4. Marked(t)' = {} /\ InFree(t)' = {} /\ Marked(t) = {} /\ InFree(t) = {}
      BY <1>1, <1>2, <2>3 DEF Marked, InFree
    <2> QED BY <1>2, <2>2, <2>3, <2>4 DEF OwnInv, RunOf
  <1>3. CASE /\ bit[t] \notin busy /\ bit'[t] = bit[t] + 1
             /\ pc'[t] = "follow" /\ first_free_bit'[t] = first_free_bit[t]
    <2>1. (first_free_bit'[t] .. bit'[t] - 1) \cap busy' = {}
      BY <1>1, <1>3 DEF OwnInv
    <2> QED BY <1>3, <2>1 DEF OwnInv, Marking, Clearing, Marked, InFree
  <1>4. CASE pc'[t] = "range"
    BY <1>4 DEF OwnInv, Marking, Clearing, Marked, InFree
  <1> QED BY <1>2, <1>3, <1>4 DEF IInv, TypeOK

LEMMA SetRangeOwn ==
    ASSUME SInv, NEW t \in Threads, fp_setbit_range(t)
    PROVE  OwnInv(t)'
  <1> USE DEF SInv, fp_setbit_range, search
  <1>1. /\ bit[t] \in Nat /\ first_free_bit[t] \in Nat /\ last_bit_no(t) \in Int
        /\ bit[t] \leq last_bit_no(t) + 1
    BY DEF IInv, TypeOK, RunInv, Marking, Frames, last_bit_no
  <1>2. CASE pc'[t] = "store"
    BY <1>2 DEF IInv, TypeOK, OwnInv, Marking, Clearing, Marked, InFree, RunOf,
                last_bit_no
  <1>3. CASE pc'[t] = "idle"
    <2>1. bit[t] = last_bit_no(t) + 1 /\ Marked(t) = RunOf(t) /\ InFree(t) = {}
      BY <1>1, <1>3 DEF Marked, InFree, Marking, Clearing, RunOf, IInv, TypeOK
    <2>2. Marked(t)' = {} /\ InFree(t)' = {}
      BY <1>3 DEF Marked, InFree, Marking, Clearing
    <2>3. \/ held'[t] = held[t] \cup RunOf(t) /\ lost' = lost
          \/ held'[t] = held[t] /\ lost' = lost \cup RunOf(t)
      BY <1>3 DEF RunOf, IInv, TypeOK
    <2>4. RunOf(t) \subseteq usable
      BY DEF IInv, RunInv, Marking, RunOf
    <2>5. RunOf(t) \cap (held[t] \cup lost) = {}
      BY DEF OwnInv, Marking
    <2> QED BY <1>3, <2>1, <2>2, <2>3, <2>4, <2>5 DEF OwnInv, Marking, Clearing
  <1> QED BY <1>2, <1>3 DEF IInv, TypeOK

LEMMA SetOwn ==
    ASSUME SInv, NEW t \in Threads, fp_setbit(t)
    PROVE  OwnInv(t)'
  <1> USE DEF SInv, fp_setbit, search
  <1>1. /\ bit[t] \in Nat /\ first_free_bit[t] \in Nat /\ last_bit_no(t) \in Int
        /\ bit[t] \leq last_bit_no(t) /\ first_free_bit[t] \leq bit[t]
    BY DEF IInv, TypeOK, RunInv, Marking, Frames, last_bit_no
  <1>2. bit'[t] = bit[t] + 1 /\ pc'[t] = "set"
    BY DEF IInv, TypeOK
  <1>3. busy' = busy \cup {bit[t]}
    BY DEF OwnInv
  <1>4. Marked(t)' = Marked(t) \cup {bit[t]} /\ InFree(t)' = {} /\ InFree(t) = {}
    BY <1>1, <1>2 DEF Marked, InFree, Marking, Clearing
  <1>5. (bit'[t] .. last_bit_no(t)) \cap busy' = {}
    BY <1>1, <1>2, <1>3 DEF OwnInv, Marking
  <1>6. RunOf(t)' = RunOf(t) /\ last_bit_no(t)' = last_bit_no(t)
    BY DEF RunOf, last_bit_no
  <1> QED BY <1>2, <1>3, <1>4, <1>5, <1>6 DEF OwnInv, Marking, Clearing

LEMMA FreeOwn ==
    ASSUME SInv, NEW t \in Threads, free_page(t)
    PROVE  OwnInv(t)'
  <1> USE DEF SInv, free_page, search
  <1>1. PICK f \in held[t] : held'[t] = held[t] \ {f} /\ bit'[t] = f
    BY DEF IInv, TypeOK
  <1>2. pc'[t] = "clear" /\ InFree(t)' = {f} /\ Marked(t)' = {}
    BY <1>1 DEF IInv, TypeOK, InFree, Marked, Marking, Clearing
  <1>3. InFree(t) = {} /\ Marked(t) = {}
    BY DEF InFree, Marked, Marking, Clearing
  <1> QED BY <1>1, <1>2, <1>3 DEF OwnInv, Marking, Clearing

LEMMA ClearOwn ==
    ASSUME SInv, NEW t \in Threads, fp_clearbit(t) \/ fp_clearbit_store(t)
    PROVE  OwnInv(t)'
  <1> USE DEF SInv, search
  <1>1. CASE fp_clearbit(t)
    BY <1>1 DEF IInv, TypeOK, OwnInv, fp_clearbit, Marking, Clearing, Marked, InFree
  <1>2. CASE fp_clearbit_store(t)
    <2>1. bit[t] \in Frames /\ bit[t] \in usable /\ bit[t] \notin held[t] \cup lost
      BY <1>2 DEF IInv, TypeOK, RunInv, OwnInv, fp_clearbit_store, Clearing
    <2>2. busy' = busy \ {bit[t]}
      BY <1>2, <2>1, InWordOf DEF OwnInv, fp_clearbit_store
    <2>3. /\ InFree(t) = {bit[t]} /\ Marked(t) = {}
          /\ InFree(t)' = {} /\ Marked(t)' = {} /\ pc'[t] = "idle"
      BY <1>2 DEF IInv, TypeOK, fp_clearbit_store, InFree, Marked, Marking, Clearing
    <2> QED
      BY <1>2, <2>1, <2>2, <2>3 DEF OwnInv, fp_clearbit_store, Marking, Clearing
  <1> QED BY <1>1, <1>2

LEMMA NextSInv == SingleCaller /\ SInv /\ [Next]_vars => SInv'
  <1> SUFFICES ASSUME SingleCaller, SInv, [Next]_vars PROVE SInv'
    OBVIOUS
  <1>1. IInv'
    BY NextIInv DEF SInv
  <1>2. CASE UNCHANGED vars
    BY <1>1, <1>2
    DEF SInv, vars, search, OwnInv, Marking, Clearing, Marked, InFree, RunOf,
        last_bit_no
  <1>3. ASSUME NEW t \in Threads,
               get_free_pages(t) \/ kmalloc(t) \/ free_page(t) \/ Step(t)
        PROVE  OwnInv(t)'
    <2>1. CASE kmalloc(t)
      <3>1. PICK size \in 0 .. MaxCount * PageSize :
                /\ size \div PageSize + 1 \leq MaxCount
                /\ Call(t, size \div PageSize + 1)
        BY <2>1 DEF kmalloc
      <3>2. size \in Nat
        BY <3>1
      <3>3. size \div PageSize + 1 \in 0 .. MaxCount
        BY <3>1, <3>2, FramesAssumption
      <3> QED BY <3>1, <3>3, CallOwn
    <2> QED
      BY <1>3, <2>1, CallOwn, RangeOwn, ScanOwn, FollowOwn, SetRangeOwn, SetOwn,
         FreeOwn, ClearOwn
      DEF get_free_pages, Step
  <1>4. CASE Next
    BY <1>1, <1>3, <1>4 DEF Next, SInv, SingleCaller
  <1> QED BY <1>2, <1>4

LEMMA SpecSInv == SingleCaller => (Spec => []SInv)
  <1> SUFFICES ASSUME SingleCaller PROVE Spec => []SInv
    OBVIOUS
  <1>1. Init => SInv
    BY InitIInv, InitOwn DEF SInv
  <1>2. SInv /\ [Next]_vars => SInv'
    BY NextSInv
  <1> QED BY <1>1, <1>2, PTL DEF Spec

\* With one caller at a time no frame is lost or marked in excess: free_bm says
\* busy exactly of what is not RAM, held, answered with NULL or being worked on.
THEOREM NothingLost == SingleCaller => (Spec => []Conserved)
  <1> SUFFICES ASSUME SingleCaller PROVE Spec => []Conserved
    OBVIOUS
  <1>1. SInv => Conserved
    BY DEF SInv, OwnInv, Conserved
  <1> QED BY <1>1, SpecSInv, PTL

\* With one caller at a time a page that the caller holds is marked busy.
THEOREM HeldMarkedBusy == SingleCaller => (Spec => []HeldBusy)
  <1> SUFFICES ASSUME SingleCaller PROVE Spec => []HeldBusy
    OBVIOUS
  <1>1. SInv => HeldBusy
    BY DEF SInv, OwnInv, HeldBusy
  <1> QED BY <1>1, SpecSInv, PTL

(***************************************************************************)
(* With one caller at a time the allocator implements PagePool.            *)
(***************************************************************************)
\* The frames of the pool, as the only caller sees them.
FreeOf(t) == (Frames \ busy) \cup Marked(t)

FitsAt(t, s) == count[t] > 0 /\ s .. s + count[t] - 1 \subseteq FreeOf(t)

\* Nothing fits before the place the search has reached.
NoFitBefore(t, b) == \A s \in Frames : s < b => ~ FitsAt(t, s)

FirstFit(t) ==
    /\ pc[t] = "range" => NoFitBefore(t, l_start_bit[t])
    /\ pc[t] = "scan" => NoFitBefore(t, bit[t])
    /\ pc[t] \in {"follow", "set", "store"} => NoFitBefore(t, first_free_bit[t])

RInv == SInv /\ \A t \in Threads : FirstFit(t)

LEMMA InitFirstFit == Init => \A t \in Threads : FirstFit(t)
  BY DEF Init, FirstFit

LEMMA CallFirstFit ==
    ASSUME RInv, NEW t \in Threads, NEW n \in 0 .. MaxCount, Call(t, n)
    PROVE  FirstFit(t)'
  BY DEF RInv, SInv, IInv, TypeOK, Call, FirstFit, NoFitBefore, Frames

LEMMA RangeFirstFit ==
    ASSUME RInv, NEW t \in Threads, find_free_bits_range(t)
    PROVE  FirstFit(t)'
  BY DEF RInv, SInv, IInv, TypeOK, find_free_bits_range, search, FirstFit, NoFitBefore,
         FitsAt, FreeOf, Marked, Marking

LEMMA ScanFirstFit ==
    ASSUME RInv, NEW t \in Threads, find_first_free(t)
    PROVE  FirstFit(t)'
  <1> USE DEF RInv, SInv, find_first_free
  <1>1. /\ \A s : FitsAt(t, s)' <=> FitsAt(t, s)
        /\ FreeOf(t) = Frames \ busy
    BY DEF IInv, TypeOK, FitsAt, FreeOf, Marked, Marking
  <1>2. NoFitBefore(t, bit[t]) /\ bit[t] \in Nat
    BY DEF FirstFit, IInv, TypeOK
  <1>3. CASE bit[t] \in busy /\ bit'[t] = bit[t] + 1 /\ pc'[t] = "scan"
    <2>1. ~ FitsAt(t, bit[t])
      BY <1>1, <1>2, <1>3 DEF FitsAt, IInv, TypeOK
    <2>2. NoFitBefore(t, bit[t] + 1)
      BY <1>2, <2>1 DEF NoFitBefore, Frames
    <2> QED BY <1>1, <1>3, <2>2 DEF FirstFit, NoFitBefore, Frames
  <1>4. CASE first_free_bit'[t] = bit[t] /\ pc'[t] = "follow"
    BY <1>1, <1>2, <1>4 DEF FirstFit, NoFitBefore
  <1>5. CASE pc'[t] = "idle"
    BY <1>5 DEF FirstFit
  <1> QED BY <1>3, <1>4, <1>5 DEF IInv, TypeOK

LEMMA FollowFirstFit ==
    ASSUME RInv, NEW t \in Threads, check_following(t)
    PROVE  FirstFit(t)'
  <1> USE DEF RInv, SInv, check_following
  <1>1. /\ bit[t] \in Frames /\ first_free_bit[t] \in Frames /\ count[t] \in Nat \ {0}
        /\ first_free_bit[t] < bit[t] /\ bit[t] \leq first_free_bit[t] + count[t]
        /\ remaining_bits(t) = count[t] - 1
    BY FramesAssumption
    DEF IInv, TypeOK, RunInv, Searching, Frames, LAST_BIT_NO, remaining_bits
  <1>2. NoFitBefore(t, first_free_bit[t]) /\ FreeOf(t) = Frames \ busy
    BY DEF FirstFit, FreeOf, Marked, Marking
  <1>3. CASE pc'[t] = "follow" /\ first_free_bit'[t] = first_free_bit[t]
    BY <1>2, <1>3
    DEF FirstFit, NoFitBefore, FitsAt, FreeOf, Marked, Marking
  <1>4. CASE pc'[t] = "set" /\ bit'[t] = first_free_bit[t]
    <2>1. Marked(t)' = {} /\ Marked(t) = {}
      BY <1>1, <1>4 DEF Marked, Marking, Frames
    <2> QED BY <1>2, <1>4, <2>1 DEF FirstFit, NoFitBefore, FitsAt, FreeOf
  <1>5. CASE /\ pc'[t] = "range" /\ bit[t] \in busy
             /\ bit[t] - first_free_bit[t] - 1 < remaining_bits(t)
             /\ l_start_bit'[t] = bit[t] - 1
    <2>1. ASSUME NEW s \in Frames, s < bit[t] - 1 PROVE ~ FitsAt(t, s)
      <3>1. CASE s < first_free_bit[t]
        BY <1>2, <3>1 DEF NoFitBefore
      <3>2. CASE s \geq first_free_bit[t]
        <4>1. bit[t] \in s .. s + count[t] - 1
          BY <1>1, <1>5, <2>1, <3>2 DEF Frames
        <4> QED BY <1>2, <1>5, <4>1 DEF FitsAt
      <3> QED BY <1>1, <3>1, <3>2 DEF Frames
    <2>2. \A s : FitsAt(t, s)' <=> FitsAt(t, s)
      BY <1>5 DEF FitsAt, FreeOf, Marked, Marking
    <2> QED BY <1>5, <2>1, <2>2 DEF FirstFit, NoFitBefore
  <1> QED BY <1>1, <1>3, <1>4, <1>5 DEF IInv, TypeOK, Frames

LEMMA SetFirstFit ==
    ASSUME RInv, NEW t \in Threads, fp_setbit_range(t) \/ fp_setbit(t)
    PROVE  /\ FirstFit(t)'
           /\ pc'[t] # "idle" => FreeOf(t)' = FreeOf(t)
  <1> USE DEF RInv, SInv, search
  <1>1. CASE fp_setbit_range(t)
    BY <1>1 DEF fp_setbit_range, IInv, TypeOK, FirstFit, NoFitBefore, FitsAt, FreeOf,
                Marked, Marking
  <1>2. CASE fp_setbit(t)
    <2> USE <1>2 DEF fp_setbit
    <2>1. /\ bit[t] \in Frames /\ first_free_bit[t] \in Frames
          /\ bit[t] \leq last_bit_no(t) /\ first_free_bit[t] \leq bit[t]
      BY DEF IInv, TypeOK, RunInv, Marking, Frames, last_bit_no
    <2>2. bit'[t] = bit[t] + 1 /\ pc'[t] = "set"
      BY DEF IInv, TypeOK
    <2>3. busy' = busy \cup {bit[t]}
      BY DEF OwnInv
    <2>4. Marked(t)' = Marked(t) \cup {bit[t]}
      BY <2>1, <2>2 DEF Marked, Marking, Frames
    <2>5. bit[t] \notin busy
      BY <2>1 DEF OwnInv, Marking, last_bit_no, IInv, TypeOK, Frames
    <2>6. FreeOf(t)' = FreeOf(t)
      BY <2>1, <2>3, <2>4, <2>5 DEF FreeOf
    <2> QED BY <2>2, <2>6 DEF FirstFit, NoFitBefore, FitsAt
  <1> QED BY <1>1, <1>2

LEMMA NextRInv == SingleCaller /\ RInv /\ [Next]_vars => RInv'
  <1> SUFFICES ASSUME SingleCaller, RInv, [Next]_vars PROVE RInv'
    OBVIOUS
  <1>1. SInv'
    BY NextSInv DEF RInv
  <1>2. CASE UNCHANGED vars
    BY <1>1, <1>2
    DEF RInv, vars, search, FirstFit, NoFitBefore, FitsAt, FreeOf, Marked, Marking
  <1>3. ASSUME NEW t \in Threads,
               get_free_pages(t) \/ kmalloc(t) \/ free_page(t) \/ Step(t)
        PROVE  FirstFit(t)'
    <2>1. CASE kmalloc(t)
      <3>1. PICK size \in 0 .. MaxCount * PageSize :
                /\ size \div PageSize + 1 \leq MaxCount
                /\ Call(t, size \div PageSize + 1)
        BY <2>1 DEF kmalloc
      <3>2. size \in Nat
        BY <3>1
      <3>3. size \div PageSize + 1 \in 0 .. MaxCount
        BY <3>1, <3>2, FramesAssumption
      <3> QED BY <3>1, <3>3, CallFirstFit
    <2>2. CASE free_page(t) \/ fp_clearbit(t) \/ fp_clearbit_store(t)
      BY <2>2 DEF RInv, SInv, IInv, TypeOK, free_page, fp_clearbit, fp_clearbit_store,
                  FirstFit
    <2> QED
      BY <1>3, <2>1, <2>2, CallFirstFit, RangeFirstFit, ScanFirstFit, FollowFirstFit,
         SetFirstFit
      DEF get_free_pages, Step
  <1>4. CASE Next
    BY <1>1, <1>3, <1>4 DEF Next, RInv, SingleCaller
  <1> QED BY <1>2, <1>4

(***************************************************************************)
(* The refinement mapping of PageAllocator, under names of its own.        *)
(***************************************************************************)
FreeBar == (Frames \ busy) \cup UNION {Marked(t) : t \in Threads}
HeldBar == [t \in Threads |-> held[t] \cup InFree(t)]
WantBar == [t \in Threads |-> IF pc[t] = "idle" \/ Clearing(t) THEN -1 ELSE count[t]]

LEMMA OneMarked ==
    ASSUME SingleCaller, NEW t \in Threads
    PROVE  FreeBar = FreeOf(t)
  BY DEF SingleCaller, FreeBar, FreeOf

LEMMA OneMarkedNext ==
    ASSUME SingleCaller, NEW t \in Threads
    PROVE  FreeBar' = FreeOf(t)'
  BY DEF SingleCaller, FreeBar, FreeOf

\* A step of the only caller changes the image of the state by the action of the
\* pool that the caller sees, or not at all.
PoolStep(t) ==
    \/ Pool!Request(t) \/ Pool!Grant(t) \/ Pool!Refuse(t) \/ Pool!Release(t)
    \/ UNCHANGED <<FreeBar, HeldBar, WantBar>>

LEMMA CallPool ==
    ASSUME RInv, SingleCaller, NEW t \in Threads, NEW n \in 0 .. MaxCount, Call(t, n)
    PROVE  Pool!Request(t)
  <1> USE DEF RInv, SInv, IInv, TypeOK, Call
  <1>1. FreeBar' = FreeBar /\ HeldBar' = HeldBar
    <2>1. ASSUME NEW u \in Threads
          PROVE  Marked(u)' = Marked(u) /\ InFree(u)' = InFree(u)
      BY DEF SingleCaller, Marked, InFree, Marking, Clearing
    <2> QED BY <2>1 DEF FreeBar, HeldBar
  <1>2. WantBar[t] = -1 /\ WantBar' = [WantBar EXCEPT ![t] = n]
    BY DEF WantBar, Clearing, SingleCaller
  <1> QED BY <1>1, <1>2 DEF Pool!Request, Pool!NoRequest, FreeBar, HeldBar, WantBar

\* The pool's condition for a grant, in the terms of FirstFit.
LEMMA FitsFitsAt ==
    ASSUME SingleCaller, NEW t \in Threads, WantBar[t] = count[t], NEW s
    PROVE  Pool!Fits(s, WantBar[t]) <=> FitsAt(t, s)
  BY OneMarked DEF Pool!Fits, Pool!Run, FitsAt, FreeBar

\* A call that ends without a run is a refusal.
LEMMA NullPool ==
    ASSUME RInv, SingleCaller, NEW t \in Threads,
           find_free_bits_range(t) \/ find_first_free(t), pc'[t] = "idle"
    PROVE  Pool!Refuse(t)
  <1> USE DEF RInv, SInv
  <1>1. pc[t] \in {"range", "scan"} /\ pc' = [pc EXCEPT ![t] = "idle"]
        /\ UNCHANGED <<busy, usable, count, held>>
    BY DEF find_free_bits_range, find_first_free, search, IInv, TypeOK
  <1>2. FreeBar' = FreeBar /\ HeldBar' = HeldBar
    <2>1. ASSUME NEW u \in Threads
          PROVE  Marked(u)' = Marked(u) /\ InFree(u)' = InFree(u)
      BY <1>1 DEF SingleCaller, Marked, InFree, Marking, Clearing, IInv, TypeOK
    <2> QED BY <1>1, <2>1 DEF FreeBar, HeldBar
  <1>3. WantBar[t] = count[t] /\ WantBar[t] # -1
        /\ WantBar' = [WantBar EXCEPT ![t] = -1]
    BY <1>1 DEF WantBar, Clearing, SingleCaller, IInv, TypeOK
  <1>4. ASSUME NEW s \in Frames PROVE ~ FitsAt(t, s)
    <2>1. count[t] \in Nat /\ s \in Nat /\ s < NumFrames /\ l_start_bit[t] \in Nat
      BY FramesAssumption DEF IInv, TypeOK, Frames
    <2>2. FreeOf(t) \subseteq Frames
      BY <1>1 DEF FreeOf, Marked, Marking
    <2>3. CASE find_free_bits_range(t)
      <3>1. count[t] = 0 \/ l_start_bit[t] + count[t] - 1 > LAST_BIT_NO
        <4>1. ~ (l_start_bit[t] + remaining_bits(t) \leq LAST_BIT_NO)
          BY <1>1, <2>3 DEF find_free_bits_range, IInv, TypeOK
        <4> QED BY <2>1, <4>1, FramesAssumption DEF remaining_bits, LAST_BIT_NO
      <3>2. CASE s < l_start_bit[t]
        BY <2>3, <3>2 DEF FirstFit, NoFitBefore, find_free_bits_range
      <3>3. CASE s \geq l_start_bit[t] /\ count[t] > 0
        <4>1. s + count[t] - 1 \in s .. s + count[t] - 1
          BY <2>1, <3>3
        <4>2. s + count[t] - 1 \notin Frames
          BY <2>1, <3>1, <3>3, FramesAssumption DEF Frames, LAST_BIT_NO
        <4> QED BY <2>2, <4>1, <4>2 DEF FitsAt
      <3> QED BY <2>1, <3>2, <3>3 DEF FitsAt
    <2>4. CASE find_first_free(t)
      <3>1. bit[t] \geq NumFrames /\ bit[t] \in Nat /\ pc[t] = "scan"
        BY <2>4 DEF find_first_free, IInv, TypeOK
      <3> QED BY <2>1, <3>1, FramesAssumption DEF FirstFit, NoFitBefore
    <2> QED BY <2>3, <2>4
  <1>5. \A s \in Frames : ~ Pool!Fits(s, WantBar[t])
    BY <1>3, <1>4, FitsFitsAt
  <1> QED
    BY <1>2, <1>3, <1>5 DEF Pool!Refuse, Pool!NoRequest, FreeBar, HeldBar, WantBar

\* The steps of a search that goes on, and of the marking, are not seen.
LEMMA InnerPool ==
    ASSUME RInv, SingleCaller, NEW t \in Threads, pc'[t] # "idle",
           \/ find_free_bits_range(t) \/ find_first_free(t) \/ check_following(t)
           \/ fp_setbit_range(t) \/ fp_setbit(t)
    PROVE  UNCHANGED <<FreeBar, HeldBar, WantBar>>
  <1> USE DEF RInv, SInv
  <1>1. pc[t] \in {"range", "scan", "follow", "set", "store"}
        /\ pc'[t] \in {"range", "scan", "follow", "set", "store"}
        /\ UNCHANGED <<usable, count>>
    BY DEF find_free_bits_range, find_first_free, check_following, fp_setbit_range,
           fp_setbit, search, IInv, TypeOK
  <1>2. held' = held
    BY DEF find_free_bits_range, find_first_free, check_following, fp_setbit_range,
           fp_setbit, search, IInv, TypeOK
  <1>3. HeldBar' = HeldBar /\ WantBar' = WantBar
    BY <1>1, <1>2 DEF HeldBar, WantBar, InFree, Clearing, SingleCaller
  <1>4. FreeOf(t)' = FreeOf(t)
    <2>1. CASE find_free_bits_range(t) \/ find_first_free(t)
      BY <2>1, <1>1 DEF find_free_bits_range, find_first_free, search, IInv, TypeOK,
         FreeOf, Marked, Marking
    <2>2. CASE check_following(t)
      <3>1. Marked(t)' = {}
        BY <2>2 DEF check_following, Marked, Marking, IInv, TypeOK, Frames
      <3> QED BY <2>2, <3>1 DEF check_following, FreeOf, Marked, Marking
    <2>3. CASE fp_setbit_range(t) \/ fp_setbit(t)
      BY <2>3, SetFirstFit
    <2> QED BY <2>1, <2>2, <2>3
  <1> QED BY <1>3, <1>4, OneMarked, OneMarkedNext

\* The return of get_free_pages with a run is a grant of the lowest run that fits.
LEMMA GrantPool ==
    ASSUME RInv, SingleCaller, NEW t \in Threads, fp_setbit_range(t), pc'[t] = "idle"
    PROVE  Pool!Grant(t)
  <1> USE DEF RInv, SInv
  <1> DEFINE s == first_free_bit[t]
  <1>0. IInv /\ TypeOK /\ RunInv(t) /\ OwnInv(t) /\ FirstFit(t)
    BY DEF IInv
  <1>1. /\ bit[t] = last_bit_no(t) + 1 /\ s \in Frames /\ count[t] \in Nat \ {0}
        /\ pc[t] = "set" /\ pc' = [pc EXCEPT ![t] = "idle"]
        /\ UNCHANGED <<busy, usable, count>>
    <2>1. /\ pc[t] = "set" /\ pc' = [pc EXCEPT ![t] = "idle"]
          /\ UNCHANGED <<busy, usable, count>> /\ bit[t] > last_bit_no(t)
      BY <1>0 DEF fp_setbit_range, search, TypeOK
    <2>2. s \in Frames /\ count[t] \in Nat \ {0} /\ bit[t] \in Nat
      BY <1>0, <2>1 DEF TypeOK, RunInv, Searching
    <2>3. bit[t] \leq last_bit_no(t) + 1 /\ last_bit_no(t) \in Int
      BY <1>0, <2>1, <2>2 DEF RunInv, Marking, last_bit_no, Frames
    <2> QED BY <2>1, <2>2, <2>3
  <1>2. RunOf(t) = s .. s + count[t] - 1 /\ Marked(t) = RunOf(t) /\ Marked(t)' = {}
        /\ InFree(t) = {} /\ InFree(t)' = {}
    BY <1>1 DEF RunOf, last_bit_no, Marked, InFree, Marking, Clearing, Frames
  <1>3. RunOf(t) \subseteq busy
    BY <1>0, <1>2 DEF OwnInv
  <1>4. FreeBar' = FreeBar \ RunOf(t)
    <2>1. FreeBar = FreeOf(t) /\ FreeBar' = FreeOf(t)'
      BY OneMarked, OneMarkedNext
    <2> QED BY <1>1, <1>2, <1>3, <2>1, Zenon DEF FreeOf
  <1>5. HeldBar' = IF s = 0 THEN HeldBar
                   ELSE [HeldBar EXCEPT ![t] = @ \cup RunOf(t)]
    <2>1. held'[t] = IF s = 0 THEN held[t] ELSE held[t] \cup RunOf(t)
      BY <1>1 DEF fp_setbit_range, IInv, TypeOK, RunOf, last_bit_no, Frames
    <2> QED BY <1>2, <2>1 DEF HeldBar, SingleCaller
  <1>6. WantBar[t] = count[t] /\ WantBar[t] # -1
        /\ WantBar' = [WantBar EXCEPT ![t] = -1]
    BY <1>1 DEF WantBar, Clearing, SingleCaller, IInv, TypeOK
  <1>7. FitsAt(t, s) /\ \A r \in Frames : r < s => ~ FitsAt(t, r)
    BY <1>0, <1>1, <1>2 DEF FitsAt, FreeOf, FirstFit, NoFitBefore
  <1>8. /\ Pool!Fits(s, WantBar[t])
        /\ \A r \in Frames : r < s => ~ Pool!Fits(r, WantBar[t])
    BY <1>6, <1>7, FitsFitsAt
  <1>9. Pool!Run(s, WantBar[t]) = RunOf(t)
    BY <1>2, <1>6 DEF Pool!Run
  <1> HIDE DEF s
  <1> QED
    BY <1>1, <1>4, <1>5, <1>6, <1>8, <1>9
    DEF Pool!Grant, Pool!NoRequest, FreeBar, HeldBar, WantBar

\* free_page and the load of the word are not seen; the store is a release.
LEMMA FreePool ==
    ASSUME RInv, SingleCaller, NEW t \in Threads,
           free_page(t) \/ fp_clearbit(t) \/ fp_clearbit_store(t)
    PROVE  PoolStep(t)
  <1> USE DEF RInv, SInv
  <1>1. CASE free_page(t) \/ fp_clearbit(t)
    <2>1. WantBar' = WantBar /\ FreeOf(t)' = FreeOf(t)
      BY <1>1 DEF free_page, fp_clearbit, search, WantBar, Clearing, SingleCaller,
                  FreeOf, Marked, Marking, IInv, TypeOK
    <2>2. HeldBar' = HeldBar
      <3>1. held'[t] \cup InFree(t)' = held[t] \cup InFree(t)
        BY <1>1 DEF free_page, fp_clearbit, search, InFree, Clearing, IInv, TypeOK
      <3> QED BY <3>1 DEF HeldBar, SingleCaller
    <2> QED BY <2>1, <2>2, OneMarked, OneMarkedNext DEF PoolStep
  <1>2. CASE fp_clearbit_store(t)
    <2>1. /\ bit[t] \in Frames /\ bit[t] \notin held[t] /\ held' = held
          /\ pc[t] = "wipe" /\ pc'[t] = "idle"
      BY <1>2 DEF IInv, TypeOK, RunInv, OwnInv, fp_clearbit_store, Clearing
    <2>2. busy' = busy \ {bit[t]}
      BY <1>2, <2>1, InWordOf DEF OwnInv, fp_clearbit_store
    <2>3. /\ InFree(t) = {bit[t]} /\ InFree(t)' = {}
          /\ Marked(t) = {} /\ Marked(t)' = {}
      BY <2>1 DEF InFree, Marked, Marking, Clearing
    <2>4. FreeBar' = FreeBar \cup {bit[t]}
      BY <2>1, <2>2, <2>3, OneMarked, OneMarkedNext DEF FreeOf
    <2>5. HeldBar' = [HeldBar EXCEPT ![t] = @ \ {bit[t]}] /\ bit[t] \in HeldBar[t]
      BY <2>1, <2>3 DEF HeldBar, SingleCaller
    <2>6. WantBar' = WantBar /\ WantBar[t] = -1
      BY <1>2, <2>1 DEF WantBar, Clearing, SingleCaller, fp_clearbit_store, search
    <2>7. Pool!Release(t)
      BY <2>4, <2>5, <2>6 DEF Pool!Release, Pool!NoRequest, FreeBar, HeldBar, WantBar
    <2> QED BY <2>7 DEF PoolStep
  <1> QED BY <1>1, <1>2

LEMMA NextPool == SingleCaller /\ RInv /\ [Next]_vars => [Pool!Next]_(Pool!vars)
  <1> SUFFICES ASSUME SingleCaller, RInv, [Next]_vars
               PROVE  [Pool!Next]_(Pool!vars)
    OBVIOUS
  <1>1. CASE UNCHANGED vars
    BY <1>1 DEF vars, search, Pool!vars, Marked, InFree, Marking, Clearing
  <1>2. ASSUME NEW t \in Threads,
               get_free_pages(t) \/ kmalloc(t) \/ free_page(t) \/ Step(t)
        PROVE  PoolStep(t)
    <2>1. CASE kmalloc(t)
      <3>1. PICK size \in 0 .. MaxCount * PageSize :
                /\ size \div PageSize + 1 \leq MaxCount
                /\ Call(t, size \div PageSize + 1)
        BY <2>1 DEF kmalloc
      <3>2. size \in Nat
        BY <3>1
      <3>3. size \div PageSize + 1 \in 0 .. MaxCount
        BY <3>1, <3>2, FramesAssumption
      <3> QED BY <3>1, <3>3, CallPool DEF PoolStep
    <2>2. CASE get_free_pages(t)
      BY <2>2, CallPool DEF get_free_pages, PoolStep
    <2>3. CASE check_following(t) \/ fp_setbit(t)
      <3>1. pc'[t] # "idle"
        BY <2>3 DEF check_following, fp_setbit, RInv, SInv, IInv, TypeOK
      <3> QED BY <2>3, <3>1, InnerPool DEF PoolStep
    <2>4. CASE find_free_bits_range(t) \/ find_first_free(t) \/ fp_setbit_range(t)
      BY <2>4, InnerPool, NullPool, GrantPool DEF PoolStep
    <2> QED BY <1>2, <2>1, <2>2, <2>3, <2>4, FreePool DEF Step
  <1>3. ASSUME NEW t \in Threads, PoolStep(t) PROVE [Pool!Next]_(Pool!vars)
    BY <1>3 DEF PoolStep, Pool!Next, Pool!vars, FreeBar, HeldBar, WantBar
  <1> QED BY <1>1, <1>2, <1>3 DEF Next

LEMMA InitPool == Init => Pool!Init
  BY DEF Init, Pool!Init, Pool!NoRequest, Marked, InFree, Marking, Clearing

\* With one caller at a time the bit-by-bit search and marking implement the
\* pool that grants the lowest run that fits and refuses only what does not fit.
THEOREM ImplementsPool == SingleCaller => (Spec => PoolSpec)
  <1> SUFFICES ASSUME SingleCaller PROVE Spec => Pool!Spec
    BY DEF PoolSpec
  <1>1. Init => RInv
    BY InitIInv, InitOwn, InitFirstFit DEF RInv, SInv
  <1>2. RInv /\ [Next]_vars => RInv'
    BY NextRInv
  <1>3. RInv /\ [Next]_vars => [Pool!Next]_(Pool!vars)
    BY NextPool
  <1> QED BY <1>1, <1>2, <1>3, InitPool, PTL DEF Spec, Pool!Spec

=============================================================================
