-------------------------- MODULE BootMemoryProofs --------------------------
(***************************************************************************)
(* Proofs about BootMemory, for pages and address spaces of any size, any  *)
(* kernel and any map: what is freed at boot is RAM, is not the kernel's,  *)
(* and is all there is, as far as the map allows it.                       *)
(***************************************************************************)
EXTENDS BootMemory, SequenceTheorems, TLAPS

(***************************************************************************)
(* The inductive invariant.                                                *)
(***************************************************************************)
Region(e) == [saddr |-> e.addr % AddrMod, len |-> e.len % AddrMod]
Regions == [saddr : 0 .. AddrMod - 1, len : 0 .. AddrMod - 1]
Entry == [addr : Nat, len : Nat, type : Nat]

\* The copy of the map, and how far the loop over it is.
CopyInv ==
    /\ pc \in {"read", "fault"} => ram_map = <<>>
    /\ pc \in {"read", "parse", "fault"} => busy = {}
    /\ pc = "read" => mboot_mmap = <<>> /\ i = 1
    /\ pc \in {"parse", "init", "done"} => Len(mi.mmap) \leq NodeCnt /\ mboot_mmap = CopiedMap
    /\ pc = "parse" => Len(ram_map) < i /\ i \leq Len(mboot_mmap) + 1
    /\ pc \in {"init", "done"} => Len(ram_map) \leq Len(mboot_mmap)

\* The tables that were copied are those that fit.
FitInv ==
    /\ drive_info \leq DriveRoom
    /\ mboot_mmap = <<>> \/ (mboot_mmap = CopiedMap /\ Len(mi.mmap) \leq NodeCnt)
    /\ pc = "fault" => Len(mi.mmap) > NodeCnt \/ mi.drives_length > DriveRoom
    /\ pc \in {"parse", "init", "done"} =>
          Len(mi.mmap) \leq NodeCnt /\ mi.drives_length \leq DriveRoom

\* ram_map has the available regions the loop has seen, and no others.
KeptInv ==
    /\ ram_map \in Seq(Regions)
    /\ \A k \in DOMAIN ram_map :
          /\ mi.flag /\ mi.addr
          /\ \E j \in DOMAIN mi.mmap :
                mi.mmap[j].type = Available /\ ram_map[k] = Region(mi.mmap[j])
    /\ mi.flag /\ mi.addr =>
          \A j \in DOMAIN mi.mmap :
              /\ mi.mmap[j].type = Available
              /\ pc \in {"init", "done"} \/ (pc = "parse" /\ j < i)
              => \E k \in DOMAIN ram_map : ram_map[k] = Region(mi.mmap[j])

\* A frame is busy unless one of the regions up to here cleared it.
BusyInv ==
    /\ pc \in {"init", "done"} =>
          \A f \in Frames :
              f \in busy <=> \A k \in DOMAIN ram_map : k < i => f \notin Cleared(ram_map[k])
    /\ pc = "done" => i > Len(ram_map)

IInv == TypeOK /\ CopyInv /\ FitInv /\ KeptInv /\ BusyInv

(***************************************************************************)
(* What a map must be like.                                                *)
(***************************************************************************)
Usable(e) == e.type = Available

\* The available regions are not empty and end before the last page, where the
\* firmware is.
Below == \A m \in Maps : \A k \in DOMAIN m : Usable(m[k]) =>
             m[k].len > 0 /\ m[k].addr + m[k].len \leq AddrMod - PageSize

\* They consist of whole pages.
WholePages == \A m \in Maps : \A k \in DOMAIN m : Usable(m[k]) =>
                  m[k].addr % PageSize = 0 /\ m[k].len % PageSize = 0

\* One of them has the kernel and more, and the others are apart from it.
KernelLoaded ==
    \A m \in Maps : \E k \in DOMAIN m :
        /\ Usable(m[k]) /\ m[k].addr \leq KernelStart /\ KernelEnd < m[k].addr + m[k].len
        /\ \A j \in DOMAIN m \ {k} : Usable(m[j]) =>
              \/ m[j].addr + m[j].len \leq m[k].addr
              \/ m[k].addr + m[k].len \leq m[j].addr

(***************************************************************************)
(* Arithmetic of addresses and pages.                                      *)
(***************************************************************************)
LEMMA Sizes ==
  /\ PageSize \in Nat /\ PageSize > 0 /\ NumFrames \in Nat /\ NumFrames > 0
  /\ AddrMod \in Nat /\ AddrMod \geq PageSize
  /\ KernelStart \in Nat /\ KernelEnd \in Nat
  /\ KernelStart < KernelEnd /\ KernelEnd + PageSize \leq AddrMod
  <1>1. PageSize * (NumFrames - 1) \in Nat /\ PageSize * NumFrames = PageSize * (NumFrames - 1) + PageSize
    BY BootAssumption
  <1> QED BY <1>1, BootAssumption DEF AddrMod

LEMMA Times ==
  ASSUME NEW p \in Int, NEW q \in Int, p < q
  PROVE  PageSize * p + PageSize \leq PageSize * q
  <1>1. q - p - 1 \in Nat /\ PageSize * (q - p - 1) \in Nat
    BY Sizes
  <1>2. PageSize * (q - p - 1) = PageSize * q - PageSize * p - PageSize
    BY Sizes
  <1>3. PageSize * q \in Int /\ PageSize * p \in Int
    BY Sizes
  <1> QED BY <1>1, <1>2, <1>3, Sizes

LEMMA Quotient ==
  ASSUME NEW a \in Int, NEW n \in Nat, n > 0
  PROVE  /\ a \div n \in Int /\ n * (a \div n) \in Int
         /\ n * (a \div n) \leq a /\ a < n * (a \div n) + n
  <1>1. PICK q \in Int : q = a \div n
    OBVIOUS
  <1>2. n * q \leq a /\ a < n * q + n
    BY <1>1
  <1> QED BY <1>1, <1>2

LEMMA Remainder ==
  ASSUME NEW a \in Nat, NEW n \in Nat, n > 0
  PROVE  a % n \in 0 .. n - 1 /\ (a < n => a % n = a)
  <1>1. a < n => a = n * 0 + a
    OBVIOUS
  <1>2. ASSUME a < n PROVE a % n = a
    BY <1>2
  <1> QED BY <1>2

\* The address space from 0 on has no wrapping.
LEMMA PageIs ==
  ASSUME NEW a \in 0 .. AddrMod - 1
  PROVE  /\ PageNo(a) \in Frames /\ PageSize * PageNo(a) \in Int
         /\ PageSize * PageNo(a) \leq a /\ a < PageSize * PageNo(a) + PageSize
  <1>1. a \in Nat /\ a < AddrMod /\ AddrMod > 0
    BY Sizes
  <1>2. a % AddrMod = a
    BY <1>1, Sizes, Remainder
  <1>3. PICK p \in Int : p = PageNo(a)
    BY <1>1, <1>2, Sizes, Quotient DEF PageNo
  <1>4. PageSize * p \in Int /\ PageSize * p \leq a /\ a < PageSize * p + PageSize
    BY <1>1, <1>2, <1>3, Sizes, Quotient DEF PageNo
  <1>5. p \geq 0
    <2>1. p < 0 => PageSize * p + PageSize \leq PageSize * 0
      BY Times
    <2> QED BY <1>1, <1>4, <2>1, Sizes
  <1>6. p < NumFrames
    <2>1. NumFrames < p => PageSize * NumFrames + PageSize \leq PageSize * p
      BY Sizes, Times
    <2>2. PageSize * NumFrames = AddrMod
      BY DEF AddrMod
    <2> QED BY <1>1, <1>4, <2>1, <2>2, Sizes
  <1>7. p \in Frames
    BY <1>5, <1>6, Sizes DEF Frames
  <1> QED BY <1>3, <1>4, <1>7

\* The first address of a frame.
First(f) == f * PageSize

LEMMA FirstIs ==
  ASSUME NEW f \in Frames
  PROVE  /\ f \in Int /\ First(f) = PageSize * f /\ First(f) \in Nat
         /\ First(f) + PageSize \leq AddrMod
  <1>1. f \in Nat /\ f < NumFrames
    BY Sizes DEF Frames
  <1>2. First(f) = PageSize * f /\ First(f) \in Nat
    BY <1>1, Sizes DEF First
  <1>3. PageSize * f + PageSize \leq PageSize * NumFrames
    BY <1>1, Sizes, Times
  <1> QED BY <1>1, <1>2, <1>3 DEF AddrMod

\* A frame is cleared if it begins at b or before, and ends behind a.
LEMMA RangeIs ==
  ASSUME NEW a \in 0 .. AddrMod - 1, NEW b \in 0 .. AddrMod - 1, NEW f \in Frames
  PROVE  f \in clearbit_range(a, b) <=> a < First(f) + PageSize /\ First(f) \leq b
  <1>1. PICK p \in Frames : p = PageNo(a)
    BY PageIs
  <1>2. PICK q \in Frames : q = PageNo(b)
    BY PageIs
  <1>3. /\ PageSize * p \in Int /\ PageSize * p \leq a /\ a < PageSize * p + PageSize
        /\ PageSize * q \in Int /\ PageSize * q \leq b /\ b < PageSize * q + PageSize
    BY <1>1, <1>2, PageIs
  <1>4. f \in Int /\ p \in Int /\ q \in Int /\ First(f) = PageSize * f /\ First(f) \in Int
        /\ a \in Int /\ b \in Int
    BY Sizes, FirstIs
  <1>5. p \leq f <=> a < First(f) + PageSize
    <2>1. f < p => PageSize * f + PageSize \leq PageSize * p
      BY <1>4, Times
    <2>2. p < f => PageSize * p + PageSize \leq PageSize * f
      BY <1>4, Times
    <2> QED BY <1>3, <1>4, <2>1, <2>2, Sizes
  <1>6. f \leq q <=> First(f) \leq b
    <2>1. f < q => PageSize * f + PageSize \leq PageSize * q
      BY <1>4, Times
    <2>2. q < f => PageSize * q + PageSize \leq PageSize * f
      BY <1>4, Times
    <2> QED BY <1>3, <1>4, <2>1, <2>2, Sizes
  <1>7. f \in clearbit_range(a, b) <=> p \leq f /\ f \leq q
    BY <1>1, <1>2, <1>4 DEF clearbit_range
  <1> QED BY <1>5, <1>6, <1>7

\* Addresses of whole pages.
LEMMA Whole ==
  ASSUME NEW a \in Nat, a % PageSize = 0
  PROVE  \E p \in Int : a = PageSize * p
  <1>1. PICK p \in Int : p = a \div PageSize
    BY Sizes, Quotient
  <1>2. PageSize * p \in Int /\ PageSize * p \leq a /\ a < PageSize * p + PageSize
    BY <1>1, Sizes, Quotient
  <1>3. PICK d \in Int : d = a - PageSize * p
    BY <1>2
  <1>4. d \geq 0 /\ d < PageSize /\ a = PageSize * p + d
    BY <1>2, <1>3, Sizes
  <1>5. d = a % PageSize
    BY <1>4, Sizes
  <1>6. a = PageSize * p
    BY <1>2, <1>4, <1>5
  <1> QED BY <1>6

LEMMA WholeOrder ==
  ASSUME NEW p \in Int, NEW q \in Int, PageSize * p < PageSize * q + PageSize
  PROVE  PageSize * p \leq PageSize * q
  <1>1. PageSize * p \in Int /\ PageSize * q \in Int
    BY Sizes
  <1>2. q < p => PageSize * q + PageSize \leq PageSize * p
    BY Times
  <1>3. p < q => PageSize * p + PageSize \leq PageSize * q
    BY Times
  <1> QED BY <1>1, <1>2, <1>3, Sizes

\* What a region of the map clears, byte addresses and frames.
LEMMA ClearedIs ==
  ASSUME NEW e \in Entry, e.len > 0, e.addr + e.len \leq AddrMod - PageSize, NEW f \in Frames
  PROVE  LET next == e.addr + e.len IN
         f \in Cleared(Region(e)) <=>
             IF e.addr \leq KernelStart /\ KernelEnd < next
             THEN \/ e.addr < KernelStart /\ e.addr < First(f) + PageSize /\ First(f) < KernelStart
                  \/ KernelEnd < First(f) /\ First(f) < next
             ELSE e.addr < First(f) + PageSize /\ First(f) < next
  <1> DEFINE r == Region(e)
  <1>1. PICK a \in Nat, l \in Nat : a = e.addr /\ l = e.len
    BY DEF Entry
  <1>2. l > 0 /\ a + l \leq AddrMod - PageSize /\ AddrMod \in Nat /\ PageSize \in Nat /\ PageSize > 0
    BY <1>1, Sizes
  <1>3. r.saddr = a /\ r.len = l
    <2>1. a < AddrMod /\ l < AddrMod /\ AddrMod > 0
      BY <1>1, <1>2
    <2>2. a % AddrMod = a /\ l % AddrMod = l
      BY <1>1, <1>2, <2>1, Remainder
    <2> QED BY <1>1, <2>2 DEF Region
  <1> HIDE DEF r
  <1>4. PICK n \in Nat : n = a + l
    BY <1>1
  <1>5. (r.saddr + r.len) % AddrMod = n
    <2>1. n < AddrMod /\ AddrMod > 0
      BY <1>2, <1>4
    <2>2. n % AddrMod = n
      BY <1>2, <2>1, Remainder
    <2> QED BY <1>3, <1>4, <2>2
  <1>6. First(f) \in Nat /\ KernelStart \in Nat /\ KernelEnd \in Nat
    BY Sizes, FirstIs
  <1>7. a \in 0 .. AddrMod - 1 /\ n - 1 \in 0 .. AddrMod - 1
    BY <1>2, <1>4
  <1>8. f \in clearbit_range(a, n - 1) <=> a < First(f) + PageSize /\ First(f) < n
    BY <1>2, <1>4, <1>6, <1>7, RangeIs
  <1>9. HasKernel(r) <=> a \leq KernelStart /\ KernelEnd < n
    BY <1>3, <1>5 DEF HasKernel
  <1>10. CASE a \leq KernelStart /\ KernelEnd < n
    <2>1. KernelEnd + PageSize \in 0 .. AddrMod - 1
      BY <1>2, <1>4, <1>6, <1>10
    <2>2. f \in clearbit_range(KernelEnd + PageSize, n - 1) <=>
              KernelEnd < First(f) /\ First(f) < n
      BY <1>2, <1>4, <1>6, <1>7, <2>1, RangeIs
    <2>3. CASE a = KernelStart
      <3>1. f \in Cleared(r) <=> f \in clearbit_range(KernelEnd + PageSize, n - 1)
        BY <1>3, <1>5, <1>9, <1>10, <2>3 DEF Cleared
      <3> QED BY <1>1, <1>4, <1>6, <1>10, <2>2, <2>3, <3>1 DEF r
    <2>4. CASE a # KernelStart
      <3>1. KernelStart - 1 \in 0 .. AddrMod - 1 /\ a < KernelStart
        BY <1>6, <1>10, <2>4, Sizes
      <3>2. f \in clearbit_range(a, KernelStart - 1) <=>
                a < First(f) + PageSize /\ First(f) < KernelStart
        BY <1>2, <1>6, <1>7, <3>1, RangeIs
      <3>3. f \in Cleared(r) <=> \/ f \in clearbit_range(a, KernelStart - 1)
                                 \/ f \in clearbit_range(KernelEnd + PageSize, n - 1)
        BY <1>3, <1>5, <1>9, <1>10, <2>4 DEF Cleared
      <3> QED BY <1>1, <1>4, <1>10, <2>2, <3>1, <3>2, <3>3 DEF r
    <2> QED BY <2>3, <2>4
  <1>11. CASE ~ (a \leq KernelStart /\ KernelEnd < n)
    <2>1. f \in Cleared(r) <=> f \in clearbit_range(a, n - 1)
      BY <1>3, <1>5, <1>9, <1>11 DEF Cleared
    <2> QED BY <1>1, <1>4, <1>8, <1>11, <2>1 DEF r
  <1> QED BY <1>10, <1>11

LEMMA KernelFrameIs ==
  ASSUME NEW f \in Frames
  PROVE  f \in KernelFrames <=> KernelStart < First(f) + PageSize /\ First(f) < KernelEnd
  <1>1. KernelStart \in 0 .. AddrMod - 1 /\ KernelEnd - 1 \in 0 .. AddrMod - 1
    BY Sizes
  <1>2. f \in clearbit_range(KernelStart, KernelEnd - 1) <=>
            KernelStart < First(f) + PageSize /\ First(f) \leq KernelEnd - 1
    BY <1>1, RangeIs
  <1>3. First(f) \leq KernelEnd - 1 <=> First(f) < KernelEnd
    BY Sizes, FirstIs
  <1> QED BY <1>2, <1>3 DEF clearbit_range, KernelFrames

(***************************************************************************)
(* Every step keeps the invariant.                                         *)
(***************************************************************************)
LEMMA MapType ==
  ASSUME TypeOK
  PROVE  /\ mi.mmap \in Maps /\ mi.mmap \in Seq(Entry) /\ Len(mi.mmap) \in Nat
         /\ mi.flag \in BOOLEAN /\ mi.addr \in BOOLEAN
         /\ mi.drives_length \in Nat /\ DriveRoom \in Nat /\ NodeCnt \in Nat
         /\ DOMAIN mi.mmap = 1 .. Len(mi.mmap)
         /\ \A j \in DOMAIN mi.mmap : mi.mmap[j] \in Entry
  <1>1. /\ mi.mmap \in Maps /\ mi.flag \in BOOLEAN /\ mi.addr \in BOOLEAN
        /\ mi.drives_length \in Nat /\ DriveRoom \in Nat /\ NodeCnt \in Nat
    BY BootAssumption DEF TypeOK, Information
  <1>2. mi.mmap \in Seq(Entry)
    BY <1>1, BootAssumption DEF Entry
  <1> QED BY <1>1, <1>2

\* The copy of a map has as many entries as the map, its own or zeros.
LEMMA CopiedIs ==
  ASSUME TypeOK
  PROVE  /\ Len(CopiedMap) = Len(mi.mmap) /\ Len(CopiedMap) \in Nat
         /\ DOMAIN CopiedMap = DOMAIN mi.mmap
         /\ \A j \in DOMAIN mi.mmap :
               /\ mi.addr => CopiedMap[j] = mi.mmap[j]
               /\ ~ mi.addr => CopiedMap[j] = Zero
               /\ CopiedMap[j] \in Entry
  <1>1. mi.mmap \in Seq(Entry) /\ DOMAIN mi.mmap = 1 .. Len(mi.mmap) /\ Len(mi.mmap) \in Nat
    BY MapType
  <1>2. Zero \in Entry
    BY DEF Zero, Entry
  <1>3. CASE mi.addr
    BY <1>1, <1>3 DEF CopiedMap
  <1>4. CASE ~ mi.addr
    <2>1. CopiedMap = [k \in 1 .. Len(mi.mmap) |-> Zero]
      BY <1>1, <1>4 DEF CopiedMap
    <2>2. CopiedMap \in Seq(Entry) /\ Len(CopiedMap) = Len(mi.mmap)
      BY <1>1, <1>2, <2>1
    <2> QED BY <1>1, <1>2, <1>4, <2>1, <2>2
  <1> QED BY <1>3, <1>4

LEMMA CopyType ==
  ASSUME IInv, pc \in {"parse", "init", "done"}
  PROVE  /\ Len(mboot_mmap) = Len(mi.mmap) /\ Len(mboot_mmap) \in Nat
         /\ DOMAIN mboot_mmap = DOMAIN mi.mmap
         /\ \A j \in DOMAIN mi.mmap :
               /\ mi.addr => mboot_mmap[j] = mi.mmap[j]
               /\ ~ mi.addr => mboot_mmap[j] = Zero
               /\ mboot_mmap[j] \in Entry
  <1>1. mboot_mmap = CopiedMap /\ TypeOK
    BY DEF IInv, CopyInv
  <1> QED BY <1>1, CopiedIs

LEMMA RegionType == ASSUME NEW e \in Entry PROVE Region(e) \in Regions
  <1>1. e.addr \in Nat /\ e.len \in Nat /\ AddrMod \in Nat /\ AddrMod > 0
    BY Sizes DEF Entry
  <1>2. e.addr % AddrMod \in 0 .. AddrMod - 1 /\ e.len % AddrMod \in 0 .. AddrMod - 1
    BY <1>1, Remainder
  <1> QED BY <1>2 DEF Region, Regions

LEMMA InitInv == Init => IInv
  <1> SUFFICES ASSUME Init PROVE IInv
    OBVIOUS
  <1>1. ram_map = <<>> /\ ram_map \in Seq(Regions) /\ DOMAIN ram_map = {}
    BY DEF Init
  <1>2. TypeOK
    BY <1>1 DEF Init, TypeOK
  <1>3. CopyInv /\ KeptInv /\ BusyInv
    BY <1>1 DEF Init, CopyInv, KeptInv, BusyInv
  <1>4. FitInv
    BY BootAssumption DEF Init, FitInv
  <1> QED BY <1>2, <1>3, <1>4 DEF IInv

\* What reading the tables leaves: both copies, the map's or none.
LEMMA ReadCases ==
  ASSUME IInv, read_multiboot_information
  PROVE  /\ pc = "read" /\ UNCHANGED <<mi, ram_map, busy, i>>
         /\ \/ /\ pc' = "parse" /\ mboot_mmap' = CopiedMap /\ drive_info' = CopiedDrives
               /\ Len(mi.mmap) \leq NodeCnt /\ mi.drives_length \leq DriveRoom
            \/ /\ pc' = "fault" /\ mboot_mmap' = CopiedMap /\ drive_info' = drive_info
               /\ Len(mi.mmap) \leq NodeCnt /\ mi.drives_length > DriveRoom
            \/ /\ pc' = "fault" /\ mboot_mmap' = mboot_mmap /\ drive_info' = drive_info
               /\ Len(mi.mmap) > NodeCnt
  BY DEF read_multiboot_information

LEMMA ReadInv == ASSUME IInv, read_multiboot_information PROVE IInv'
  <1>1. pc = "read" /\ UNCHANGED <<mi, ram_map, busy, i>> /\ pc' \in {"fault", "parse"}
    BY ReadCases
  <1>2. mboot_mmap = <<>> /\ ram_map = <<>> /\ busy = {} /\ i = 1
    BY <1>1 DEF IInv, CopyInv
  <1>3. /\ Len(mi.mmap) \in Nat /\ NodeCnt \in Nat /\ DriveRoom \in Nat
        /\ DOMAIN mi.mmap = 1 .. Len(mi.mmap) /\ mi.drives_length \in Nat
    BY MapType DEF IInv
  <1>4. CopiedDrives \in Nat /\ CopiedDrives \leq mi.drives_length
    BY <1>3 DEF CopiedDrives
  <1>5. CopiedMap' = CopiedMap
    BY <1>1 DEF CopiedMap
  <1>6. TypeOK'
    <2>1. drive_info' \in Nat
      BY <1>4, ReadCases DEF IInv, TypeOK
    <2> QED BY <1>1, <2>1 DEF IInv, TypeOK
  <1>7. ram_map' \in Seq(Regions) /\ DOMAIN ram_map' = {} /\ Len(ram_map') = 0
    BY <1>1, <1>2
  <1>8. KeptInv'
    <2>1. \A j \in DOMAIN mi.mmap : ~ j < 1
      BY <1>3
    <2> QED BY <1>1, <1>2, <1>7, <2>1 DEF KeptInv
  <1>9. BusyInv'
    BY <1>1 DEF BusyInv
  <1>10. CopyInv'
    <2>1. Len(CopiedMap) \in Nat
      BY CopiedIs DEF IInv
    <2>2. Len(ram_map') < i' /\ i' \leq Len(CopiedMap) + 1
      BY <1>1, <1>2, <1>7, <2>1
    <2>3. pc' = "parse" => mboot_mmap' = CopiedMap /\ Len(mi.mmap) \leq NodeCnt
      BY ReadCases
    <2> QED BY <1>1, <1>2, <1>5, <2>2, <2>3 DEF CopyInv
  <1>11. FitInv'
    <2>1. drive_info' \leq DriveRoom
      BY <1>3, <1>4, ReadCases DEF IInv, FitInv
    <2>2. mboot_mmap' = <<>> \/ (mboot_mmap' = CopiedMap /\ Len(mi.mmap) \leq NodeCnt)
      BY <1>2, ReadCases
    <2>3. pc' = "fault" => Len(mi.mmap) > NodeCnt \/ mi.drives_length > DriveRoom
      BY ReadCases
    <2>4. pc' = "parse" => Len(mi.mmap) \leq NodeCnt /\ mi.drives_length \leq DriveRoom
      BY ReadCases
    <2> QED BY <1>1, <1>5, <2>1, <2>2, <2>3, <2>4 DEF FitInv
  <1> QED BY <1>6, <1>8, <1>9, <1>10, <1>11 DEF IInv

\* No later step touches the tables that were copied.
LEMMA FitKept ==
  ASSUME FitInv, UNCHANGED <<mi, mboot_mmap, drive_info>>,
         pc' = pc \/ (pc \in {"parse", "init"} /\ pc' \in {"init", "done"})
  PROVE  FitInv'
  BY DEF FitInv, CopiedMap

LEMMA Appended ==
  ASSUME NEW S, NEW s \in Seq(S), NEW e \in S
  PROVE  LET r == Append(s, e) IN
         /\ r \in Seq(S) /\ Len(s) \in Nat /\ Len(r) = Len(s) + 1
         /\ DOMAIN s = 1 .. Len(s) /\ DOMAIN r = 1 .. Len(s) + 1
         /\ r[Len(s) + 1] = e
         /\ \A k \in 1 .. Len(s) : r[k] = s[k]
  BY AppendProperties, LenProperties

LEMMA ParseInv == ASSUME IInv, parse_mboot_information PROVE IInv'
  <1> DEFINE e == mboot_mmap[i]
             r == Append(ram_map, Region(e))
  <1>1. /\ pc = "parse" /\ mi.flag /\ i \leq Len(mboot_mmap) /\ i' = i + 1
        /\ ram_map' = IF e.type = Available THEN r ELSE ram_map
        /\ UNCHANGED <<mi, mboot_mmap, drive_info, busy, pc>>
    BY DEF parse_mboot_information, Region
  <1>2. i \in Nat \ {0} /\ i \in DOMAIN mi.mmap /\ Len(mboot_mmap) \in Nat /\ e \in Entry
        /\ DOMAIN mi.mmap = 1 .. Len(mi.mmap) /\ Len(mi.mmap) \in Nat
    <2>1. i \in Nat \ {0}
      BY DEF IInv, TypeOK
    <2>2. /\ Len(mboot_mmap) = Len(mi.mmap) /\ Len(mboot_mmap) \in Nat
          /\ DOMAIN mi.mmap = 1 .. Len(mi.mmap)
      BY <1>1, CopyType, MapType DEF IInv
    <2>3. i \in DOMAIN mi.mmap
      BY <1>1, <2>1, <2>2
    <2> QED BY <1>1, <2>1, <2>2, <2>3, CopyType
  <1>3. e.type = Available => mi.addr /\ e = mi.mmap[i]
    <2>1. Zero.type # Available
      BY DEF Zero, Available
    <2>2. /\ mi.addr => e = mi.mmap[i]
          /\ ~ mi.addr => e = Zero
      BY <1>1, <1>2, CopyType
    <2>3. mi.addr \in BOOLEAN
      BY MapType DEF IInv
    <2> QED BY <2>1, <2>2, <2>3
  <1>4. mi.addr => e = mi.mmap[i]
    BY <1>1, <1>2, CopyType
  <1>5. /\ Len(ram_map) < i /\ i \leq Len(mboot_mmap) + 1 /\ busy = {}
        /\ ram_map \in Seq(Regions) /\ Len(ram_map) \in Nat /\ DOMAIN ram_map = 1 .. Len(ram_map)
    BY <1>1 DEF IInv, CopyInv, KeptInv
  <1>6. /\ r \in Seq(Regions) /\ Len(r) = Len(ram_map) + 1
        /\ DOMAIN r = 1 .. Len(ram_map) + 1
        /\ r[Len(ram_map) + 1] = Region(e)
        /\ \A k \in 1 .. Len(ram_map) : r[k] = ram_map[k]
    <2>1. Region(e) \in Regions
      BY <1>2, RegionType
    <2> QED BY <1>5, <2>1, Appended
  <1> HIDE DEF r, e
  <1>7. ram_map' \in Seq(Regions) /\ Len(ram_map') \in Nat /\ Len(ram_map') < i'
    <2>1. CASE e.type = Available
      BY <1>1, <1>2, <1>5, <1>6, <2>1
    <2>2. CASE e.type # Available
      BY <1>1, <1>2, <1>5, <2>2
    <2> QED BY <2>1, <2>2
  <1>8. TypeOK'
    <2>1. i' \in Nat \ {0}
      BY <1>1, <1>2
    <2>2. \A k \in DOMAIN ram_map' : ram_map'[k] \in Regions
      BY <1>7
    <2> QED BY <1>1, <2>1, <2>2 DEF IInv, TypeOK, Regions
  <1>9. CopyInv'
    <2>1. i' \leq Len(mboot_mmap') + 1
      BY <1>1, <1>2
    <2> QED BY <1>1, <1>7, <2>1 DEF IInv, CopyInv, CopiedMap
  <1>10. BusyInv'
    BY <1>1 DEF BusyInv
  <1>11. \A j \in DOMAIN mi.mmap : j < i + 1 => j < i \/ j = i
    BY <1>2
  <1>12. KeptInv'
    <2>1. CASE e.type = Available
      <3>1. ram_map' = r
        BY <1>1, <2>1
      <3>2. ASSUME NEW k \in DOMAIN r
            PROVE  \/ k \in DOMAIN ram_map /\ r[k] = ram_map[k]
                   \/ r[k] = Region(mi.mmap[i])
        <4>1. k \in 1 .. Len(ram_map) \/ k = Len(ram_map) + 1
          BY <1>5, <1>6
        <4>2. e = mi.mmap[i]
          BY <1>3, <2>1
        <4> QED BY <1>5, <1>6, <4>1, <4>2
      <3>3. \A k \in DOMAIN ram_map : k \in DOMAIN r /\ r[k] = ram_map[k]
        BY <1>5, <1>6
      <3>4. \E k \in DOMAIN r : r[k] = Region(mi.mmap[i])
        <4>1. Len(ram_map) + 1 \in DOMAIN r
          BY <1>5, <1>6
        <4> QED BY <1>3, <1>6, <2>1, <4>1
      <3>5. \A k \in DOMAIN r :
               /\ mi.flag /\ mi.addr
               /\ \E j \in DOMAIN mi.mmap :
                     mi.mmap[j].type = Available /\ r[k] = Region(mi.mmap[j])
        BY <1>1, <1>2, <1>3, <2>1, <3>2 DEF IInv, KeptInv
      <3>6. mi.flag /\ mi.addr =>
               \A j \in DOMAIN mi.mmap : mi.mmap[j].type = Available /\ j < i + 1 =>
                   \E k \in DOMAIN r : r[k] = Region(mi.mmap[j])
        BY <1>1, <1>11, <3>3, <3>4 DEF IInv, KeptInv
      <3> QED BY <1>1, <1>7, <3>1, <3>5, <3>6 DEF KeptInv
    <2>2. CASE e.type # Available
      <3>1. ram_map' = ram_map
        BY <1>1, <2>2
      <3>2. mi.flag /\ mi.addr =>
               \A j \in DOMAIN mi.mmap : mi.mmap[j].type = Available /\ j < i + 1 =>
                   \E k \in DOMAIN ram_map : ram_map[k] = Region(mi.mmap[j])
        BY <1>1, <1>4, <1>11, <2>2 DEF IInv, KeptInv
      <3>3. \A k \in DOMAIN ram_map :
               /\ mi.flag /\ mi.addr
               /\ \E j \in DOMAIN mi.mmap :
                     mi.mmap[j].type = Available /\ ram_map[k] = Region(mi.mmap[j])
        BY DEF IInv, KeptInv
      <3> QED BY <1>1, <1>5, <3>1, <3>2, <3>3 DEF KeptInv
    <2> QED BY <2>1, <2>2
  <1>13. FitInv'
    BY <1>1, FitKept DEF IInv
  <1> QED BY <1>8, <1>9, <1>10, <1>12, <1>13 DEF IInv

LEMMA BusyInitInv == ASSUME IInv, init_page_allocator PROVE IInv'
  <1>1. /\ pc = "parse" /\ busy' = Frames /\ i' = 1 /\ pc' = "init"
        /\ ~ mi.flag \/ i > Len(mboot_mmap)
        /\ UNCHANGED <<mi, mboot_mmap, drive_info, ram_map>>
    BY DEF init_page_allocator
  <1>2. /\ Len(ram_map) < i /\ i \leq Len(mboot_mmap) + 1
        /\ ram_map \in Seq(Regions) /\ Len(ram_map) \in Nat /\ DOMAIN ram_map = 1 .. Len(ram_map)
        /\ i \in Nat
    BY <1>1 DEF IInv, CopyInv, KeptInv, TypeOK
  <1>3. Len(mboot_mmap) = Len(mi.mmap) /\ Len(mboot_mmap) \in Nat
        /\ DOMAIN mi.mmap = 1 .. Len(mi.mmap)
    BY <1>1, CopyType, MapType DEF IInv
  <1>4. TypeOK'
    BY <1>1 DEF IInv, TypeOK
  <1>5. CopyInv'
    <2>1. Len(ram_map) \leq Len(mboot_mmap)
      BY <1>2, <1>3
    <2> QED BY <1>1, <2>1 DEF IInv, CopyInv, CopiedMap
  <1>6. KeptInv'
    <2>1. mi.flag => \A j \in DOMAIN mi.mmap : j < i
      BY <1>1, <1>2, <1>3
    <2>2. mi.flag /\ mi.addr =>
             \A j \in DOMAIN mi.mmap : mi.mmap[j].type = Available =>
                 \E k \in DOMAIN ram_map : ram_map[k] = Region(mi.mmap[j])
      BY <1>1, <2>1 DEF IInv, KeptInv
    <2>3. \A k \in DOMAIN ram_map :
             /\ mi.flag /\ mi.addr
             /\ \E j \in DOMAIN mi.mmap :
                   mi.mmap[j].type = Available /\ ram_map[k] = Region(mi.mmap[j])
      BY DEF IInv, KeptInv
    <2> QED BY <1>1, <1>2, <2>2, <2>3 DEF KeptInv
  <1>7. BusyInv'
    <2>1. \A k \in DOMAIN ram_map : ~ k < 1
      BY <1>2
    <2> QED BY <1>1, <2>1 DEF BusyInv
  <1>8. FitInv'
    BY <1>1, FitKept DEF IInv
  <1> QED BY <1>4, <1>5, <1>6, <1>7, <1>8 DEF IInv

LEMMA ClearInv == ASSUME IInv, clear_region PROVE IInv'
  <1>1. /\ pc = "init" /\ i \leq Len(ram_map) /\ busy' = busy \ Cleared(ram_map[i]) /\ i' = i + 1
        /\ UNCHANGED <<mi, mboot_mmap, drive_info, ram_map, pc>>
    BY DEF clear_region
  <1>2. i \in Nat \ {0} /\ Len(ram_map) \in Nat /\ DOMAIN ram_map = 1 .. Len(ram_map)
    BY DEF IInv, TypeOK, KeptInv
  <1>3. i \in DOMAIN ram_map /\ \A k \in DOMAIN ram_map : k < i + 1 <=> k < i \/ k = i
    BY <1>1, <1>2
  <1>4. TypeOK'
    BY <1>1, <1>2 DEF IInv, TypeOK
  <1>5. CopyInv'
    BY <1>1 DEF IInv, CopyInv, CopiedMap
  <1>6. KeptInv'
    BY <1>1 DEF IInv, KeptInv
  <1>7. BusyInv'
    <2>1. \A f \in Frames :
             f \in busy <=> \A k \in DOMAIN ram_map : k < i => f \notin Cleared(ram_map[k])
      BY <1>1 DEF IInv, BusyInv
    <2>2. \A f \in Frames :
             f \in busy' <=> \A k \in DOMAIN ram_map : k < i + 1 => f \notin Cleared(ram_map[k])
      BY <1>1, <1>3, <2>1
    <2> QED BY <1>1, <2>2 DEF BusyInv
  <1>8. FitInv'
    BY <1>1, FitKept DEF IInv
  <1> QED BY <1>4, <1>5, <1>6, <1>7, <1>8 DEF IInv

LEMMA EndInv == ASSUME IInv, clear_end PROVE IInv'
  <1>1. /\ pc = "init" /\ i > Len(ram_map) /\ pc' = "done"
        /\ UNCHANGED <<mi, mboot_mmap, drive_info, ram_map, busy, i>>
    BY DEF clear_end
  <1>2. FitInv'
    BY <1>1, FitKept DEF IInv
  <1>3. CopyInv'
    BY <1>1 DEF IInv, CopyInv, CopiedMap
  <1> QED BY <1>1, <1>2, <1>3 DEF IInv, TypeOK, KeptInv, BusyInv

\* The invariant holds along the boot, whatever the map is.
THEOREM Inductive == Spec => []IInv
  <1>1. IInv /\ UNCHANGED vars => IInv'
    <2> SUFFICES ASSUME IInv, UNCHANGED vars PROVE IInv'
      OBVIOUS
    <2>1. CopyInv'
      BY DEF IInv, CopyInv, CopiedMap, vars
    <2>2. FitInv'
      BY FitKept DEF IInv, vars
    <2> QED BY <2>1, <2>2 DEF IInv, TypeOK, KeptInv, BusyInv, vars
  <1>2. IInv /\ [Next]_vars => IInv'
    BY <1>1, ReadInv, ParseInv, BusyInitInv, ClearInv, EndInv DEF Next
  <1> QED BY <1>2, InitInv, PTL DEF Spec

(***************************************************************************)
(* What is freed.                                                          *)
(***************************************************************************)

\* A free frame was cleared by an available region of the boot loader's map.
LEMMA FreeFrom ==
  ASSUME IInv, NEW f \in Free
  PROVE  /\ f \in Frames /\ mi.flag /\ mi.addr
         /\ \E j \in DOMAIN mi.mmap : Usable(mi.mmap[j]) /\ f \in Cleared(Region(mi.mmap[j]))
  <1>1. pc \in {"init", "done"} /\ f \in Frames /\ f \notin busy
    BY DEF Free
  <1>2. PICK k \in DOMAIN ram_map : f \in Cleared(ram_map[k])
    BY <1>1 DEF IInv, BusyInv
  <1> QED BY <1>1, <1>2 DEF IInv, KeptInv, Usable

\* An available region, in numbers.
LEMMA Usables ==
  ASSUME TypeOK, Below, NEW j \in DOMAIN mi.mmap, Usable(mi.mmap[j])
  PROVE  LET e == mi.mmap[j] IN
         /\ e \in Entry /\ e.addr \in Nat /\ e.len \in Nat
         /\ e.len > 0 /\ e.addr + e.len \leq AddrMod - PageSize
  <1>1. mi.mmap \in Maps /\ mi.mmap[j] \in Entry
    BY MapType
  <1> QED BY <1>1 DEF Below, Entry

LEMMA BytesAre ==
  ASSUME NEW f \in Frames
  PROVE  Bytes(f) = First(f) .. First(f) + PageSize - 1
  <1>1. (f + 1) * PageSize = First(f) + PageSize
    BY FirstIs, Sizes DEF First
  <1>2. f * PageSize = First(f)
    BY DEF First
  <1>3. First(f) \in Nat /\ PageSize \in Nat
    BY FirstIs, Sizes
  <1>4. (First(f) + PageSize) - 1 = First(f) + PageSize - 1
    BY <1>3
  <1> QED BY <1>1, <1>2, <1>4, Zenon DEF Bytes

\* Frames are aligned, and so is the kernel.
LEMMA NextFrame ==
  ASSUME NEW f \in Frames, NEW a \in Nat, a % PageSize = 0
  PROVE  /\ First(f) < a => First(f) + PageSize \leq a
         /\ a < First(f) + PageSize => a \leq First(f)
  <1>1. PICK p \in Int : a = PageSize * p
    BY Whole
  <1>2. f \in Int /\ First(f) = PageSize * f /\ First(f) \in Nat
    BY FirstIs
  <1>3. /\ f < p => PageSize * f + PageSize \leq PageSize * p
        /\ p < f => PageSize * p + PageSize \leq PageSize * f
    BY <1>2, Times
  <1> QED BY <1>1, <1>2, <1>3, Sizes

\* mboot_mmap, drive_info and ram_map are not overrun, whatever the boot loader passes,
\* and booting is given up just if its map or its table of drives does not fit
\* (sysinfo.c:165-174).
THEOREM MapsFit == Spec => []TablesFit
  <1>1. IInv => TablesFit
    <2> SUFFICES ASSUME IInv PROVE TablesFit
      OBVIOUS
    <2>1. /\ NodeCnt \in Nat /\ DriveRoom \in Nat /\ Len(<<>>) = 0
          /\ Len(mi.mmap) \in Nat /\ mi.drives_length \in Nat
      BY MapType DEF IInv
    <2>2. pc \in {"read", "parse", "init", "done", "fault"}
      BY DEF IInv, TypeOK
    <2>3. Len(mboot_mmap) \leq NodeCnt
      <3>1. CASE mboot_mmap = <<>>
        BY <2>1, <3>1
      <3>2. CASE mboot_mmap = CopiedMap /\ Len(mi.mmap) \leq NodeCnt
        <4>1. Len(CopiedMap) = Len(mi.mmap)
          BY CopiedIs DEF IInv
        <4> QED BY <3>2, <4>1
      <3> QED BY <3>1, <3>2 DEF IInv, FitInv
    <2>4. Len(ram_map) \leq NodeCnt
      <3>1. CASE pc \in {"read", "fault"}
        BY <2>1, <3>1 DEF IInv, CopyInv
      <3>2. CASE pc \in {"parse", "init", "done"}
        <4>1. /\ Len(ram_map) \in Nat /\ i \in Nat
              /\ pc = "parse" => Len(ram_map) < i /\ i \leq Len(mboot_mmap) + 1
              /\ pc \in {"init", "done"} => Len(ram_map) \leq Len(mboot_mmap)
          BY DEF IInv, TypeOK, KeptInv, CopyInv
        <4>2. Len(mboot_mmap) \in Nat
          BY <3>2, CopyType
        <4>3. Len(ram_map) \leq Len(mboot_mmap)
          BY <3>2, <4>1, <4>2
        <4> QED BY <2>1, <2>3, <4>1, <4>2, <4>3
      <3> QED BY <2>2, <3>1, <3>2
    <2>5. ASSUME pc # "read"
          PROVE  pc = "fault" <=> Len(mi.mmap) > NodeCnt \/ mi.drives_length > DriveRoom
      <3>1. pc = "fault" => Len(mi.mmap) > NodeCnt \/ mi.drives_length > DriveRoom
        BY DEF IInv, FitInv
      <3>2. pc # "fault" => Len(mi.mmap) \leq NodeCnt /\ mi.drives_length \leq DriveRoom
        BY <2>2, <2>5 DEF IInv, FitInv
      <3> QED BY <2>1, <3>1, <3>2
    <2>6. drive_info \leq DriveRoom
      BY DEF IInv, FitInv
    <2> QED BY <2>3, <2>4, <2>5, <2>6 DEF TablesFit
  <1> QED BY <1>1, Inductive, PTL

\* The variables keep their types.
THEOREM BootTypeCorrect == Spec => []TypeOK
  <1>1. IInv => TypeOK
    BY DEF IInv
  <1> QED BY <1>1, Inductive, PTL

\* Only RAM gets into the pool, if regions consist of whole pages (page.c:22-25).
THEOREM RamFreed == Below /\ WholePages => (Spec => []OnlyRam)
  <1> SUFFICES ASSUME Below, WholePages PROVE Spec => []OnlyRam
    OBVIOUS
  <1>1. IInv => OnlyRam
    <2> SUFFICES ASSUME IInv, NEW f \in Free PROVE IsRam(f)
      BY DEF OnlyRam
    <2>1. PICK j \in DOMAIN mi.mmap : Usable(mi.mmap[j]) /\ f \in Cleared(Region(mi.mmap[j]))
      BY FreeFrom
    <2>2. f \in Frames /\ mi.flag /\ mi.addr
      BY FreeFrom
    <2> DEFINE e == mi.mmap[j]
    <2>3. /\ e \in Entry /\ e.addr \in Nat /\ e.len \in Nat
          /\ e.len > 0 /\ e.addr + e.len \leq AddrMod - PageSize
      BY <2>1, Usables DEF IInv
    <2>4. e.addr % PageSize = 0 /\ e.len % PageSize = 0
      BY <2>1, MapType DEF IInv, WholePages
    <2>5. f \in Cleared(Region(e)) <=>
             IF e.addr \leq KernelStart /\ KernelEnd < e.addr + e.len
             THEN \/ e.addr < KernelStart /\ e.addr < First(f) + PageSize /\ First(f) < KernelStart
                  \/ KernelEnd < First(f) /\ First(f) < e.addr + e.len
             ELSE e.addr < First(f) + PageSize /\ First(f) < e.addr + e.len
      BY <2>2, <2>3, ClearedIs
    <2> HIDE DEF e
    <2>6. First(f) \in Nat /\ KernelStart \in Nat /\ KernelEnd \in Nat /\ KernelStart < KernelEnd
          /\ PageSize \in Nat /\ PageSize > 0
      BY <2>2, FirstIs, Sizes
    <2>7. e.addr \leq First(f) /\ First(f) < e.addr + e.len
      <3>1. e.addr < First(f) + PageSize => e.addr \leq First(f)
        BY <2>2, <2>3, <2>4, NextFrame
      <3> QED BY <2>1, <2>3, <2>5, <2>6, <3>1 DEF e
    <2>8. First(f) + PageSize \leq e.addr + e.len
      <3>1. PICK p \in Int, q \in Int : e.addr = PageSize * p /\ e.len = PageSize * q
        BY <2>3, <2>4, Whole
      <3>2. e.addr + e.len = PageSize * (p + q)
        BY <3>1, Sizes
      <3>3. f \in Int /\ First(f) = PageSize * f
        BY <2>2, FirstIs
      <3>4. /\ f < p + q => PageSize * f + PageSize \leq PageSize * (p + q)
            /\ p + q < f => PageSize * (p + q) + PageSize \leq PageSize * f
        BY <3>3, Times
      <3> QED BY <2>3, <2>6, <2>7, <3>2, <3>3, <3>4
    <2>9. ASSUME NEW b \in Bytes(f) PROVE InRegion(b, e)
      <3>1. b \in First(f) .. First(f) + PageSize - 1
        BY <2>2, BytesAre
      <3>2. e.addr \leq b /\ b < e.addr + e.len
        BY <2>3, <2>6, <2>7, <2>8, <3>1
      <3> QED BY <2>1, <3>2 DEF InRegion, Usable, e
    <2> QED BY <2>1, <2>2, <2>9 DEF IsRam, e
  <1> QED BY <1>1, Inductive, PTL

\* A frame of which the map says that some of it is RAM.
PartlyRam(f) ==
    /\ mi.flag /\ mi.addr
    /\ \E b \in Bytes(f) : \E k \in DOMAIN mi.mmap : InRegion(b, mi.mmap[k])

\* If regions begin or end within a page, what holds is that a page in the pool is RAM in
\* part (page.c:255).
THEOREM PartlyRamFreed == Below => (Spec => [](\A f \in Free : PartlyRam(f)))
  <1> SUFFICES ASSUME Below PROVE Spec => [](\A f \in Free : PartlyRam(f))
    OBVIOUS
  <1>1. IInv => \A f \in Free : PartlyRam(f)
    <2> SUFFICES ASSUME IInv, NEW f \in Free PROVE PartlyRam(f)
      OBVIOUS
    <2>1. PICK j \in DOMAIN mi.mmap : Usable(mi.mmap[j]) /\ f \in Cleared(Region(mi.mmap[j]))
      BY FreeFrom
    <2>2. f \in Frames /\ mi.flag /\ mi.addr
      BY FreeFrom
    <2> DEFINE e == mi.mmap[j]
    <2>3. /\ e \in Entry /\ e.addr \in Nat /\ e.len \in Nat
          /\ e.len > 0 /\ e.addr + e.len \leq AddrMod - PageSize
      BY <2>1, Usables DEF IInv
    <2>4. f \in Cleared(Region(e)) <=>
             IF e.addr \leq KernelStart /\ KernelEnd < e.addr + e.len
             THEN \/ e.addr < KernelStart /\ e.addr < First(f) + PageSize /\ First(f) < KernelStart
                  \/ KernelEnd < First(f) /\ First(f) < e.addr + e.len
             ELSE e.addr < First(f) + PageSize /\ First(f) < e.addr + e.len
      BY <2>2, <2>3, ClearedIs
    <2> HIDE DEF e
    <2>5. First(f) \in Nat /\ KernelStart \in Nat /\ KernelEnd \in Nat /\ KernelStart < KernelEnd
          /\ PageSize \in Nat /\ PageSize > 0
      BY <2>2, FirstIs, Sizes
    <2>6. e.addr < First(f) + PageSize /\ First(f) < e.addr + e.len
      BY <2>1, <2>3, <2>4, <2>5 DEF e
    <2>7. \E b \in First(f) .. First(f) + PageSize - 1 : e.addr \leq b /\ b < e.addr + e.len
      <3>1. CASE e.addr \leq First(f)
        <4>1. First(f) \in First(f) .. First(f) + PageSize - 1
          BY <2>5
        <4> QED BY <2>6, <3>1, <4>1
      <3>2. CASE ~ e.addr \leq First(f)
        <4>1. e.addr \in First(f) .. First(f) + PageSize - 1 /\ e.addr < e.addr + e.len
          BY <2>3, <2>5, <2>6, <3>2
        <4>2. e.addr \leq e.addr
          BY <2>3
        <4> QED BY <4>1, <4>2
      <3> QED BY <3>1, <3>2
    <2>8. \E b \in Bytes(f) : InRegion(b, e)
      BY <2>1, <2>2, <2>7, BytesAre DEF InRegion, Usable, e
    <2> QED BY <2>2, <2>8 DEF PartlyRam, e
  <1> QED BY <1>1, Inductive, PTL

\* The kernel's frames are never given away (page.c:230), also if regions begin or end within
\* a page, as long as one of them has the kernel and at least a byte behind it.
THEOREM KernelNeverFreed == Below /\ KernelLoaded => (Spec => []KernelKept)
  <1> SUFFICES ASSUME Below, KernelLoaded PROVE Spec => []KernelKept
    OBVIOUS
  <1>1. IInv => KernelKept
    <2> SUFFICES ASSUME IInv, NEW f \in Free, f \in KernelFrames PROVE FALSE
      BY DEF KernelKept
    <2>1. PICK j \in DOMAIN mi.mmap : Usable(mi.mmap[j]) /\ f \in Cleared(Region(mi.mmap[j]))
      BY FreeFrom
    <2>2. f \in Frames
      BY FreeFrom
    <2>3. PICK k \in DOMAIN mi.mmap :
             /\ Usable(mi.mmap[k]) /\ mi.mmap[k].addr \leq KernelStart
             /\ KernelEnd < mi.mmap[k].addr + mi.mmap[k].len
             /\ \A l \in DOMAIN mi.mmap \ {k} : Usable(mi.mmap[l]) =>
                   \/ mi.mmap[l].addr + mi.mmap[l].len \leq mi.mmap[k].addr
                   \/ mi.mmap[k].addr + mi.mmap[k].len \leq mi.mmap[l].addr
      BY MapType DEF IInv, KernelLoaded
    <2> DEFINE e == mi.mmap[j]
               d == mi.mmap[k]
    <2>4. /\ e \in Entry /\ e.addr \in Nat /\ e.len \in Nat /\ e.len > 0
          /\ e.addr + e.len \leq AddrMod - PageSize
          /\ d.addr \in Nat /\ d.len \in Nat
      BY <2>1, <2>3, Usables DEF IInv
    <2>5. f \in Cleared(Region(e)) <=>
             IF e.addr \leq KernelStart /\ KernelEnd < e.addr + e.len
             THEN \/ e.addr < KernelStart /\ e.addr < First(f) + PageSize /\ First(f) < KernelStart
                  \/ KernelEnd < First(f) /\ First(f) < e.addr + e.len
             ELSE e.addr < First(f) + PageSize /\ First(f) < e.addr + e.len
      BY <2>2, <2>4, ClearedIs
    <2>6. \/ e.addr \leq KernelStart /\ KernelEnd < e.addr + e.len
          \/ e.addr + e.len \leq d.addr
          \/ d.addr + d.len \leq e.addr
      BY <2>1, <2>3
    <2>7. f \in Cleared(Region(e)) /\ d.addr \leq KernelStart /\ KernelEnd < d.addr + d.len
      BY <2>1, <2>3
    <2> HIDE DEF e, d
    <2>8. First(f) \in Nat /\ KernelStart \in Nat /\ KernelEnd \in Nat /\ KernelStart < KernelEnd
          /\ PageSize \in Nat /\ PageSize > 0
      BY <2>2, FirstIs, Sizes
    <2>9. KernelStart < First(f) + PageSize /\ First(f) < KernelEnd
      BY <2>2, KernelFrameIs
    <2>10. KernelStart \leq First(f) /\ First(f) + PageSize \leq KernelEnd
      BY <2>2, <2>8, <2>9, NextFrame, BootAssumption
    <2> QED BY <2>4, <2>5, <2>6, <2>7, <2>8, <2>9, <2>10
  <1> QED BY <1>1, Inductive, PTL

\* When booting is done every other frame of RAM is in the pool, except the one behind the
\* kernel (page.c:244-257).
THEOREM RamPooled == Below => (Spec => []AllRamFree)
  <1> SUFFICES ASSUME Below PROVE Spec => []AllRamFree
    OBVIOUS
  <1>1. IInv => AllRamFree
    <2> SUFFICES ASSUME IInv, pc = "done", NEW f \in Frames, IsRam(f),
                        f \notin Free, f \notin KernelFrames
                 PROVE  f = PageNo(KernelEnd)
      BY DEF AllRamFree
    <2>1. First(f) \in Nat /\ KernelStart \in Nat /\ KernelEnd \in Nat /\ KernelStart < KernelEnd
          /\ PageSize \in Nat /\ PageSize > 0
      BY FirstIs, Sizes
    <2>2. First(f) \in Bytes(f)
      BY <2>1, BytesAre
    <2>3. PICK j \in DOMAIN mi.mmap : InRegion(First(f), mi.mmap[j])
      BY <2>2 DEF IsRam
    <2> DEFINE e == mi.mmap[j]
    <2>4. Usable(e) /\ e.addr \leq First(f) /\ First(f) < e.addr + e.len
      BY <2>3 DEF InRegion, Usable
    <2>5. PICK k \in DOMAIN ram_map : ram_map[k] = Region(e)
      BY <2>4 DEF IInv, KeptInv, IsRam, Usable
    <2>6. k < i
      <3>1. k \in 1 .. Len(ram_map) /\ Len(ram_map) \in Nat /\ i \in Nat /\ i > Len(ram_map)
        BY <2>5 DEF IInv, KeptInv, BusyInv, TypeOK
      <3> QED BY <3>1
    <2>7. f \notin Cleared(Region(e))
      <3>1. f \in busy
        BY DEF Free
      <3> QED BY <2>5, <2>6, <3>1 DEF IInv, BusyInv
    <2>8. /\ e \in Entry /\ e.addr \in Nat /\ e.len \in Nat
          /\ e.len > 0 /\ e.addr + e.len \leq AddrMod - PageSize
      BY <2>4, Usables DEF IInv
    <2>9. f \in Cleared(Region(e)) <=>
             IF e.addr \leq KernelStart /\ KernelEnd < e.addr + e.len
             THEN \/ e.addr < KernelStart /\ e.addr < First(f) + PageSize /\ First(f) < KernelStart
                  \/ KernelEnd < First(f) /\ First(f) < e.addr + e.len
             ELSE e.addr < First(f) + PageSize /\ First(f) < e.addr + e.len
      BY <2>8, ClearedIs
    <2> HIDE DEF e
    <2>10. KernelStart \leq First(f) /\ First(f) \leq KernelEnd
      BY <2>1, <2>4, <2>7, <2>8, <2>9
    <2>11. First(f) = KernelEnd
      <3>1. ~ First(f) < KernelEnd
        BY <2>1, <2>10, KernelFrameIs
      <3> QED BY <2>1, <2>10, <3>1
    <2>12. PICK p \in Frames : p = PageNo(KernelEnd) /\ PageSize * p \in Int
                               /\ PageSize * p \leq KernelEnd /\ KernelEnd < PageSize * p + PageSize
      <3>1. KernelEnd \in 0 .. AddrMod - 1
        BY Sizes
      <3> QED BY <3>1, PageIs
    <2>13. f \in Int /\ p \in Int /\ First(f) = PageSize * f
      BY FirstIs
    <2>14. /\ f < p => PageSize * f + PageSize \leq PageSize * p
           /\ p < f => PageSize * p + PageSize \leq PageSize * f
      BY <2>13, Times
    <2> QED BY <2>1, <2>11, <2>12, <2>13, <2>14
  <1> QED BY <1>1, Inductive, PTL
=============================================================================
