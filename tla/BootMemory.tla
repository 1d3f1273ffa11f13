----------------------------- MODULE BootMemory -----------------------------
(***************************************************************************)
(* How the page allocator learns what is RAM, once, while booting:         *)
(* read_multiboot_information copies the boot loader's tables, of memory   *)
(* and of drives, parse_mboot_information keeps the available regions,     *)
(* truncated to 32 bits (arch/i386/lib/sysinfo.c), and init_page_allocator *)
(* clears their bits, around the kernel's own image (mm/page.c).           *)
(*                                                                         *)
(* Addresses are scaled: a page has PageSize bytes, and NumFrames *        *)
(* PageSize stands for 2^32.                                               *)
(***************************************************************************)
EXTENDS Integers, Sequences

CONSTANTS
    PageSize,    \* PAGE_SIZE
    NumFrames,   \* NUM_FRAMES
    NodeCnt,     \* ADDR_MAP_NODE_CNT, the entries mboot_mmap has room for
    DriveRoom,   \* sizeof(drive_info), the bytes the table of drives has room for
    KernelStart, \* GANOID_AREA_START, page aligned by the linker script
    KernelEnd,   \* GANOID_AREA_END, the byte after the image, page aligned
    Maps,        \* the memory maps a boot loader may pass: sequences of entries
                 \* [addr, len, type] with 64 bit addr and len
    DriveLengths \* the lengths its table of drives may have, in bytes

Available == 1   \* MULTIBOOT_MEMORY_AVAILABLE

AddrMod == PageSize * NumFrames

ASSUME BootAssumption ==
    /\ Maps \subseteq Seq([addr : Nat, len : Nat, type : Nat])
    /\ DriveLengths \subseteq Nat
    /\ PageSize \in Nat \ {0}
    /\ NumFrames \in Nat \ {0}
    /\ NodeCnt \in Nat /\ DriveRoom \in Nat
    /\ KernelStart \in Nat /\ KernelStart % PageSize = 0
    /\ KernelEnd \in Nat /\ KernelEnd % PageSize = 0
    /\ KernelStart < KernelEnd /\ KernelEnd + PageSize \leq AddrMod

VARIABLES
    mi,          \* what the boot loader passes: of the map, is the flag set, is its
                 \* address given, and its entries; of the drives, is the address of
                 \* their table given, and its length
    mboot_mmap,  \* the copy of the map
    drive_info,  \* the bytes of the table of drives that were copied
    ram_map,     \* the available regions, [saddr, len]
    busy,        \* free_bm: the frames whose bit is set
    i,           \* the loop counter of the step under way, from 1
    pc           \* where kernel_main is

vars == <<mi, mboot_mmap, drive_info, ram_map, busy, i, pc>>

Frames == 0 .. NumFrames - 1

\* The fields of struct multiboot_info that are used.
Information == [flag : BOOLEAN, addr : BOOLEAN, mmap : Maps,
                drives_addr : BOOLEAN, drives_length : DriveLengths]

Init ==
    /\ mi \in Information
    /\ mboot_mmap = <<>>
    /\ drive_info = 0
    /\ ram_map = <<>>
    /\ busy = {}
    /\ i = 1
    /\ pc = "read"

\* An entry of mboot_mmap that nothing was copied to: the array is zero.
Zero == [addr |-> 0, len |-> 0, type |-> 0]

\* What the copies hold once they are made; nothing is copied from address 0.
CopiedMap == IF mi.addr THEN mi.mmap ELSE [k \in DOMAIN mi.mmap |-> Zero]
CopiedDrives == IF mi.drives_addr THEN mi.drives_length ELSE 0

\* Mutated form: the length of the map is not checked.
read_multiboot_information_unchecked ==
    /\ pc = "read"
    /\ mboot_mmap' = CopiedMap
    /\ \/ /\ mi.drives_length > DriveRoom
          /\ pc' = "fault"
          /\ UNCHANGED drive_info
       \/ /\ mi.drives_length \leq DriveRoom
          /\ drive_info' = CopiedDrives
          /\ pc' = "parse"
    /\ UNCHANGED <<mi, ram_map, busy, i>>

\* The map is checked and copied, then the drives.  A table that does not fit is a
\* fault, and the kernel stops.
read_multiboot_information ==
    /\ pc = "read"
    /\ \/ /\ Len(mi.mmap) > NodeCnt
          /\ pc' = "fault"
          /\ UNCHANGED <<mboot_mmap, drive_info>>
       \/ /\ Len(mi.mmap) \leq NodeCnt
          /\ mboot_mmap' = CopiedMap
          /\ \/ /\ mi.drives_length > DriveRoom
                /\ pc' = "fault"
                /\ UNCHANGED drive_info
             \/ /\ mi.drives_length \leq DriveRoom
                /\ drive_info' = CopiedDrives
                /\ pc' = "parse"
    /\ UNCHANGED <<mi, ram_map, busy, i>>

\* Mutated form: every region is kept.
parse_mboot_information_all ==
    /\ pc = "parse"
    /\ mi.flag /\ i \leq Len(mboot_mmap)
    /\ ram_map' = Append(ram_map, [saddr |-> mboot_mmap[i].addr % AddrMod,
                                   len |-> mboot_mmap[i].len % AddrMod])
    /\ i' = i + 1
    /\ UNCHANGED <<mi, mboot_mmap, drive_info, busy, pc>>

\* One entry: an available region is kept, as far as 32 bits hold it.
parse_mboot_information ==
    /\ pc = "parse"
    /\ mi.flag /\ i \leq Len(mboot_mmap)
    /\ ram_map' = IF mboot_mmap[i].type = Available
                  THEN Append(ram_map, [saddr |-> mboot_mmap[i].addr % AddrMod,
                                        len |-> mboot_mmap[i].len % AddrMod])
                  ELSE ram_map
    /\ i' = i + 1
    /\ UNCHANGED <<mi, mboot_mmap, drive_info, busy, pc>>

\* The map is read; init_page_allocator starts with every frame busy.
init_page_allocator ==
    /\ pc = "parse"
    /\ ~ mi.flag \/ i > Len(mboot_mmap)
    /\ busy' = Frames
    /\ i' = 1
    /\ pc' = "init"
    /\ UNCHANGED <<mi, mboot_mmap, drive_info, ram_map>>

\* GET_PAGENO, of an address in unsigned arithmetic.
PageNo(a) == (a % AddrMod) \div PageSize

\* The frames that fp_clearbit_range clears, from the one of address a to that of b.
clearbit_range(a, b) == PageNo(a) .. PageNo(b)

\* Is the kernel inside the region?
HasKernel(r) ==
    r.saddr \leq KernelStart /\ KernelEnd < (r.saddr + r.len) % AddrMod

\* Mutated form: only what lies above the kernel.
Cleared_above(r) ==
    LET next == (r.saddr + r.len) % AddrMod IN
    IF HasKernel(r) THEN clearbit_range(KernelEnd + PageSize, next - 1)
    ELSE clearbit_range(r.saddr, next - 1)

\* Mutated form: the kernel is not looked for.
Cleared_all(r) == clearbit_range(r.saddr, r.saddr + r.len - 1)

\* The frames that one region of the map gives to the pool.  The one behind the
\* kernel is left out.
Cleared(r) ==
    LET next == (r.saddr + r.len) % AddrMod IN
    IF HasKernel(r)
    THEN (IF r.saddr = KernelStart THEN {} ELSE clearbit_range(r.saddr, KernelStart - 1))
         \cup clearbit_range(KernelEnd + PageSize, next - 1)
    ELSE clearbit_range(r.saddr, next - 1)

clear_region ==
    /\ pc = "init"
    /\ i \leq Len(ram_map)
    /\ busy' = busy \ Cleared(ram_map[i])
    /\ i' = i + 1
    /\ UNCHANGED <<mi, mboot_mmap, drive_info, ram_map, pc>>

clear_end ==
    /\ pc = "init"
    /\ i > Len(ram_map)
    /\ pc' = "done"
    /\ UNCHANGED <<mi, mboot_mmap, drive_info, ram_map, busy, i>>

Next == \/ read_multiboot_information \/ parse_mboot_information
        \/ init_page_allocator \/ clear_region \/ clear_end

Spec == Init /\ [][Next]_vars

(***************************************************************************)
(* Properties.                                                             *)
(***************************************************************************)
TypeOK ==
    /\ mi \in Information
    /\ drive_info \in Nat
    /\ busy \subseteq Frames
    /\ i \in Nat \ {0}
    /\ pc \in {"read", "parse", "init", "done", "fault"}
    /\ \A k \in DOMAIN ram_map : ram_map[k] \in [saddr : 0 .. AddrMod - 1,
                                                 len : 0 .. AddrMod - 1]

\* What the map says of a frame: it lies, with all its bytes, in an available
\* region.
Bytes(f) == f * PageSize .. (f + 1) * PageSize - 1
InRegion(b, e) == e.type = Available /\ e.addr \leq b /\ b < e.addr + e.len
IsRam(f) == /\ mi.flag /\ mi.addr
            /\ \A b \in Bytes(f) : \E k \in DOMAIN mi.mmap : InRegion(b, mi.mmap[k])

KernelFrames == PageNo(KernelStart) .. PageNo(KernelEnd - 1)

Free == IF pc \in {"init", "done"} THEN Frames \ busy ELSE {}

\* "allocate only pages which map to RAM" (page.c:22-25).
OnlyRam == \A f \in Free : IsRam(f)

\* "set the bits which are already occupied" (page.c:230): the kernel's own frames
\* are never given away.
KernelKept == Free \cap KernelFrames = {}

\* Nothing is wasted but the frame behind the kernel: at the end every other frame
\* of RAM is in the pool.
AllRamFree ==
    pc = "done" => \A f \in Frames : IsRam(f) => \/ f \in Free \cup KernelFrames
                                                 \/ f = PageNo(KernelEnd)

\* mboot_mmap, drive_info and ram_map are not overrun, and booting is given up just
\* if the map or the table of drives would not fit (sysinfo.c:165-174).
TablesFit ==
    /\ Len(mboot_mmap) \leq NodeCnt /\ Len(ram_map) \leq NodeCnt
    /\ drive_info \leq DriveRoom
    /\ pc # "read" => (pc = "fault" <=> \/ Len(mi.mmap) > NodeCnt
                                        \/ mi.drives_length > DriveRoom)
=============================================================================
