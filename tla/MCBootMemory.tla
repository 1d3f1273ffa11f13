---------------------------- MODULE MCBootMemory ----------------------------
(***************************************************************************)
(* Memory maps for TLC: up to three entries that do not overlap.  Bounds   *)
(* are in bytes of the scaled address space of 2 * 8 bytes.                *)
(***************************************************************************)
EXTENDS BootMemory

\* The entries that begin and end at the given addresses.
Entries(bounds) ==
    {[addr |-> x[1], len |-> x[2] - x[1], type |-> x[3]] :
        x \in {y \in bounds \X bounds \X {1, 2} : y[1] < y[2]}}

Disjoint(e, f) == e.addr + e.len \leq f.addr \/ f.addr + f.len \leq e.addr

\* The maps of at most n entries, in any order.
MapsOf(entries, n) ==
    {m \in UNION {[1 .. k -> entries] : k \in 0 .. n} :
        \A j, k \in DOMAIN m : j < k => Disjoint(m[j], m[k])}

\* The kernel was loaded into an available region, and that region goes on.
KernelInside(m) ==
    \E k \in DOMAIN m : /\ m[k].type = Available /\ m[k].addr \leq KernelStart
                        /\ KernelEnd < m[k].addr + m[k].len

PageAddresses == {PageSize * f : f \in Frames}

\* Regions of whole pages in the 32 bit address space.
AlignedMaps == {m \in MapsOf(Entries(PageAddresses), 3) : KernelInside(m)}

\* The maps below are in no .cfg.  Regions that end within a page: OnlyRam fails.
UnalignedMaps == {m \in MapsOf(Entries(0 .. AddrMod - 1), 1) : KernelInside(m)}

\* Regions beyond the 32 bit address space too: OnlyRam fails.
HighMaps ==
    {m \in MapsOf(Entries(PageAddresses \cup {AddrMod + a : a \in PageAddresses}), 2) :
        KernelInside(m)}

\* The kernel fills its region to the last byte: KernelKept fails.
ExactMaps ==
    {m \in MapsOf(Entries(PageAddresses), 2) :
        \E k \in DOMAIN m : /\ m[k].type = Available /\ m[k].addr \leq KernelStart
                            /\ KernelEnd = m[k].addr + m[k].len}
=============================================================================
