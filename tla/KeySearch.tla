----------------------------- MODULE KeySearch -----------------------------
(***************************************************************************)
(* binary_search_key of kbd-handler.c: finds a scan code in one of the key *)
(* maps, arrays sorted by code.  The search narrows an interval of indices *)
(* whose bounds it never leaves out, until two of them are left, and looks *)
(* at both.                                                                *)
(*                                                                         *)
(* Its names differ from Keyboard's: the proofs extend both.               *)
(***************************************************************************)
EXTENDS Integers

CONSTANTS
    MapCodes,    \* the scan codes
    MaxLength    \* bound: the longest map

ASSUME SearchAssumption == MapCodes \subseteq Int /\ MaxLength \in Nat \ {0}

VARIABLES
    keymap_length,
    map,          \* the codes in the map, from index 0
    scan_code,    \* the code to find
    min_index, max_index, median_index,
    found,
    search_pc

in == <<keymap_length, map, scan_code>>
search_vars == <<in, min_index, max_index, median_index, found, search_pc>>

Indices == 0 .. keymap_length - 1

\* basic_keymap and extended_keymap are not empty, and sorted.
SearchInit ==
    /\ keymap_length \in 1 .. MaxLength
    /\ map \in [Indices -> MapCodes]
    /\ \A i, j \in Indices : i \leq j => map[i] \leq map[j]
    /\ scan_code \in MapCodes
    /\ min_index = 0
    /\ max_index = keymap_length - 1
    /\ median_index = 0
    /\ found = FALSE
    /\ search_pc = "check"

\* Mutated form: the code of the last entry counts as beyond the map.
check_range_strict ==
    /\ search_pc = "check"
    /\ search_pc' = IF scan_code < map[min_index] \/ scan_code \geq map[max_index]
             THEN "return" ELSE "loop"
    /\ UNCHANGED <<in, min_index, max_index, median_index, found>>

\* A code below the first entry or above the last is not found.
check_range ==
    /\ search_pc = "check"
    /\ search_pc' = IF scan_code < map[min_index] \/ scan_code > map[max_index]
             THEN "return" ELSE "loop"
    /\ UNCHANGED <<in, min_index, max_index, median_index, found>>

Median == (min_index + max_index) \div 2

\* Mutated form: the interval goes on above the median.
narrow_past ==
    /\ search_pc = "loop"
    /\ median_index' = Median
    /\ Median # min_index
    /\ IF scan_code > map[Median]
       THEN min_index' = Median + 1 /\ UNCHANGED max_index
       ELSE max_index' = Median /\ UNCHANGED min_index
    /\ UNCHANGED <<in, found, search_pc>>

\* Mutated form: the interval does not get smaller from below.
narrow_never ==
    /\ search_pc = "loop"
    /\ median_index' = Median
    /\ Median # min_index
    /\ IF scan_code > map[Median]
       THEN UNCHANGED <<min_index, max_index>>
       ELSE max_index' = Median /\ UNCHANGED min_index
    /\ UNCHANGED <<in, found, search_pc>>

\* More than two entries are left: the half goes on that the code is in.
narrow ==
    /\ search_pc = "loop"
    /\ median_index' = Median
    /\ Median # min_index
    /\ IF scan_code > map[Median]
       THEN min_index' = Median /\ UNCHANGED max_index
       ELSE max_index' = Median /\ UNCHANGED min_index
    /\ UNCHANGED <<in, found, search_pc>>

\* The entry behind the median is read only if the one at the median is another.
last_two ==
    /\ search_pc = "loop"
    /\ Median = min_index
    /\ \/ /\ map[Median] = scan_code
          /\ median_index' = Median
          /\ found' = TRUE
       \/ /\ map[Median] # scan_code
          /\ map[Median + 1] = scan_code
          /\ median_index' = Median + 1
          /\ found' = TRUE
       \/ /\ map[Median] # scan_code
          /\ map[Median + 1] # scan_code
          /\ median_index' = Median
          /\ UNCHANGED found
    /\ search_pc' = "return"
    /\ UNCHANGED <<in, min_index, max_index>>

SearchNext == check_range \/ narrow \/ last_two

SearchSpec == SearchInit /\ [][SearchNext]_search_vars

\* Nothing holds the search up.
FairSearchSpec == SearchSpec /\ WF_search_vars(SearchNext)

(***************************************************************************)
(* Properties.                                                             *)
(***************************************************************************)
SearchTypeOK ==
    /\ keymap_length \in 1 .. MaxLength
    /\ map \in [Indices -> MapCodes]
    /\ scan_code \in MapCodes
    /\ min_index \in Indices /\ max_index \in Indices /\ median_index \in Indices
    /\ found \in BOOLEAN
    /\ search_pc \in {"check", "loop", "return"}

\* The search finds the code if the map has it, at an index that has it, and says
\* so if it does not, for a map of any length, one entry included
\* (kbd-handler.c:548-598).
Correct ==
    search_pc = "return" =>
        /\ found <=> \E i \in Indices : map[i] = scan_code
        /\ found => map[median_index] = scan_code

\* The entry behind the median exists when the search reads it
\* (kbd-handler.c:569).
NoOverread ==
    search_pc = "loop" /\ Median = min_index /\ map[Median] # scan_code => Median + 1 \in Indices

\* The search ends: the interval gets smaller, rounding included.
Ends == <>(search_pc = "return")
=============================================================================
