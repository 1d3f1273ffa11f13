------------------------------ MODULE PagePool ------------------------------
(***************************************************************************)
(* What the physical page allocator of mm/page.c promises its callers: a   *)
(* pool of page frames out of which contiguous runs are granted, lowest    *)
(* first, and into which frames are released one at a time.  A request is  *)
(* refused only when no run fits.  The promise keeps one blemish of the    *)
(* code: a run that starts at frame 0 is answered with the address 0,      *)
(* which the caller reads as NULL, so it leaves the pool and nobody holds  *)
(* it.                                                                     *)
(***************************************************************************)
EXTENDS Integers

CONSTANTS
    Frames,      \* the page frames of the address space, 0 .. n
    Threads,     \* the callers
    MaxCount     \* the largest count asked for

VARIABLES
    free,        \* the frames in the pool
    held,        \* per caller, the frames it was given and has not released
    want         \* per caller, the count it asked for, or NoRequest

vars == <<free, held, want>>

NoRequest == -1

Run(s, n) == s .. s + n - 1

\* A free run of n frames starts at s.
Fits(s, n) == n > 0 /\ Run(s, n) \subseteq free

Init ==
    /\ free \in SUBSET Frames
    /\ held = [t \in Threads |-> {}]
    /\ want = [t \in Threads |-> NoRequest]

Request(t) ==
    /\ want[t] = NoRequest
    /\ \E n \in 0 .. MaxCount : want' = [want EXCEPT ![t] = n]
    /\ UNCHANGED <<free, held>>

Grant(t) ==
    /\ want[t] # NoRequest
    /\ \E s \in Frames :
          /\ Fits(s, want[t])
          /\ \A r \in Frames : r < s => ~ Fits(r, want[t])
          /\ free' = free \ Run(s, want[t])
          /\ held' = IF s = 0 THEN held
                     ELSE [held EXCEPT ![t] = @ \cup Run(s, want[t])]
    /\ want' = [want EXCEPT ![t] = NoRequest]

Refuse(t) ==
    /\ want[t] # NoRequest
    /\ \A s \in Frames : ~ Fits(s, want[t])
    /\ want' = [want EXCEPT ![t] = NoRequest]
    /\ UNCHANGED <<free, held>>

Release(t) ==
    /\ want[t] = NoRequest
    /\ \E f \in held[t] : /\ held' = [held EXCEPT ![t] = @ \ {f}]
                          /\ free' = free \cup {f}
    /\ UNCHANGED want

Next == \E t \in Threads : Request(t) \/ Grant(t) \/ Refuse(t) \/ Release(t)

Spec == Init /\ [][Next]_vars

=============================================================================
