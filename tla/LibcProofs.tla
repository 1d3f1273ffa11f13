----------------------------- MODULE LibcProofs -----------------------------
(***************************************************************************)
(* Proofs about Libc, for a memory of any size, strings of any length and  *)
(* any count: which memory every function of string.c that writes leaves,  *)
(* as C says or not, and how those that compare order strings.             *)
(*                                                                         *)
(* A copy is a recursion over the distances; CopyIs says what it makes by  *)
(* induction over how many are done.  The end of a string and the place    *)
(* where two differ are least elements.  What Init says of a call and that *)
(* its result is what Apply says is all the invariant there is.            *)
(***************************************************************************)
EXTENDS Libc, SequenceTheorems, WellFoundedInduction, TLAPS

(***************************************************************************)
(* Induction, from the well-foundedness of < on Nat: the library's theorem *)
(* WFMin speaks of sets and not of operators.                              *)
(***************************************************************************)
\* Every set of numbers that is not empty has a least.
LEMMA Least ==
  ASSUME NEW T \in SUBSET Nat, T # {}
  PROVE  \E n \in T : \A m \in T : n \leq m
  <1> DEFINE R == {ss \in Nat \X Nat : ss[1] < ss[2]}
  <1>1. IsWellFoundedOn(R, Nat)
    BY NatLessThanWellFounded, Zenon DEF OpToRel
  <1> HIDE DEF R
  <1>2. PICK n \in T : \A m \in T : ~ (<<m, n>> \in R)
    BY <1>1, WFMin, Zenon
  <1>3. ASSUME NEW m \in T PROVE n \leq m
    <2>1. <<m, n>> \notin R
      BY <1>2
    <2> QED BY <2>1 DEF R
  <1> QED BY <1>3

\* A set with 0 that has n + 1 with every n has them all.
LEMMA Induction ==
  ASSUME NEW S, 0 \in S, \A n \in Nat : n \in S => n + 1 \in S
  PROVE  Nat \subseteq S
  <1> SUFFICES ASSUME Nat \ S # {} PROVE FALSE
    OBVIOUS
  <1>1. PICK n \in Nat \ S : \A m \in Nat \ S : n \leq m
    BY Least
  <1>2. n # 0 /\ n - 1 \in Nat /\ n - 1 \notin Nat \ S
    BY <1>1
  <1> QED BY <1>2

Memories == [Addresses -> Bytes]

\* Addresses are numbers, and the values of memory are bytes.
LEMMA Limits ==
  /\ Size \in Nat /\ Addresses = 0 .. Size - 1
  /\ \A m \in Memories, i \in Addresses : m[i] \in Bytes /\ m[i] \in 0 .. 255
  BY LibcAssumption DEF Addresses, Memories

(***************************************************************************)
(* Copying.                                                                *)
(***************************************************************************)

\* What has been copied after k of the distances: at every place that one of them leads
\* to there is the byte that m had at that distance from s.
Moved(m, d, s, distances, k) ==
    [i \in Addresses |-> IF \E j \in 1 .. k : i = d + distances[j] THEN m[s + (i - d)] ELSE m[i]]

\* A turn of Copy's recursion.
Turn(f, m, d, s, distances, k) ==
    IF k = 0 THEN m ELSE [f[k - 1] EXCEPT ![d + distances[k]] = f[k - 1][s + distances[k]]]

\* No byte is written before it is read.
InOrder(d, s, distances) ==
    /\ Len(distances) \in Nat
    /\ \A k \in 1 .. Len(distances) :
          /\ distances[k] \in Int
          /\ d + distances[k] \in Addresses /\ s + distances[k] \in Addresses
          /\ \A j \in 1 .. k - 1 : d + distances[j] # s + distances[k]

\* One turn of the loop copies one more byte.
LEMMA MovedTurn ==
  ASSUME NEW m \in Memories, NEW d \in Int, NEW s \in Int, NEW q, InOrder(d, s, q),
         NEW k \in 1 .. Len(q)
  PROVE  Moved(m, d, s, q, k) =
            [Moved(m, d, s, q, k - 1) EXCEPT ![d + q[k]] = Moved(m, d, s, q, k - 1)[s + q[k]]]
  <1> DEFINE a == Moved(m, d, s, q, k - 1)
             b == Moved(m, d, s, q, k)
             p == d + q[k]
             c == [a EXCEPT ![p] = a[s + q[k]]]
  <1>1. /\ k - 1 \in Nat /\ q[k] \in Int /\ p \in Addresses /\ s + q[k] \in Addresses
        /\ \A j \in 1 .. k - 1 : d + q[j] # s + q[k]
        /\ \A i \in 1 .. k : i \in 1 .. k - 1 \/ i = k
        /\ \A i \in 1 .. k - 1 : i \in 1 .. k
    BY DEF InOrder
  <1>2. a[s + q[k]] = m[s + q[k]]
    BY <1>1 DEF Moved
  <1>3. s + (p - d) = s + q[k]
    BY <1>1
  <1>4. ASSUME NEW i \in Addresses PROVE b[i] = IF i = p THEN a[s + q[k]] ELSE a[i]
    <2>1. CASE i = p
      <3>1. \E j \in 1 .. k : i = d + q[j]
        BY <2>1
      <3>2. b[i] = m[s + (i - d)]
        BY <3>1 DEF Moved
      <3> QED BY <1>2, <1>3, <2>1, <3>2
    <2>2. CASE i # p
      <3>1. (\E j \in 1 .. k : i = d + q[j]) <=> (\E j \in 1 .. k - 1 : i = d + q[j])
        BY <1>1, <2>2
      <3> QED BY <2>2, <3>1 DEF Moved
    <2> QED BY <2>1, <2>2
  <1>5. b = [i \in Addresses |-> b[i]] /\ a = [i \in Addresses |-> a[i]]
    BY DEF Moved
  <1> HIDE DEF a, b, p
  <1>6. c = [i \in Addresses |-> IF i = p THEN a[s + q[k]] ELSE a[i]]
    BY <1>5
  <1>7. b = c
    BY <1>4, <1>5, <1>6
  <1> QED BY <1>7 DEF a, b, p

\* The whole loop: what all the distances have moved (string.c:23-50).
LEMMA CopyIs ==
  ASSUME NEW m \in Memories, NEW d \in Int, NEW s \in Int, NEW q, InOrder(d, s, q)
  PROVE  Copy(m, d, s, q) = Moved(m, d, s, q, Len(q))
  <1> DEFINE L == Len(q)
             f == [k \in 0 .. L |-> Moved(m, d, s, q, k)]
             g == CHOOSE mem : mem = [k \in 0 .. L |-> Turn(mem, m, d, s, q, k)]
  <1>1. L \in Nat
    BY DEF InOrder
  <1>2. ASSUME NEW k \in 0 .. L PROVE f[k] = Turn(f, m, d, s, q, k)
    <2>1. CASE k = 0
      <3>1. Moved(m, d, s, q, 0) = m
        BY DEF Moved, Memories
      <3> QED BY <2>1, <3>1 DEF Turn
    <2>2. CASE k # 0
      <3>1. k \in 1 .. Len(q) /\ k - 1 \in 0 .. L
        BY <1>1, <2>2
      <3>2. f[k - 1] = Moved(m, d, s, q, k - 1) /\ f[k] = Moved(m, d, s, q, k)
        BY <3>1
      <3>3. f[k] = [f[k - 1] EXCEPT ![d + q[k]] = f[k - 1][s + q[k]]]
        BY <3>1, <3>2, MovedTurn
      <3> QED BY <2>2, <3>3 DEF Turn
    <2> QED BY <2>1, <2>2
  <1>3. f = [k \in 0 .. L |-> Turn(f, m, d, s, q, k)]
    <2> DEFINE h == [k \in 0 .. L |-> Turn(f, m, d, s, q, k)]
    <2>1. f = [k \in 0 .. L |-> f[k]] /\ h = [k \in 0 .. L |-> h[k]]
      OBVIOUS
    <2>2. \A k \in 0 .. L : f[k] = h[k]
      BY <1>2
    <2> HIDE DEF f, h
    <2>3. f = h
      BY <2>1, <2>2
    <2> QED BY <2>3 DEF h
  <1> HIDE DEF f
  <1>4. g = [k \in 0 .. L |-> Turn(g, m, d, s, q, k)]
    BY <1>3, Zenon
  <1>5. Copy(m, d, s, q) = g[L]
    BY Zenon DEF Copy, Turn
  <1> HIDE DEF g
  <1> DEFINE S == {k \in Nat : k \leq L => g[k] = f[k]}
  <1>6. 0 \in S
    <2>1. 0 \in 0 .. L
      BY <1>1
    <2>2. g[0] = Turn(g, m, d, s, q, 0) /\ f[0] = Turn(f, m, d, s, q, 0)
      BY <1>2, <1>4, <2>1, Zenon
    <2> QED BY <2>2 DEF Turn
  <1>7. ASSUME NEW k \in Nat, k \in S PROVE k + 1 \in S
    <2> SUFFICES ASSUME k + 1 \leq L PROVE g[k + 1] = f[k + 1]
      OBVIOUS
    <2>1. k + 1 \in 0 .. L /\ k + 1 # 0 /\ (k + 1) - 1 = k /\ g[k] = f[k]
      BY <1>1, <1>7
    <2>2. g[k + 1] = Turn(g, m, d, s, q, k + 1) /\ f[k + 1] = Turn(f, m, d, s, q, k + 1)
      BY <1>2, <1>4, <2>1, Zenon
    <2> QED BY <2>1, <2>2 DEF Turn
  <1> HIDE DEF S
  <1>8. L \in S
    BY <1>1, <1>6, <1>7, Induction
  <1>9. g[L] = f[L]
    BY <1>1, <1>8 DEF S
  <1> QED BY <1>1, <1>5, <1>9 DEF f

\* The n bytes at s are also at d, and all other bytes are where they were.
Placed(m, d, s, n) ==
    [i \in Addresses |-> IF i \in d .. d + n - 1 THEN m[s + (i - d)] ELSE m[i]]

Inside(p, n) == p \in Nat /\ n \in Nat /\ p + n \leq Size

\* memcpy from the first byte on, where the areas are disjoint.
LEMMA PlacedUpwards ==
  ASSUME NEW m \in Memories, NEW d, NEW s, NEW n, Inside(d, n), Inside(s, n), Disjoint(d, n, s, n)
  PROVE  memcpy(m, d, s, n) = Placed(m, d, s, n)
  <1> DEFINE q == Upwards(n)
  <1>1. d \in Nat /\ s \in Nat /\ n \in Nat /\ d + n \leq Size /\ s + n \leq Size
    BY DEF Inside
  <1>2. Len(q) = n /\ \A k \in 1 .. n : q[k] = k - 1
    BY <1>1 DEF Upwards
  <1> HIDE DEF q
  <1>3. InOrder(d, s, q)
    <2> SUFFICES ASSUME NEW k \in 1 .. n
                 PROVE  /\ q[k] \in Int
                        /\ d + q[k] \in Addresses /\ s + q[k] \in Addresses
                        /\ \A j \in 1 .. k - 1 : d + q[j] # s + q[k]
      BY <1>1, <1>2 DEF InOrder
    <2>1. q[k] = k - 1 /\ \A j \in 1 .. k - 1 : q[j] = j - 1
      BY <1>1, <1>2
    <2> QED BY <1>1, <2>1, Limits DEF Disjoint
  <1>4. memcpy(m, d, s, n) = Moved(m, d, s, q, n)
    BY <1>1, <1>2, <1>3, CopyIs DEF memcpy, q
  <1>5. ASSUME NEW i \in Addresses
        PROVE  (\E j \in 1 .. n : i = d + q[j]) <=> i \in d .. d + n - 1
    <2>1. i \in Nat
      BY Limits
    <2>2. ASSUME i \in d .. d + n - 1 PROVE \E j \in 1 .. n : i = d + q[j]
      <3>1. i - d + 1 \in 1 .. n /\ i = d + ((i - d + 1) - 1)
        BY <1>1, <2>1, <2>2
      <3> QED BY <1>2, <3>1
    <2>3. ASSUME NEW j \in 1 .. n, i = d + q[j] PROVE i \in d .. d + n - 1
      BY <1>1, <1>2, <2>3
    <2> QED BY <2>2, <2>3
  <1> QED BY <1>4, <1>5 DEF Moved, Placed

\* The loop of memmove from the last byte on, where the destination is above the source.
LEMMA PlacedDownwards ==
  ASSUME NEW m \in Memories, NEW d, NEW s, NEW n, Inside(d, n), Inside(s, n), d > s
  PROVE  Copy(m, d, s, Reverse(Upwards(n))) = Placed(m, d, s, n)
  <1> DEFINE q == Reverse(Upwards(n))
  <1>1. d \in Nat /\ s \in Nat /\ n \in Nat /\ d + n \leq Size /\ s + n \leq Size
    BY DEF Inside
  <1>2. Len(q) = n /\ \A k \in 1 .. n : q[k] = n - k
    <2> DEFINE u == Upwards(n)
    <2>1. Len(u) = n /\ \A k \in 1 .. n : u[k] = k - 1
      BY <1>1 DEF Upwards
    <2> HIDE DEF u
    <2>2. q = [i \in 1 .. n |-> u[(n - i) + 1]]
      BY <2>1 DEF Reverse, u
    <2>3. \A i \in 1 .. n : (n - i) + 1 \in 1 .. n
      BY <1>1
    <2> QED BY <1>1, <2>1, <2>2, <2>3
  <1> HIDE DEF q
  <1>3. InOrder(d, s, q)
    <2> SUFFICES ASSUME NEW k \in 1 .. n
                 PROVE  /\ q[k] \in Int
                        /\ d + q[k] \in Addresses /\ s + q[k] \in Addresses
                        /\ \A j \in 1 .. k - 1 : d + q[j] # s + q[k]
      BY <1>1, <1>2 DEF InOrder
    <2>1. q[k] = n - k /\ \A j \in 1 .. k - 1 : q[j] = n - j
      BY <1>1, <1>2
    <2> QED BY <1>1, <2>1, Limits
  <1>4. Copy(m, d, s, q) = Moved(m, d, s, q, n)
    BY <1>1, <1>2, <1>3, CopyIs
  <1>5. ASSUME NEW i \in Addresses
        PROVE  (\E j \in 1 .. n : i = d + q[j]) <=> i \in d .. d + n - 1
    <2>1. i \in Nat
      BY Limits
    <2>2. ASSUME i \in d .. d + n - 1 PROVE \E j \in 1 .. n : i = d + q[j]
      <3>1. n - (i - d) \in 1 .. n /\ i = d + (n - (n - (i - d)))
        BY <1>1, <2>1, <2>2
      <3> QED BY <1>2, <3>1
    <2>3. ASSUME NEW j \in 1 .. n, i = d + q[j] PROVE i \in d .. d + n - 1
      BY <1>1, <1>2, <2>3
    <2> QED BY <2>2, <2>3
  <1> QED BY <1>4, <1>5 DEF Moved, Placed, q

(***************************************************************************)
(* Strings.                                                                *)
(***************************************************************************)

\* The string at p has length l.
Ends(m, p, l) == /\ l \in Nat /\ p + l \in Addresses /\ m[p + l] = 0
                 /\ \A j \in 0 .. l - 1 : m[p + j] # 0

\* strlen returns the length of a string (string.c:139-145).
LEMMA EndIs ==
  ASSUME NEW m, NEW p \in Nat, NEW l, Ends(m, p, l)
  PROVE  strlen(m, p) = l
  <1> DEFINE End(i) == i \geq p /\ m[i] = 0 /\ \A j \in p .. i - 1 : m[j] # 0
             e == CHOOSE i \in Addresses : End(i)
  <1>1. l \in Nat /\ p + l \in Addresses /\ m[p + l] = 0 /\ \A j \in 0 .. l - 1 : m[p + j] # 0
    BY DEF Ends
  <1>2. p + l \in Addresses /\ End(p + l)
    <2>1. ASSUME NEW j \in p .. p + l - 1 PROVE m[j] # 0
      <3>1. j - p \in 0 .. l - 1 /\ p + (j - p) = j
        BY <1>1
      <3>2. m[p + (j - p)] # 0
        BY <1>1, <3>1
      <3> QED BY <3>1, <3>2
    <2> QED BY <1>1, <2>1
  <1>3. ASSUME NEW i \in Addresses, End(i) PROVE i = p + l
    <2>1. i \in Int /\ i - p \in Nat /\ p + (i - p) = i
      BY <1>3, Limits
    <2>2. ~ i < p + l
      <3>1. i < p + l => i - p \in 0 .. l - 1
        BY <1>1, <2>1
      <3> QED BY <1>1, <1>3, <2>1, <3>1
    <2>3. ~ i > p + l
      <3>1. i > p + l => p + l \in p .. i - 1
        BY <1>1, <2>1
      <3> QED BY <1>1, <1>3, <3>1
    <2> QED BY <1>1, <2>1, <2>2, <2>3
  <1>5. strlen(m, p) = e - p
    BY Zenon DEF strlen
  <1> HIDE DEF End, e
  <1>4. e = p + l
    BY <1>2, <1>3, Zenon DEF e
  <1> QED BY <1>1, <1>4, <1>5

\* A string that has an end has the length that strlen returns.
LEMMA EndOf ==
  ASSUME NEW m, NEW p \in Addresses, Terminated(m, p)
  PROVE  Ends(m, p, strlen(m, p))
  <1> DEFINE T == {i \in Addresses : i \geq p /\ m[i] = 0}
  <1>1. T \in SUBSET Nat /\ T # {} /\ p \in Nat
    BY Limits DEF Terminated
  <1>2. PICK i \in T : \A j \in T : i \leq j
    BY <1>1, Least
  <1>3. i \in Addresses /\ i \in Nat /\ i \geq p /\ m[i] = 0
    BY <1>1, <1>2
  <1>4. ASSUME NEW j \in 0 .. (i - p) - 1 PROVE m[p + j] # 0
    <2>1. p + j \in Addresses /\ p + j \geq p /\ ~ i \leq p + j
      BY <1>1, <1>3, Limits
    <2> QED BY <1>2, <2>1
  <1>5. Ends(m, p, i - p)
    BY <1>1, <1>3, <1>4 DEF Ends
  <1> QED BY <1>1, <1>5, EndIs

\* What the string at p is: its characters from distance 0 on.
Spelled(m, p, l) == /\ String(m, p) = [i \in 1 .. l |-> m[p + i - 1]]
                    /\ Len(String(m, p)) = l

\* The string at p: its characters one by one.
LEMMA StringIs ==
  ASSUME NEW m, NEW p \in Nat, NEW l, Ends(m, p, l)
  PROVE  Spelled(m, p, l)
  <1>1. strlen(m, p) = l /\ l \in Nat
    BY EndIs DEF Ends
  <1>2. String(m, p) = [i \in 1 .. l |-> m[p + i - 1]]
    BY <1>1, Zenon DEF String
  <1> QED BY <1>1, <1>2 DEF Spelled

(***************************************************************************)
(* The functions that write.                                               *)
(***************************************************************************)

\* What is placed is written, all of it from the source.
LEMMA Whole ==
  ASSUME NEW m, NEW p \in Nat, NEW s, NEW n \in Nat
  PROVE  Placed(m, p, s, n) = Written(m, p, s, n, n)
  <1>1. ASSUME NEW i \in Addresses, i \in p .. p + n - 1 PROVE i - p < n
    BY <1>1
  <1> QED BY <1>1 DEF Placed, Written

\* With its end a string is all characters and a zero.
LEMMA WithEnd ==
  ASSUME NEW m, NEW p \in Nat, NEW s \in Nat, NEW l \in Nat, m[s + l] = 0
  PROVE  Placed(m, p, s, l + 1) = Written(m, p, s, l, l + 1)
  <1>1. ASSUME NEW i \in Addresses, i \in p .. p + (l + 1) - 1, ~ i - p < l
        PROVE  m[s + (i - p)] = 0
    <2>1. s + (i - p) = s + l
      BY <1>1
    <2> QED BY <2>1
  <1> QED BY <1>1 DEF Placed, Written

\* Two functions of the addresses that agree at each are the same.
LEMMA SameMemory ==
  ASSUME NEW f, NEW g, f = [i \in Addresses |-> f[i]], g = [i \in Addresses |-> g[i]],
         \A i \in Addresses : f[i] = g[i]
  PROVE  f = g
  OBVIOUS

\* memmove copies where the destination lies in the source, and nothing elsewhere.
LEMMA Memmove ==
  ASSUME NEW m \in Memories, NEW d, NEW s, NEW n, Inside(d, n), Inside(s, n)
  PROVE  memmove(m, d, s, n) = IF d \in s .. s + n - 1 THEN Placed(m, d, s, n) ELSE m
  <1>1. d \in Nat /\ s \in Nat /\ n \in Nat
    BY DEF Inside
  <1>2. CASE d > s /\ d < s + n
    <2>1. d \in s .. s + n - 1
      BY <1>1, <1>2
    <2>2. memmove(m, d, s, n) = Placed(m, d, s, n)
      BY <1>2, PlacedDownwards DEF memmove
    <2> QED BY <2>1, <2>2
  <1>3. CASE ~ (d > s /\ d < s + n)
    <2>1. memmove(m, d, s, n) = m
      BY <1>3 DEF memmove
    <2>2. ASSUME d \in s .. s + n - 1 PROVE Placed(m, d, s, n) = m
      <3>1. d = s
        BY <1>1, <1>3, <2>2
      <3>2. \A i \in Addresses : s + (i - d) = i
        BY <1>1, <3>1, Limits
      <3>3. Placed(m, d, s, n) = [i \in Addresses |-> m[i]]
        BY <3>2 DEF Placed
      <3> QED BY <3>3 DEF Memories
    <2> QED BY <2>1, <2>2
  <1> QED BY <1>2, <1>3

\* strcpy writes the source with its end (string.c:78-90).
LEMMA Strcpy ==
  ASSUME NEW m \in Memories, NEW d \in Nat, NEW s \in Nat, NEW l, Ends(m, s, l), d + l < Size,
         Disjoint(d, l + 1, s, l + 1)
  PROVE  strcpy(m, d, s) = Written(m, d, s, l, l + 1)
  <1>1. l \in Nat /\ s + l \in Addresses /\ strlen(m, s) = l /\ m[s + l] = 0
    BY EndIs DEF Ends
  <1>2. Inside(d, l + 1) /\ Inside(s, l + 1)
    BY <1>1, Limits DEF Inside
  <1>3. memcpy(m, d, s, l + 1) = Placed(m, d, s, l + 1)
    BY <1>2, PlacedUpwards, Zenon
  <1>4. strcpy(m, d, s) = memcpy(m, d, s, l + 1)
    BY <1>1, Zenon DEF strcpy
  <1> QED BY <1>1, <1>3, <1>4, WithEnd

\* Where the source is placed it does not reach itself.
LEMMA BehindDisjoint ==
  ASSUME NEW d \in Nat, NEW s \in Nat, NEW k \in Nat, NEW l \in Nat, NEW c \in Nat, c \leq l,
         d + (k + c) < Size, Disjoint(d, k + c + 1, s, l + 1)
  PROVE  /\ d + k \in Nat /\ (d + k) + c < Size /\ Disjoint(d + k, c + 1, s, l + 1)
         /\ Inside(d + k, c) /\ Disjoint(d + k, c, s, c)
  BY Limits DEF Disjoint, Inside

\* strcat writes it behind the string of the destination.
LEMMA Strcat ==
  ASSUME NEW m \in Memories, NEW d \in Nat, NEW s \in Nat, NEW k, NEW l, Ends(m, d, k),
         Ends(m, s, l), d + (k + l) < Size, Disjoint(d, k + l + 1, s, l + 1)
  PROVE  strcat(m, d, s) = Written(m, d + k, s, l, l + 1)
  <1>1. strlen(m, d) = k /\ k \in Nat /\ l \in Nat
    BY EndIs DEF Ends
  <1>2. d + k \in Nat /\ (d + k) + l < Size /\ Disjoint(d + k, l + 1, s, l + 1)
    BY <1>1, BehindDisjoint
  <1>3. strcpy(m, d + k, s) = Written(m, d + k, s, l, l + 1)
    BY <1>2, Strcpy, Zenon
  <1>4. strcat(m, d, s) = strcpy(m, d + k, s)
    BY <1>1, Zenon DEF strcat
  <1> QED BY <1>3, <1>4

\* memcpy from s to p is what Placed says.
Appends(m, p, s, c) == memcpy(m, p, s, c) = Placed(m, p, s, c)

\* The first c bytes of a source, the loop of strncat.
LEMMA Appended ==
  ASSUME NEW m \in Memories, NEW d \in Nat, NEW s \in Nat, NEW k \in Nat, NEW l, Ends(m, s, l),
         NEW c \in Nat, c \leq l, d + (k + c) < Size, Disjoint(d, k + c + 1, s, l + 1)
  PROVE  Appends(m, d + k, s, c)
  <1>1. l \in Nat /\ s + l \in Addresses
    BY DEF Ends
  <1>2. Inside(d + k, c) /\ Disjoint(d + k, c, s, c)
    BY <1>1, BehindDisjoint
  <1>3. Inside(s, c)
    BY <1>1, Limits DEF Inside
  <1> QED BY <1>2, <1>3, PlacedUpwards, Zenon DEF Appends

\* strncat with room for all of the source writes it there too.
LEMMA Strncat ==
  ASSUME NEW m \in Memories, NEW d \in Nat, NEW s \in Nat, NEW k, NEW l, Ends(m, d, k),
         Ends(m, s, l), d + (k + l) < Size, Disjoint(d, k + l + 1, s, l + 1),
         NEW n \in Nat, l \leq n
  PROVE  strncat(m, d, s, n) = Written(m, d + k, s, l, l + 1)
  <1>1. /\ strlen(m, d) = k /\ strlen(m, s) = l /\ k \in Nat /\ l \in Nat
        /\ s + l \in Addresses /\ m[s + l] = 0
    BY EndIs DEF Ends
  <1>2. (IF l < n THEN l ELSE n) = l /\ l \leq l
    BY <1>1
  <1>3. memcpy(m, d + k, s, l) = Placed(m, d + k, s, l)
    <2>1. Appends(m, d + k, s, l)
      BY <1>1, <1>2, Appended, Zenon
    <2> QED BY <2>1 DEF Appends
  <1>4. strncat(m, d, s, n) = [Placed(m, d + k, s, l) EXCEPT ![d + k + l] = 0]
    BY <1>1, <1>2, <1>3 DEF strncat
  <1>5. [Placed(m, d + k, s, l) EXCEPT ![d + k + l] = 0] = Placed(m, d + k, s, l + 1)
    <2> DEFINE a == Placed(m, d + k, s, l)
               b == Placed(m, d + k, s, l + 1)
               p == d + k + l
    <2>1. ASSUME NEW i \in Addresses PROVE b[i] = IF i = p THEN 0 ELSE a[i]
      <3>1. i \in Nat
        BY Limits
      <3>2. CASE i = p
        <4>1. i \in d + k .. (d + k) + (l + 1) - 1 /\ s + (i - (d + k)) = s + l
          BY <1>1, <3>1, <3>2
        <4> QED BY <1>1, <3>2, <4>1 DEF Placed
      <3>3. CASE i # p
        <4>1. i \in d + k .. (d + k) + (l + 1) - 1 <=> i \in d + k .. (d + k) + l - 1
          BY <1>1, <3>1, <3>3
        <4> QED BY <3>3, <4>1 DEF Placed
      <3> QED BY <3>2, <3>3
    <2>2. a = [i \in Addresses |-> a[i]] /\ b = [i \in Addresses |-> b[i]]
      BY DEF Placed
    <2> HIDE DEF a, b, p
    <2>3. [a EXCEPT ![p] = 0] = [i \in Addresses |-> IF i = p THEN 0 ELSE a[i]]
      BY <2>2
    <2>4. [a EXCEPT ![p] = 0] = b
      BY <2>1, <2>2, <2>3
    <2> QED BY <2>4 DEF a, b, p
  <1>6. Placed(m, d + k, s, l + 1) = Written(m, d + k, s, l, l + 1)
    BY <1>1, WithEnd
  <1> QED BY <1>4, <1>5, <1>6

\* With a longer source the byte behind the n copied ones is the one that was there
\* (string.c:131).
LEMMA StrncatLong ==
  ASSUME NEW m \in Memories, NEW d \in Nat, NEW s \in Nat, NEW k, NEW l, Ends(m, d, k),
         Ends(m, s, l), NEW n \in Nat, n < l,
         d + (k + n) < Size, Disjoint(d, k + n + 1, s, l + 1)
  PROVE  strncat(m, d, s, n)
            = [Written(m, d + k, s, n, n + 1) EXCEPT ![d + k + n] = m[d + k + n]]
  <1>0. /\ strlen(m, d) = k /\ strlen(m, s) = l /\ k \in Nat /\ l \in Nat
        /\ \A j \in 0 .. l - 1 : m[s + j] # 0
    BY EndIs DEF Ends
  <1>1. /\ strlen(m, d) = k /\ strlen(m, s) = l /\ k \in Nat /\ l \in Nat
        /\ m[s + n] # 0 /\ n \leq l
    BY <1>0
  <1>2. (IF l < n THEN l ELSE n) = n
    BY <1>1
  <1>3. memcpy(m, d + k, s, n) = Placed(m, d + k, s, n)
    <2>1. Appends(m, d + k, s, n)
      BY <1>1, Appended, Zenon
    <2> QED BY <2>1 DEF Appends
  <1>4. strncat(m, d, s, n) = Placed(m, d + k, s, n)
    BY <1>1, <1>2, <1>3 DEF strncat
  <1> DEFINE a == Placed(m, d + k, s, n)
             b == Written(m, d + k, s, n, n + 1)
             p == d + k + n
             c == [b EXCEPT ![p] = m[p]]
  <1>5. ASSUME NEW i \in Addresses PROVE a[i] = IF i = p THEN m[p] ELSE b[i]
    <2>1. i \in Nat
      BY Limits
    <2>2. CASE i = p
      <3>1. i \notin d + k .. (d + k) + n - 1
        BY <1>1, <2>2
      <3> QED BY <2>2, <3>1 DEF Placed
    <2>3. CASE i # p
      <3>1. /\ i \in d + k .. (d + k) + (n + 1) - 1 <=> i \in d + k .. (d + k) + n - 1
            /\ i \in d + k .. (d + k) + n - 1 => i - (d + k) < n
        BY <1>1, <2>1, <2>3
      <3> QED BY <2>3, <3>1 DEF Placed, Written
    <2> QED BY <2>2, <2>3
  <1>6. a = [i \in Addresses |-> a[i]] /\ b = [i \in Addresses |-> b[i]]
    BY DEF Placed, Written
  <1> HIDE DEF a, b, p
  <1>7. c = [i \in Addresses |-> IF i = p THEN m[p] ELSE b[i]]
    BY <1>6
  <1>8. a = c
    BY <1>5, <1>6, <1>7
  <1> QED BY <1>4, <1>8 DEF a, b, c, p

\* strncpy with room for the source copies it and clears the rest of the n bytes except
\* the last, which is only right if the source's end is there (string.c:95-105).
LEMMA Strncpy ==
  ASSUME NEW m \in Memories, NEW d \in Nat, NEW s \in Nat, NEW l, Ends(m, s, l),
         NEW n \in Nat, l < n, d + n \leq Size, Disjoint(d, n, s, l + 1)
  PROVE  strncpy(m, d, s, n)
            = IF n = l + 1 THEN Written(m, d, s, l, n)
              ELSE [Written(m, d, s, l, n) EXCEPT ![d + n - 1] = m[d + n - 1]]
  <1> DEFINE c == memcpy(m, d, s, l + 1)
             r == strncpy(m, d, s, n)
             w == Written(m, d, s, l, n)
             e == d + n - 1
  <1>1. strlen(m, s) = l /\ l \in Nat /\ s + l \in Addresses /\ m[s + l] = 0
    BY EndIs DEF Ends
  <1>2. c = Written(m, d, s, l, l + 1)
    <2>1. Inside(d, l + 1) /\ Inside(s, l + 1) /\ Disjoint(d, l + 1, s, l + 1)
      BY <1>1, Limits DEF Disjoint, Inside
    <2>2. c = Placed(m, d, s, l + 1)
      BY <2>1, PlacedUpwards, Zenon
    <2> QED BY <1>1, <2>2, WithEnd
  <1>3. r = memset(c, d + l, 0, ((d + n - 2) + 1) - (d + l))
    BY <1>1 DEF strncpy
  <1>4. r = [i \in Addresses |-> IF i \in d + l .. d + n - 2 THEN 0 ELSE c[i]]
    <2>1. (d + l) + (((d + n - 2) + 1) - (d + l)) - 1 = d + n - 2
      BY <1>1
    <2>2. DOMAIN c = Addresses
      BY <1>2 DEF Written
    <2> HIDE DEF c, r
    <2> QED BY <1>3, <2>1, <2>2 DEF memset
  <1>5. ASSUME NEW i \in Addresses
        PROVE  r[i] = IF i = e /\ n # l + 1 THEN m[i] ELSE w[i]
    <2>1. i \in Nat
      BY Limits
    <2>2. CASE i \in d + l .. d + n - 2
      <3>1. i # e /\ i \in d .. d + n - 1 /\ ~ i - d < l
        BY <1>1, <2>1, <2>2
      <3> QED BY <1>4, <2>2, <3>1 DEF Written
    <2>3. CASE i \notin d + l .. d + n - 2
      <3>1. r[i] = c[i]
        BY <1>4, <2>3
      <3>2. CASE i \in d .. d + (l + 1) - 1
        <4>1. i \in d .. d + n - 1 /\ (i = e => n = l + 1)
          BY <1>1, <2>1, <2>3, <3>2
        <4> QED BY <1>2, <3>1, <3>2, <4>1 DEF Written
      <3>3. CASE i \notin d .. d + (l + 1) - 1
        <4>1. c[i] = m[i]
          BY <1>2, <3>3 DEF Written
        <4>2. i \notin d .. d + n - 1 \/ (i = e /\ n # l + 1)
          BY <1>1, <2>1, <2>3, <3>3
        <4> QED BY <3>1, <4>1, <4>2 DEF Written
      <3> QED BY <3>2, <3>3
    <2> QED BY <2>2, <2>3
  <1>6. r = [i \in Addresses |-> r[i]] /\ w = [i \in Addresses |-> w[i]]
    BY <1>4 DEF Written
  <1> HIDE DEF r, w, e, c
  <1>7. CASE n = l + 1
    BY <1>5, <1>6, <1>7, SameMemory DEF r, w
  <1>8. CASE n # l + 1
    <2>1. [w EXCEPT ![e] = m[e]] = [i \in Addresses |-> IF i = e THEN m[e] ELSE w[i]]
      BY <1>6
    <2>2. r = [w EXCEPT ![e] = m[e]]
      BY <1>5, <1>6, <1>8, <2>1
    <2> QED BY <1>8, <2>2 DEF r, w, e
  <1> QED BY <1>7, <1>8

\* A source that fills the n bytes is copied up to there, and all behind is cleared: n
\* has wrapped (string.c:103).
LEMMA StrncpyLong ==
  ASSUME NEW m \in Memories, NEW d \in Nat, NEW s \in Nat, NEW l, Ends(m, s, l),
         NEW n \in Nat, n \leq l, d + n \leq Size, Disjoint(d, n, s, l + 1)
  PROVE  strncpy(m, d, s, n)
            = [i \in Addresses |-> IF i \geq d + n THEN 0 ELSE Written(m, d, s, n, n)[i]]
  <1> DEFINE c == memcpy(m, d, s, n)
             r == strncpy(m, d, s, n)
  <1>1. strlen(m, s) = l /\ l \in Nat /\ s + l \in Addresses
    BY EndIs DEF Ends
  <1>2. c = Written(m, d, s, n, n)
    <2>1. Inside(d, n) /\ Inside(s, n) /\ Disjoint(d, n, s, n)
      BY <1>1, Limits DEF Disjoint, Inside
    <2>2. c = Placed(m, d, s, n)
      BY <2>1, PlacedUpwards, Zenon
    <2> QED BY <2>2, Whole
  <1>3. r = memset(c, d + n, 0, ((Size - 1) + 1) - (d + n))
    <2> DEFINE x == strlen(m, s)
               end == IF x < n THEN d + n - 2 ELSE Size - 1
               from == IF x < n THEN d + x ELSE d + n
               count == IF x < n THEN x + 1 ELSE n
    <2>1. r = memset(memcpy(m, d, s, count), from, 0, end + 1 - from)
      BY Zenon DEF strncpy
    <2>2. end = Size - 1 /\ from = d + n /\ count = n
      <3>1. ~ x < n
        BY <1>1
      <3> QED BY <3>1, Zenon
    <2> HIDE DEF r, end, from, count
    <2>3. memcpy(m, d, s, count) = c
      BY <2>2
    <2> HIDE DEF c
    <2> QED BY <2>1, <2>2, <2>3
  <1>4. DOMAIN c = Addresses
    BY <1>2 DEF Written
  <1> HIDE DEF c, r
  <1>5. \A i \in Addresses :
            i \in d + n .. (d + n) + (((Size - 1) + 1) - (d + n)) - 1 <=> i \geq d + n
    BY Limits
  <1>6. r = [i \in Addresses |-> IF i \geq d + n THEN 0 ELSE c[i]]
    BY <1>3, <1>4, <1>5 DEF memset
  <1> QED BY <1>2, <1>6 DEF r

(***************************************************************************)
(* The functions that compare.                                             *)
(***************************************************************************)

\* e is the first of the distances below n at which the bytes differ, or n.
Differ(m, a, b, n, e) ==
    /\ e \in 0 .. n
    /\ e < n => m[a + e] # m[b + e]
    /\ \A j \in 0 .. e - 1 : m[a + j] = m[b + j]

\* e is the first of the distances below n at which they differ or both strings end, or n.
Stop(m, a, b, n, e) ==
    /\ e \in 0 .. n
    /\ e < n => m[a + e] = 0 \/ m[a + e] # m[b + e]
    /\ \A j \in 0 .. e - 1 : m[a + j] # 0 /\ m[a + j] = m[b + j]

FirstDifferent(m, a, b, n) == FirstOf(n, LAMBDA k : m[a + k] # m[b + k])
FirstStop(m, a, b, n) == FirstOf(n, LAMBDA k : m[a + k] = 0 \/ m[a + k] # m[b + k])

\* memcmp's loop stops where the bytes first differ.
LEMMA FirstDiffers ==
  ASSUME NEW m, NEW a, NEW b, NEW n \in Nat
  PROVE  Differ(m, a, b, n, FirstDifferent(m, a, b, n))
  <1> DEFINE Q(k) == m[a + k] # m[b + k]
             First(i) == Q(i) /\ \A j \in 0 .. i - 1 : ~ Q(j)
             e == IF \E i \in 0 .. n - 1 : Q(i) THEN CHOOSE i \in 0 .. n - 1 : First(i) ELSE n
  <1> SUFFICES Differ(m, a, b, n, e)
    BY DEF FirstDifferent, FirstOf
  <1>2. CASE \E i \in 0 .. n - 1 : Q(i)
    <2> DEFINE T == {i \in 0 .. n - 1 : Q(i)}
    <2>1. T \in SUBSET Nat /\ T # {}
      BY <1>2
    <2>2. PICK i \in T : \A j \in T : i \leq j
      BY <2>1, Least
    <2>3. i \in 0 .. n - 1 /\ First(i)
      <3>1. \A j \in 0 .. i - 1 : j \in 0 .. n - 1 /\ ~ i \leq j
        BY <2>1
      <3> QED BY <2>2, <3>1
    <2>4. e = CHOOSE k \in 0 .. n - 1 : First(k)
      BY <1>2
    <2> HIDE DEF First, e
    <2>5. e \in 0 .. n - 1 /\ First(e)
      BY <2>3, <2>4, Zenon
    <2> QED BY <2>5 DEF First, Differ
  <1>3. CASE ~ \E i \in 0 .. n - 1 : Q(i)
    <2>1. e = n /\ \A j \in 0 .. n - 1 : ~ Q(j)
      BY <1>3
    <2> HIDE DEF e
    <2> QED BY <2>1 DEF Differ
  <1> QED BY <1>2, <1>3

\* The loop of strcmp and strncmp stops where a string ends or the two first differ.
LEMMA FirstStops ==
  ASSUME NEW m, NEW a, NEW b, NEW n \in Nat
  PROVE  Stop(m, a, b, n, FirstStop(m, a, b, n))
  <1> DEFINE Q(k) == m[a + k] = 0 \/ m[a + k] # m[b + k]
             First(i) == Q(i) /\ \A j \in 0 .. i - 1 : ~ Q(j)
             e == IF \E i \in 0 .. n - 1 : Q(i) THEN CHOOSE i \in 0 .. n - 1 : First(i) ELSE n
  <1> SUFFICES Stop(m, a, b, n, e)
    BY DEF FirstStop, FirstOf
  <1>2. CASE \E i \in 0 .. n - 1 : Q(i)
    <2> DEFINE T == {i \in 0 .. n - 1 : Q(i)}
    <2>1. T \in SUBSET Nat /\ T # {}
      BY <1>2
    <2>2. PICK i \in T : \A j \in T : i \leq j
      BY <2>1, Least
    <2>3. i \in 0 .. n - 1 /\ First(i)
      <3>1. \A j \in 0 .. i - 1 : j \in 0 .. n - 1 /\ ~ i \leq j
        BY <2>1
      <3> QED BY <2>2, <3>1
    <2>4. e = CHOOSE k \in 0 .. n - 1 : First(k)
      BY <1>2
    <2> HIDE DEF First, e
    <2>5. e \in 0 .. n - 1 /\ First(e)
      BY <2>3, <2>4, Zenon
    <2> QED BY <2>5 DEF First, Stop
  <1>3. CASE ~ \E i \in 0 .. n - 1 : Q(i)
    <2>1. e = n /\ \A j \in 0 .. n - 1 : ~ Q(j)
      BY <1>3
    <2> HIDE DEF e
    <2> QED BY <2>1 DEF Stop
  <1> QED BY <1>2, <1>3

\* The sequence u is the l bytes at p.
Reads(u, m, p, l) ==
    /\ l \in Nat /\ p \in Nat /\ DOMAIN u = 1 .. l /\ Len(u) = l
    /\ \A j \in 0 .. l - 1 : u[j + 1] = m[p + j] /\ m[p + j] \in Int

\* The first c places of two sequences of p and q bytes are equal, and the next tells
\* which is less; x and y are what is there, the end being less than a byte.
Decides(m, a, p, b, q, c, x, y) ==
    /\ c \in Nat /\ c \leq p /\ c \leq q /\ x \in Int /\ y \in Int
    /\ \A j \in 0 .. c - 1 : m[a + j] = m[b + j]
    /\ c < p => x = m[a + c]
    /\ c < q => y = m[b + c]
    /\ c < p /\ c < q => x # y
    /\ c = p /\ c < q => x < y
    /\ c = q /\ c < p => y < x
    /\ c = p /\ c = q => x = y

\* The first difference decides which of two sequences is less.
LEMMA DecidesLess ==
  ASSUME NEW u, NEW v, NEW m, NEW a, NEW b, NEW p, NEW q, NEW c, NEW x, NEW y,
         Reads(u, m, a, p), Reads(v, m, b, q), Decides(m, a, p, b, q, c, x, y)
  PROVE  Less(u, v) <=> x < y
  <1>1. /\ c \in Nat /\ p \in Nat /\ q \in Nat /\ c \leq p /\ c \leq q /\ x \in Int /\ y \in Int
        /\ DOMAIN u = 1 .. p /\ Len(v) = q
    BY DEF Reads, Decides
  <1>2. ASSUME NEW j \in 1 .. c PROVE u[j] = v[j] /\ u[j] \in Int
    <2>1. j - 1 \in 0 .. c - 1 /\ j - 1 \in 0 .. p - 1 /\ j - 1 \in 0 .. q - 1 /\ (j - 1) + 1 = j
      BY <1>1
    <2>2. u[(j - 1) + 1] = m[a + (j - 1)] /\ m[a + (j - 1)] \in Int
      BY <2>1 DEF Reads
    <2>3. v[(j - 1) + 1] = m[b + (j - 1)]
      BY <2>1 DEF Reads
    <2>4. m[a + (j - 1)] = m[b + (j - 1)]
      BY <2>1 DEF Decides
    <2> QED BY <2>1, <2>2, <2>3, <2>4
  <1>3. c < p => u[c + 1] = x
    <2>1. c < p => c \in 0 .. p - 1
      BY <1>1
    <2> QED BY <2>1 DEF Reads, Decides
  <1>4. c < q => v[c + 1] = y
    <2>1. c < q => c \in 0 .. q - 1
      BY <1>1
    <2> QED BY <2>1 DEF Reads, Decides
  <1>5. /\ c < p /\ c < q => x # y
        /\ c = p /\ c < q => x < y
        /\ c = q /\ c < p => y < x
        /\ c = p /\ c = q => x = y
    BY DEF Decides
  <1>6. ASSUME x < y PROVE Less(u, v)
    <2>1. c + 1 \in 1 .. q /\ c < q
      BY <1>1, <1>5, <1>6
    <2>2. \A j \in 1 .. (c + 1) - 1 : j \in DOMAIN u /\ u[j] = v[j]
      BY <1>1, <1>2
    <2>3. c + 1 \notin DOMAIN u \/ u[c + 1] < v[c + 1]
      BY <1>1, <1>3, <1>4, <1>6, <2>1
    <2> QED BY <1>1, <2>1, <2>2, <2>3 DEF Less
  <1>7. ASSUME Less(u, v) PROVE x < y
    <2>1. PICK i \in 1 .. q : /\ \A j \in 1 .. i - 1 : j \in DOMAIN u /\ u[j] = v[j]
                              /\ i \notin DOMAIN u \/ u[i] < v[i]
      BY <1>1, <1>7 DEF Less
    <2>2. CASE i \leq c
      <3>1. i \in 1 .. c /\ i \in DOMAIN u
        BY <1>1, <2>2
      <3>2. u[i] = v[i] /\ u[i] \in Int
        BY <1>2, <3>1
      <3> QED BY <2>1, <3>1, <3>2
    <2>3. CASE i > c + 1
      <3>1. c + 1 \in 1 .. i - 1 /\ c < q
        BY <1>1, <2>3
      <3>2. c + 1 \in DOMAIN u /\ u[c + 1] = v[c + 1]
        BY <2>1, <3>1
      <3> QED BY <1>1, <1>3, <1>4, <1>5, <3>1, <3>2
    <2>4. CASE i = c + 1
      <3>1. c < q
        BY <1>1, <2>4
      <3>2. c < p \/ c = p
        BY <1>1
      <3>3. c < p => c + 1 \in DOMAIN u
        BY <1>1
      <3> QED BY <1>3, <1>4, <1>5, <2>1, <2>4, <3>1, <3>2, <3>3
    <2> QED BY <1>1, <2>2, <2>3, <2>4
  <1> QED BY <1>6, <1>7

\* The sign of x - y is what a comparison returns.
LEMMA DecidesAgrees ==
  ASSUME NEW u, NEW v, NEW m, NEW a, NEW b, NEW p, NEW q, NEW c, NEW x, NEW y,
         Reads(u, m, a, p), Reads(v, m, b, q), Decides(m, a, p, b, q, c, x, y)
  PROVE  Agrees(x - y, u, v)
  <1>1. x \in Int /\ y \in Int
    BY DEF Decides
  <1>2. Less(u, v) <=> x < y
    BY DecidesLess, Zenon
  <1>3. Decides(m, b, q, a, p, c, y, x)
    BY DEF Decides
  <1>4. Less(v, u) <=> y < x
    BY <1>3, DecidesLess, Zenon
  <1>5. (x - y < 0 <=> x < y) /\ (x - y > 0 <=> y < x)
    BY <1>1
  <1> QED BY <1>2, <1>4, <1>5 DEF Agrees

\* The signed characters of 7 bits are the bytes.
SevenBits == Bytes \subseteq 0 .. 127

\* A byte of 7 bits is the same as a signed character.
LEMMA Letter ==
  ASSUME SevenBits, NEW m \in Memories, NEW i \in Addresses
  PROVE  m[i] \in 0 .. 127 /\ Char(m[i]) = m[i]
  <1>1. m[i] \in Bytes
    BY Limits
  <1>2. m[i] \in 0 .. 127
    BY <1>1 DEF SevenBits
  <1> QED BY <1>2 DEF Char

\* An area is a sequence of its bytes.
LEMMA AreaReads ==
  ASSUME NEW m \in Memories, NEW p, NEW n, Inside(p, n)
  PROVE  Reads(Area(m, p, n), m, p, n)
  <1> DEFINE u == Area(m, p, n)
  <1>1. p \in Nat /\ n \in Nat /\ p + n \leq Size
    BY DEF Inside
  <1>2. u = [i \in 1 .. n |-> m[p + i - 1]] /\ DOMAIN u = 1 .. n /\ Len(u) = n
    BY <1>1 DEF Area
  <1> HIDE DEF u
  <1>3. ASSUME NEW j \in 0 .. n - 1 PROVE u[j + 1] = m[p + j] /\ m[p + j] \in Int
    <2>1. j + 1 \in 1 .. n /\ p + (j + 1) - 1 = p + j /\ p + j \in Addresses
      BY <1>1, Limits
    <2>2. m[p + j] \in 0 .. 255
      BY <2>1, Limits
    <2>3. u[j + 1] = m[p + (j + 1) - 1]
      BY <1>2, <2>1
    <2> QED BY <2>1, <2>2, <2>3
  <1>4. Reads(u, m, p, n)
    BY <1>1, <1>2, <1>3, Zenon DEF Reads
  <1> QED BY <1>4 DEF u

\* A string is a sequence of the bytes before its end.
LEMMA StringReads ==
  ASSUME NEW m \in Memories, NEW p \in Nat, NEW l, Ends(m, p, l)
  PROVE  Reads(String(m, p), m, p, l)
  <1>1. Inside(p, l)
    BY Limits DEF Ends, Inside
  <1>2. String(m, p) = Area(m, p, l)
    <2>1. Spelled(m, p, l)
      BY StringIs, Zenon
    <2> QED BY <2>1, Zenon DEF Spelled, Area
  <1> QED BY <1>1, <1>2, AreaReads, Zenon

\* The first n characters of a string, or all.
LEMMA HeadReads ==
  ASSUME NEW m \in Memories, NEW p \in Nat, NEW l, Ends(m, p, l), NEW n \in Nat
  PROVE  Reads(SubSeq(String(m, p), 1, Lower(n, l)), m, p, Lower(n, l))
  <1> DEFINE u == String(m, p)
             k == Lower(n, l)
             v == SubSeq(u, 1, k)
  <1>1. /\ l \in Nat /\ DOMAIN u = 1 .. l /\ Len(u) = l
        /\ \A j \in 0 .. l - 1 : u[j + 1] = m[p + j] /\ m[p + j] \in Int
    <2>1. Reads(u, m, p, l)
      BY StringReads, Zenon
    <2> HIDE DEF u
    <2> QED BY <2>1, Zenon DEF Reads
  <1>2. k \in Nat /\ k \leq l
    BY <1>1 DEF Lower
  <1> HIDE DEF u, k
  <1>3. ASSUME NEW i \in 1 .. k PROVE u[i] \in Int
    <2>1. i - 1 \in 0 .. l - 1 /\ (i - 1) + 1 = i
      BY <1>1, <1>2
    <2>2. u[(i - 1) + 1] = m[p + (i - 1)] /\ m[p + (i - 1)] \in Int
      BY <1>1, <2>1
    <2> QED BY <2>1, <2>2
  <1>4. /\ v \in Seq(Int) /\ Len(v) = (IF 1 \leq k THEN k - 1 + 1 ELSE 0)
        /\ \A i \in 1 .. k - 1 + 1 : v[i] = u[1 + i - 1]
    <2>1. 1 \in Int /\ k \in Int
      BY <1>2
    <2> QED BY <1>3, <2>1, SubSeqProperties
  <1> HIDE DEF v
  <1>5. Len(v) = k /\ DOMAIN v = 1 .. k
    BY <1>2, <1>4
  <1>6. ASSUME NEW j \in 0 .. k - 1 PROVE v[j + 1] = m[p + j] /\ m[p + j] \in Int
    <2>1. j \in 0 .. l - 1 /\ j + 1 \in 1 .. k - 1 + 1 /\ 1 + (j + 1) - 1 = j + 1
      BY <1>1, <1>2
    <2> QED BY <1>1, <1>4, <2>1
  <1>7. Reads(v, m, p, k)
    BY <1>2, <1>5, <1>6, Zenon DEF Reads
  <1> QED BY <1>7 DEF v, k, u

\* memcmp orders two areas.
LEMMA Memcmp ==
  ASSUME SevenBits, NEW m \in Memories, NEW a, NEW b, NEW n, Inside(a, n), Inside(b, n)
  PROVE  Agrees(memcmp(m, a, b, n), Area(m, a, n), Area(m, b, n))
  <1> DEFINE e == FirstDifferent(m, a, b, n)
             u == Area(m, a, n)
             v == Area(m, b, n)
  <1>1. a \in Nat /\ b \in Nat /\ n \in Nat /\ a + n \leq Size /\ b + n \leq Size
    BY DEF Inside
  <1>2. Reads(u, m, a, n) /\ Reads(v, m, b, n)
    BY AreaReads, Zenon
  <1>3. memcmp(m, a, b, n) = IF e = n THEN 0 ELSE Difference(m, a, b, e)
    BY Zenon DEF memcmp, FirstDifferent
  <1>4. Differ(m, a, b, n, e)
    BY <1>1, FirstDiffers, Zenon
  <1> HIDE DEF e, u, v
  <1>5. CASE e = n
    <2>1. Decides(m, a, n, b, n, n, 0, 0)
      BY <1>1, <1>4, <1>5 DEF Decides, Differ
    <2>2. Agrees(0 - 0, u, v)
      BY <1>2, <2>1, DecidesAgrees, Zenon
    <2> QED BY <1>3, <1>5, <2>2 DEF u, v
  <1>6. CASE e # n
    <2>1. a + e \in Addresses /\ b + e \in Addresses
      BY <1>1, <1>4, <1>6, Limits DEF Differ
    <2>2. /\ m[a + e] \in 0 .. 127 /\ Char(m[a + e]) = m[a + e]
          /\ m[b + e] \in 0 .. 127 /\ Char(m[b + e]) = m[b + e]
      BY <2>1, Letter
    <2>3. Decides(m, a, n, b, n, e, m[a + e], m[b + e])
      BY <1>1, <1>4, <1>6, <2>2 DEF Decides, Differ
    <2>4. Agrees(m[a + e] - m[b + e], u, v)
      BY <1>2, <2>3, DecidesAgrees, Zenon
    <2>5. Difference(m, a, b, e) = m[a + e] - m[b + e]
      BY <2>2, Zenon DEF Difference
    <2> QED BY <1>3, <1>6, <2>4, <2>5, Zenon DEF u, v
  <1> QED BY <1>5, <1>6

\* Neither string has ended before the place where the comparison stops.
Within(m, a, b, k, l, e) ==
    /\ e \in Nat /\ e \leq k /\ e \leq l /\ k \in Nat /\ l \in Nat
    /\ a + e \in Addresses /\ b + e \in Addresses
    /\ m[a + e] = 0 <=> e = k
    /\ m[b + e] = 0 <=> e = l

LEMMA StopInside ==
  ASSUME NEW m \in Memories, NEW a \in Nat, NEW b \in Nat, NEW n \in Nat, NEW k, NEW l, NEW e,
         Ends(m, a, k), Ends(m, b, l), Stop(m, a, b, n, e)
  PROVE  Within(m, a, b, k, l, e)
  <1>1. /\ k \in Nat /\ a + k \in Addresses /\ m[a + k] = 0 /\ \A j \in 0 .. k - 1 : m[a + j] # 0
        /\ l \in Nat /\ b + l \in Addresses /\ m[b + l] = 0 /\ \A j \in 0 .. l - 1 : m[b + j] # 0
    BY DEF Ends
  <1>2. /\ e \in 0 .. n
        /\ \A j \in 0 .. e - 1 : m[a + j] # 0 /\ m[a + j] = m[b + j]
    BY DEF Stop
  <1>3. e \leq k
    <2>1. k < e => k \in 0 .. e - 1
      BY <1>1, <1>2
    <2> QED BY <1>1, <1>2, <2>1
  <1>4. e \leq l
    <2>1. l < e => l \in 0 .. e - 1
      BY <1>1, <1>2
    <2> QED BY <1>1, <1>2, <2>1
  <1>5. a + e \in Addresses /\ b + e \in Addresses
    BY <1>1, <1>2, <1>3, <1>4, Limits
  <1>6. m[a + e] = 0 <=> e = k
    <2>1. e # k => e \in 0 .. k - 1
      BY <1>1, <1>2, <1>3
    <2> QED BY <1>1, <2>1
  <1>7. m[b + e] = 0 <=> e = l
    <2>1. e # l => e \in 0 .. l - 1
      BY <1>1, <1>2, <1>4
    <2> QED BY <1>1, <2>1
  <1> QED BY <1>1, <1>2, <1>3, <1>4, <1>5, <1>6, <1>7 DEF Within

\* strncmp orders the first n characters of two strings.
LEMMA Strncmp ==
  ASSUME SevenBits, NEW m \in Memories, NEW a \in Nat, NEW b \in Nat, NEW k, NEW l,
         Ends(m, a, k), Ends(m, b, l), NEW n \in Nat
  PROVE  Agrees(strncmp(m, a, b, n),
                SubSeq(String(m, a), 1, Lower(n, k)), SubSeq(String(m, b), 1, Lower(n, l)))
  <1> DEFINE e == FirstStop(m, a, b, n)
             p == Lower(n, k)
             q == Lower(n, l)
             u == SubSeq(String(m, a), 1, p)
             v == SubSeq(String(m, b), 1, q)
  <1>1. Reads(u, m, a, p) /\ Reads(v, m, b, q)
    BY HeadReads, Zenon
  <1>2. strncmp(m, a, b, n) = IF e = n THEN 0 ELSE Difference(m, a, b, e)
    BY Zenon DEF strncmp, FirstStop
  <1>3. Stop(m, a, b, n, e)
    BY FirstStops, Zenon
  <1> HIDE DEF e, u, v
  <1>4. /\ e \in Nat /\ e \leq k /\ e \leq l /\ k \in Nat /\ l \in Nat
        /\ a + e \in Addresses /\ b + e \in Addresses
        /\ m[a + e] = 0 <=> e = k
        /\ m[b + e] = 0 <=> e = l
    <2>1. Within(m, a, b, k, l, e)
      BY <1>3, StopInside, Zenon
    <2> QED BY <2>1, Zenon DEF Within
  <1>5. p \in Nat /\ q \in Nat /\ e \leq p /\ e \leq q /\ e \leq n
    BY <1>3, <1>4 DEF Lower, Stop
  <1>6. \A j \in 0 .. e - 1 : m[a + j] = m[b + j]
    BY <1>3 DEF Stop
  <1>7. CASE e = n
    <2>1. p = e /\ q = e
      BY <1>4, <1>5, <1>7 DEF Lower
    <2>2. Decides(m, a, p, b, q, e, 0, 0)
      BY <1>4, <1>6, <2>1 DEF Decides
    <2>3. Agrees(0 - 0, u, v)
      BY <1>1, <2>2, DecidesAgrees, Zenon
    <2> QED BY <1>2, <1>7, <2>3 DEF u, v
  <1>8. CASE e # n
    <2>1. /\ m[a + e] \in 0 .. 127 /\ Char(m[a + e]) = m[a + e]
          /\ m[b + e] \in 0 .. 127 /\ Char(m[b + e]) = m[b + e]
      BY <1>4, Letter
    <2>2. /\ m[a + e] = 0 \/ m[a + e] # m[b + e]
          /\ e = p <=> e = k
          /\ e = q <=> e = l
      BY <1>3, <1>4, <1>5, <1>8 DEF Stop, Lower
    <2>3. Decides(m, a, p, b, q, e, m[a + e], m[b + e])
      BY <1>4, <1>5, <1>6, <2>1, <2>2 DEF Decides
    <2>4. Agrees(m[a + e] - m[b + e], u, v)
      BY <1>1, <2>3, DecidesAgrees, Zenon
    <2>5. Difference(m, a, b, e) = m[a + e] - m[b + e]
      BY <2>1, Zenon DEF Difference
    <2> QED BY <1>2, <1>8, <2>4, <2>5, Zenon DEF u, v
  <1> QED BY <1>7, <1>8

\* One string is the beginning of another.
Begins(m, a, b, k, l) == k \leq l /\ \A j \in 0 .. k - 1 : m[a + j] = m[b + j]

\* IsPrefix in terms of the memory.
LEMMA PrefixIs ==
  ASSUME NEW m, NEW u, NEW v, NEW a, NEW b, NEW k, NEW l, Reads(u, m, a, k), Reads(v, m, b, l)
  PROVE  IsPrefix(u, v) <=> Begins(m, a, b, k, l)
  <1>1. /\ k \in Nat /\ l \in Nat /\ Len(u) = k /\ Len(v) = l
        /\ \A j \in 0 .. k - 1 : u[j + 1] = m[a + j]
        /\ \A j \in 0 .. l - 1 : v[j + 1] = m[b + j]
    BY DEF Reads
  <1>2. IsPrefix(u, v) <=> k \leq l /\ SubSeq(u, 1, k) = SubSeq(v, 1, k)
    BY <1>1, Zenon DEF IsPrefix
  <1>3. SubSeq(u, 1, k) = [i \in 1 .. k |-> u[i]] /\ SubSeq(v, 1, k) = [i \in 1 .. k |-> v[i]]
    BY <1>1
  <1>4. (SubSeq(u, 1, k) = SubSeq(v, 1, k)) <=> \A i \in 1 .. k : u[i] = v[i]
    BY <1>3
  <1>5. ASSUME k \leq l
        PROVE  (\A i \in 1 .. k : u[i] = v[i]) <=> \A j \in 0 .. k - 1 : m[a + j] = m[b + j]
    <2>1. ASSUME \A i \in 1 .. k : u[i] = v[i], NEW j \in 0 .. k - 1
          PROVE  m[a + j] = m[b + j]
      <3>1. j + 1 \in 1 .. k /\ j \in 0 .. l - 1
        BY <1>1, <1>5
      <3> QED BY <1>1, <2>1, <3>1
    <2>2. ASSUME \A j \in 0 .. k - 1 : m[a + j] = m[b + j], NEW i \in 1 .. k
          PROVE  u[i] = v[i]
      <3>1. i - 1 \in 0 .. k - 1 /\ i - 1 \in 0 .. l - 1 /\ (i - 1) + 1 = i
        BY <1>1, <1>5
      <3>2. m[a + (i - 1)] = m[b + (i - 1)] /\ u[(i - 1) + 1] = m[a + (i - 1)]
        BY <1>1, <2>2, <3>1
      <3>3. v[(i - 1) + 1] = m[b + (i - 1)]
        BY <1>1, <3>1
      <3> QED BY <3>1, <3>2, <3>3
    <2> QED BY <2>1, <2>2
  <1> QED BY <1>2, <1>4, <1>5 DEF Begins

\* strcmp orders two strings of which the first is not the beginning of the second.
LEMMA Strcmp ==
  ASSUME SevenBits, NEW m \in Memories, NEW a \in Nat, NEW b \in Nat, NEW k, NEW l,
         Ends(m, a, k), Ends(m, b, l)
  PROVE  IF IsPrefix(String(m, a), String(m, b)) THEN strcmp(m, a, b) = 0
         ELSE Agrees(strcmp(m, a, b), String(m, a), String(m, b))
  <1> DEFINE e == FirstStop(m, a, b, Size)
             u == String(m, a)
             v == String(m, b)
  <1>1. Reads(u, m, a, k) /\ Reads(v, m, b, l)
    BY StringReads, Zenon
  <1>2. strcmp(m, a, b) = IF m[a + e] = 0 THEN 0 ELSE Difference(m, a, b, e)
    BY Zenon DEF strcmp, FirstStop
  <1>3. Size \in Nat /\ Stop(m, a, b, Size, e)
    BY Limits, FirstStops, Zenon
  <1> HIDE DEF e, u, v
  <1>4. /\ e \in Nat /\ e \leq k /\ e \leq l /\ k \in Nat /\ l \in Nat
        /\ a + e \in Addresses /\ b + e \in Addresses
        /\ m[a + e] = 0 <=> e = k
        /\ m[b + e] = 0 <=> e = l
    <2>1. Within(m, a, b, k, l, e)
      BY <1>3, StopInside, Zenon
    <2> QED BY <2>1, Zenon DEF Within
  <1>5. e # Size
    BY <1>4, Limits
  <1>6. /\ m[a + e] = 0 \/ m[a + e] # m[b + e]
        /\ \A j \in 0 .. e - 1 : m[a + j] = m[b + j]
    <2>1. e \in 0 .. Size /\ (e < Size => m[a + e] = 0 \/ m[a + e] # m[b + e])
      BY <1>3, Zenon DEF Stop
    <2>2. \A j \in 0 .. e - 1 : m[a + j] = m[b + j]
      BY <1>3, Zenon DEF Stop
    <2>3. e < Size
      BY <1>3, <1>5, <2>1
    <2> QED BY <2>1, <2>2, <2>3
  <1>7. IsPrefix(u, v) <=> k \leq l /\ \A j \in 0 .. k - 1 : m[a + j] = m[b + j]
    <2>1. IsPrefix(u, v) <=> Begins(m, a, b, k, l)
      BY <1>1, PrefixIs, Zenon
    <2> QED BY <2>1, Zenon DEF Begins
  <1>8. CASE e = k
    <2>1. IsPrefix(u, v)
      BY <1>4, <1>6, <1>7, <1>8
    <2>2. strcmp(m, a, b) = 0
      BY <1>2, <1>4, <1>8
    <2> QED BY <2>1, <2>2 DEF u, v
  <1>9. CASE e # k
    <2>1. e \in 0 .. k - 1
      BY <1>4, <1>9
    <2>2. m[a + e] # 0 /\ m[a + e] # m[b + e] /\ ~ IsPrefix(u, v)
      BY <1>4, <1>6, <1>7, <1>9, <2>1
    <2>3. /\ m[a + e] \in 0 .. 127 /\ Char(m[a + e]) = m[a + e]
          /\ m[b + e] \in 0 .. 127 /\ Char(m[b + e]) = m[b + e]
      BY <1>4, Letter
    <2>4. Decides(m, a, k, b, l, e, m[a + e], m[b + e])
      BY <1>4, <1>6, <1>9, <2>2, <2>3 DEF Decides
    <2>5. Agrees(m[a + e] - m[b + e], u, v)
      BY <1>1, <2>4, DecidesAgrees, Zenon
    <2>6. strcmp(m, a, b) = m[a + e] - m[b + e]
      BY <1>2, <2>2, <2>3 DEF Difference
    <2> QED BY <2>2, <2>5, <2>6, Zenon DEF u, v
  <1> QED BY <1>8, <1>9

(***************************************************************************)
(* A call, before and after it has returned.                               *)
(***************************************************************************)
Argued(fn, m, d, s, n) ==
    /\ m \in Memories /\ d \in Addresses /\ s \in Addresses /\ n \in Nat
    /\ Defined(fn, m, d, s, n)

Argument ==
    \/ Argued(call.fn, call.m, call.d, call.s, call.n)
    \/ call.fn = "itoa"

Answer == result = None \/ result = <<Apply>>

IInv == Argument /\ Answer

\* A call keeps its arguments, and returns what its function makes of them.
THEOREM Inductive == Spec => []IInv
  <1>1. Init => IInv
    <2> SUFFICES ASSUME Init PROVE IInv
      OBVIOUS
    <2>1. CASE \E fn \in StringCalls, m \in [Addresses -> Bytes], d, s \in Addresses,
                  n \in 0 .. MaxCount :
                 /\ Defined(fn, m, d, s, n)
                 /\ call = [fn |-> fn, m |-> m, d |-> d, s |-> s, n |-> n]
      <3>1. PICK fn \in StringCalls, m \in [Addresses -> Bytes], d \in Addresses,
                 s \in Addresses, n \in 0 .. MaxCount :
                   /\ Defined(fn, m, d, s, n)
                   /\ call = [fn |-> fn, m |-> m, d |-> d, s |-> s, n |-> n]
        BY <2>1
      <3>2. call.fn = fn /\ call.m = m /\ call.d = d /\ call.s = s /\ call.n = n
        BY <3>1
      <3>3. n \in Nat
        BY LibcAssumption
      <3>4. Argued(call.fn, call.m, call.d, call.s, call.n)
        BY <3>1, <3>2, <3>3, Zenon DEF Argued, Memories
      <3> QED BY <3>4 DEF Init, IInv, Argument, Answer
    <2>2. CASE \E value \in 0 .. Word - 1, f \in Formats, w \in Widths :
                 call = [fn |-> "itoa", value |-> value, format |-> f, width |-> w]
      <3>1. call.fn = "itoa"
        BY <2>2
      <3> QED BY <3>1 DEF Init, IInv, Argument, Answer
    <2> QED BY <2>1, <2>2, Zenon DEF Init
  <1>2. IInv /\ [Next]_vars => IInv'
    <2> SUFFICES ASSUME IInv, [Next]_vars PROVE IInv'
      OBVIOUS
    <2>1. UNCHANGED call /\ (result' = result \/ result' = <<Apply>>)
      BY Zenon DEF Next, Return, vars
    <2>2. Argument'
      BY <2>1, Zenon DEF IInv, Argument
    <2>3. Apply' = Apply
      BY <2>1, Zenon DEF Apply
    <2>4. Answer'
      BY <2>1, <2>3, Zenon DEF IInv, Answer
    <2> QED BY <2>2, <2>4 DEF IInv
  <1> QED BY <1>1, <1>2, PTL DEF Spec

\* What a function has returned, to which call.
Done(fn, r) == result # None /\ call.fn = fn =>
                  r = res /\ Argued(fn, call.m, call.d, call.s, call.n)

\* What each function has returned.
LEMMA Answered ==
  ASSUME IInv
  PROVE  /\ Done("memmove", memmove(call.m, call.d, call.s, call.n))
         /\ Done("memcpy", memcpy(call.m, call.d, call.s, call.n))
         /\ Done("memcmp", memcmp(call.m, call.d, call.s, call.n))
         /\ Done("strcmp", strcmp(call.m, call.d, call.s))
         /\ Done("strncmp", strncmp(call.m, call.d, call.s, call.n))
         /\ Done("strcpy", strcpy(call.m, call.d, call.s))
         /\ Done("strncpy", strncpy(call.m, call.d, call.s, call.n))
         /\ Done("strcat", strcat(call.m, call.d, call.s))
         /\ Done("strncat", strncat(call.m, call.d, call.s, call.n))
  <1>1. result # None => res = Apply
    BY DEF IInv, Answer, res, None
  <1>2. call.fn # "itoa" => Argued(call.fn, call.m, call.d, call.s, call.n)
    BY DEF IInv, Argument
  <1>3. Done("memmove", memmove(call.m, call.d, call.s, call.n))
    BY <1>1, <1>2 DEF Done, Apply
  <1>4. Done("memcpy", memcpy(call.m, call.d, call.s, call.n))
    BY <1>1, <1>2 DEF Done, Apply
  <1>5. Done("memcmp", memcmp(call.m, call.d, call.s, call.n))
    BY <1>1, <1>2 DEF Done, Apply
  <1>6. Done("strcmp", strcmp(call.m, call.d, call.s))
    BY <1>1, <1>2 DEF Done, Apply
  <1>7. Done("strncmp", strncmp(call.m, call.d, call.s, call.n))
    BY <1>1, <1>2 DEF Done, Apply
  <1>8. Done("strcpy", strcpy(call.m, call.d, call.s))
    BY <1>1, <1>2 DEF Done, Apply
  <1>9. Done("strncpy", strncpy(call.m, call.d, call.s, call.n))
    BY <1>1, <1>2 DEF Done, Apply
  <1>10. Done("strcat", strcat(call.m, call.d, call.s))
    BY <1>1, <1>2 DEF Done, Apply
  <1>11. Done("strncat", strncat(call.m, call.d, call.s, call.n))
    BY <1>1, <1>2 DEF Done, Apply
  <1> QED BY <1>3, <1>4, <1>5, <1>6, <1>7, <1>8, <1>9, <1>10, <1>11

(***************************************************************************)
(* What C defines each function for is what its lemma needs.               *)
(***************************************************************************)
\* Pointers are numbers.
LEMMA Pointer ==
  ASSUME NEW p \in Addresses
  PROVE  p \in Nat
  BY Limits

\* The types of the arguments.
LEMMA ArguedArgs ==
  ASSUME NEW fn, NEW m, NEW d, NEW s, NEW n, Argued(fn, m, d, s, n)
  PROVE  /\ m \in Memories /\ d \in Addresses /\ s \in Addresses /\ n \in Nat
         /\ d \in Nat /\ s \in Nat
  BY Pointer, Zenon DEF Argued

\* memmove, memcmp and memcpy stay in memory; memcpy's areas are disjoint.
LEMMA MoveGiven ==
  ASSUME NEW fn \in {"memmove", "memcmp", "memcpy"}, NEW m, NEW d, NEW s, NEW n,
         Argued(fn, m, d, s, n)
  PROVE  Inside(d, n) /\ Inside(s, n) /\ (fn = "memcpy" => Disjoint(d, n, s, n))
  <1>1. d \in Nat /\ s \in Nat /\ n \in Nat
    BY ArguedArgs
  <1>2. d + n \leq Size /\ s + n \leq Size /\ (fn = "memcpy" => Disjoint(d, n, s, n))
    BY DEF Argued, Defined
  <1> QED BY <1>1, <1>2 DEF Inside

\* The strings that are compared have ends.
LEMMA CompareGiven ==
  ASSUME NEW fn \in {"strcmp", "strncmp"}, NEW m, NEW d, NEW s, NEW n, Argued(fn, m, d, s, n)
  PROVE  Ends(m, d, strlen(m, d)) /\ Ends(m, s, strlen(m, s))
  <1>1. Terminated(m, d) /\ Terminated(m, s)
    BY DEF Argued, Defined
  <1> QED BY <1>1, ArguedArgs, EndOf, Zenon

\* strcpy has room for the source, which it does not overlap.
LEMMA StrcpyGiven ==
  ASSUME NEW m, NEW d, NEW s, NEW n, Argued("strcpy", m, d, s, n), NEW l, l = strlen(m, s)
  PROVE  Ends(m, s, l) /\ d + l < Size /\ Disjoint(d, l + 1, s, l + 1)
  <1>1. Terminated(m, s) /\ d + l < Size /\ Disjoint(d, l + 1, s, l + 1)
    BY DEF Argued, Defined
  <1> QED BY <1>1, ArguedArgs, EndOf, Zenon

\* strncpy has room for n bytes, which the source does not overlap.
LEMMA StrncpyGiven ==
  ASSUME NEW m, NEW d, NEW s, NEW n, Argued("strncpy", m, d, s, n), NEW l, l = strlen(m, s)
  PROVE  Ends(m, s, l) /\ d + n \leq Size /\ Disjoint(d, n, s, l + 1)
  <1>1. Terminated(m, s) /\ d + n \leq Size /\ Disjoint(d, n, s, l + 1)
    BY DEF Argued, Defined
  <1> QED BY <1>1, ArguedArgs, EndOf, Zenon

\* strcat and strncat have room for both strings, or for n characters of the second.
LEMMA StrcatGiven ==
  ASSUME NEW fn \in {"strcat", "strncat"}, NEW m, NEW d, NEW s, NEW n, Argued(fn, m, d, s, n),
         NEW k, k = strlen(m, d), NEW l, l = strlen(m, s),
         NEW c, c = IF fn = "strcat" THEN l ELSE Lower(n, l)
  PROVE  /\ Ends(m, d, k) /\ Ends(m, s, l)
         /\ d + (k + c) < Size /\ Disjoint(d, k + c + 1, s, l + 1)
  <1>1. Terminated(m, d) /\ Terminated(m, s)
    BY DEF Argued, Defined
  <1>2. Ends(m, d, k) /\ Ends(m, s, l)
    BY <1>1, ArguedArgs, EndOf, Zenon
  <1>3. /\ d + (k + c) < Size /\ Disjoint(d, k + c + 1, s, l + 1)
    BY DEF Argued, Defined
  <1> QED BY <1>2, <1>3

(***************************************************************************)
(* What the functions have done when they return.                          *)
(***************************************************************************)
\* The memory that memcpy and memmove have returned.
LEMMA MovesDone ==
  ASSUME IInv, NEW m, m = call.m, NEW d, d = call.d, NEW s, s = call.s, NEW n, n = call.n
  PROVE  /\ Returned({"memcpy"}) => res = Written(m, d, s, n, n)
         /\ Returned({"memmove"}) =>
               res = IF d \in s .. s + n - 1 THEN Written(m, d, s, n, n) ELSE m
  <1>1. ASSUME Returned({"memcpy"}) PROVE res = Written(m, d, s, n, n)
    <2>1. res = memcpy(m, d, s, n) /\ Argued("memcpy", m, d, s, n)
      BY <1>1, Answered DEF Done, Returned
    <2>2. m \in Memories /\ d \in Nat /\ n \in Nat /\ Inside(d, n) /\ Inside(s, n) /\ Disjoint(d, n, s, n)
      BY <2>1, ArguedArgs, MoveGiven
    <2> QED BY <2>1, <2>2, PlacedUpwards, Whole
  <1>2. ASSUME Returned({"memmove"})
        PROVE  res = IF d \in s .. s + n - 1 THEN Written(m, d, s, n, n) ELSE m
    <2>1. res = memmove(m, d, s, n) /\ Argued("memmove", m, d, s, n)
      BY <1>2, Answered DEF Done, Returned
    <2>2. m \in Memories /\ d \in Nat /\ n \in Nat /\ Inside(d, n) /\ Inside(s, n)
      BY <2>1, ArguedArgs, MoveGiven
    <2>3. memmove(m, d, s, n) = IF d \in s .. s + n - 1 THEN Placed(m, d, s, n) ELSE m
      BY <2>2, Memmove
    <2> QED BY <2>1, <2>2, <2>3, Whole
  <1> QED BY <1>1, <1>2

\* The memory that strcpy and strncpy have.
LEMMA CopyDone ==
  ASSUME IInv, NEW m, m = call.m, NEW d, d = call.d, NEW s, s = call.s, NEW n, n = call.n,
         NEW l, l = strlen(m, s)
  PROVE  /\ Returned({"strcpy"}) => res = Written(m, d, s, l, l + 1)
         /\ Returned({"strncpy"}) =>
               /\ l \in Nat /\ n \in Nat
               /\ n = l + 1 => res = Written(m, d, s, l, n)
               /\ n > l + 1 =>
                    res = [Written(m, d, s, l, n) EXCEPT ![d + n - 1] = m[d + n - 1]]
               /\ n \leq l =>
                    res = [i \in Addresses |->
                              IF i \geq d + n THEN 0 ELSE Written(m, d, s, n, n)[i]]
  <1>1. ASSUME Returned({"strcpy"}) PROVE res = Written(m, d, s, l, l + 1)
    <2>1. res = strcpy(m, d, s) /\ Argued("strcpy", m, d, s, n)
      BY <1>1, Answered DEF Done, Returned
    <2>2. m \in Memories /\ d \in Nat /\ s \in Nat
      BY <2>1, ArguedArgs
    <2>3. Ends(m, s, l) /\ d + l < Size /\ Disjoint(d, l + 1, s, l + 1)
      BY <2>1, StrcpyGiven
    <2>4. strcpy(m, d, s) = Written(m, d, s, l, l + 1)
      BY <2>2, <2>3, Strcpy
    <2> QED BY <2>1, <2>4
  <1>2. ASSUME Returned({"strncpy"})
        PROVE  /\ l \in Nat /\ n \in Nat
               /\ n = l + 1 => res = Written(m, d, s, l, n)
               /\ n > l + 1 =>
                    res = [Written(m, d, s, l, n) EXCEPT ![d + n - 1] = m[d + n - 1]]
               /\ n \leq l =>
                    res = [i \in Addresses |->
                              IF i \geq d + n THEN 0 ELSE Written(m, d, s, n, n)[i]]
    <2>1. res = strncpy(m, d, s, n) /\ Argued("strncpy", m, d, s, n)
      BY <1>2, Answered DEF Done, Returned
    <2>2. m \in Memories /\ d \in Nat /\ s \in Nat /\ n \in Nat
      BY <2>1, ArguedArgs
    <2>3. Ends(m, s, l) /\ d + n \leq Size /\ Disjoint(d, n, s, l + 1)
      BY <2>1, StrncpyGiven
    <2>4. l \in Nat
      BY <2>3 DEF Ends
    <2>5. ASSUME l < n
          PROVE  res = IF n = l + 1 THEN Written(m, d, s, l, n)
                       ELSE [Written(m, d, s, l, n) EXCEPT ![d + n - 1] = m[d + n - 1]]
      BY <2>1, <2>2, <2>3, <2>5, Strncpy
    <2>6. ASSUME n \leq l
          PROVE  res = [i \in Addresses |->
                           IF i \geq d + n THEN 0 ELSE Written(m, d, s, n, n)[i]]
      BY <2>1, <2>2, <2>3, <2>6, StrncpyLong
    <2>7. (n = l + 1 => l < n) /\ (n > l + 1 => l < n /\ n # l + 1)
      BY <2>2, <2>4
    <2> QED BY <2>2, <2>4, <2>5, <2>6, <2>7, Zenon
  <1> QED BY <1>1, <1>2

\* The memory that strcat and strncat have.
LEMMA AppendDone ==
  ASSUME IInv, NEW m, m = call.m, NEW d, d = call.d, NEW s, s = call.s, NEW n, n = call.n,
         NEW k, k = strlen(m, d), NEW l, l = strlen(m, s)
  PROVE  /\ Returned({"strcat"}) => res = Written(m, d + k, s, l, l + 1)
         /\ Returned({"strncat"}) =>
               /\ l \in Nat /\ n \in Nat
               /\ l \leq n => res = Written(m, d + k, s, l, l + 1)
               /\ ~ l \leq n =>
                    res = [Written(m, d + k, s, n, n + 1) EXCEPT ![d + k + n] = m[d + k + n]]
  <1>1. ASSUME Returned({"strcat"}) PROVE res = Written(m, d + k, s, l, l + 1)
    <2>1. res = strcat(m, d, s) /\ Argued("strcat", m, d, s, n)
      BY <1>1, Answered DEF Done, Returned
    <2>2. m \in Memories /\ d \in Nat /\ s \in Nat
      BY <2>1, ArguedArgs
    <2>3. /\ Ends(m, d, k) /\ Ends(m, s, l)
          /\ d + (k + l) < Size /\ Disjoint(d, k + l + 1, s, l + 1)
      BY <2>1, StrcatGiven
    <2>4. strcat(m, d, s) = Written(m, d + k, s, l, l + 1)
      BY <2>2, <2>3, Strcat
    <2> QED BY <2>1, <2>4
  <1>2. ASSUME Returned({"strncat"})
        PROVE  /\ l \in Nat /\ n \in Nat
               /\ l \leq n => res = Written(m, d + k, s, l, l + 1)
               /\ ~ l \leq n =>
                    res = [Written(m, d + k, s, n, n + 1) EXCEPT ![d + k + n] = m[d + k + n]]
    <2>1. res = strncat(m, d, s, n) /\ Argued("strncat", m, d, s, n)
      BY <1>2, Answered DEF Done, Returned
    <2>2. m \in Memories /\ d \in Nat /\ s \in Nat /\ n \in Nat
      BY <2>1, ArguedArgs
    <2>3. /\ Ends(m, d, k) /\ Ends(m, s, l)
          /\ d + (k + Lower(n, l)) < Size /\ Disjoint(d, k + Lower(n, l) + 1, s, l + 1)
      BY <2>1, StrcatGiven
    <2>4. l \in Nat
      BY <2>3 DEF Ends
    <2>5. (l \leq n => Lower(n, l) = l) /\ (~ l \leq n => Lower(n, l) = n /\ n < l)
      BY <2>2, <2>4 DEF Lower
    <2>6. ASSUME l \leq n PROVE res = Written(m, d + k, s, l, l + 1)
      <3>1. d + (k + l) < Size /\ Disjoint(d, k + l + 1, s, l + 1)
        BY <2>3, <2>5, <2>6
      <3> QED BY <2>1, <2>2, <2>3, <2>6, <3>1, Strncat
    <2>7. ASSUME ~ l \leq n
          PROVE  res = [Written(m, d + k, s, n, n + 1) EXCEPT ![d + k + n] = m[d + k + n]]
      <3>1. n < l /\ d + (k + n) < Size /\ Disjoint(d, k + n + 1, s, l + 1)
        BY <2>3, <2>5, <2>7
      <3> QED BY <2>1, <2>2, <2>3, <3>1, StrncatLong
    <2> QED BY <2>2, <2>4, <2>6, <2>7, Zenon
  <1> QED BY <1>1, <1>2

\* One memory for each function and case: together they are Copies.
LEMMA WritesDone ==
  ASSUME IInv
  PROVE  Copies
  <1> DEFINE m == call.m
             d == call.d
             s == call.s
             n == call.n
             k == strlen(m, d)
             l == strlen(m, s)
  <1>1. /\ Returned({"memcpy"}) => res = Written(m, d, s, n, n)
        /\ Returned({"memmove"}) =>
              res = IF d \in s .. s + n - 1 THEN Written(m, d, s, n, n) ELSE m
    BY MovesDone
  <1>2. /\ Returned({"strcpy"}) => res = Written(m, d, s, l, l + 1)
        /\ Returned({"strncpy"}) =>
              /\ l \in Nat /\ n \in Nat
              /\ n = l + 1 => res = Written(m, d, s, l, n)
              /\ n > l + 1 =>
                   res = [Written(m, d, s, l, n) EXCEPT ![d + n - 1] = m[d + n - 1]]
              /\ n \leq l =>
                   res = [i \in Addresses |->
                             IF i \geq d + n THEN 0 ELSE Written(m, d, s, n, n)[i]]
    BY CopyDone
  <1>3. /\ Returned({"strcat"}) => res = Written(m, d + k, s, l, l + 1)
        /\ Returned({"strncat"}) =>
              /\ l \in Nat /\ n \in Nat
              /\ l \leq n => res = Written(m, d + k, s, l, l + 1)
              /\ ~ l \leq n =>
                   res = [Written(m, d + k, s, n, n + 1) EXCEPT ![d + k + n] = m[d + k + n]]
    BY AppendDone
  <1>4. /\ call.fn \in {"memcpy", "memmove"} => InC = Written(m, d, s, n, n)
        /\ call.fn = "strcpy" => InC = Written(m, d, s, l, l + 1)
        /\ call.fn = "strncpy" => InC = Written(m, d, s, Lower(n, l), n)
        /\ call.fn = "strcat" => InC = Written(m, d + k, s, l, l + 1)
        /\ call.fn = "strncat" => InC = Written(m, d + k, s, Lower(n, l), Lower(n, l) + 1)
    BY DEF InC
  <1> HIDE DEF k, l
  <1>5. l \in Nat /\ n \in Nat => (l \leq n => Lower(n, l) = l) /\ (n \leq l => Lower(n, l) = n)
    BY DEF Lower
  <1>6. CopiesLikeC
    <2>1. Returned({"memcpy", "memmove", "strcpy", "strcat"}) /\ LikeC => res = InC
      BY <1>1, <1>2, <1>3, <1>4 DEF Returned, LikeC
    <2>2. Returned({"strncpy"}) /\ LikeC => res = InC
      BY <1>2, <1>4, <1>5 DEF Returned, LikeC, l
    <2>3. Returned({"strncat"}) /\ LikeC => res = InC
      BY <1>3, <1>4, <1>5 DEF Returned, LikeC, l
    <2> QED BY <2>1, <2>2, <2>3 DEF CopiesLikeC, Returned
  <1>7. ASSUME ~ LikeC, Returned({"memmove"}) PROVE res = m
    BY <1>1, <1>7 DEF LikeC, Returned
  <1>8. ASSUME ~ LikeC, Returned({"strncpy"})
        PROVE  res = IF l < n THEN [InC EXCEPT ![d + n - 1] = m[d + n - 1]]
                     ELSE [i \in Addresses |-> IF i \geq d + n THEN 0 ELSE InC[i]]
    <2>1. n # l + 1 /\ l \in Nat /\ n \in Nat /\ InC = Written(m, d, s, Lower(n, l), n)
      BY <1>2, <1>4, <1>8 DEF LikeC, Returned, l
    <2>2. CASE l < n
      BY <1>2, <1>5, <1>8, <2>1, <2>2
    <2>3. CASE ~ l < n
      <3>1. InC = Written(m, d, s, n, n) /\ n \leq l
        BY <1>5, <2>1, <2>3
      <3> QED BY <1>2, <1>8, <2>3, <3>1
    <2> QED BY <2>2, <2>3
  <1>9. ASSUME ~ LikeC, Returned({"strncat"})
        PROVE  res = [InC EXCEPT ![d + k + n] = m[d + k + n]]
    <2>1. ~ l \leq n /\ l \in Nat /\ n \in Nat
      BY <1>3, <1>9 DEF LikeC, Returned, l
    <2>2. InC = Written(m, d + k, s, n, n + 1)
      BY <1>4, <1>5, <1>9, <2>1 DEF Returned
    <2> QED BY <1>3, <1>9, <2>1, <2>2
  <1>10. Departs
    BY <1>7, <1>8, <1>9, Zenon DEF Departs, k, l
  <1> QED BY <1>6, <1>10 DEF Copies

\* The comparisons have.
LEMMA ComparesDone ==
  ASSUME IInv, SevenBits
  PROVE  Compares
  <1> DEFINE m == call.m
             d == call.d
             s == call.s
             n == call.n
             Head_(p) == SubSeq(String(m, p), 1, Lower(n, strlen(m, p)))
  <1>1. ASSUME NEW fn, Argued(fn, m, d, s, n)
        PROVE  m \in Memories /\ d \in Nat /\ s \in Nat /\ n \in Nat
    BY <1>1, ArguedArgs, Zenon
  <1>2. ASSUME result # None, call.fn = "memcmp" PROVE Agrees(res, Area(m, d, n), Area(m, s, n))
    <2>1. res = memcmp(m, d, s, n) /\ Argued("memcmp", m, d, s, n)
      BY <1>2, Answered, Zenon DEF Done
    <2>2. m \in Memories /\ Inside(d, n) /\ Inside(s, n)
      BY <1>1, <2>1, MoveGiven
    <2>3. Agrees(memcmp(m, d, s, n), Area(m, d, n), Area(m, s, n))
      BY <2>2, Memcmp, Zenon
    <2> QED BY <2>1, <2>3, Zenon
  <1>3. ASSUME result # None, call.fn = "strncmp" PROVE Agrees(res, Head_(d), Head_(s))
    <2>1. res = strncmp(m, d, s, n) /\ Argued("strncmp", m, d, s, n)
      BY <1>3, Answered, Zenon DEF Done
    <2>2. Ends(m, d, strlen(m, d)) /\ Ends(m, s, strlen(m, s))
      BY <2>1, CompareGiven
    <2>3. Agrees(strncmp(m, d, s, n), Head_(d), Head_(s))
      BY <1>1, <2>1, <2>2, Strncmp, Zenon
    <2> QED BY <2>1, <2>3, Zenon
  <1>4. ASSUME result # None, call.fn = "strcmp"
        PROVE  IF IsPrefix(String(m, d), String(m, s)) THEN res = 0
               ELSE Agrees(res, String(m, d), String(m, s))
    <2>1. res = strcmp(m, d, s) /\ Argued("strcmp", m, d, s, n)
      BY <1>4, Answered, Zenon DEF Done
    <2>2. Ends(m, d, strlen(m, d)) /\ Ends(m, s, strlen(m, s))
      BY <2>1, CompareGiven
    <2>3. IF IsPrefix(String(m, d), String(m, s)) THEN strcmp(m, d, s) = 0
          ELSE Agrees(strcmp(m, d, s), String(m, d), String(m, s))
      BY <1>1, <2>1, <2>2, Strcmp, Zenon
    <2> QED BY <2>1, <2>3, Zenon
  <1> QED BY <1>2, <1>3, <1>4, Zenon DEF Compares, Returned

\* After every defined call that writes, the memory is byte for byte what C says where LikeC
\* holds, and differs from that in the bytes that Departs names elsewhere: memmove moves
\* nothing, strncpy clears a byte too few or all the memory behind, strncat writes no end
\* (string.c:23-50, 78-137).  For a memory of any size, strings and counts of any length.
THEOREM CopiesRight == Spec => []Copies
  <1>1. IInv => Copies
    BY WritesDone
  <1> QED BY <1>1, Inductive, PTL

\* The comparisons order characters of 7 bits as C does, strings of any length, except
\* that strcmp takes a string for equal to its beginnings (string.c:3-13, 52-76).
THEOREM ComparesRight == SevenBits => (Spec => []Compares)
  <1> SUFFICES ASSUME SevenBits PROVE Spec => []Compares
    OBVIOUS
  <1>1. IInv => Compares
    BY ComparesDone
  <1> QED BY <1>1, Inductive, PTL
=============================================================================
