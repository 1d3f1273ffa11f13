--------------------------- MODULE KeyboardProofs ---------------------------
(***************************************************************************)
(* Proofs about Keyboard, for a ring of any size, any keys and any number  *)
(* of key strokes: the ring implements KeyQueue, the state machine that    *)
(* parses its bytes is in its first state whenever all keys are up and all *)
(* bytes parsed, and the keys come out in the order in which they went in. *)
(* And about KeySearch, the search of the key maps.                        *)
(***************************************************************************)
EXTENDS Keyboard, KeySearch, SequenceTheorems, WellFoundedInduction, TLAPS

(***************************************************************************)
(* Induction, from the well-foundedness of < on Nat: the library's theorem *)
(* WFMin speaks of sets and not of operators.                              *)
(***************************************************************************)
LEMMA Least ==
  ASSUME NEW T \in SUBSET Nat, T # {}
  PROVE  \E n \in T : \A m \in T : n \leq m
  <1> DEFINE R == {ss \in Nat \X Nat : ss[1] < ss[2]}
  <1>1. IsWellFoundedOn(R, Nat)
    BY NatLessThanWellFounded, Zenon DEF OpToRel
  <1> HIDE DEF R
  <1>2. PICK n \in T : \A m \in T : ~ (<<m, n>> \in R)
    BY <1>1, WFMin, Zenon
  <1>3. ASSUME NEW m \in T PROVE n \leq m
    <2>1. <<m, n>> \notin R
      BY <1>2
    <2> QED BY <2>1 DEF R
  <1> QED BY <1>3

LEMMA Induction ==
  ASSUME NEW S, 0 \in S, \A n \in Nat : n \in S => n + 1 \in S
  PROVE  Nat \subseteq S
  <1> SUFFICES ASSUME Nat \ S # {} PROVE FALSE
    OBVIOUS
  <1>1. PICK n \in Nat \ S : \A m \in Nat \ S : n \leq m
    BY Least
  <1>2. n # 0 /\ n - 1 \in Nat /\ n - 1 \notin Nat \ S
    BY <1>1
  <1> QED BY <1>2

(***************************************************************************)
(* KnownOf is a recursion over the length of a sequence.                   *)
(***************************************************************************)
Known(f, s, n) ==
    IF n = 0 THEN <<>>
    ELSE IF s[n] \in Mapped THEN Append(f[n - 1], s[n]) ELSE f[n - 1]
Knows(f, s, l) == f = [n \in 0 .. l |-> Known(f, s, n)]

\* Two such functions agree on what their sequences have in common.
LEMMA KnownUnique ==
  ASSUME NEW f, NEW g, NEW s, NEW r, NEW l \in Nat, NEW m \in Nat, l \leq m,
         Knows(f, s, l), Knows(g, r, m), \A i \in 1 .. l : s[i] = r[i]
  PROVE  \A n \in 0 .. l : f[n] = g[n]
  <1> DEFINE S == {n \in Nat : n \leq l => f[n] = g[n]}
  <1>1. /\ \A n \in 0 .. l : f[n] = Known(f, s, n)
        /\ \A n \in 0 .. l : g[n] = Known(g, r, n)
    <2>1. \A n \in 0 .. l : n \in 0 .. m
      OBVIOUS
    <2> QED BY <2>1, Zenon DEF Knows
  <1>2. 0 \in S
    BY <1>1 DEF Known
  <1>3. ASSUME NEW n \in Nat, n \in S PROVE n + 1 \in S
    <2> SUFFICES ASSUME n + 1 \leq l PROVE f[n + 1] = g[n + 1]
      OBVIOUS
    <2>1. n + 1 \in 0 .. l /\ n + 1 # 0 /\ (n + 1) - 1 = n /\ n + 1 \in 1 .. l
      OBVIOUS
    <2>2. f[n] = g[n] /\ s[n + 1] = r[n + 1]
      BY <1>3, <2>1
    <2> QED BY <1>1, <2>1, <2>2 DEF Known
  <1> HIDE DEF S
  <1>4. Nat \subseteq S
    BY <1>2, <1>3, Induction
  <1> QED BY <1>4 DEF S

LEMMA KnownExists == ASSUME NEW s, NEW l \in Nat PROVE \E f : Knows(f, s, l)
  <1> DEFINE S == {n \in Nat : \E f : Knows(f, s, n)}
  <1>1. 0 \in S
    <2> DEFINE f == [n \in 0 .. 0 |-> <<>>]
    <2>1. Knows(f, s, 0)
      BY DEF Knows, Known
    <2> QED BY <2>1
  <1>2. ASSUME NEW n \in Nat, n \in S PROVE n + 1 \in S
    <2>1. PICK f : Knows(f, s, n)
      BY <1>2
    <2> DEFINE g == [i \in 0 .. n + 1 |-> IF i = n + 1 THEN Known(f, s, n + 1) ELSE f[i]]
    <2>2. ASSUME NEW i \in 0 .. n + 1 PROVE g[i] = Known(g, s, i)
      <3>1. i = 0 \/ (i - 1 \in 0 .. n + 1 /\ i - 1 # n + 1)
        OBVIOUS
      <3>2. Known(g, s, i) = Known(f, s, i)
        BY <3>1 DEF Known
      <3>3. i # n + 1 => i \in 0 .. n /\ f[i] = Known(f, s, i)
        BY <2>1 DEF Knows
      <3> QED BY <3>2, <3>3
    <2>3. g = [i \in 0 .. n + 1 |-> Known(g, s, i)]
      <3> DEFINE h == [i \in 0 .. n + 1 |-> Known(g, s, i)]
      <3>1. \A i \in 0 .. n + 1 : g[i] = h[i]
        BY <2>2
      <3> HIDE DEF h
      <3>2. g = [i \in 0 .. n + 1 |-> g[i]] /\ h = [i \in 0 .. n + 1 |-> h[i]]
        BY DEF h
      <3> QED BY <3>1, <3>2 DEF h
    <2> HIDE DEF g
    <2>4. Knows(g, s, n + 1)
      BY <2>3 DEF Knows
    <2> QED BY <2>4
  <1> HIDE DEF S
  <1>3. Nat \subseteq S
    BY <1>1, <1>2, Induction
  <1> QED BY <1>3 DEF S

LEMMA KnownIs ==
  ASSUME NEW s, Len(s) \in Nat
  PROVE  \E f : Knows(f, s, Len(s)) /\ KnownOf(s) = f[Len(s)]
  <1> DEFINE f == CHOOSE known : known = [n \in 0 .. Len(s) |-> Known(known, s, n)]
  <1>1. \E known : known = [n \in 0 .. Len(s) |-> Known(known, s, n)]
    BY KnownExists DEF Knows
  <1>2. Knows(f, s, Len(s))
    BY <1>1, Zenon DEF Knows
  <1>3. KnownOf(s) = f[Len(s)]
    BY Zenon DEF KnownOf, Known
  <1> QED BY <1>2, <1>3, Zenon

LEMMA KnownOfEmpty == KnownOf(<<>>) = <<>>
  <1>1. Len(<<>>) = 0 /\ Len(<<>>) \in Nat
    OBVIOUS
  <1>2. PICK f : Knows(f, <<>>, Len(<<>>)) /\ KnownOf(<<>>) = f[Len(<<>>)]
    BY <1>1, KnownIs
  <1> QED BY <1>1, <1>2 DEF Knows, Known

LEMMA KnownOfAppend ==
  ASSUME NEW s \in Seq(Keys), NEW k \in Keys
  PROVE  KnownOf(Append(s, k)) = IF k \in Mapped THEN Append(KnownOf(s), k) ELSE KnownOf(s)
  <1> DEFINE r == Append(s, k)
             l == Len(s)
  <1>1. l \in Nat /\ Len(r) = l + 1 /\ r[l + 1] = k /\ \A i \in 1 .. l : s[i] = r[i]
    BY AppendProperties, LenProperties
  <1> HIDE DEF r, l
  <1>2. PICK f : Knows(f, s, l) /\ KnownOf(s) = f[l]
    BY <1>1, KnownIs DEF l
  <1>3. PICK g : Knows(g, r, l + 1) /\ KnownOf(r) = g[l + 1]
    <2>1. Len(r) \in Nat
      BY <1>1
    <2>2. \E g : Knows(g, r, Len(r)) /\ KnownOf(r) = g[Len(r)]
      BY <2>1, KnownIs, Zenon
    <2> QED BY <1>1, <2>2
  <1>4. f[l] = g[l]
    <2>1. l + 1 \in Nat /\ l \leq l + 1 /\ l \in 0 .. l
      BY <1>1
    <2> QED BY <1>1, <1>2, <1>3, <2>1, KnownUnique
  <1>5. g[l + 1] = Known(g, r, l + 1)
    BY <1>1, <1>3 DEF Knows
  <1>6. l + 1 # 0 /\ (l + 1) - 1 = l
    BY <1>1
  <1>7. KnownOf(r) = IF k \in Mapped THEN Append(KnownOf(s), k) ELSE KnownOf(s)
    BY <1>1, <1>2, <1>3, <1>4, <1>5, <1>6 DEF Known
  <1> QED BY <1>7 DEF r

(***************************************************************************)
(* The ring as a sequence.                                                 *)
(***************************************************************************)
N == KBD_BUFFER_SIZE

\* The number of bytes from t to h, and the bytes.
Size(h, t) == (h - t) % N
Items(b, h, t) == [n \in 1 .. Size(h, t) |-> b[(t + n - 1) % N]]

LEMMA ModSmall == ASSUME NEW a \in 0 .. N - 1 PROVE a % N = a
  BY KeyboardAssumption DEF N

LEMMA ModOver == ASSUME NEW a \in N .. 2 * N - 1 PROVE a % N = a - N
  BY KeyboardAssumption DEF N

LEMMA ModNegative == ASSUME NEW a \in -N .. -1 PROVE a % N = a + N
  BY KeyboardAssumption DEF N

LEMMA SuccSlot ==
  ASSUME NEW i \in Slots
  PROVE  /\ Succ(i) \in Slots /\ Succ(i) # i
         /\ Succ(i) = (i + 1) % N
  <1>1. i + 1 \in 0 .. N - 1 \/ i + 1 = N
    BY KeyboardAssumption DEF Slots, N
  <1>2. CASE i + 1 = N
    BY <1>2, ModOver, KeyboardAssumption DEF Slots, Succ, N
  <1>3. CASE i + 1 \in 0 .. N - 1
    BY <1>3, ModSmall, KeyboardAssumption DEF Slots, Succ, N
  <1> QED BY <1>1, <1>2, <1>3

LEMMA Slot == N \in Nat /\ N \geq 2 /\ Slots = 0 .. N - 1
  BY KeyboardAssumption DEF Slots, N

\* The length and the place of the n-th byte without modulo.
Distance(h, t) == IF t \leq h THEN h - t ELSE h - t + N
Place(t, n) == IF t + n - 1 < N THEN t + n - 1 ELSE t + n - 1 - N

LEMMA SizeIs ==
  ASSUME NEW h \in Slots, NEW t \in Slots
  PROVE  Size(h, t) = Distance(h, t) /\ Size(h, t) \in 0 .. N - 1
  <1>1. h - t \in 0 .. N - 1 \/ h - t \in -N .. -1
    BY Slot
  <1> QED BY <1>1, ModSmall, ModNegative, Slot DEF Size, Distance

LEMMA PlaceIs ==
  ASSUME NEW t \in Slots, NEW n \in 1 .. N
  PROVE  (t + n - 1) % N = Place(t, n) /\ Place(t, n) \in Slots
  <1>1. t + n - 1 \in 0 .. N - 1 \/ t + n - 1 \in N .. 2 * N - 1
    BY Slot
  <1> QED BY <1>1, ModSmall, ModOver, Slot DEF Place

\* Moving head or tail on.
LEMMA SizeSteps ==
  ASSUME NEW h \in Slots, NEW t \in Slots
  PROVE  /\ Size(h, t) = 0 <=> h = t
         /\ Succ(h) # t => Size(Succ(h), t) = Size(h, t) + 1
         /\ Succ(h) = t => Size(h, t) = N - 1
         /\ h # t => Size(h, Succ(t)) = Size(h, t) - 1
  <1>1. /\ Size(h, t) = Distance(h, t)
        /\ Size(Succ(h), t) = Distance(Succ(h), t)
        /\ Size(h, Succ(t)) = Distance(h, Succ(t))
    BY SizeIs, SuccSlot
  <1>2. /\ Succ(h) = IF h + 1 = N THEN 0 ELSE h + 1
        /\ Succ(t) = IF t + 1 = N THEN 0 ELSE t + 1
    BY DEF Succ, N
  <1>3. Succ(h) # t => Distance(Succ(h), t) = Distance(h, t) + 1
    BY <1>2, Slot DEF Distance
  <1>4. h # t => Distance(h, Succ(t)) = Distance(h, t) - 1
    BY <1>2, Slot DEF Distance
  <1>5. /\ Distance(h, t) = 0 <=> h = t
        /\ Succ(h) = t => Distance(h, t) = N - 1
    BY <1>2, Slot DEF Distance
  <1> QED BY <1>1, <1>3, <1>4, <1>5

\* s lists the l elements of b from place t on.
Lists(s, S, l, b, t) == /\ s \in Seq(S) /\ Len(s) = l
                        /\ \A n \in 1 .. l : s[n] = b[Place(t, n)]

LEMMA ItemsSeq ==
  ASSUME NEW S, NEW b \in [Slots -> S], NEW h \in Slots, NEW t \in Slots
  PROVE  Lists(Items(b, h, t), S, Size(h, t), b, t)
  <1>1. Size(h, t) \in Nat /\ \A n \in 1 .. Size(h, t) : n \in 1 .. N
    BY SizeIs, Slot
  <1>2. \A n \in 1 .. Size(h, t) : (t + n - 1) % N = Place(t, n) /\ Place(t, n) \in Slots
    BY <1>1, PlaceIs
  <1>3. Items(b, h, t) = [n \in 1 .. Size(h, t) |-> b[Place(t, n)]]
    BY <1>2 DEF Items
  <1> QED BY <1>1, <1>2, <1>3 DEF Lists

\* A byte taken at t is the first.
LEMMA ItemsTake ==
  ASSUME NEW S, NEW b \in [Slots -> S], NEW h \in Slots, NEW t \in Slots, h # t
  PROVE  /\ Items(b, h, t) # <<>>
         /\ Head(Items(b, h, t)) = b[t]
         /\ Items(b, h, Succ(t)) = Tail(Items(b, h, t))
  <1> DEFINE s == Items(b, h, t)
             r == Items(b, h, Succ(t))
  <1>1. /\ Succ(t) \in Slots
        /\ Size(h, t) \in 1 .. N - 1
        /\ Size(h, Succ(t)) = Size(h, t) - 1
    <2>1. Size(h, t) \in 0 .. N - 1 /\ Size(h, t) # 0
      BY SizeIs, SizeSteps
    <2> QED BY <2>1, SizeSteps, SuccSlot, Slot
  <1>a. Lists(s, S, Size(h, t), b, t)
    BY ItemsSeq, Zenon
  <1>b. Lists(r, S, Size(h, t) - 1, b, Succ(t))
    BY <1>1, ItemsSeq, Zenon
  <1> HIDE DEF s, r
  <1>2. s \in Seq(S) /\ Len(s) = Size(h, t) /\ \A n \in 1 .. Size(h, t) : s[n] = b[Place(t, n)]
    BY <1>a, Zenon DEF Lists
  <1>3. r \in Seq(S) /\ Len(r) = Size(h, t) - 1
        /\ \A n \in 1 .. Size(h, t) - 1 : r[n] = b[Place(Succ(t), n)]
    BY <1>b, Zenon DEF Lists
  <1>4. s # <<>>
    BY <1>1, <1>2
  <1>5. Head(s) = b[t]
    <2>1. Place(t, 1) = t
      BY Slot DEF Place
    <2>2. Head(s) = s[1]
      BY <1>2, <1>4
    <2> QED BY <1>1, <1>2, <2>1, <2>2
  <1>6. Tail(s) \in Seq(S) /\ Len(Tail(s)) = Size(h, t) - 1
        /\ \A n \in 1 .. Size(h, t) - 1 : Tail(s)[n] = s[n + 1]
    BY <1>2, <1>4, HeadTailProperties
  <1>7. ASSUME NEW n \in 1 .. Size(h, t) - 1 PROVE r[n] = Tail(s)[n]
    <2>1. n \in 1 .. N /\ n + 1 \in 1 .. N /\ n + 1 \in 1 .. Size(h, t)
      BY <1>1, Slot
    <2>2. Place(Succ(t), n) = Place(t, n + 1)
      BY <2>1, Slot DEF Place, Succ, N
    <2> QED BY <1>2, <1>3, <1>6, <2>1, <2>2
  <1>8. r = Tail(s)
    BY <1>3, <1>6, <1>7, SeqEqual
  <1> QED BY <1>4, <1>5, <1>8 DEF s, r

\* c is b with v stored at h.
Stored(c, b, h, v) == c[h] = v /\ \A i \in Slots \ {h} : c[i] = b[i]

Appended(c, b, h, t, v) == Items(c, Succ(h), t) = Append(Items(b, h, t), v)

\* A byte stored at h is the last.
LEMMA ItemsPut ==
  ASSUME NEW S, NEW b \in [Slots -> S], NEW h \in Slots, NEW t \in Slots, NEW v \in S,
         NEW B \in [Slots -> S], Stored(B, b, h, v), Succ(h) # t
  PROVE  Appended(B, b, h, t, v)
  <1>0. Succ(h) # t /\ B[h] = v /\ \A i \in Slots \ {h} : B[i] = b[i]
    BY DEF Stored
  <1> DEFINE s == Items(b, h, t)
             r == Items(B, Succ(h), t)
             L == Size(h, t)
  <1>1. B \in [Slots -> S] /\ Succ(h) \in Slots
    BY <1>0, SuccSlot
  <1>3. Lists(r, S, Size(Succ(h), t), B, t)
    BY <1>1, ItemsSeq, Zenon
  <1>2. Succ(h) \in Slots /\ Size(Succ(h), t) = L + 1 /\ L \in 0 .. N - 1
    BY <1>0, SizeIs, SizeSteps, SuccSlot
  <1>a. Lists(s, S, L, b, t)
    BY ItemsSeq, Zenon
  <1>b. Lists(r, S, L + 1, B, t)
    BY <1>2, <1>3, Zenon
  <1> HIDE DEF s, r
  <1>4. s \in Seq(S) /\ Len(s) = L /\ \A n \in 1 .. L : s[n] = b[Place(t, n)]
    BY <1>a, Zenon DEF Lists
  <1>5. r \in Seq(S) /\ Len(r) = L + 1 /\ \A n \in 1 .. L + 1 : r[n] = B[Place(t, n)]
    BY <1>b, Zenon DEF Lists
  <1>6. ASSUME NEW n \in 1 .. L PROVE r[n] = s[n]
    <2>1. n \in 1 .. N /\ n \in 1 .. L + 1
      BY <1>2, Slot
    <2>2. Place(t, n) \in Slots
      BY <2>1, PlaceIs
    <2>3. L = Distance(h, t)
      BY SizeIs
    <2>4. Place(t, n) # h
      BY <1>0, <2>1, <2>3, Slot DEF Place, Distance
    <2> QED BY <1>0, <1>4, <1>5, <2>1, <2>2, <2>4
  <1>7. r[L + 1] = v
    <2>1. L + 1 \in 1 .. N
      BY <1>2, Slot
    <2>3. L = Distance(h, t)
      BY SizeIs
    <2>2. Place(t, L + 1) = h
      BY <1>0, <2>1, <2>3, Slot DEF Place, Distance
    <2> QED BY <1>0, <1>2, <1>5, <2>1, <2>2
  <1>8. /\ Append(s, v) \in Seq(S) /\ Len(Append(s, v)) = L + 1
        /\ \A n \in 1 .. L : Append(s, v)[n] = s[n]
        /\ Append(s, v)[L + 1] = v
    BY <1>4, AppendProperties
  <1>9. \A n \in 1 .. L + 1 : r[n] = Append(s, v)[n]
    BY <1>2, <1>6, <1>7, <1>8
  <1> QED
    <2>1. r = Append(s, v)
      BY <1>5, <1>8, <1>9, SeqEqual
    <2> QED BY <2>1 DEF r, s, Appended

\* A byte that goes from the front of one sequence to the end of another.
LEMMA HeadMoves ==
  ASSUME NEW S, NEW q \in Seq(S), NEW w \in Seq(S), w # <<>>
  PROVE  Append(q, Head(w)) \o Tail(w) = q \o w
  <1> DEFINE a == Append(q, Head(w)) \o Tail(w)
             b == q \o w
  <1>1. /\ Head(w) \in S /\ Head(w) = w[1] /\ Tail(w) \in Seq(S)
        /\ Len(w) \in Nat \ {0} /\ Len(q) \in Nat
        /\ Len(Tail(w)) = Len(w) - 1 /\ \A i \in 1 .. Len(w) - 1 : Tail(w)[i] = w[i + 1]
    BY HeadTailProperties, LenProperties, EmptySeq
  <1>2. /\ Append(q, Head(w)) \in Seq(S) /\ Len(Append(q, Head(w))) = Len(q) + 1
        /\ \A i \in 1 .. Len(q) : Append(q, Head(w))[i] = q[i]
        /\ Append(q, Head(w))[Len(q) + 1] = w[1]
    BY <1>1, AppendProperties
  <1>3. /\ b \in Seq(S) /\ Len(b) = Len(q) + Len(w)
        /\ \A i \in 1 .. Len(q) + Len(w) : b[i] = IF i <= Len(q) THEN q[i] ELSE w[i - Len(q)]
    BY ConcatProperties
  <1> DEFINE p == Append(q, Head(w))
             t == Tail(w)
  <1> HIDE DEF p, t
  <1>4. /\ p \o t \in Seq(S) /\ Len(p \o t) = Len(p) + Len(t)
        /\ \A i \in 1 .. Len(p) + Len(t) :
              (p \o t)[i] = IF i <= Len(p) THEN p[i] ELSE t[i - Len(p)]
    <2>1. p \in Seq(S) /\ t \in Seq(S)
      BY <1>1, <1>2 DEF p, t
    <2> QED BY <2>1, ConcatProperties
  <1>5. /\ Len(p) = Len(q) + 1 /\ Len(t) = Len(w) - 1 /\ p[Len(q) + 1] = w[1]
        /\ \A i \in 1 .. Len(q) : p[i] = q[i]
        /\ \A i \in 1 .. Len(w) - 1 : t[i] = w[i + 1]
    BY <1>1, <1>2 DEF p, t
  <1> HIDE DEF b
  <1>6. Len(p \o t) = Len(b)
    BY <1>1, <1>3, <1>4, <1>5
  <1>7. ASSUME NEW i \in 1 .. Len(b) PROVE (p \o t)[i] = b[i]
    <2>1. i \in 1 .. Len(q) + Len(w) /\ i \in 1 .. Len(p) + Len(t)
      BY <1>1, <1>3, <1>5
    <2>2. CASE i \leq Len(q)
      <3>1. i \in 1 .. Len(q) /\ i \leq Len(p)
        BY <1>1, <1>5, <2>1, <2>2
      <3> QED BY <1>3, <1>4, <1>5, <2>1, <2>2, <3>1
    <2>3. CASE i = Len(q) + 1
      <3>1. i \leq Len(p) /\ ~ i \leq Len(q) /\ i - Len(q) = 1
        BY <1>1, <1>5, <2>1, <2>3
      <3> QED BY <1>3, <1>4, <1>5, <2>1, <2>3, <3>1
    <2>4. CASE i > Len(q) + 1
      <3>1. /\ ~ i \leq Len(p) /\ ~ i \leq Len(q)
            /\ i - Len(p) \in 1 .. Len(w) - 1 /\ (i - Len(p)) + 1 = i - Len(q)
        BY <1>1, <1>5, <2>1, <2>4
      <3>2. (p \o t)[i] = t[i - Len(p)] /\ b[i] = w[i - Len(q)]
        BY <1>3, <1>4, <2>1, <3>1
      <3> QED BY <1>5, <3>1, <3>2
    <2> QED BY <1>1, <2>1, <2>2, <2>3, <2>4
  <1>8. p \o t = b
    BY <1>3, <1>4, <1>6, <1>7, SeqEqual
  <1> QED BY <1>8 DEF p, t, b

\* Taking from the front of a concatenation.
LEMMA HeadOfConcat ==
  ASSUME NEW S, NEW q \in Seq(S), NEW w \in Seq(S), q # <<>>
  PROVE  /\ q \o w # <<>> /\ Head(q \o w) = Head(q)
         /\ Tail(q \o w) = Tail(q) \o w
  OBVIOUS

(***************************************************************************)
(* What the state machine and the reader make of a sequence of bytes.      *)
(***************************************************************************)

\* A state of the machine, and the keys that the reader has got.
Machines == States \X Seq(Keys)

\* The key whose code i is, and the keys that the reader has got behind i.
KeyOf(s, i) ==
    <<IF s \in {"init", "basic break expec", "basic break es"} THEN "basic" ELSE "extended", i>>
Got(x, i) == IF IsMake(x[1], i) /\ KeyOf(x[1], i) \in Mapped
             THEN Append(x[2], KeyOf(x[1], i)) ELSE x[2]
Step(x, i) == <<NextState(x[1], i), Got(x, i)>>

\* The bytes q lead from x to y.
Leads(x, q, y) ==
    \E st \in [0 .. Len(q) -> Machines] :
        /\ st[0] = x /\ st[Len(q)] = y
        /\ \A i \in 1 .. Len(q) : st[i] = Step(st[i - 1], q[i])

LEMMA NextStateType == ASSUME NEW s \in States, NEW i \in Bytes PROVE NextState(s, i) \in States
  BY DEF NextState, States

LEMMA StepType ==
  ASSUME NEW x \in Machines, NEW i \in Bytes
  PROVE  Step(x, i) \in Machines /\ Got(x, i) \in Seq(Keys)
  <1>1. x[1] \in States /\ x[2] \in Seq(Keys)
    BY DEF Machines
  <1>2. NextState(x[1], i) \in States
    BY <1>1, NextStateType
  <1>3. Got(x, i) \in Seq(Keys)
    <2>1. CASE KeyOf(x[1], i) \in Mapped
      <3>1. KeyOf(x[1], i) \in Keys
        BY <2>1, KeyboardAssumption
      <3>2. Append(x[2], KeyOf(x[1], i)) \in Seq(Keys)
        BY <1>1, <3>1, AppendProperties
      <3> QED BY <1>1, <3>2 DEF Got
    <2>2. CASE KeyOf(x[1], i) \notin Mapped
      BY <1>1, <2>2 DEF Got
    <2> QED BY <2>1, <2>2
  <1> QED BY <1>2, <1>3 DEF Step, Machines

LEMMA LeadsNowhere == ASSUME NEW x \in Machines, NEW y PROVE Leads(x, <<>>, y) <=> x = y
  <1>1. Len(<<>>) = 0
    OBVIOUS
  <1>2. ASSUME x = y PROVE Leads(x, <<>>, y)
    <2> DEFINE st == [i \in 0 .. 0 |-> x]
    <2>1. st \in [0 .. Len(<<>>) -> Machines] /\ st[0] = x
      BY <1>1
    <2>2. \A i \in 1 .. Len(<<>>) : st[i] = Step(st[i - 1], <<>>[i])
      BY <1>1
    <2> HIDE DEF st
    <2> QED BY <1>1, <1>2, <2>1, <2>2 DEF Leads
  <1>3. ASSUME Leads(x, <<>>, y) PROVE x = y
    BY <1>1, <1>3 DEF Leads
  <1> QED BY <1>2, <1>3

\* The first byte may be taken out ...
LEMMA LeadsTail ==
  ASSUME NEW x \in Machines, NEW q \in Seq(Bytes), NEW y, q # <<>>, Leads(x, q, y)
  PROVE  Leads(Step(x, Head(q)), Tail(q), y)
  <1>1. PICK st \in [0 .. Len(q) -> Machines] :
           /\ st[0] = x /\ st[Len(q)] = y
           /\ \A i \in 1 .. Len(q) : st[i] = Step(st[i - 1], q[i])
    BY DEF Leads
  <1>2. /\ Len(q) \in Nat \ {0} /\ Head(q) = q[1]
        /\ Len(Tail(q)) = Len(q) - 1
        /\ \A i \in 1 .. Len(q) - 1 : Tail(q)[i] = q[i + 1]
    BY HeadTailProperties, LenProperties, EmptySeq
  <1> DEFINE L == Len(q) - 1
             sf == [i \in 0 .. L |-> st[i + 1]]
  <1>3. L \in Nat /\ \A i \in 0 .. L : i + 1 \in 1 .. Len(q) /\ i + 1 \in 0 .. Len(q) /\ (i + 1) - 1 = i
    BY <1>2
  <1>4. sf \in [0 .. L -> Machines]
    BY <1>1, <1>3
  <1>5. sf[0] = Step(x, Head(q)) /\ sf[L] = y
    <2>1. sf[0] = st[1] /\ sf[L] = st[Len(q)]
      BY <1>2, <1>3
    <2>2. st[1] = Step(st[1 - 1], q[1])
      BY <1>1, <1>2
    <2> QED BY <1>1, <1>2, <2>1, <2>2
  <1>6. ASSUME NEW i \in 1 .. L PROVE sf[i] = Step(sf[i - 1], Tail(q)[i])
    <2>1. /\ i \in 0 .. L /\ i - 1 \in 0 .. L /\ (i - 1) + 1 = i /\ i + 1 \in 1 .. Len(q)
          /\ (i + 1) - 1 = i
      BY <1>2
    <2>2. sf[i] = st[i + 1] /\ sf[i - 1] = st[i]
      BY <2>1
    <2>3. st[i + 1] = Step(st[(i + 1) - 1], q[i + 1])
      BY <1>1, <2>1
    <2> QED BY <1>2, <2>1, <2>2, <2>3
  <1> HIDE DEF sf
  <1> QED BY <1>2, <1>4, <1>5, <1>6 DEF Leads

\* ... and another byte put in.
LEMMA LeadsAppend ==
  ASSUME NEW x \in Machines, NEW q \in Seq(Bytes), NEW y \in Machines, NEW v \in Bytes,
         Leads(x, q, y)
  PROVE  Leads(x, Append(q, v), Step(y, v))
  <1>1. PICK st \in [0 .. Len(q) -> Machines] :
           /\ st[0] = x /\ st[Len(q)] = y
           /\ \A i \in 1 .. Len(q) : st[i] = Step(st[i - 1], q[i])
    BY DEF Leads
  <1> DEFINE L == Len(q) + 1
             r == Append(q, v)
             f == Step(y, v)
             sf == [i \in 0 .. L |-> IF i = L THEN f ELSE st[i]]
  <1>2. /\ Len(q) \in Nat /\ Len(r) = L /\ r[L] = v
        /\ \A i \in 1 .. Len(q) : r[i] = q[i]
    BY AppendProperties, LenProperties
  <1>3. f \in Machines
    BY StepType
  <1> HIDE DEF f, r
  <1>4. sf \in [0 .. L -> Machines] /\ sf[L] = f /\ \A i \in 0 .. Len(q) : sf[i] = st[i]
    BY <1>1, <1>2, <1>3
  <1> HIDE DEF sf
  <1>5. sf[0] = x
    BY <1>1, <1>2, <1>4
  <1>6. ASSUME NEW i \in 1 .. L PROVE sf[i] = Step(sf[i - 1], r[i])
    <2>1. CASE i = L
      <3>1. i - 1 = Len(q) /\ Len(q) \in 0 .. Len(q)
        BY <1>2, <2>1
      <3>2. sf[i - 1] = y /\ sf[i] = f /\ r[i] = v
        BY <1>1, <1>2, <1>4, <2>1, <3>1
      <3> QED BY <3>2 DEF f
    <2>2. CASE i # L
      <3>1. i \in 1 .. Len(q) /\ i \in 0 .. Len(q) /\ i - 1 \in 0 .. Len(q)
        BY <1>2, <2>2
      <3>2. sf[i] = st[i] /\ sf[i - 1] = st[i - 1] /\ r[i] = q[i]
        BY <1>2, <1>4, <3>1
      <3> QED BY <1>1, <3>1, <3>2
    <2> QED BY <2>1, <2>2
  <1>7. Leads(x, r, f)
    BY <1>2, <1>4, <1>5, <1>6 DEF Leads
  <1> QED BY <1>7 DEF f, r

LEMMA PrefixIs ==
  ASSUME NEW S, NEW s \in Seq(S), NEW t \in Seq(S)
  PROVE  IsPrefixOf(s, t) <=> Len(s) \leq Len(t) /\ \A i \in 1 .. Len(s) : s[i] = t[i]
  <1>1. CASE Len(s) \leq Len(t)
    <2>1. Len(s) \in Nat /\ Len(t) \in Nat
      OBVIOUS
    <2> DEFINE r == SubSeq(t, 1, Len(s))
    <2>2. r \in Seq(S) /\ Len(r) = Len(s) /\ \A i \in 1 .. Len(s) : r[i] = t[i]
      BY <1>1, <2>1
    <2> HIDE DEF r
    <2>3. s = r <=> \A i \in 1 .. Len(s) : s[i] = r[i]
      BY <2>2, SeqEqual
    <2>4. IsPrefixOf(s, t) <=> s = r
      BY <1>1 DEF IsPrefixOf, r
    <2> QED BY <1>1, <2>2, <2>3, <2>4
  <1>2. CASE ~ Len(s) \leq Len(t)
    BY <1>2 DEF IsPrefixOf
  <1> QED BY <1>1, <1>2

LEMMA PrefixAppend ==
  ASSUME NEW S, NEW s \in Seq(S), NEW t \in Seq(S), NEW v \in S, IsPrefixOf(s, t)
  PROVE  IsPrefixOf(s, Append(t, v))
  <1> DEFINE r == Append(t, v)
  <1>1. /\ r \in Seq(S) /\ Len(r) = Len(t) + 1 /\ \A i \in 1 .. Len(t) : r[i] = t[i]
        /\ Len(s) \in Nat /\ Len(t) \in Nat
    BY AppendProperties, LenProperties
  <1> HIDE DEF r
  <1>2. Len(s) \leq Len(t) /\ \A i \in 1 .. Len(s) : s[i] = t[i]
    BY PrefixIs
  <1>3. Len(s) \leq Len(r) /\ \A i \in 1 .. Len(s) : i \in 1 .. Len(t)
    BY <1>1, <1>2
  <1>4. IsPrefixOf(s, r)
    BY <1>1, <1>2, <1>3, PrefixIs
  <1> QED BY <1>4 DEF r

LEMMA PrefixTransitive ==
  ASSUME NEW S, NEW s \in Seq(S), NEW t \in Seq(S), NEW u \in Seq(S),
         IsPrefixOf(s, t), IsPrefixOf(t, u)
  PROVE  IsPrefixOf(s, u)
  <1>1. Len(s) \in Nat /\ Len(t) \in Nat /\ Len(u) \in Nat
    OBVIOUS
  <1>2. Len(s) \leq Len(t) /\ \A i \in 1 .. Len(s) : s[i] = t[i]
    BY PrefixIs
  <1>3. Len(t) \leq Len(u) /\ \A i \in 1 .. Len(t) : t[i] = u[i]
    BY PrefixIs
  <1>4. Len(s) \leq Len(u) /\ \A i \in 1 .. Len(s) : s[i] = u[i]
    BY <1>1, <1>2, <1>3
  <1> QED BY <1>4, PrefixIs

\* The reader gets keys and gives none back.
LEMMA LeadsOn ==
  ASSUME NEW x \in Machines, NEW q \in Seq(Bytes), NEW y, Leads(x, q, y)
  PROVE  IsPrefixOf(x[2], y[2])
  <1>1. PICK st \in [0 .. Len(q) -> Machines] :
           /\ st[0] = x /\ st[Len(q)] = y
           /\ \A i \in 1 .. Len(q) : st[i] = Step(st[i - 1], q[i])
    BY DEF Leads
  <1>2. Len(q) \in Nat /\ \A i \in 1 .. Len(q) : q[i] \in Bytes
    OBVIOUS
  <1>3. x[2] \in Seq(Keys) /\ \A i \in 0 .. Len(q) : st[i] \in Machines /\ st[i][2] \in Seq(Keys)
    BY <1>1 DEF Machines
  <1> DEFINE S == {n \in Nat : n \leq Len(q) => IsPrefixOf(x[2], st[n][2])}
  <1>4. 0 \in S
    <2>1. IsPrefixOf(x[2], x[2])
      BY <1>3, PrefixIs
    <2> QED BY <1>1, <2>1
  <1>5. ASSUME NEW n \in Nat, n \in S PROVE n + 1 \in S
    <2> SUFFICES ASSUME n + 1 \leq Len(q) PROVE IsPrefixOf(x[2], st[n + 1][2])
      OBVIOUS
    <2>1. n \in 0 .. Len(q) /\ n + 1 \in 1 .. Len(q) /\ (n + 1) - 1 = n /\ n \leq Len(q)
      BY <1>2
    <2> DEFINE m == st[n]
               i == q[n + 1]
    <2>2. m \in Machines /\ m[2] \in Seq(Keys) /\ IsPrefixOf(x[2], m[2])
      BY <1>3, <1>5, <2>1
    <2>3. st[n + 1] = Step(m, i)
      BY <1>1, <2>1
    <2> HIDE DEF m, i
    <2>4. st[n + 1][2] = Got(m, i)
      BY <2>3 DEF Step
    <2>5. Got(m, i) = m[2] \/ \E k \in Keys : Got(m, i) = Append(m[2], k)
      BY KeyboardAssumption DEF Got
    <2> QED BY <1>3, <2>2, <2>4, <2>5, PrefixAppend
  <1> HIDE DEF S
  <1>6. Nat \subseteq S
    BY <1>4, <1>5, Induction
  <1>7. Len(q) \in S
    BY <1>2, <1>6
  <1> QED BY <1>1, <1>2, <1>7 DEF S

\* The states in which no key's bytes have been parsed in part.
Whole == {"init", "basic break expec", "ext break expec"}

\* What the state machine does between such states, with a code c.
LEMMA Transitions ==
  ASSUME NEW c \in Codes
  PROVE  /\ /\ NextState("init", c) = "basic break expec"
            /\ NextState("init", E0) = "ext make es"
            /\ NextState("init", F0) = "ignore"
         /\ /\ NextState("basic break expec", c) = "basic break expec"
            /\ NextState("basic break expec", E0) = "basic break expec"
            /\ NextState("basic break expec", F0) = "basic break es"
            /\ NextState("basic break es", c) = "init"
         /\ /\ NextState("ext make es", c) = "ext break expec"
            /\ NextState("ext make es", F0) = "ignore"
         /\ /\ NextState("ext break expec", c) = "init"
            /\ NextState("ext break expec", E0) = "ext break es 1"
            /\ NextState("ext break expec", F0) = "ignore"
         /\ /\ NextState("ext break es 1", c) = "ext break expec"
            /\ NextState("ext break es 1", F0) = "ext break es 2"
            /\ NextState("ext break es 2", c) = "init"
         /\ NextState("ignore", c) = "init"
  <1>1. c # F0 /\ c # E0 /\ E0 \notin Codes /\ F0 \notin Codes /\ E0 # F0
    BY KeyboardAssumption DEF E0, F0
  <1>2. /\ NextState("init", c) = "basic break expec"
        /\ NextState("init", E0) = "ext make es"
        /\ NextState("init", F0) = "ignore"
    BY <1>1, Zenon DEF NextState
  <1>3. /\ NextState("basic break expec", c) = "basic break expec"
        /\ NextState("basic break expec", E0) = "basic break expec"
        /\ NextState("basic break expec", F0) = "basic break es"
        /\ NextState("basic break es", c) = "init"
    BY <1>1, Zenon DEF NextState
  <1>4. /\ NextState("ext make es", c) = "ext break expec"
        /\ NextState("ext make es", F0) = "ignore"
    BY <1>1, Zenon DEF NextState
  <1>5. /\ NextState("ext break expec", c) = "init"
        /\ NextState("ext break expec", E0) = "ext break es 1"
        /\ NextState("ext break expec", F0) = "ignore"
    BY <1>1, Zenon DEF NextState
  <1>6. /\ NextState("ext break es 1", c) = "ext break expec"
        /\ NextState("ext break es 1", F0) = "ext break es 2"
        /\ NextState("ext break es 2", c) = "init"
    BY <1>1, Zenon DEF NextState
  <1>7. NextState("ignore", c) = "init"
    BY <1>1, Zenon DEF NextState
  <1> QED BY <1>2, <1>3, <1>4, <1>5, <1>6, <1>7, Zenon

\* The bytes of a press or a repeat leave the machine in such a state, and those of a
\* release in its first one, whatever other keys are down.
LEMMA MakeIsWhole ==
  ASSUME NEW e \in Whole, NEW k \in Keys
  PROVE  LET f == IF k[1] = "extended" THEN NextState(e, E0) ELSE e
         IN  f \in States /\ NextState(f, k[2]) \in Whole
  <1>1. k[2] \in Codes
    BY DEF Codes
  <1>2. CASE e = "init"
    BY <1>1, <1>2, Transitions, Zenon DEF Whole, States
  <1>3. CASE e = "basic break expec"
    BY <1>1, <1>3, Transitions, Zenon DEF Whole, States
  <1>4. CASE e = "ext break expec"
    BY <1>1, <1>4, Transitions, Zenon DEF Whole, States
  <1> QED BY <1>2, <1>3, <1>4 DEF Whole

LEMMA BreakEnds ==
  ASSUME NEW e \in Whole, NEW k \in Keys
  PROVE  LET f == IF k[1] = "extended" THEN NextState(e, E0) ELSE e
         IN  /\ f \in States /\ NextState(f, F0) \in States
             /\ NextState(NextState(f, F0), k[2]) = "init"
  <1>1. k[2] \in Codes
    BY DEF Codes
  <1>2. CASE e = "init"
    BY <1>1, <1>2, Transitions, Zenon DEF Whole, States
  <1>3. CASE e = "basic break expec"
    BY <1>1, <1>3, Transitions, Zenon DEF Whole, States
  <1>4. CASE e = "ext break expec"
    BY <1>1, <1>4, Transitions, Zenon DEF Whole, States
  <1> QED BY <1>2, <1>3, <1>4 DEF Whole

\* Which bytes are the code of a pressed key there.
LEMMA Makes ==
  ASSUME NEW c \in Codes
  PROVE  /\ /\ IsMake("init", c) /\ ~ IsMake("init", E0) /\ ~ IsMake("init", F0)
         /\ /\ IsMake("basic break expec", c) /\ ~ IsMake("basic break expec", F0)
            /\ ~ IsMake("basic break es", c)
         /\ IsMake("ext make es", c) /\ ~ IsMake("ext make es", F0)
         /\ /\ ~ IsMake("ext break expec", E0)
            /\ IsMake("ext break es 1", c) /\ ~ IsMake("ext break es 1", F0)
            /\ ~ IsMake("ext break es 2", c)
         /\ ~ IsMake("ignore", c)
  <1>1. c # F0 /\ c # E0 /\ E0 \notin Codes /\ F0 \notin Codes /\ E0 # F0
    BY KeyboardAssumption DEF E0, F0
  <1> QED BY <1>1 DEF IsMake

(***************************************************************************)
(* The bytes of a key stroke, given to the machine between two strokes.    *)
(***************************************************************************)
Opened(y, k) == IF k[1] = "extended" THEN Step(y, E0) ELSE y
Pressed(y, k) == Step(Opened(y, k), k[2])
Released(y, k) == Step(Step(Opened(y, k), F0), k[2])

\* The machine expects a key of the kind that k is of.
Expects(e, k) == /\ e = "basic break expec" => k[1] = "basic"
                 /\ e = "ext break expec" => k[1] = "extended"

LEMMA StepIs ==
  ASSUME NEW x, NEW i
  PROVE  /\ Step(x, i)[1] = NextState(x[1], i) /\ Step(x, i)[2] = Got(x, i)
         /\ ~ IsMake(x[1], i) => Got(x, i) = x[2]
         /\ IsMake(x[1], i) => Got(x, i) = IF KeyOf(x[1], i) \in Mapped
                                           THEN Append(x[2], KeyOf(x[1], i)) ELSE x[2]
  BY DEF Step, Got

LEMMA KeyIs == ASSUME NEW k \in Keys
               PROVE  /\ k = <<k[1], k[2]>> /\ k[1] \in {"basic", "extended"}
                      /\ k[2] \in Codes /\ k[2] \in Bytes
  <1>1. k \in {"basic", "extended"} \X Codes
    BY KeyboardAssumption
  <1> QED BY <1>1 DEF Bytes

\* Where a stroke leaves the machine.
After(y, k) == /\ Pressed(y, k)[1] \in Whole
               /\ Released(y, k)[1] = "init"

\* What the reader gets from it, in a state that expects it.
Yields(y, k) ==
    /\ Pressed(y, k)[1] = IF k[1] = "extended" THEN "ext break expec" ELSE "basic break expec"
    /\ Pressed(y, k)[2] = IF k \in Mapped THEN Append(y[2], k) ELSE y[2]
    /\ Released(y, k)[2] = y[2]

LEMMA StrokeEnds ==
  ASSUME NEW y \in Machines, y[1] \in Whole, NEW k \in Keys
  PROVE  After(y, k)
  <1> DEFINE e == y[1]
             f == IF k[1] = "extended" THEN NextState(e, E0) ELSE e
  <1>1. Opened(y, k)[1] = f
    BY StepIs DEF Opened
  <1>2. NextState(f, k[2]) \in Whole /\ NextState(NextState(f, F0), k[2]) = "init"
    BY MakeIsWhole, BreakEnds
  <1> HIDE DEF f
  <1> DEFINE o == Opened(y, k)
  <1> HIDE DEF o
  <1>3. o[1] = f
    BY <1>1 DEF o
  <1>4. Step(o, k[2])[1] = NextState(f, k[2]) /\ Step(o, F0)[1] = NextState(f, F0)
    BY <1>3, StepIs
  <1>5. Step(Step(o, F0), k[2])[1] = NextState(NextState(f, F0), k[2])
    BY <1>4, StepIs
  <1> QED BY <1>2, <1>4, <1>5 DEF After, Pressed, Released, o

\* An extended key: E0 c and E0 F0 c.
LEMMA ExtendedYields ==
  ASSUME NEW y \in Machines, NEW k \in Keys, k[1] = "extended",
         y[1] \in {"init", "ext break expec"}
  PROVE  Yields(y, k)
  <1> DEFINE o == Step(y, E0)
             c == k[2]
             p == Step(o, c)
             h == Step(o, F0)
             r == Step(h, c)
  <1>1. c \in Codes /\ k = <<"extended", c>>
    BY KeyIs
  <1>2. o[1] \in {"ext make es", "ext break es 1"} /\ o[2] = y[2]
    <2>1. NextState(y[1], E0) \in {"ext make es", "ext break es 1"} /\ ~ IsMake(y[1], E0)
      BY <1>1, Transitions, Makes
    <2> QED BY <2>1, StepIs
  <1> HIDE DEF o, c
  <1>3. KeyOf(o[1], c) = k
    BY <1>1, <1>2 DEF KeyOf
  <1>4. p[1] = "ext break expec" /\ p[2] = IF k \in Mapped THEN Append(y[2], k) ELSE y[2]
    <2>1. NextState(o[1], c) = "ext break expec" /\ IsMake(o[1], c)
      BY <1>1, <1>2, Transitions, Makes
    <2> QED BY <1>2, <1>3, <2>1, StepIs
  <1>5. h[1] \in {"ignore", "ext break es 2"} /\ h[2] = y[2]
    <2>1. NextState(o[1], F0) \in {"ignore", "ext break es 2"} /\ ~ IsMake(o[1], F0)
      <3>1. CASE o[1] = "ext make es"
        <4>1. NextState("ext make es", F0) = "ignore" /\ ~ IsMake("ext make es", F0)
          BY <1>1, Transitions, Makes, Zenon
        <4> QED BY <3>1, <4>1
      <3>2. CASE o[1] = "ext break es 1"
        <4>1. NextState("ext break es 1", F0) = "ext break es 2" /\ ~ IsMake("ext break es 1", F0)
          BY <1>1, Transitions, Makes, Zenon
        <4> QED BY <3>2, <4>1
      <3> QED BY <1>2, <3>1, <3>2
    <2>2. h[1] = NextState(o[1], F0) /\ h[2] = Got(o, F0) /\ Got(o, F0) = o[2]
      BY <2>1, StepIs, Zenon
    <2> QED BY <1>2, <2>1, <2>2
  <1> HIDE DEF h
  <1>6. r[2] = y[2]
    <2>1. ~ IsMake(h[1], c)
      BY <1>1, <1>5, Makes
    <2> QED BY <1>5, <2>1, StepIs
  <1> QED BY <1>4, <1>6 DEF Yields, Pressed, Released, Opened, o, h, c

\* A basic key: c and F0 c.
LEMMA BasicYields ==
  ASSUME NEW y \in Machines, NEW k \in Keys, k[1] = "basic",
         y[1] \in {"init", "basic break expec"}
  PROVE  Yields(y, k)
  <1> DEFINE c == k[2]
             p == Step(y, c)
             h == Step(y, F0)
             r == Step(h, c)
  <1>1. c \in Codes /\ k = <<"basic", c>>
    BY KeyIs
  <1> HIDE DEF c
  <1>2. KeyOf(y[1], c) = k
    BY <1>1 DEF KeyOf
  <1>3. p[1] = "basic break expec" /\ p[2] = IF k \in Mapped THEN Append(y[2], k) ELSE y[2]
    <2>1. NextState(y[1], c) = "basic break expec" /\ IsMake(y[1], c)
      BY <1>1, Transitions, Makes
    <2> QED BY <1>2, <2>1, StepIs
  <1>4. h[1] \in {"ignore", "basic break es"} /\ h[2] = y[2]
    <2>1. NextState(y[1], F0) \in {"ignore", "basic break es"} /\ ~ IsMake(y[1], F0)
      BY <1>1, Transitions, Makes
    <2> QED BY <2>1, StepIs
  <1> HIDE DEF h
  <1>5. r[2] = y[2]
    <2>1. ~ IsMake(h[1], c)
      BY <1>1, <1>4, Makes
    <2> QED BY <1>4, <2>1, StepIs
  <1> QED BY <1>3, <1>5 DEF Yields, Pressed, Released, Opened, h, c

LEMMA StrokeYields ==
  ASSUME NEW y \in Machines, y[1] \in Whole, NEW k \in Keys, Expects(y[1], k)
  PROVE  Yields(y, k)
  <1>1. CASE k[1] = "extended"
    <2>1. y[1] \in {"init", "ext break expec"}
      BY <1>1 DEF Whole, Expects
    <2> QED BY <1>1, <2>1, ExtendedYields
  <1>2. CASE k[1] = "basic"
    <2>1. y[1] \in {"init", "basic break expec"}
      BY <1>2 DEF Whole, Expects
    <2> QED BY <1>2, <2>1, BasicYields
  <1> QED BY <1>1, <1>2, KeyIs

\* A key of the kind that the machine expects is down.
Kinds(e, keys) == /\ e = "basic break expec" => \E j \in keys : j[1] = "basic"
                  /\ e = "ext break expec" => \E j \in keys : j[1] = "extended"

LEMMA KindsFit ==
  ASSUME NEW e, NEW keys \in SUBSET Keys, NEW k \in keys, Kinds(e, keys \ {k}) \/ Kinds(e, keys),
         ~ Mix(keys)
  PROVE  Expects(e, k)
  <1>1. Kinds(e, keys)
    BY DEF Kinds
  <1>2. k[1] \in {"basic", "extended"}
    BY KeyIs
  <1>3. \A j \in keys : j[1] = k[1] \/ j = k \/ (j[1] # "extended" /\ k[1] # "extended")
    BY DEF Mix
  <1> QED BY <1>1, <1>2, <1>3 DEF Kinds, Expects

(***************************************************************************)
(* The inductive invariant.                                                *)
(***************************************************************************)

\* read_key runs with interrupts off, and the byte it is at is in the ring until tail
\* has moved on.
SectionInv ==
    /\ pc \in {"loop", "advance", "exit"} => ~ IFlag
    /\ pc = "advance" => tail # head

\* The loop goes on only as long as no key was found.
LoopInv == pc = "loop" => ~ make

\* What is between tail and head was sent by the keyboard: no slot of the start.
ContentInv == Content \in Seq(Bytes)

\* Unless it was noted, no extended key is down together with another.
MixInv == ~ mixed => ~ Mix(down)

\* The bytes that nobody has parsed, in the ring or still to come.
Unparsed == Untaken \o wire

\* The keys the reader has returned, and the one it has found and not returned yet.
Found == <<IF basic_key THEN "basic" ELSE "extended", byte>>
Delivered == IF pc \in {"advance", "exit", "search"} /\ make /\ Found \in Mapped
             THEN Append(got, Found) ELSE got
Machine == <<state, Delivered>>

\* Unless bytes were lost, those that are left lead the machine to a state between the
\* bytes of two key strokes, and to the first one if no key is down; and if extended keys
\* did not overlap, the reader will then have got what was typed.
SyncInv ==
    lost = "nothing" =>
        \E y \in Machines :
            /\ Leads(Machine, Unparsed, y) /\ y[1] \in Whole
            /\ down = {} => y[1] = "init"
            /\ ~ mixed => y[2] = MappedTyped /\ Kinds(y[1], down)

IInv == TypeOK /\ SectionInv /\ LoopInv /\ ContentInv /\ MixInv /\ SyncInv

LEMMA MachineType == IInv => Machine \in Machines /\ Delivered \in Seq(Keys)
  <1> SUFFICES ASSUME IInv PROVE Machine \in Machines /\ Delivered \in Seq(Keys)
    OBVIOUS
  <1>1. state \in States /\ got \in Seq(Keys)
    BY DEF IInv, TypeOK
  <1>2. Found \in Mapped => Append(got, Found) \in Seq(Keys)
    BY <1>1, KeyboardAssumption, AppendProperties
  <1>3. Delivered \in Seq(Keys)
    BY <1>1, <1>2 DEF Delivered
  <1> QED BY <1>1, <1>3 DEF Machine, Machines

\* What the actions do to the ring as a sequence.
LEMMA ContentIs == Content = Items(key_buffer, head, tail)
  BY DEF Content, Length, Items, Size, N

LEMMA ContentIsNext == Content' = Items(key_buffer', head', tail')
  BY DEF Content, Length, Items, Size, N

Associates(p, q, r) == (p \o q) \o r = p \o (q \o r)

LEMMA Reassociate ==
  ASSUME NEW p \in Seq(Bytes), NEW q \in Seq(Bytes), NEW r \in Seq(Bytes)
  PROVE  Associates(p, q, r)
  BY ConcatAssociative DEF Associates

LEMMA ContentSeq ==
  ASSUME NEW S, key_buffer \in [Slots -> S], head \in Slots, tail \in Slots
  PROVE  Content \in Seq(S) /\ Len(Content) = Size(head, tail)
  <1>1. Lists(Content, S, Size(head, tail), key_buffer, tail)
    BY ItemsSeq, ContentIs, Zenon
  <1> QED BY <1>1, Zenon DEF Lists

LEMMA CodesAreBytes == E0 \in Bytes /\ F0 \in Bytes /\ \A k \in Keys : k[2] \in Bytes
  BY DEF Bytes, Codes

LEMMA UntakenSeq == IInv => Untaken \in Seq(Bytes) /\ Unparsed \in Seq(Bytes)
  <1> SUFFICES ASSUME IInv PROVE Untaken \in Seq(Bytes) /\ Unparsed \in Seq(Bytes)
    OBVIOUS
  <1>1. Content \in Seq(Bytes) /\ wire \in Seq(Bytes)
    BY DEF IInv, TypeOK, ContentInv
  <1>2. ASSUME pc = "advance" PROVE Content # <<>>
    <2>1. /\ key_buffer \in [Slots -> Bytes \cup {0}] /\ head \in Slots /\ tail \in Slots
          /\ head # tail
      BY <1>2 DEF IInv, TypeOK, SectionInv
    <2> QED BY <2>1, ItemsTake, ContentIs
  <1>3. pc = "advance" => Tail(Content) \in Seq(Bytes)
    BY <1>1, <1>2, HeadTailProperties
  <1>4. Untaken \in Seq(Bytes)
    BY <1>1, <1>3 DEF Untaken
  <1> QED BY <1>1, <1>4, ConcatProperties DEF Unparsed

LEMMA EmptyContent ==
  ASSUME head \in Slots, tail \in Slots, key_buffer \in [Slots -> Bytes \cup {0}]
  PROVE  Content = <<>> <=> head = tail
  <1>1. Size(head, tail) = 0 <=> head = tail
    BY SizeSteps
  <1>2. Content \in Seq(Bytes \cup {0}) /\ Len(Content) = Size(head, tail)
    BY ContentSeq, Zenon
  <1> QED BY <1>1, <1>2

LEMMA PutStep ==
  ASSUME IInv, kbd_isr
  PROVE  LET v == Head(wire) IN
         /\ v \in Bytes /\ Untaken = Content /\ Untaken' = Content'
         /\ head' # tail => /\ Len(Content) \in 0 .. N - 2
                            /\ Content' = Append(Content, v)
                            /\ tail' = tail /\ lost' = lost
         /\ head' = tail => /\ Len(Content) = N - 1 /\ Content # <<>>
                            /\ Content' = Append(Tail(Content), v)
                            /\ lost' = "oldest"
  <1> DEFINE v == Head(wire)
             S == Bytes \cup {0}
  <1>1. /\ IFlag /\ wire # <<>> /\ wire' = Tail(wire)
        /\ key_buffer' = [key_buffer EXCEPT ![head] = v]
        /\ head' = Succ(head)
        /\ tail' = IF head' = tail THEN Succ(tail) ELSE tail
        /\ lost' = IF head' = tail THEN "oldest" ELSE lost
        /\ pc' = pc
    BY DEF kbd_isr, reader
  <1>2. /\ key_buffer \in [Slots -> S] /\ head \in Slots /\ tail \in Slots /\ wire \in Seq(Bytes)
        /\ Content \in Seq(Bytes) /\ pc # "advance"
    BY <1>1 DEF IInv, TypeOK, SectionInv, ContentInv
  <1>3. v \in Bytes /\ v \in S
    BY <1>1, <1>2, HeadTailProperties
  <1>4. Untaken = Content /\ Untaken' = Content'
    BY <1>1, <1>2 DEF Untaken
  <1>a. key_buffer' \in [Slots -> S] /\ Stored(key_buffer', key_buffer, head, v)
    BY <1>1, <1>2, <1>3 DEF Stored
  <1> HIDE DEF v, S
  <1>5. Len(Content) = Size(head, tail)
    BY <1>2, ContentSeq, Zenon
  <1>6. ASSUME head' # tail
        PROVE  /\ Len(Content) \in 0 .. N - 2 /\ Content' = Append(Content, v)
               /\ tail' = tail /\ lost' = lost
    <2>1. tail' = tail /\ lost' = lost /\ Succ(head) # tail
      BY <1>1, <1>6
    <2>2. Size(head, tail) \in 0 .. N - 2
      <3>1. Size(Succ(head), tail) = Size(head, tail) + 1
        BY <1>2, <2>1, SizeSteps
      <3>2. Size(head, tail) \in 0 .. N - 1 /\ Size(Succ(head), tail) \in 0 .. N - 1
        BY <1>2, SizeIs, SuccSlot
      <3> QED BY <3>1, <3>2, Slot
    <2>3. Items(key_buffer', head', tail) = Append(Items(key_buffer, head, tail), v)
      <3>1. key_buffer \in [Slots -> S] /\ head \in Slots
        BY <1>2
      <3>2. tail \in Slots /\ Succ(head) # tail
        BY <1>2, <2>1
      <3>3. Appended(key_buffer', key_buffer, head, tail, v)
        BY <1>3, <1>a, <3>1, <3>2, ItemsPut, Zenon
      <3> QED BY <1>1, <3>3, Zenon DEF Appended
    <2> QED BY <1>5, <2>1, <2>2, <2>3, ContentIs, ContentIsNext
  <1>7. ASSUME head' = tail
        PROVE  /\ Len(Content) = N - 1 /\ Content # <<>>
               /\ Content' = Append(Tail(Content), v) /\ lost' = "oldest"
    <2>1. tail' = Succ(tail) /\ lost' = "oldest" /\ Succ(head) = tail
      BY <1>1, <1>7
    <2>2. /\ Succ(tail) \in Slots /\ Succ(head) # Succ(tail) /\ head # tail
          /\ Size(head, tail) = N - 1
      BY <1>2, <2>1, SuccSlot, SizeSteps
    <2>3. /\ Items(key_buffer, head, tail) # <<>>
          /\ Items(key_buffer, head, Succ(tail)) = Tail(Items(key_buffer, head, tail))
      BY <1>2, <2>2, ItemsTake
    <2>4. Items(key_buffer', head', Succ(tail)) = Append(Items(key_buffer, head, Succ(tail)), v)
      <3>1. key_buffer \in [Slots -> S] /\ head \in Slots
        BY <1>2
      <3>2. Succ(tail) \in Slots /\ Succ(head) # Succ(tail)
        BY <1>2, <2>2
      <3>3. Appended(key_buffer', key_buffer, head, Succ(tail), v)
        BY <1>3, <1>a, <3>1, <3>2, ItemsPut, Zenon
      <3> QED BY <1>1, <3>3, Zenon DEF Appended
    <2> QED BY <1>5, <2>1, <2>2, <2>3, <2>4, ContentIs, ContentIsNext
  <1> QED BY <1>3, <1>4, <1>6, <1>7 DEF v

LEMMA ParseStep ==
  ASSUME IInv, parse
  PROVE  /\ Untaken = Content /\ Content # <<>> /\ Content' = Content
         /\ Untaken' = Tail(Content)
         /\ byte' = Head(Content) /\ byte' \in Bytes
  <1>1. /\ tail # head /\ pc = "loop" /\ pc' = "advance" /\ byte' = key_buffer[tail]
        /\ key_buffer' = key_buffer /\ head' = head /\ tail' = tail
    BY DEF parse, Goto, ring
  <1>2. /\ key_buffer \in [Slots -> Bytes \cup {0}] /\ head \in Slots /\ tail \in Slots
        /\ Content \in Seq(Bytes)
    BY DEF IInv, TypeOK, ContentInv
  <1>3. Content' = Content
    BY <1>1, ContentIs, ContentIsNext
  <1>4. Content # <<>> /\ byte' = Head(Content)
    BY <1>1, <1>2, ItemsTake, ContentIs
  <1>5. byte' \in Bytes
    BY <1>2, <1>4, HeadTailProperties
  <1> QED BY <1>1, <1>3, <1>4, <1>5 DEF Untaken

LEMMA AdvanceStep ==
  ASSUME IInv, advance
  PROVE  /\ Content # <<>> /\ Content' = Tail(Content) /\ Untaken' = Untaken
  <1>1. /\ pc = "advance" /\ pc' # "advance" /\ tail' = Succ(tail)
        /\ key_buffer' = key_buffer /\ head' = head
    BY DEF advance, Goto
  <1>2. /\ key_buffer \in [Slots -> Bytes \cup {0}] /\ head \in Slots /\ tail \in Slots
        /\ head # tail
    BY <1>1 DEF IInv, TypeOK, SectionInv
  <1>3. Content # <<>> /\ Content' = Tail(Content)
    BY <1>1, <1>2, ItemsTake, ContentIs, ContentIsNext
  <1> QED BY <1>1, <1>3 DEF Untaken

LEMMA FlushStep ==
  ASSUME IInv, flush_kbd_buffer
  PROVE  /\ Untaken = Content /\ Untaken' = Content' /\ Content' = <<>>
         /\ head = tail <=> Content = <<>>
  <1>1. /\ pc = "out" /\ pc' = pc /\ head' = 0 /\ tail' = 0 /\ key_buffer' = key_buffer
    BY DEF flush_kbd_buffer, reader
  <1>2. key_buffer \in [Slots -> Bytes \cup {0}] /\ head \in Slots /\ tail \in Slots
    BY DEF IInv, TypeOK
  <1>3. 0 \in Slots
    BY Slot
  <1>4. Content' = <<>>
    <2>1. Size(0, 0) = 0
      BY <1>3, SizeSteps
    <2>2. Lists(Items(key_buffer, 0, 0), Bytes \cup {0}, Size(0, 0), key_buffer, 0)
      BY <1>2, <1>3, ItemsSeq, Zenon
    <2>3. Content' = Items(key_buffer, 0, 0)
      BY <1>1, ContentIsNext
    <2>4. Content' \in Seq(Bytes \cup {0}) /\ Len(Content') = Size(0, 0)
      BY <2>2, <2>3, Zenon DEF Lists
    <2> QED BY <2>1, <2>4
  <1> QED BY <1>1, <1>2, <1>4, EmptyContent DEF Untaken

\* The other steps leave the ring and its reader's place in it alone.
RingSame == /\ UNCHANGED <<key_buffer, head, tail>>
            /\ pc' = "advance" <=> pc = "advance"

LEMMA RingSameStep ==
  ASSUME RingSame PROVE Content' = Content /\ Untaken' = Untaken
  <1>1. Content' = Content
    BY ContentIs, ContentIsNext DEF RingSame
  <1> QED BY <1>1 DEF Untaken, RingSame

\* The bytes of a key stroke, one after the other.
Prefixed(q, k) == IF k[1] = "extended" THEN Append(q, E0) ELSE q

LEMMA CodesAppended ==
  ASSUME NEW q \in Seq(Bytes), NEW k \in Keys
  PROVE  /\ MakeCode(k) \in Seq(Bytes) /\ BreakCode(k) \in Seq(Bytes)
         /\ Prefixed(q, k) \in Seq(Bytes)
         /\ q \o MakeCode(k) = Append(Prefixed(q, k), k[2])
         /\ q \o BreakCode(k) = Append(Append(Prefixed(q, k), F0), k[2])
  <1>1. E0 \in Bytes /\ F0 \in Bytes /\ k[2] \in Bytes
    BY CodesAreBytes
  <1> DEFINE c == k[2]
             p == Prefixed(q, k)
  <1>2. <<E0>> \in Seq(Bytes) /\ <<F0>> \in Seq(Bytes) /\ <<c>> \in Seq(Bytes)
        /\ <<>> \in Seq(Bytes) /\ <<F0, c>> \in Seq(Bytes) /\ <<F0, c>> = <<F0>> \o <<c>>
    BY <1>1
  <1>3. Prefix(k) \in Seq(Bytes) /\ p \in Seq(Bytes) /\ q \o Prefix(k) = p
    <2>1. CASE k[1] = "extended"
      BY <1>1, <1>2, <2>1, AppendIsConcat, AppendProperties DEF Prefix, Prefixed
    <2>2. CASE k[1] # "extended"
      BY <1>2, <2>2, ConcatEmptySeq DEF Prefix, Prefixed
    <2> QED BY <2>1, <2>2
  <1> HIDE DEF p, c
  <1>4. Append(p, F0) \in Seq(Bytes) /\ Append(p, F0) = p \o <<F0>>
    BY <1>1, <1>3, AppendProperties, AppendIsConcat
  <1>5. /\ Append(p, c) = p \o <<c>>
        /\ Append(Append(p, F0), c) = Append(p, F0) \o <<c>>
    BY <1>1, <1>3, <1>4, AppendIsConcat DEF c
  <1>6. /\ q \o (Prefix(k) \o <<c>>) = p \o <<c>>
        /\ q \o (Prefix(k) \o <<F0, c>>) = p \o <<F0, c>>
        /\ p \o <<F0, c>> = (p \o <<F0>>) \o <<c>>
    <2> DEFINE one == <<c>>
               two == <<F0, c>>
               f0 == <<F0>>
    <2>0. /\ one \in Seq(Bytes) /\ two \in Seq(Bytes) /\ f0 \in Seq(Bytes)
          /\ q \in Seq(Bytes) /\ p \in Seq(Bytes) /\ Prefix(k) \in Seq(Bytes)
      BY <1>2, <1>3
    <2>4. two = f0 \o one
      BY <1>2
    <2> HIDE DEF one, two, f0
    <2>5. Associates(q, Prefix(k), one) /\ Associates(q, Prefix(k), two) /\ Associates(p, f0, one)
      BY <2>0, Reassociate, Zenon
    <2>1. (q \o Prefix(k)) \o one = q \o (Prefix(k) \o one)
      BY <2>5 DEF Associates
    <2>2. (q \o Prefix(k)) \o two = q \o (Prefix(k) \o two)
      BY <2>5 DEF Associates
    <2>3. (p \o f0) \o one = p \o (f0 \o one)
      BY <2>5 DEF Associates
    <2> QED BY <1>3, <2>1, <2>2, <2>3, <2>4 DEF one, two, f0
  <1>7. Prefix(k) \o <<c>> \in Seq(Bytes) /\ Prefix(k) \o <<F0, c>> \in Seq(Bytes)
    BY <1>2, <1>3, ConcatProperties
  <1>8. MakeCode(k) = Prefix(k) \o <<c>> /\ BreakCode(k) = Prefix(k) \o <<F0, c>>
    BY DEF MakeCode, BreakCode, c
  <1> QED BY <1>3, <1>4, <1>5, <1>6, <1>7, <1>8 DEF p, c

LEMMA LeadsStroke ==
  ASSUME NEW x \in Machines, NEW q \in Seq(Bytes), NEW y \in Machines, NEW k \in Keys,
         Leads(x, q, y)
  PROVE  /\ Leads(x, q \o MakeCode(k), Pressed(y, k)) /\ Pressed(y, k) \in Machines
         /\ Leads(x, q \o BreakCode(k), Released(y, k)) /\ Released(y, k) \in Machines
  <1> DEFINE p == Prefixed(q, k)
             f == Opened(y, k)
             c == k[2]
  <1>1. E0 \in Bytes /\ F0 \in Bytes /\ c \in Bytes
    BY CodesAreBytes
  <1>2. f \in Machines
    BY <1>1, StepType DEF Opened
  <1>3. p \in Seq(Bytes) /\ Append(p, F0) \in Seq(Bytes)
    BY <1>1, CodesAppended, AppendProperties
  <1>4. Leads(x, p, f)
    BY <1>1, LeadsAppend DEF Prefixed, Opened
  <1> HIDE DEF p, f, c
  <1>5. Leads(x, Append(p, c), Step(f, c)) /\ Step(f, c) \in Machines
    BY <1>1, <1>2, <1>3, <1>4, LeadsAppend, StepType
  <1>6. Leads(x, Append(p, F0), Step(f, F0)) /\ Step(f, F0) \in Machines
    BY <1>1, <1>2, <1>3, <1>4, LeadsAppend, StepType
  <1>7. /\ Leads(x, Append(Append(p, F0), c), Step(Step(f, F0), c))
        /\ Step(Step(f, F0), c) \in Machines
    BY <1>1, <1>2, <1>3, <1>6, LeadsAppend, StepType
  <1>8. /\ q \o MakeCode(k) = Append(p, c)
        /\ q \o BreakCode(k) = Append(Append(p, F0), c)
    BY CodesAppended DEF p, c
  <1>9. Pressed(y, k) = Step(f, c) /\ Released(y, k) = Step(Step(f, F0), c)
    BY DEF Pressed, Released, f, c
  <1> QED BY <1>5, <1>7, <1>8, <1>9

\* A step that is none of the keyboard's and moves no byte past the machine.
LEMMA SyncSame ==
  ASSUME SyncInv, UNCHANGED <<down, typed, mixed>>,
         Machine' = Machine, Unparsed' = Unparsed, lost' = "nothing" => lost = "nothing"
  PROVE  SyncInv'
  <1> SUFFICES ASSUME lost' = "nothing"
               PROVE  \E y \in Machines :
                         /\ Leads(Machine', Unparsed', y) /\ y[1] \in Whole
                         /\ down' = {} => y[1] = "init"
                         /\ ~ mixed' => y[2] = MappedTyped' /\ Kinds(y[1], down')
    BY DEF SyncInv
  <1>1. PICK y \in Machines :
           /\ Leads(Machine, Unparsed, y) /\ y[1] \in Whole
           /\ down = {} => y[1] = "init"
           /\ ~ mixed => y[2] = MappedTyped /\ Kinds(y[1], down)
    BY DEF SyncInv
  <1>2. MappedTyped' = MappedTyped
    BY DEF MappedTyped
  <1>3. Leads(Machine', Unparsed', y)
    BY <1>1
  <1> QED BY <1>1, <1>2, <1>3

LEMMA InitInv == Init => IInv
  <1> SUFFICES ASSUME Init PROVE IInv
    OBVIOUS
  <1>1. 0 \in Slots /\ E0 \in Bytes
    BY Slot, CodesAreBytes
  <1>2. TypeOK
    BY <1>1 DEF Init, TypeOK, States
  <1>3. Content = <<>> /\ Untaken = <<>>
    BY <1>1, <1>2, EmptyContent DEF Init, TypeOK, Untaken
  <1>4. SectionInv /\ LoopInv /\ ContentInv /\ MixInv
    BY <1>3 DEF Init, SectionInv, LoopInv, ContentInv, MixInv, Mix
  <1>5. Unparsed = <<>>
    BY <1>3 DEF Init, Unparsed
  <1>6. SyncInv
    <2> DEFINE y == <<"init", <<>>>>
    <2>1. "init" \in States /\ "init" \in Whole
      BY DEF States, Whole
    <2>2. Machine = y /\ y \in Machines /\ y[1] = "init" /\ y[2] = <<>>
      <3>1. state = "init" /\ Delivered = <<>>
        BY DEF Init, Delivered
      <3>2. <<>> \in Seq(Keys)
        OBVIOUS
      <3> QED BY <2>1, <3>1, <3>2 DEF Machine, Machines
    <2> HIDE DEF y
    <2>3. Leads(Machine, Unparsed, y)
      BY <1>5, <2>2, LeadsNowhere
    <2>4. MappedTyped = <<>>
      BY KnownOfEmpty DEF Init, MappedTyped
    <2>5. Kinds(y[1], down)
      BY <2>2 DEF Kinds
    <2> QED BY <2>1, <2>2, <2>3, <2>4, <2>5 DEF SyncInv
  <1> QED BY <1>2, <1>4, <1>6 DEF IInv

\* The keyboard: keys lengthen the wire and leave the rest alone.
LEMMA KeyInv ==
  ASSUME IInv, NEW k \in Keys, Press(k) \/ Repeat(k) \/ Release(k)
  PROVE  IInv'
  <1>1. UNCHANGED ring /\ UNCHANGED reader
    BY DEF Press, Repeat, Release
  <1>2. /\ RingSame /\ lost' = lost /\ pc' = pc /\ IFlag' = IFlag /\ make' = make
        /\ Machine' = Machine
    BY <1>1 DEF ring, reader, RingSame, Machine, Delivered, Found
  <1>3. Content' = Content /\ Untaken' = Untaken
    BY <1>2, RingSameStep
  <1>4. /\ wire \in Seq(Bytes) /\ Untaken \in Seq(Bytes) /\ Unparsed \in Seq(Bytes)
        /\ Machine \in Machines /\ down \subseteq Keys /\ typed \in Seq(Keys)
        /\ MakeCode(k) \in Seq(Bytes) /\ BreakCode(k) \in Seq(Bytes)
    BY UntakenSeq, MachineType, CodesAppended DEF IInv, TypeOK
  <1>5. \/ /\ wire' = wire \o MakeCode(k) /\ typed' = Append(typed, k)
           /\ k \in down' /\ down' = down \cup {k}
           /\ ~ mixed' => ~ mixed /\ ~ Mix(down')
        \/ /\ wire' = wire \o BreakCode(k) /\ typed' = typed
           /\ k \in down /\ down' = down \ {k} /\ mixed' = mixed
    <2>1. CASE Press(k)
      BY <2>1 DEF Press, Type
    <2>2. CASE Repeat(k)
      <3>1. k \in down
        BY <2>2 DEF Repeat, IInv, TypeOK
      <3>2. down' = down /\ down = down \cup {k} /\ mixed' = mixed
        BY <2>2, <3>1 DEF Repeat
      <3>3. Mix(down') <=> Mix(down)
        BY <3>2
      <3> QED BY <2>2, <3>1, <3>2, <3>3 DEF Repeat, Type, IInv, MixInv
    <2>3. CASE Release(k)
      BY <2>3 DEF Release
    <2> QED BY <2>1, <2>2, <2>3
  <1>6. wire' \in Seq(Bytes) /\ typed' \in Seq(Keys)
    <2>1. typed \in Seq(Keys) /\ Append(typed, k) \in Seq(Keys)
      BY AppendProperties DEF IInv, TypeOK
    <2>2. wire \o MakeCode(k) \in Seq(Bytes) /\ wire \o BreakCode(k) \in Seq(Bytes)
      BY <1>4, ConcatProperties
    <2> QED BY <1>5, <2>1, <2>2
  <1>7. TypeOK'
    <2>1. down' \subseteq Keys /\ repeating' \subseteq down' /\ mixed' \in BOOLEAN
      BY DEF Press, Repeat, Release, IInv, TypeOK, Mix
    <2> QED BY <1>1, <1>6, <2>1 DEF IInv, TypeOK, ring, reader
  <1>8. SectionInv' /\ LoopInv' /\ ContentInv'
    BY <1>2, <1>3 DEF IInv, SectionInv, LoopInv, ContentInv, RingSame
  <1>9. MixInv'
    <2>1. Mix(down \ {k}) => Mix(down)
      BY DEF Mix
    <2> QED BY <1>5, <2>1 DEF IInv, MixInv
  <1>10. SyncInv'
    <2> SUFFICES ASSUME lost' = "nothing"
                 PROVE  \E z \in Machines :
                           /\ Leads(Machine, Unparsed', z) /\ z[1] \in Whole
                           /\ down' = {} => z[1] = "init"
                           /\ ~ mixed' => z[2] = MappedTyped' /\ Kinds(z[1], down')
      BY <1>2 DEF SyncInv
    <2>1. PICK y \in Machines :
             /\ Leads(Machine, Unparsed, y) /\ y[1] \in Whole
             /\ ~ mixed => y[2] = MappedTyped /\ Kinds(y[1], down)
      BY <1>2 DEF IInv, SyncInv
    <2>2. /\ Leads(Machine, Unparsed \o MakeCode(k), Pressed(y, k)) /\ Pressed(y, k) \in Machines
          /\ Leads(Machine, Unparsed \o BreakCode(k), Released(y, k)) /\ Released(y, k) \in Machines
      BY <1>4, <2>1, LeadsStroke
    <2>3. /\ (Untaken \o wire) \o MakeCode(k) = Untaken \o (wire \o MakeCode(k))
          /\ (Untaken \o wire) \o BreakCode(k) = Untaken \o (wire \o BreakCode(k))
      <3>1. Associates(Untaken, wire, MakeCode(k)) /\ Associates(Untaken, wire, BreakCode(k))
        BY <1>4, Reassociate, Zenon
      <3> QED BY <3>1, Zenon DEF Associates
    <2>4. Pressed(y, k)[1] \in Whole /\ Released(y, k)[1] = "init" /\ "init" \in Whole
      BY <2>1, StrokeEnds DEF After, Whole
    <2>5. CASE /\ wire' = wire \o MakeCode(k) /\ typed' = Append(typed, k)
               /\ k \in down' /\ down' = down \cup {k}
               /\ ~ mixed' => ~ mixed /\ ~ Mix(down')
      <3> DEFINE z == Pressed(y, k)
      <3>1. Unparsed' = Unparsed \o MakeCode(k)
        BY <1>3, <2>3, <2>5 DEF Unparsed
      <3>2. ASSUME ~ mixed' PROVE z[2] = MappedTyped' /\ Kinds(z[1], down')
        <4>1. y[2] = MappedTyped /\ Kinds(y[1], down) /\ ~ Mix(down') /\ down' \subseteq Keys
          BY <1>4, <2>1, <2>5, <3>2
        <4>2. Kinds(y[1], down')
          BY <2>5, <4>1 DEF Kinds
        <4>3. Expects(y[1], k)
          BY <2>5, <4>1, <4>2, KindsFit
        <4>4. Yields(y, k)
          BY <2>1, <4>3, StrokeYields
        <4>5. z[2] = MappedTyped'
          <5>1. MappedTyped' = IF k \in Mapped THEN Append(MappedTyped, k) ELSE MappedTyped
            <6>1. MappedTyped' = KnownOf(Append(typed, k)) /\ MappedTyped = KnownOf(typed)
              BY <2>5 DEF MappedTyped
            <6> QED BY <1>4, <6>1, KnownOfAppend
          <5> QED BY <4>1, <4>4, <5>1 DEF Yields
        <4>6. Kinds(z[1], down')
          <5>1. z[1] = IF k[1] = "extended" THEN "ext break expec" ELSE "basic break expec"
            BY <4>4 DEF Yields
          <5>2. k[1] \in {"basic", "extended"}
            BY KeyIs
          <5> HIDE DEF z
          <5> QED BY <2>5, <5>1, <5>2 DEF Kinds
        <4> QED BY <4>5, <4>6
      <3>3. down' # {}
        BY <2>5
      <3> HIDE DEF z
      <3>4. Leads(Machine, Unparsed', z) /\ z \in Machines /\ z[1] \in Whole
        BY <2>2, <2>4, <3>1 DEF z
      <3> QED BY <3>2, <3>3, <3>4
    <2>6. CASE /\ wire' = wire \o BreakCode(k) /\ typed' = typed
               /\ k \in down /\ down' = down \ {k} /\ mixed' = mixed
      <3> DEFINE z == Released(y, k)
      <3>1. Unparsed' = Unparsed \o BreakCode(k)
        BY <1>3, <2>3, <2>6 DEF Unparsed
      <3>2. ASSUME ~ mixed' PROVE z[2] = MappedTyped' /\ Kinds(z[1], down')
        <4>1. y[2] = MappedTyped /\ Kinds(y[1], down) /\ ~ Mix(down)
          BY <2>1, <2>6, <3>2 DEF IInv, MixInv
        <4>2. Expects(y[1], k)
          BY <1>4, <2>6, <4>1, KindsFit
        <4>3. Yields(y, k)
          BY <2>1, <4>2, StrokeYields
        <4>4. MappedTyped' = MappedTyped
          BY <2>6 DEF MappedTyped
        <4>5. z[2] = MappedTyped'
          BY <4>1, <4>3, <4>4 DEF Yields
        <4>6. Kinds(z[1], down')
          BY <2>4 DEF Kinds
        <4> QED BY <4>5, <4>6
      <3> HIDE DEF z
      <3>4. Leads(Machine, Unparsed', z) /\ z \in Machines /\ z[1] \in Whole /\ z[1] = "init"
        BY <2>2, <2>4, <3>1 DEF z
      <3> QED BY <3>2, <3>4
    <2> QED BY <1>5, <2>5, <2>6
  <1> QED BY <1>7, <1>8, <1>9, <1>10 DEF IInv

\* kbd_isr takes a byte off the wire and puts it behind the others.
LEMMA IsrInv == ASSUME IInv, kbd_isr PROVE IInv'
  <1> DEFINE v == Head(wire)
  <1>1. /\ wire # <<>> /\ wire' = Tail(wire) /\ IFlag
        /\ key_buffer' = [key_buffer EXCEPT ![head] = v]
        /\ head' = Succ(head)
        /\ tail' = IF head' = tail THEN Succ(tail) ELSE tail
        /\ lost' = IF head' = tail THEN "oldest" ELSE lost
        /\ UNCHANGED <<down, repeating, typed, mixed, reader>>
    BY DEF kbd_isr
  <1>2. v \in Bytes /\ wire' \in Seq(Bytes) /\ wire \in Seq(Bytes)
    BY <1>1, HeadTailProperties DEF IInv, TypeOK
  <1>3. head \in Slots /\ tail \in Slots /\ head' \in Slots /\ tail' \in Slots
    BY <1>1, SuccSlot DEF IInv, TypeOK
  <1>4. TypeOK'
    <2>1. key_buffer' \in [Slots -> Bytes \cup {0}]
      BY <1>1, <1>2 DEF IInv, TypeOK
    <2>2. lost' \in {"nothing", "oldest", "all"}
      BY <1>1 DEF IInv, TypeOK
    <2> QED BY <1>1, <1>2, <1>3, <2>1, <2>2 DEF IInv, TypeOK, reader
  <1>5. SectionInv' /\ LoopInv' /\ MixInv'
    BY <1>1 DEF IInv, SectionInv, LoopInv, MixInv, reader
  <1>6. Content \in Seq(Bytes) /\ Untaken \in Seq(Bytes)
    BY UntakenSeq DEF IInv, ContentInv
  <1>7. ContentInv'
    <2>1. CASE head' # tail
      <3>1. Content' = Append(Content, v)
        BY <2>1, PutStep
      <3> QED BY <1>2, <1>6, <3>1, AppendProperties DEF ContentInv
    <2>2. CASE head' = tail
      <3>1. Content # <<>> /\ Content' = Append(Tail(Content), v)
        BY <2>2, PutStep
      <3>2. Tail(Content) \in Seq(Bytes)
        BY <1>6, <3>1, HeadTailProperties
      <3> QED BY <1>2, <3>1, <3>2, AppendProperties DEF ContentInv
    <2> QED BY <2>1, <2>2
  <1>8. SyncInv'
    <2>1. CASE head' = tail
      BY <1>1, <2>1 DEF SyncInv
    <2>2. CASE head' # tail
      <3>1. Untaken' = Append(Untaken, v) /\ lost' = lost
        BY <2>2, PutStep
      <3>2. Append(Untaken, v) \o Tail(wire) = Untaken \o wire
        BY <1>1, <1>2, <1>6, HeadMoves
      <3>3. Unparsed' = Unparsed
        BY <1>1, <3>1, <3>2 DEF Unparsed
      <3>4. Machine' = Machine
        BY <1>1 DEF reader, Machine, Delivered, Found
      <3> QED BY <1>1, <3>1, <3>3, <3>4, SyncSame DEF IInv
    <2> QED BY <2>1, <2>2
  <1> QED BY <1>4, <1>5, <1>7, <1>8 DEF IInv

\* parse gives the first byte of the ring to the state machine.
LEMMA ParseInv == ASSUME IInv, parse PROVE IInv'
  <1>1. /\ pc = "loop" /\ pc' = "advance" /\ tail # head
        /\ make' = IsMake(state, byte')
        /\ basic_key' = (state \in {"init", "basic break expec", "basic break es"})
        /\ state' = NextState(state, byte')
        /\ UNCHANGED <<keyboard, ring, IFlag, got>>
    BY DEF parse, Goto
  <1>2. /\ Untaken = Content /\ Content # <<>> /\ Content' = Content
        /\ Untaken' = Tail(Content) /\ byte' = Head(Content) /\ byte' \in Bytes
    BY ParseStep
  <1>3. /\ state \in States /\ wire \in Seq(Bytes) /\ wire' = wire /\ lost' = lost
        /\ UNCHANGED <<down, typed, mixed>> /\ got' = got
        /\ Content \in Seq(Bytes) /\ Unparsed \in Seq(Bytes) /\ Machine \in Machines
    BY <1>1, UntakenSeq, MachineType DEF IInv, TypeOK, ContentInv, keyboard, ring
  <1>4. TypeOK'
    <2>1. state' \in States
      BY <1>1, <1>2, <1>3, NextStateType
    <2>2. make' \in BOOLEAN /\ basic_key' \in BOOLEAN
      <3>1. IsMake(state, byte') \in BOOLEAN
        BY DEF IsMake
      <3>2. (state \in {"init", "basic break expec", "basic break es"}) \in BOOLEAN
        OBVIOUS
      <3> QED BY <1>1, <3>1, <3>2, Zenon
    <2> QED BY <1>1, <1>2, <2>1, <2>2 DEF IInv, TypeOK, keyboard, ring
  <1>5. SectionInv' /\ LoopInv' /\ ContentInv' /\ MixInv'
    BY <1>1, <1>2, <1>3 DEF IInv, SectionInv, LoopInv, ContentInv, MixInv, ring
  <1>6. SyncInv'
    <2>1. Unparsed # <<>> /\ Head(Unparsed) = byte' /\ Tail(Unparsed) = Unparsed'
      <3>1. /\ Content \o wire # <<>> /\ Head(Content \o wire) = Head(Content)
            /\ Tail(Content \o wire) = Tail(Content) \o wire
        BY <1>2, <1>3, HeadOfConcat
      <3> QED BY <1>2, <1>3, <3>1 DEF Unparsed
    <2>2. Machine' = Step(Machine, byte')
      <3>1. Machine = <<state, got>>
        BY <1>1 DEF Machine, Delivered
      <3>2. Found' = KeyOf(state, byte')
        BY <1>1, Zenon DEF Found, KeyOf
      <3>3. Delivered' = IF make' /\ Found' \in Mapped THEN Append(got', Found') ELSE got'
        BY <1>1 DEF Delivered
      <3>4. Delivered' = Got(Machine, byte')
        BY <1>1, <1>3, <3>1, <3>2, <3>3 DEF Got
      <3> QED BY <1>1, <3>1, <3>4 DEF Machine, Step
    <2>3. ASSUME NEW y, Leads(Machine, Unparsed, y) PROVE Leads(Machine', Unparsed', y)
      BY <1>3, <2>1, <2>2, <2>3, LeadsTail
    <2>4. MappedTyped' = MappedTyped
      BY <1>3 DEF MappedTyped
    <2> SUFFICES ASSUME lost' = "nothing"
                 PROVE  \E y \in Machines :
                           /\ Leads(Machine', Unparsed', y) /\ y[1] \in Whole
                           /\ down' = {} => y[1] = "init"
                           /\ ~ mixed' => y[2] = MappedTyped' /\ Kinds(y[1], down')
      BY DEF SyncInv
    <2>5. PICK y \in Machines :
             /\ Leads(Machine, Unparsed, y) /\ y[1] \in Whole
             /\ down = {} => y[1] = "init"
             /\ ~ mixed => y[2] = MappedTyped /\ Kinds(y[1], down)
      BY <1>3 DEF IInv, SyncInv
    <2>6. Leads(Machine', Unparsed', y)
      BY <2>3, <2>5
    <2> QED BY <1>3, <2>4, <2>5, <2>6
  <1> QED BY <1>4, <1>5, <1>6 DEF IInv

\* advance moves tail behind the byte that was parsed.
LEMMA AdvanceInv == ASSUME IInv, advance PROVE IInv'
  <1>1. /\ pc = "advance" /\ pc' = IF make THEN "exit" ELSE "loop"
        /\ tail' = Succ(tail)
        /\ UNCHANGED <<keyboard, key_buffer, head, lost, state, IFlag, byte, make, basic_key, got>>
    BY DEF advance, Goto
  <1>2. Content # <<>> /\ Content' = Tail(Content) /\ Untaken' = Untaken
    BY AdvanceStep
  <1>3. TypeOK'
    <2>1. tail' \in Slots
      BY <1>1, SuccSlot DEF IInv, TypeOK
    <2> QED BY <1>1, <2>1 DEF IInv, TypeOK, keyboard
  <1>4. SectionInv' /\ LoopInv' /\ MixInv'
    BY <1>1 DEF IInv, SectionInv, LoopInv, MixInv, keyboard
  <1>5. ContentInv'
    BY <1>2, HeadTailProperties DEF IInv, ContentInv
  <1>6. SyncInv'
    <2>1. Unparsed' = Unparsed /\ lost' = lost /\ UNCHANGED <<down, typed, mixed>>
      BY <1>1, <1>2 DEF Unparsed, keyboard
    <2>2. Machine' = Machine
      BY <1>1 DEF Machine, Delivered, Found
    <2> QED BY <2>1, <2>2, SyncSame DEF IInv
  <1> QED BY <1>3, <1>4, <1>5, <1>6 DEF IInv

\* flush_kbd_buffer empties the ring.
LEMMA FlushInv == ASSUME IInv, flush_kbd_buffer PROVE IInv'
  <1>1. /\ pc = "out" /\ head' = 0 /\ tail' = 0
        /\ lost' = IF head = tail THEN lost ELSE "all"
        /\ UNCHANGED <<keyboard, key_buffer, reader>>
    BY DEF flush_kbd_buffer
  <1>2. /\ Untaken = Content /\ Untaken' = Content' /\ Content' = <<>>
        /\ head = tail <=> Content = <<>>
    BY FlushStep
  <1>3. TypeOK'
    <2>1. head' \in Slots /\ tail' \in Slots
      BY <1>1, Slot
    <2>2. lost' \in {"nothing", "oldest", "all"}
      BY <1>1 DEF IInv, TypeOK
    <2> QED BY <1>1, <2>1, <2>2 DEF IInv, TypeOK, keyboard, reader
  <1>4. SectionInv' /\ LoopInv' /\ ContentInv' /\ MixInv'
    BY <1>1, <1>2 DEF IInv, SectionInv, LoopInv, ContentInv, MixInv, keyboard, reader
  <1>5. SyncInv'
    <2>1. CASE head = tail
      <3>1. Unparsed' = Unparsed /\ lost' = lost /\ UNCHANGED <<down, typed, mixed>>
        BY <1>1, <1>2, <2>1 DEF Unparsed, keyboard
      <3>2. Machine' = Machine
        BY <1>1 DEF reader, Machine, Delivered, Found
      <3> QED BY <3>1, <3>2, SyncSame DEF IInv
    <2>2. CASE head # tail
      BY <1>1, <2>2 DEF SyncInv
    <2> QED BY <2>1, <2>2
  <1> QED BY <1>3, <1>4, <1>5 DEF IInv

\* The other steps of the reader touch neither the ring nor the state machine.
Elsewhere == getc \/ read_key \/ parse_end \/ exit_critical_section \/ binary_search_key

LEMMA ElsewhereSame ==
  ASSUME Elsewhere
  PROVE  /\ UNCHANGED <<keyboard, ring, state, byte>> /\ RingSame
  BY DEF Elsewhere, getc, read_key, parse_end, exit_critical_section, binary_search_key,
         Goto, RingSame, ring

LEMMA ElsewhereDelivers == ASSUME IInv, Elsewhere PROVE Delivered' = Delivered
  <1>1. CASE getc
    BY <1>1 DEF getc, Goto, Delivered
  <1>2. CASE read_key
    BY <1>2 DEF read_key, Goto, Delivered
  <1>3. CASE parse_end
    BY <1>3 DEF parse_end, Goto, Delivered, IInv, LoopInv
  <1>4. CASE exit_critical_section
    BY <1>4 DEF exit_critical_section, Goto, Delivered, Found
  <1>5. CASE binary_search_key
    <2>1. pc = "search" /\ pc' \in {"out", "enter"}
      BY <1>5 DEF binary_search_key, Goto
    <2>2. got' = IF make /\ Found \in Mapped THEN Append(got, Found) ELSE got
      BY <1>5 DEF binary_search_key, Found
    <2> QED BY <2>1, <2>2 DEF Delivered
  <1> QED BY <1>1, <1>2, <1>3, <1>4, <1>5 DEF Elsewhere

LEMMA ElsewhereInv == ASSUME IInv, Elsewhere PROVE IInv'
  <1>1. /\ UNCHANGED <<keyboard, ring, state, byte>>
        /\ Content' = Content /\ Untaken' = Untaken
    BY ElsewhereSame, RingSameStep
  <1>2. /\ pc' \in {"out", "enter", "loop", "exit", "search"}
        /\ make' \in BOOLEAN /\ basic_key' \in BOOLEAN /\ IFlag' \in BOOLEAN
    BY DEF IInv, TypeOK, Elsewhere, getc, read_key, parse_end, exit_critical_section,
           binary_search_key, Goto
  <1>3. got' \in Seq(Keys)
    <2>1. got' = got \/ \E k \in Mapped : got' = Append(got, k)
      BY DEF Elsewhere, getc, read_key, parse_end, exit_critical_section, binary_search_key
    <2>2. got \in Seq(Keys) /\ \A k \in Mapped : k \in Keys
      BY KeyboardAssumption DEF IInv, TypeOK
    <2>3. \A k \in Mapped : Append(got, k) \in Seq(Keys)
      BY <2>2, AppendProperties
    <2> QED BY <2>1, <2>2, <2>3
  <1>4. TypeOK'
    BY <1>1, <1>2, <1>3 DEF IInv, TypeOK, keyboard, ring
  <1>5. SectionInv'
    <2>1. pc' \in {"loop", "exit"} => ~ IFlag'
      BY DEF IInv, TypeOK, SectionInv, Elsewhere, getc, read_key, parse_end,
             exit_critical_section, binary_search_key, Goto
    <2> QED BY <1>2, <2>1 DEF SectionInv
  <1>6. ContentInv' /\ MixInv'
    BY <1>1 DEF IInv, ContentInv, MixInv, keyboard
  <1>7. LoopInv'
    BY DEF LoopInv, Elsewhere, getc, read_key, parse_end, exit_critical_section,
           binary_search_key, Goto
  <1>8. SyncInv'
    <2>1. Delivered' = Delivered
      BY ElsewhereDelivers
    <2>2. Machine' = Machine
      BY <1>1, <2>1 DEF Machine
    <2>3. Unparsed' = Unparsed /\ lost' = lost /\ UNCHANGED <<down, typed, mixed>>
      BY <1>1 DEF Unparsed, keyboard, ring
    <2> QED BY <2>2, <2>3, SyncSame DEF IInv
  <1> QED BY <1>4, <1>5, <1>6, <1>7, <1>8 DEF IInv

LEMMA StutterInv == ASSUME IInv, UNCHANGED vars PROVE IInv'
  <1>1. UNCHANGED <<keyboard, ring, reader>>
    BY DEF vars
  <1>2. Content' = Content /\ Untaken' = Untaken
    BY <1>1, RingSameStep DEF RingSame, ring, reader
  <1>3. TypeOK' /\ SectionInv' /\ LoopInv' /\ ContentInv' /\ MixInv'
    BY <1>1, <1>2 DEF IInv, TypeOK, SectionInv, LoopInv, ContentInv, MixInv, keyboard, ring, reader
  <1>4. Machine' = Machine /\ Unparsed' = Unparsed /\ lost' = lost
        /\ UNCHANGED <<down, typed, mixed>>
    BY <1>1, <1>2 DEF keyboard, ring, reader, Machine, Delivered, Found, Unparsed
  <1>5. SyncInv'
    BY <1>4, SyncSame DEF IInv
  <1> QED BY <1>3, <1>5 DEF IInv

\* Which step a step is.
LEMMA Cases ==
  [Next]_vars <=> \/ \E k \in Keys : Press(k) \/ Repeat(k) \/ Release(k)
                  \/ kbd_isr \/ parse \/ advance \/ Elsewhere \/ flush_kbd_buffer
                  \/ UNCHANGED vars
  BY DEF Next, Reader, Elsewhere

THEOREM Inductive == Spec => []IInv
  <1>1. IInv /\ [Next]_vars => IInv'
    BY Cases, KeyInv, IsrInv, ParseInv, AdvanceInv, FlushInv, ElsewhereInv, StutterInv
  <1> QED BY <1>1, InitInv, PTL DEF Spec

\* The variables of the driver keep their types for a ring of any size: neither kbd_isr nor
\* read_key leaves the ring (kbd-handler.c:260-295, 324-344).
THEOREM KeyboardTypeCorrect == Spec => []TypeOK
  <1>1. IInv => TypeOK
    BY DEF IInv
  <1> QED BY <1>1, Inductive, PTL

\* When all keys are up and all bytes parsed, the state machine is in its first state,
\* however the keys overlapped (kbd-handler.c:413-546).
THEOREM Resynchronises == Spec => []InSync
  <1>1. IInv => InSync
    <2> SUFFICES ASSUME IInv, down = {}, wire = <<>>, tail = head, pc # "advance",
                        lost = "nothing"
                 PROVE  state = "init"
      BY DEF InSync
    <2>1. Content = <<>> /\ state \in States
      BY EmptyContent DEF IInv, TypeOK
    <2>2. Unparsed = <<>>
      BY <2>1 DEF Unparsed, Untaken
    <2>3. PICK y \in Machines : Leads(Machine, <<>>, y) /\ y[1] = "init"
      BY <2>2 DEF IInv, SyncInv
    <2>4. Machine = y
      BY <2>3, MachineType, LeadsNowhere
    <2> QED BY <2>3, <2>4 DEF Machine
  <1> QED BY <1>1, Inductive, PTL

\* As long as no byte was lost and no extended key was down together with another, read_key
\* returns the keys that were typed, in their order and each once, whatever their number and
\* however their bytes and the calls interleave (kbd-handler.c:260-330, 413-546).
THEOREM ReturnsInOrder == Spec => []InOrder
  <1>1. IInv => InOrder
    <2> SUFFICES ASSUME IInv, lost = "nothing", ~ mixed
                 PROVE  IsPrefixOf(got, MappedTyped)
      BY DEF InOrder, Clean
    <2>1. PICK y \in Machines : Leads(Machine, Unparsed, y) /\ y[2] = MappedTyped
      BY DEF IInv, SyncInv
    <2>2. Machine \in Machines /\ Delivered \in Seq(Keys) /\ Machine[2] = Delivered
      BY MachineType DEF Machine
    <2>3. Unparsed \in Seq(Bytes)
      BY UntakenSeq
    <2>4. IsPrefixOf(Delivered, MappedTyped)
      BY <2>1, <2>2, <2>3, LeadsOn
    <2>5. got \in Seq(Keys) /\ MappedTyped \in Seq(Keys)
      BY <2>1 DEF IInv, TypeOK, Machines
    <2>6. IsPrefixOf(got, Delivered)
      <3>1. IsPrefixOf(got, got)
        BY <2>5, PrefixIs
      <3>2. Found \in Mapped => IsPrefixOf(got, Append(got, Found))
        BY <2>5, <3>1, PrefixAppend, KeyboardAssumption
      <3> QED BY <3>1, <3>2 DEF Delivered
    <2> QED BY <2>2, <2>4, <2>5, <2>6, PrefixTransitive
  <1> QED BY <1>1, Inductive, PTL

(***************************************************************************)
(* The ring implements KeyQueue.                                           *)
(***************************************************************************)
LEMMA QueueInit == Init => Queue!Init
  <1> SUFFICES ASSUME Init PROVE Queue!Init
    OBVIOUS
  <1>1. TypeOK
    BY InitInv DEF IInv
  <1>2. Untaken = <<>>
    BY <1>1, EmptyContent DEF Init, TypeOK, Untaken
  <1> QED BY <1>2, CodesAreBytes DEF Init, Queue!Init

LEMMA QueuePut == ASSUME IInv, kbd_isr PROVE Queue!Put \/ Queue!Overrun
  <1>1. byte' = byte
    BY DEF kbd_isr, reader
  <1>2. N - 1 = KBD_BUFFER_SIZE - 1 /\ KBD_BUFFER_SIZE \in Nat
    BY KeyboardAssumption DEF N
  <1>3. CASE head' # tail
    <2>1. /\ Head(wire) \in Bytes /\ Untaken' = Append(Untaken, Head(wire))
          /\ Len(Untaken) \in 0 .. N - 2 /\ lost' = lost
      BY <1>3, PutStep
    <2>2. Len(Untaken) < KBD_BUFFER_SIZE - 1
      BY <1>2, <2>1, Slot
    <2> QED BY <1>1, <2>1, <2>2 DEF Queue!Put
  <1>4. CASE head' = tail
    <2>1. /\ Head(wire) \in Bytes /\ Untaken' = Append(Tail(Untaken), Head(wire))
          /\ Len(Untaken) = N - 1 /\ lost' = "oldest"
      BY <1>4, PutStep
    <2> QED BY <1>1, <1>2, <2>1 DEF Queue!Overrun
  <1> QED BY <1>3, <1>4

LEMMA QueueTake == ASSUME IInv, parse PROVE Queue!Take
  <1>1. lost' = lost
    BY DEF parse, ring
  <1> QED BY <1>1, ParseStep DEF Queue!Take

LEMMA QueueFlush == ASSUME IInv, flush_kbd_buffer PROVE Queue!Flush
  <1>1. byte' = byte /\ lost' = IF head = tail THEN lost ELSE "all"
    BY DEF flush_kbd_buffer, reader
  <1> QED BY <1>1, FlushStep DEF Queue!Flush

\* The key strokes, the move of tail and the reader's other steps are not seen.
LEMMA QueueStutter ==
  ASSUME IInv,
         \/ \E k \in Keys : Press(k) \/ Repeat(k) \/ Release(k)
         \/ advance \/ Elsewhere \/ UNCHANGED vars
  PROVE  UNCHANGED Queue!vars
  <1>1. ASSUME NEW k \in Keys, Press(k) \/ Repeat(k) \/ Release(k) PROVE UNCHANGED Queue!vars
    <2>1. UNCHANGED ring /\ UNCHANGED reader
      BY <1>1 DEF Press, Repeat, Release
    <2> QED BY <2>1, RingSameStep DEF RingSame, ring, reader, Queue!vars
  <1>2. CASE advance
    BY <1>2, AdvanceStep DEF advance, Queue!vars
  <1>3. CASE Elsewhere
    BY <1>3, ElsewhereSame, RingSameStep DEF ring, Queue!vars
  <1>4. CASE UNCHANGED vars
    BY <1>4, RingSameStep DEF RingSame, vars, ring, reader, Queue!vars
  <1> QED BY <1>1, <1>2, <1>3, <1>4

\* The ring is a queue of KBD_BUFFER_SIZE - 1 bytes that loses its oldest byte when it
\* overflows, for a ring of any size and whenever kbd_isr and flush_kbd_buffer come
\* (kbd-handler.c:260-295, 324-344).
THEOREM ImplementsQueue == Spec => QueueSpec
  <1>1. IInv /\ [Next]_vars => [Queue!Next]_(Queue!vars)
    <2> SUFFICES ASSUME IInv, [Next]_vars PROVE [Queue!Next]_(Queue!vars)
      OBVIOUS
    <2>1. CASE kbd_isr
      BY <2>1, QueuePut DEF Queue!Next
    <2>2. CASE parse
      BY <2>2, QueueTake DEF Queue!Next
    <2>3. CASE flush_kbd_buffer
      BY <2>3, QueueFlush DEF Queue!Next
    <2>4. CASE \/ \E k \in Keys : Press(k) \/ Repeat(k) \/ Release(k)
               \/ advance \/ Elsewhere \/ UNCHANGED vars
      BY <2>4, QueueStutter
    <2> QED BY <2>1, <2>2, <2>3, <2>4, Cases
  <1> QED BY <1>1, QueueInit, Inductive, PTL DEF Spec, QueueSpec, Queue!Spec

(***************************************************************************)
(* The search of the key maps, for maps of any length and any codes: it    *)
(* answers correctly and stays inside the map.  The inductive invariant    *)
(* says what the loop maintains: the code lies between those of the two    *)
(* ends of the interval, ends included.                                    *)
(***************************************************************************)
Sorted == \A i, j \in Indices : i \leq j => map[i] \leq map[j]

\* The interval the search is left with.
Interval ==
    /\ min_index \leq max_index
    /\ search_pc = "check" => ~ found /\ min_index = 0 /\ max_index = keymap_length - 1
    /\ search_pc = "loop" => /\ ~ found /\ map[min_index] \leq scan_code
                             /\ scan_code \leq map[max_index]

SearchInv == SearchTypeOK /\ Sorted /\ Interval /\ Correct

\* The median lies in the interval, and is its lower end only if there is at most
\* one more index in it.
LEMMA MedianInside ==
  ASSUME NEW lo \in Nat, NEW hi \in Nat, lo \leq hi
  PROVE  LET m == (lo + hi) \div 2 IN
         m \in Nat /\ lo \leq m /\ m \leq hi /\ (m = lo => hi \leq lo + 1)
  BY SMT

\* The ranges of what the search compares.
LEMMA Ranges ==
  ASSUME SearchTypeOK
  PROVE  /\ keymap_length \in Nat \ {0}
         /\ scan_code \in Int
         /\ \A i \in Indices : i \in Nat /\ map[i] \in Int
         /\ min_index \in Nat /\ max_index \in Nat
  <1>1. MaxLength \in Nat /\ MapCodes \subseteq Int
    BY SearchAssumption
  <1>2. keymap_length \in Nat \ {0}
    BY <1>1 DEF SearchTypeOK
  <1>3. \A i \in Indices : i \in Nat
    BY <1>2 DEF Indices
  <1>4. \A i \in Indices : map[i] \in MapCodes
    BY DEF SearchTypeOK
  <1> QED BY <1>1, <1>2, <1>3, <1>4 DEF SearchTypeOK

\* In the loop with two entries left, a code that the first does not have is above
\* it, and the second exists.
LEMMA TwoLeft ==
  ASSUME SearchTypeOK, Interval, search_pc = "loop", Median = min_index
  PROVE  /\ max_index \leq min_index + 1
         /\ map[min_index] # scan_code =>
              /\ max_index = min_index + 1
              /\ map[min_index] < scan_code
  <1>1. max_index \leq min_index + 1
    BY Ranges, MedianInside DEF Median, Interval
  <1>2. map[min_index] \leq scan_code /\ scan_code \leq map[max_index] /\ min_index \leq max_index
    BY DEF Interval
  <1>3. map[min_index] \in Int /\ scan_code \in Int
    BY Ranges DEF SearchTypeOK
  <1>4. ASSUME map[min_index] # scan_code
        PROVE  map[min_index] < scan_code /\ max_index # min_index
    BY <1>2, <1>3, <1>4
  <1> QED BY <1>1, <1>2, <1>4, Ranges

\* The search starts with the whole map (kbd-handler.c:551-552).
LEMMA SearchInitInv ==
  ASSUME SearchInit
  PROVE  SearchInv
  <1>1. keymap_length \in Nat \ {0}
    BY SearchAssumption DEF SearchInit
  <1>2. SearchTypeOK
    <2>1. 0 \in Indices /\ keymap_length - 1 \in Indices
      BY <1>1 DEF Indices
    <2> QED BY <2>1 DEF SearchInit, SearchTypeOK
  <1>3. Interval /\ Sorted /\ Correct
    BY <1>1 DEF SearchInit, Interval, Sorted, Correct
  <1> QED BY <1>2, <1>3 DEF SearchInv

\* The range check: a code it lets pass lies between the ends of the map, one it
\* does not is not in the map.
LEMMA CheckInv ==
  ASSUME SearchInv, check_range
  PROVE  SearchInv'
  <1>1. search_pc = "check"
        /\ UNCHANGED <<keymap_length, map, scan_code, min_index, max_index, median_index, found>>
    BY DEF check_range, in
  <1>2. SearchTypeOK' /\ Sorted'
    BY <1>1 DEF SearchInv, check_range, SearchTypeOK, Sorted, Indices
  <1>3. ~ found /\ min_index = 0 /\ max_index = keymap_length - 1
    BY <1>1 DEF SearchInv, Interval
  <1>4. \A i \in Indices : map[min_index] \leq map[i] /\ map[i] \leq map[max_index]
    <2> SUFFICES ASSUME NEW i \in Indices
                 PROVE  map[min_index] \leq map[i] /\ map[i] \leq map[max_index]
      OBVIOUS
    <2>1. min_index \leq i /\ i \leq max_index
      BY <1>3, Ranges DEF SearchInv, Indices
    <2> QED BY <2>1 DEF SearchInv, Sorted, SearchTypeOK
  <1>5. map[min_index] \in Int /\ map[max_index] \in Int /\ scan_code \in Int
    BY Ranges DEF SearchInv, SearchTypeOK
  <1>6. CASE scan_code < map[min_index] \/ scan_code > map[max_index]
    <2>1. \A i \in Indices : map[i] # scan_code
      BY <1>4, <1>5, <1>6, Ranges DEF SearchInv
    <2>2. search_pc' = "return"
      BY <1>6 DEF check_range
    <2> QED BY <1>1, <1>2, <1>3, <2>1, <2>2
            DEF SearchInv, Interval, Correct, Indices
  <1>7. CASE ~ (scan_code < map[min_index] \/ scan_code > map[max_index])
    <2>1. search_pc' = "loop"
      BY <1>7 DEF check_range
    <2>2. map[min_index] \leq scan_code /\ scan_code \leq map[max_index]
      BY <1>5, <1>7
    <2> QED BY <1>1, <1>2, <1>3, <2>1, <2>2 DEF SearchInv, Interval, Correct
  <1> QED BY <1>6, <1>7

\* The half that goes on has the code between its ends again.
LEMMA NarrowInv ==
  ASSUME SearchInv, narrow
  PROVE  SearchInv'
  <1>1. /\ search_pc = "loop" /\ search_pc' = search_pc /\ found' = found
        /\ median_index' = Median
        /\ UNCHANGED <<keymap_length, map, scan_code>>
    BY DEF narrow, in
  <1>2. Median \in Nat /\ min_index < Median /\ Median \leq max_index
    BY MedianInside, Ranges DEF SearchInv, narrow, Median, Interval
  <1>3. Median \in Indices
    BY <1>2, Ranges DEF SearchInv, SearchTypeOK, Indices
  <1>4. Sorted' /\ Correct'
    BY <1>1 DEF SearchInv, Sorted, Correct, Indices
  <1>5. map[Median] \in Int /\ scan_code \in Int
    BY <1>3, Ranges DEF SearchInv
  <1>6. CASE scan_code > map[Median]
    <2>1. min_index' = Median /\ max_index' = max_index
      BY <1>6 DEF narrow
    <2>2. map[Median] \leq scan_code
      BY <1>5, <1>6
    <2>3. SearchTypeOK'
      BY <1>1, <1>3, <2>1 DEF SearchInv, SearchTypeOK, Indices
    <2>4. Interval'
      BY <1>1, <1>2, <2>1, <2>2 DEF SearchInv, Interval
    <2> QED BY <1>4, <2>3, <2>4 DEF SearchInv
  <1>7. CASE ~ (scan_code > map[Median])
    <2>1. max_index' = Median /\ min_index' = min_index
      BY <1>7 DEF narrow
    <2>2. scan_code \leq map[Median]
      BY <1>5, <1>7
    <2>3. SearchTypeOK'
      BY <1>1, <1>3, <2>1 DEF SearchInv, SearchTypeOK, Indices
    <2>4. min_index \leq Median
      BY <1>2, Ranges DEF SearchInv
    <2>5. Interval'
      BY <1>1, <2>1, <2>2, <2>4 DEF SearchInv, Interval
    <2> QED BY <1>4, <2>3, <2>5 DEF SearchInv
  <1> QED BY <1>6, <1>7

\* If neither of the last two entries has the code, none has: the others lie beyond.
LEMMA LastInv ==
  ASSUME SearchInv, last_two
  PROVE  SearchInv'
  <1>1. /\ search_pc = "loop" /\ search_pc' = "return" /\ Median = min_index
        /\ UNCHANGED <<keymap_length, map, scan_code, min_index, max_index>>
    BY DEF last_two, in
  <1>2. /\ max_index \leq min_index + 1
        /\ map[Median] # scan_code => /\ max_index = Median + 1
                                             /\ map[min_index] < scan_code
    BY <1>1, TwoLeft DEF SearchInv
  <1>3. Sorted' /\ Interval'
    BY <1>1 DEF SearchInv, Sorted, Interval, Indices
  <1>4. min_index \in Indices /\ max_index \in Indices
    BY DEF SearchInv, SearchTypeOK
  <1>5. CASE map[Median] = scan_code
    <2>1. median_index' = Median /\ found' = TRUE
      BY <1>5 DEF last_two
    <2>2. SearchTypeOK'
      BY <1>1, <1>4, <2>1 DEF SearchInv, SearchTypeOK, Indices
    <2>3. Correct'
      BY <1>1, <1>4, <1>5, <2>1 DEF Correct, Indices
    <2> QED BY <1>3, <2>2, <2>3 DEF SearchInv
  <1>6. CASE map[Median] # scan_code /\ map[Median + 1] = scan_code
    <2>1. median_index' = max_index /\ found' = TRUE /\ map[max_index] = scan_code
      BY <1>2, <1>6 DEF last_two
    <2>2. SearchTypeOK'
      BY <1>1, <1>4, <2>1 DEF SearchInv, SearchTypeOK, Indices
    <2>3. Correct'
      BY <1>1, <1>4, <1>6, <2>1 DEF Correct, Indices
    <2> QED BY <1>3, <2>2, <2>3 DEF SearchInv
  <1>7. CASE map[Median] # scan_code /\ map[Median + 1] # scan_code
    <2>1. median_index' = Median /\ found' = found /\ ~ found
      BY <1>1, <1>7 DEF last_two, SearchInv, Interval
    <2>2. map[min_index] < scan_code /\ scan_code < map[max_index]
      <3>1. scan_code \leq map[max_index] /\ scan_code # map[max_index]
        BY <1>1, <1>2, <1>7 DEF SearchInv, Interval
      <3>2. scan_code \in Int /\ map[max_index] \in Int
        BY <1>4, Ranges DEF SearchInv
      <3> QED BY <1>2, <1>7, <3>1, <3>2
    <2>3. ASSUME NEW i \in Indices PROVE map[i] # scan_code
      <3>1. i \leq min_index \/ max_index \leq i
        BY <1>2, Ranges DEF SearchInv
      <3>2. map[i] \leq map[min_index] \/ map[max_index] \leq map[i]
        BY <1>4, <3>1 DEF SearchInv, Sorted
      <3>3. map[i] \in Int /\ map[min_index] \in Int /\ map[max_index] \in Int
            /\ scan_code \in Int
        BY <1>4, Ranges DEF SearchInv
      <3> QED BY <2>2, <3>2, <3>3
    <2>4. SearchTypeOK'
      BY <1>1, <1>4, <2>1 DEF SearchInv, SearchTypeOK, Indices
    <2>5. Correct'
      BY <1>1, <2>1, <2>3 DEF Correct, Indices
    <2> QED BY <1>3, <2>4, <2>5 DEF SearchInv
  <1> QED BY <1>5, <1>6, <1>7

\* Every step of the search keeps the invariant.
LEMMA SearchNextInv == SearchInv /\ [SearchNext]_search_vars => SearchInv'
  <1>1. SearchInv /\ UNCHANGED search_vars => SearchInv'
    BY DEF SearchInv, search_vars, in, SearchTypeOK, Sorted, Interval, Correct,
           Indices
  <1> QED BY <1>1, CheckInv, NarrowInv, LastInv DEF SearchNext

\* The invariant holds in every behaviour.
LEMMA SearchInductive == SearchSpec => []SearchInv
  <1>1. SearchInit => SearchInv
    BY SearchInitInv
  <1> QED BY <1>1, SearchNextInv, PTL DEF SearchSpec

\* The variables of the search have their types, so that no index leaves the map.
THEOREM SearchTypeCorrect == SearchSpec => []SearchTypeOK
  <1>1. SearchInv => SearchTypeOK
    BY DEF SearchInv
  <1> QED BY SearchInductive, <1>1, PTL

\* The search finds a code exactly if the map has it (kbd-handler.c:548-598).
THEOREM SearchCorrect == SearchSpec => []Correct
  <1>1. SearchInv => Correct
    BY DEF SearchInv
  <1> QED BY SearchInductive, <1>1, PTL

\* The search does not read behind the map (kbd-handler.c:569).
THEOREM SearchNoOverread == SearchSpec => []NoOverread
  <1>1. SearchInv => NoOverread
    <2> SUFFICES ASSUME SearchInv, search_pc = "loop", Median = min_index,
                        map[Median] # scan_code
                 PROVE  Median + 1 \in Indices
      BY DEF NoOverread
    <2>1. max_index = min_index + 1
      BY TwoLeft DEF SearchInv
    <2> QED BY <2>1 DEF SearchInv, SearchTypeOK
  <1> QED BY SearchInductive, <1>1, PTL
=============================================================================
