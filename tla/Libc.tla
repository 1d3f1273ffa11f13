-------------------------------- MODULE Libc --------------------------------
(***************************************************************************)
(* Calls of the C library: string.c on a small memory, and the conversions *)
(* of stdlib.c and vsprintf.c between numbers and digits in a narrow word. *)
(* A behaviour is one call, with every argument for which C defines it.    *)
(* The properties say where a function does what C says it does.           *)
(***************************************************************************)
EXTENDS Integers, SequencesExt

CONSTANTS
    Bytes,     \* the values of the memory, 0 among them
    Size,      \* bytes of memory
    MaxCount,  \* the largest count passed
    Bits,      \* width of int, unsigned and long
    Widths     \* field widths

ASSUME LibcAssumption ==
    /\ 0 \in Bytes /\ Bytes \subseteq 0 .. 255
    /\ Size \in Nat \ {0} /\ MaxCount \in Nat
    /\ Bits \in Nat \ {0}
    /\ Widths \subseteq Int

VARIABLES call, result   \* the arguments; what the call returned, or None
vars == <<call, result>>
None == <<>>

(***************************************************************************)
(* string.c.  A memory m is a function; d, s, a and b are pointers.        *)
(***************************************************************************)
Addresses == 0 .. Size - 1
Char(byte) == IF byte > 127 THEN byte - 256 ELSE byte   \* char is signed

\* The loops for (; *s; s++).
Terminated(m, s) == \E i \in Addresses : i \geq s /\ m[i] = 0
strlen(m, s) == (CHOOSE i \in Addresses : i \geq s /\ m[i] = 0 /\ \A j \in s .. i - 1 : m[j] # 0) - s

\* The bytes at the given distances are copied one after the other.
Copy(m, d, s, distances) ==
    LET mem[n \in 0 .. Len(distances)] ==
            IF n = 0 THEN m
            ELSE LET before == mem[n - 1]
                     i == distances[n]
                 IN [before EXCEPT ![d + i] = before[s + i]]
    IN mem[Len(distances)]
Upwards(n) == [i \in 1 .. n |-> i - 1]

memcpy(m, d, s, n) == Copy(m, d, s, Upwards(n))

\* Mutated form: the overlapping bytes are copied from the first on.
memmove_up(m, d, s, n) == IF d > s /\ d < s + n THEN memcpy(m, d, s, n) ELSE m

\* There is no other case than the overlap.
memmove(m, d, s, n) ==
    IF d > s /\ d < s + n THEN Copy(m, d, s, Reverse(Upwards(n))) ELSE m

memset(m, d, byte, n) == [i \in DOMAIN m |-> IF i \in d .. d + n - 1 THEN byte ELSE m[i]]

\* Where two sequences of bytes differ first, in the given distances, or where the
\* comparison stops; n if nowhere.
FirstOf(n, P(_)) == IF \E i \in 0 .. n - 1 : P(i)
                    THEN CHOOSE i \in 0 .. n - 1 : P(i) /\ \A j \in 0 .. i - 1 : ~ P(j)
                    ELSE n
Difference(m, a, b, i) == Char(m[a + i]) - Char(m[b + i])

memcmp(m, a, b, n) ==
    LET i == FirstOf(n, LAMBDA k : m[a + k] # m[b + k])
    IN IF i = n THEN 0 ELSE Difference(m, a, b, i)

\* Mutated form: a string is taken for equal to its beginnings too.
strcmp_either(m, a, b) ==
    LET i == FirstOf(Size, LAMBDA k : m[a + k] = 0 \/ m[a + k] # m[b + k])
    IN IF m[a + i] = 0 \/ m[b + i] = 0 THEN 0 ELSE Difference(m, a, b, i)

strcmp(m, a, b) ==
    LET i == FirstOf(Size, LAMBDA k : m[a + k] = 0 \/ m[a + k] # m[b + k])
    IN IF m[a + i] = 0 THEN 0 ELSE Difference(m, a, b, i)

strncmp(m, a, b, n) ==
    LET i == FirstOf(n, LAMBDA k : m[a + k] = 0 \/ m[a + k] # m[b + k])
    IN IF i = n THEN 0 ELSE Difference(m, a, b, i)

strcpy(m, d, s) == memcpy(m, d, s, strlen(m, s) + 1)

\* The second loop: n counts down from what the first left of it, but a byte less than
\* that is cleared; when the first loop left nothing, n-- has wrapped, and all of the
\* memory behind is cleared.
strncpy(m, d, s, n) ==
    LET length == strlen(m, s)
        end == IF length < n THEN d + n - 2 ELSE Size - 1
        from == IF length < n THEN d + length ELSE d + n
        copied == memcpy(m, d, s, IF length < n THEN length + 1 ELSE n)
    IN memset(copied, from, 0, end + 1 - from)

strcat(m, d, s) == strcpy(m, d + strlen(m, d), s)

\* The end is written if the byte of the source behind the ones copied is one.
strncat(m, d, s, n) ==
    LET end == d + strlen(m, d)
        copied == IF strlen(m, s) < n THEN strlen(m, s) ELSE n
        with == memcpy(m, end, s, copied)
    IN IF m[s + copied] = 0 THEN [with EXCEPT ![end + copied] = 0] ELSE with

(***************************************************************************)
(* Numbers.  A text is a sequence of characters; a word holds 2^Bits.      *)
(***************************************************************************)
Word == 2 ^ Bits
carray == <<"0", "1", "2", "3", "4", "5", "6", "7", "8", "9", "A", "B", "C", "D", "E", "F">>
Value == [ch \in ToSet(carray) |-> (CHOOSE i \in DOMAIN carray : carray[i] = ch) - 1]
isdigit == {carray[i] : i \in 1 .. 10}
isxdigit == ToSet(carray)   \* ctype.h has no small letters among them

\* How many digits a value has.
Places == [b \in {10, 16} |-> [v \in 0 .. Word - 1 |->
              CHOOSE n \in 1 .. Bits : v < b ^ n /\ (n = 1 \/ v \geq b ^ (n - 1))]]
Long(x) == ((x + Word \div 2) % Word) - (Word \div 2)   \* a long wraps in this build

\* The digits from the first on: the divisor starts as a power of the base in a long, is
\* divided by the base for each, and what it does not go into is left, in a word.
Digits(v, base) ==
    LET n == Places[base][v]
        div(i) == Long(base ^ (n - 1)) \div base ^ (i - 1)
        abs_value[i \in 1 .. n] ==
            IF i = 1 THEN v
            ELSE LET d == abs_value[i - 1] \div div(i - 1)
                 IN (abs_value[i - 1] - Long(d * div(i - 1))) % Word
    IN [i \in 1 .. n |-> carray[abs_value[i] \div div(i) + 1]]

\* Mutated form: the sign bit is looked at in every base and format.
itoa_signed(value, base, unsignedvalue, fieldwidth) ==
    LET negative == value \geq Word \div 2
        digits == Digits(IF negative THEN Word - value ELSE value, base)
    IN (IF negative THEN <<"-">> ELSE <<>>) \o digits

\* itoa: the sign, zeros up to a positive width, the digits, dots up to a negative one.
\* Callers have base 10 or 16.
itoa(value, base, unsignedvalue, fieldwidth) ==
    LET negative == value \geq Word \div 2 /\ base \notin {2, 16} /\ ~ unsignedvalue
        digits == Digits(IF negative THEN Word - value ELSE value, base)
        Fill(ch, width) == [i \in 1 .. IF width < Len(digits) THEN 0 ELSE width - Len(digits)
                              |-> ch]
    IN (IF negative THEN <<"-">> ELSE <<>>) \o Fill("0", fieldwidth)
           \o digits \o Fill(".", - fieldwidth)

At(text, p) == IF p \in DOMAIN text THEN text[p] ELSE "NUL"

\* The first place from p on with a character that is not one of the given.
Past(text, p, chars) ==
    CHOOSE q \in p .. Len(text) + 1 :
        At(text, q) \notin chars /\ \A r \in p .. q - 1 : text[r] \in chars

\* The number that the digits from p to q - 1 make in a word of the given size.
Number(text, p, q, base, size) ==
    FoldLeft(LAMBDA num, ch : (num * base + Value[ch]) % size, 0, SubSeq(text, p, q - 1))

Negated(num, size) == (size - num) % size
Signs == {"+", "-"}
Unsigned(text, p) == IF At(text, p) \in Signs THEN p + 1 ELSE p

\* The sum of digits times powers of ten, whichever way, in an int.
atoi(text) ==
    LET p == Unsigned(text, 1)
        val == Number(text, p, Past(text, p, isdigit), 10, Word)
    IN IF At(text, 1) = "-" THEN Negated(val, Word) ELSE val

\* The base that a prefix tells and the place behind the prefix; a number without one
\* has none.
NoBase == -1
detect_base(text, p) ==
    CASE At(text, p) # "0" -> <<NoBase, p>>
      [] At(text, p + 1) = "x" ->
           <<IF At(text, p + 2) \in isxdigit THEN 16 ELSE NoBase, p + 2>>
      [] At(text, p + 1) \in isdigit -> <<8, p + 1>>
      [] OTHER -> <<NoBase, p + 1>>

\* The place behind 0x, or behind a single 0.
hex_process(text, p) ==
    CASE At(text, p) # "0" -> p
      [] At(text, p + 1) = "x" -> p + 2
      [] OTHER -> p + 1

is_correct_digit(base) ==
    IF base = 16 THEN isxdigit ELSE {ch \in isdigit : Value[ch] < base}

\* simple_strtoull, without its endptr, in a word of twice the width.
simple_strtoull(text, base) ==
    LET start == Past(text, 1, {" "})
        p == Unsigned(text, start)
        detected == IF base = 0 THEN detect_base(text, p) ELSE <<base, p>>
        b == detected[1]
        h == IF b = 16 THEN hex_process(text, detected[2]) ELSE detected[2]
        zeros == Past(text, h, {"0"})
        num == Number(text, zeros, Past(text, zeros, is_correct_digit(b)), b, Word * Word)
    IN CASE b = NoBase \/ (b = 16 /\ At(text, h) \notin isxdigit) -> 0
         [] At(text, start) = "-" -> Negated(num, Word * Word)
         [] OTHER -> num

(***************************************************************************)
(* The calls.                                                              *)
(***************************************************************************)
Disjoint(p, n, q, k) == p + n \leq q \/ q + k \leq p
Lower(n, k) == IF n < k THEN n ELSE k

\* C defines the call: it stays in memory, strings have an end and nothing overlaps
\* except in memmove.
Defined(fn, m, d, s, n) ==
    CASE fn \in {"memmove", "memcmp"} -> d + n \leq Size /\ s + n \leq Size
      [] fn = "memcpy" -> d + n \leq Size /\ s + n \leq Size /\ Disjoint(d, n, s, n)
      [] fn \in {"strcmp", "strncmp"} -> Terminated(m, d) /\ Terminated(m, s)
      [] fn = "strcpy" ->
           /\ Terminated(m, s) /\ d + strlen(m, s) < Size
           /\ Disjoint(d, strlen(m, s) + 1, s, strlen(m, s) + 1)
      [] fn = "strncpy" ->
           /\ Terminated(m, s) /\ d + n \leq Size
           /\ Disjoint(d, n, s, strlen(m, s) + 1)
      [] fn \in {"strcat", "strncat"} ->
           /\ Terminated(m, d) /\ Terminated(m, s)
           /\ LET length == strlen(m, d)
                            + (IF fn = "strcat" THEN strlen(m, s) ELSE Lower(n, strlen(m, s)))
              IN d + length < Size /\ Disjoint(d, length + 1, s, strlen(m, s) + 1)

StringCalls == {"memmove", "memcmp", "memcpy", "strcmp", "strncmp", "strcpy", "strncpy",
               "strcat", "strncat"}
\* What printk passes to itoa for %d, %u and %x.
Formats == {[base |-> 10, unsignedvalue |-> FALSE], [base |-> 10, unsignedvalue |-> TRUE],
            [base |-> 16, unsignedvalue |-> TRUE]}

Init ==
    /\ \/ \E fn \in StringCalls, m \in [Addresses -> Bytes], d, s \in Addresses, n \in 0 .. MaxCount :
             /\ Defined(fn, m, d, s, n)
             /\ fn \in {"strcpy", "strcat", "strcmp"} => n = 0
             /\ call = [fn |-> fn, m |-> m, d |-> d, s |-> s, n |-> n]
       \/ \E value \in 0 .. Word - 1, f \in Formats, w \in Widths :
             call = [fn |-> "itoa", value |-> value, format |-> f, width |-> w]
    /\ result = None

Apply ==
    LET m == call.m  d == call.d  s == call.s  n == call.n IN
    CASE call.fn = "memmove" -> memmove(m, d, s, n)
      [] call.fn = "memcpy" -> memcpy(m, d, s, n)
      [] call.fn = "memcmp" -> memcmp(m, d, s, n)
      [] call.fn = "strcmp" -> strcmp(m, d, s)
      [] call.fn = "strncmp" -> strncmp(m, d, s, n)
      [] call.fn = "strcpy" -> strcpy(m, d, s)
      [] call.fn = "strncpy" -> strncpy(m, d, s, n)
      [] call.fn = "strcat" -> strcat(m, d, s)
      [] call.fn = "strncat" -> strncat(m, d, s, n)
      [] call.fn = "itoa" ->
           itoa(call.value, call.format.base, call.format.unsignedvalue, call.width)

Return == result = None /\ result' = <<Apply>> /\ UNCHANGED call

Next == Return
Spec == Init /\ [][Next]_vars

(***************************************************************************)
(* Properties.                                                             *)
(***************************************************************************)
Returned(fns) == result # None /\ call.fn \in fns
res == result[1]

\* The bytes of a string, and of the memory from p on.
String(m, s) == [i \in 1 .. strlen(m, s) |-> m[s + i - 1]]
Area(m, p, n) == [i \in 1 .. n |-> m[p + i - 1]]
\* Less, equal or greater, of sequences.
Less(s, t) == \E i \in 1 .. Len(t) :
                 /\ \A j \in 1 .. i - 1 : j \in DOMAIN s /\ s[j] = t[j]
                 /\ i \notin DOMAIN s \/ s[i] < t[i]
Agrees(r, s, t) == (r < 0 <=> Less(s, t)) /\ (r > 0 <=> Less(t, s))

\* The comparisons order 7 bit characters as C does (string.c:3-13, 52-76), but strcmp
\* takes a string for equal to one that it is the beginning of.
Compares ==
    LET m == call.m  d == call.d  s == call.s
        Head_(p) == SubSeq(String(m, p), 1, Lower(call.n, strlen(m, p)))
    IN /\ Returned({"memcmp"}) => Agrees(res, Area(m, d, call.n), Area(m, s, call.n))
       /\ Returned({"strncmp"}) => Agrees(res, Head_(d), Head_(s))
       /\ Returned({"strcmp"}) =>
             IF IsPrefix(String(m, d), String(m, s)) THEN res = 0
             ELSE Agrees(res, String(m, d), String(m, s))

\* The memory with w bytes written at p: the first c of the source, then zeros.
Written(m, p, s, c, w) ==
    [i \in Addresses |-> IF i \notin p .. p + w - 1 THEN m[i]
                         ELSE IF i - p < c THEN m[s + (i - p)] ELSE 0]

\* What C says that a function makes of the memory, and nothing else.
InC ==
    LET m == call.m  d == call.d  s == call.s  n == call.n
        length == strlen(m, s)
        end == d + strlen(m, d)
    IN CASE call.fn \in {"memcpy", "memmove"} -> Written(m, d, s, n, n)
         [] call.fn = "strcpy" -> Written(m, d, s, length, length + 1)
         [] call.fn = "strncpy" -> Written(m, d, s, Lower(n, length), n)
         [] call.fn = "strcat" -> Written(m, end, s, length, length + 1)
         [] call.fn = "strncat" -> Written(m, end, s, Lower(n, length), Lower(n, length) + 1)

\* memmove does it if the destination is inside the source, strncpy if n is just the
\* source with its end, and strncat if n has room for the source.
LikeC ==
    /\ call.fn = "memmove" => call.d \in call.s .. call.s + call.n - 1
    /\ call.fn = "strncpy" => call.n = strlen(call.m, call.s) + 1
    /\ call.fn = "strncat" => strlen(call.m, call.s) \leq call.n

\* In those calls, and in all of memcpy, strcpy and strcat, the memory is what C says,
\* byte for byte (string.c:23-50, 78-137).
CopiesLikeC ==
    Returned({"memcpy", "memmove", "strcpy", "strncpy", "strcat", "strncat"}) /\ LikeC =>
        res = InC

\* In all other calls it is that except for just this: memmove moves nothing
\* (string.c:36); strncpy leaves the last of the n bytes as it was, or clears everything
\* behind them if the source fills them, n having wrapped (string.c:103); strncat writes
\* no end (string.c:131).
Departs ==
    LET m == call.m  n == call.n
        end == call.d + strlen(m, call.d) + n
    IN ~ LikeC =>
         /\ Returned({"memmove"}) => res = m
         /\ Returned({"strncpy"}) =>
              res = IF strlen(m, call.s) < n
                    THEN [InC EXCEPT ![call.d + n - 1] = m[call.d + n - 1]]
                    ELSE [i \in Addresses |-> IF i \geq call.d + n THEN 0 ELSE InC[i]]
         /\ Returned({"strncat"}) => res = [InC EXCEPT ![end] = m[end]]

\* No defined call that writes leaves any byte of the memory otherwise.
Copies == CopiesLikeC /\ Departs

\* By atoi and by simple_strtoull (stdlib.c:7-54, 132-195), in the base it is printed in.
ReadPlain ==
    Returned({"itoa"}) =>
        LET signed == IF call.value < Word \div 2 \/ call.format.unsignedvalue THEN call.value
                      ELSE call.value + Word * Word - Word
        IN /\ simple_strtoull(res, call.format.base) = signed
           /\ call.format.base = 10 => atoi(res) = call.value

\* With the prefix 0x in front, base 0 is enough, and 16 too.
PrefixTold ==
    Returned({"itoa"}) /\ call.format.base = 16 /\ call.width \geq 0 =>
        \A base \in {0, 16} : simple_strtoull(<<"0", "x">> \o res, base) = call.value

\* A field is as wide as it was asked for, not counting the sign, and wider only if the
\* digits need it, of which the first is then not a zero (vsprintf.c:56-65, 78-87).
FieldWidth ==
    Returned({"itoa"}) =>
        LET field == IF res[1] = "-" THEN Tail(res) ELSE res
            width == IF call.width < 0 THEN - call.width ELSE call.width
        IN /\ Len(field) \geq width
           /\ Len(field) > width /\ Len(field) > 1 => field[1] # "0" /\ Last(field) # "."

\* What printk prints for a number, with every field width, is read back as the number.
ReadBack == ReadPlain /\ PrefixTold /\ FieldWidth
=============================================================================
