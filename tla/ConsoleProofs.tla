---------------------------- MODULE ConsoleProofs ----------------------------
(***************************************************************************)
(* Proofs about Console, for a screen and tabs of any size, any number of  *)
(* writers and any characters: the cursor of a lone writer stays on the    *)
(* screen or in the row behind it, what it prints goes to the screen, and  *)
(* the console implements Terminal.                                        *)
(***************************************************************************)
EXTENDS Console, Integers, SequenceTheorems, TLAPS

(***************************************************************************)
(* The inductive invariant.                                                *)
(***************************************************************************)

\* The printer's place and locals.
Here == pc[Printer]
Char == c[Printer]
Back == back[Printer]
X == x[Printer]
Y == y[Printer]

Shown == crtc = Offset(cursor_x, cursor_y)

\* Only the printer is in vga_putc.
Nobody == \A w \in Writers \ {Printer} : pc[w] = "out" /\ left[w] = 0

\* Where the cursor may be between two characters, and in front of one that is written.
RestInv ==
    /\ Here \in {"out", "test", "ret", "row", "col", "put"} =>
           cursor_x < Width /\ (cursor_y < Height => Shown)
    /\ Here \in {"row", "col", "put"} => cursor_y < Height
    /\ Here \in {"col", "put"} => Y = cursor_y
    /\ Here = "put" => X = cursor_x

\* While the cursor is moved: which characters get there, and how far it is.
MoveInv ==
    /\ Here \in {"load x", "store x", "test x", "zero x", "load y", "store y", "test y"} =>
           Back = "ret"
    /\ Here \in {"load x", "store x", "test x", "zero x", "load y", "store y"} =>
           cursor_y < Height
    /\ Here \in {"load x", "store x"} =>
           cursor_x < Width /\ Char \notin {"n", "r"} /\ (Char = "b" => cursor_x > 0)
    /\ Here = "store x" => X = cursor_x
    /\ Here = "test x" => Char \notin {"n", "r", "b"} /\ (cursor_x \leq Width \/ Char = "t")
    /\ Here \in {"bottom", "load y", "store y"} => cursor_x = 0
    /\ Here = "store y" => Y = cursor_y
    /\ Here = "test y" => cursor_x < Width

\* move_cursor puts back what it loaded.  When vga_scroll_up called it, the cursor is on
\* the screen, and vga_putc goes on there.
ArgsInv ==
    /\ Here \in {"args", "args x", "crtc", "move x", "move y"} =>
           cursor_x < Width /\ (Back = "row" => cursor_y < Height)
    /\ Here \in {"args x", "crtc", "move x", "move y"} => Y = cursor_y
    /\ Here \in {"crtc", "move x", "move y"} => X = cursor_x
    /\ Here \in {"move x", "move y"} => Shown

LoneInv == alone => cursor_y \leq Height /\ Nobody /\ RestInv /\ MoveInv /\ ArgsInv

IInv == TypeOK /\ LoneInv

LEMMA Sizes ==
  /\ Width \in Nat \ {0} /\ Height \in Nat \ {0} /\ Tab \in Nat \ {0} /\ U8 \in Nat \ {0}
  /\ Width + Tab < U8 /\ Height < U8 /\ Printer \in Writers /\ MaxRacing \in Nat
  <1>1. \A n \in {Width, Height, Tab, U8} : n \in Nat \ {0}
    BY ConsoleAssumption
  <1> QED BY <1>1, ConsoleAssumption

LEMMA ModByte == ASSUME NEW n \in 0 .. U8 - 1 PROVE n % U8 = n
  BY Sizes

LEMMA ModWrap == ASSUME NEW n \in U8 .. 2 * U8 - 1 PROVE n % U8 = n - U8
  BY Sizes

LEMMA Ranges == IInv => cursor_x \in Nat /\ cursor_y \in Nat
  <1>1. IInv => cursor_x \in 0 .. U8 - 1 /\ cursor_y \in 0 .. U8 - 1
    BY DEF IInv, TypeOK
  <1> QED BY <1>1, Sizes

\* The steps of a lone printer.
LEMMA BottomStep == ASSUME IInv, alone, bottom(Printer) PROVE LoneInv'
  <1>1. /\ Here = "bottom" /\ pc' = [pc EXCEPT ![Printer] = "args"] /\ cursor_y' = Height - 1
        /\ UNCHANGED <<cells, cursor_x, crtc, c, back, x, y, alone, left, page>>
    BY DEF bottom, Go, StoreY, Here, locals, writers
  <1>2. pc' [Printer] = "args" /\ cursor_x = 0
    BY <1>1, Sizes DEF IInv, TypeOK, LoneInv, MoveInv
  <1>3. Nobody' /\ RestInv' /\ MoveInv'
    BY <1>1, <1>2 DEF IInv, TypeOK, LoneInv, Nobody, RestInv, MoveInv, Here
  <1>4. cursor_y' \leq Height /\ cursor_y' < Height /\ cursor_x' < Width
    BY <1>1, <1>2, Sizes
  <1> QED BY <1>2, <1>3, <1>4 DEF LoneInv, ArgsInv, Here

LEMMA PutStep == ASSUME IInv, alone, put(Printer) PROVE LoneInv'
  <1> DEFINE to == CASE Char \in {"n", "r"} -> "zero x"
                     [] Char = "b" /\ cursor_x = 0 -> "ret"
                     [] OTHER -> "load x"
  <1>1. /\ Here = "put" /\ pc' = [pc EXCEPT ![Printer] = to]
        /\ back' = [back EXCEPT ![Printer] = "ret"]
        /\ UNCHANGED <<cursor_x, cursor_y, crtc, c, alone, left, page>>
    BY DEF put, Go, Here, Char, writers
  <1>2. Here' = to /\ Back' = "ret" /\ Char' = Char
    BY <1>1, Sizes DEF IInv, TypeOK, Here, Back, Char
  <1>3. to \in {"zero x", "ret", "load x"}
    OBVIOUS
  <1>4. /\ to = "ret" => Char = "b"
        /\ to = "load x" => Char \notin {"n", "r"} /\ (Char = "b" => cursor_x > 0)
    BY Ranges
  <1> HIDE DEF to
  <1>5. /\ cursor_x < Width /\ cursor_y < Height /\ Shown /\ cursor_y \leq Height
    BY <1>1, Ranges DEF IInv, LoneInv, RestInv
  <1>6. Nobody'
    BY <1>1 DEF IInv, TypeOK, LoneInv, Nobody
  <1>7. RestInv'
    BY <1>1, <1>2, <1>3, <1>5 DEF RestInv, Shown
  <1>8. MoveInv'
    BY <1>1, <1>2, <1>3, <1>4, <1>5 DEF MoveInv
  <1>9. ArgsInv'
    BY <1>2, <1>3 DEF ArgsInv
  <1> QED BY <1>1, <1>5, <1>6, <1>7, <1>8, <1>9 DEF LoneInv

LEMMA StoreXStep == ASSUME IInv, alone, store_x(Printer) PROVE LoneInv'
  <1> DEFINE to == IF Char = "b" THEN "args" ELSE "test x"
             v == CASE Char = "t" -> (X + Tab) % U8
                    [] Char = "b" -> (X + U8 - 1) % U8
                    [] OTHER -> (X + 1) % U8
  <1>1. /\ Here = "store x" /\ pc' = [pc EXCEPT ![Printer] = to] /\ cursor_x' = v
        /\ UNCHANGED <<cells, cursor_y, crtc, c, back, x, y, alone, left, page>>
    BY DEF store_x, Go, StoreX, Here, Char, X, locals, writers
  <1>2. Here' = to /\ Back' = Back /\ Char' = Char
    BY <1>1, Sizes DEF IInv, TypeOK, Here, Back, Char
  <1>3. /\ cursor_x < Width /\ cursor_y < Height /\ cursor_y \leq Height
        /\ X = cursor_x /\ Char \notin {"n", "r"} /\ (Char = "b" => cursor_x > 0)
        /\ Back = "ret"
    BY <1>1 DEF IInv, LoneInv, MoveInv
  <1>4. /\ Char = "b" => v < Width
        /\ Char \notin {"b", "t"} => v \leq Width
    <2>1. CASE Char = "b"
      <3>1. v = (X + U8 - 1) % U8 /\ X + U8 - 1 \in U8 .. 2 * U8 - 1
        BY <1>3, <2>1, Sizes, Ranges
      <3>2. v = (X + U8 - 1) - U8
        BY <3>1, ModWrap
      <3> QED BY <1>3, <2>1, <3>2, Sizes, Ranges
    <2>2. CASE Char \notin {"b", "t"}
      <3>1. v = (X + 1) % U8 /\ X + 1 \in 0 .. U8 - 1
        BY <1>3, <2>2, Sizes, Ranges
      <3> QED BY <1>3, <2>2, <3>1, ModByte, Sizes, Ranges
    <2> QED BY <2>1, <2>2
  <1> HIDE DEF v
  <1>5. Nobody'
    BY <1>1 DEF IInv, TypeOK, LoneInv, Nobody
  <1>6. RestInv'
    BY <1>2 DEF RestInv
  <1>7. MoveInv'
    BY <1>1, <1>2, <1>3, <1>4 DEF MoveInv
  <1>8. ArgsInv'
    BY <1>1, <1>2, <1>3, <1>4 DEF ArgsInv
  <1> QED BY <1>1, <1>3, <1>5, <1>6, <1>7, <1>8 DEF LoneInv

LEMMA TestXStep == ASSUME IInv, alone, test_x(Printer) PROVE LoneInv'
  <1> DEFINE to == IF cursor_x = Width \/ (Char = "t" /\ cursor_x > Width)
                   THEN "zero x" ELSE "test y"
  <1>1. /\ Here = "test x" /\ pc' = [pc EXCEPT ![Printer] = to]
        /\ UNCHANGED <<cells, cursor_x, cursor_y, crtc, c, back, x, y, alone, left, page>>
    BY DEF test_x, Go, Test, Here, Char, screen, locals, writers
  <1>2. Here' = to /\ Back' = Back /\ Char' = Char
    BY <1>1, Sizes DEF IInv, TypeOK, Here, Back, Char
  <1>3. /\ cursor_y < Height /\ cursor_y \leq Height
        /\ Char \notin {"n", "r", "b"} /\ (cursor_x \leq Width \/ Char = "t") /\ Back = "ret"
    BY <1>1 DEF IInv, LoneInv, MoveInv
  <1>4. to \in {"zero x", "test y"} /\ (to = "test y" => cursor_x < Width)
    BY <1>3, Ranges, Sizes
  <1> HIDE DEF to
  <1>5. Nobody'
    BY <1>1 DEF IInv, TypeOK, LoneInv, Nobody
  <1>6. RestInv' /\ ArgsInv'
    BY <1>2, <1>4 DEF RestInv, ArgsInv
  <1>7. MoveInv'
    BY <1>1, <1>2, <1>3, <1>4 DEF MoveInv
  <1> QED BY <1>1, <1>3, <1>5, <1>6, <1>7 DEF LoneInv

LEMMA StoreYStep == ASSUME IInv, alone, store_y(Printer) PROVE LoneInv'
  <1> DEFINE to == IF Char = "r" THEN "args" ELSE "test y"
             v == (Y + 1) % U8
  <1>1. /\ Here = "store y" /\ pc' = [pc EXCEPT ![Printer] = to] /\ cursor_y' = v
        /\ UNCHANGED <<cells, cursor_x, crtc, c, back, x, y, alone, left, page>>
    BY DEF store_y, Go, StoreY, Here, Char, Y, locals, writers
  <1>2. Here' = to /\ Back' = Back /\ Char' = Char
    BY <1>1, Sizes DEF IInv, TypeOK, Here, Back, Char
  <1>3. cursor_y < Height /\ cursor_x = 0 /\ Y = cursor_y /\ Back = "ret"
    BY <1>1 DEF IInv, LoneInv, MoveInv
  <1>4. v \leq Height
    <2>1. Y + 1 \in 0 .. U8 - 1
      BY <1>3, Ranges, Sizes
    <2> QED BY <1>3, <2>1, ModByte, Sizes, Ranges
  <1>5. Nobody'
    BY <1>1 DEF IInv, TypeOK, LoneInv, Nobody
  <1>6. RestInv' /\ ArgsInv' /\ MoveInv'
    <2>1. cursor_x' = cursor_x /\ cursor_x < Width
      <3>1. cursor_x' = cursor_x
        BY <1>1
      <3> QED BY <1>3, <3>1, Sizes
    <2>2. to \in {"args", "test y"}
      OBVIOUS
    <2> HIDE DEF to
    <2> QED BY <1>2, <1>3, <2>1, <2>2 DEF RestInv, ArgsInv, MoveInv
  <1> QED BY <1>1, <1>4, <1>5, <1>6 DEF LoneInv

LEMMA TestYStep == ASSUME IInv, alone, test_y(Printer) PROVE LoneInv'
  <1> DEFINE to == CASE Char = "t" /\ cursor_y \geq Height -> "scroll"
                     [] Char # "t" /\ cursor_y = Height -> "ret"
                     [] OTHER -> "args"
  <1>1. /\ Here = "test y" /\ pc' = [pc EXCEPT ![Printer] = to]
        /\ UNCHANGED <<cells, cursor_x, cursor_y, crtc, c, back, x, y, alone, left, page>>
    BY DEF test_y, Go, Test, Here, Char, screen, locals, writers
  <1>2. Here' = to /\ Back' = Back /\ Char' = Char
    BY <1>1, Sizes DEF IInv, TypeOK, Here, Back, Char
  <1>3. cursor_x < Width /\ cursor_y \leq Height /\ Back = "ret"
    BY <1>1 DEF IInv, LoneInv, MoveInv
  <1>4. to \in {"scroll", "ret", "args"} /\ (to = "ret" => ~ cursor_y < Height)
    BY <1>3, Ranges, Sizes
  <1> HIDE DEF to
  <1>5. Nobody'
    BY <1>1 DEF IInv, TypeOK, LoneInv, Nobody
  <1>6. RestInv' /\ MoveInv' /\ ArgsInv'
    BY <1>1, <1>2, <1>3, <1>4 DEF RestInv, MoveInv, ArgsInv
  <1> QED BY <1>1, <1>3, <1>5, <1>6 DEF LoneInv

LEMMA OffsetNat == ASSUME NEW i \in Nat, NEW j \in Nat PROVE Offset(i, j) \in Nat
  BY Sizes DEF Offset

LEMMA Byte ==
  /\ 0 \in 0 .. U8 - 1 /\ Height - 1 \in 0 .. U8 - 1
  /\ \A n \in 0 .. U8 - 1 : n \in Nat
  /\ \A n \in Nat : n % U8 \in 0 .. U8 - 1
  /\ \A n \in 0 .. U8 - 1 : n + Tab \in Nat /\ n + U8 - 1 \in Nat /\ n + 1 \in Nat
  BY Sizes

\* What a step of a writer does to each variable.
LEMMA StepForm ==
  ASSUME NEW w \in Writers, vga_putc(w) \/ InPutc(w)
  PROVE  /\ \E to \in Places \cup {back[w]} : pc' = [pc EXCEPT ![w] = to]
         /\ \/ cursor_x' \in {cursor_x, 0, x[w]}
            \/ cursor_x' \in {(x[w] + Tab) % U8, (x[w] + U8 - 1) % U8, (x[w] + 1) % U8}
         /\ cursor_y' \in {cursor_y, Height - 1, y[w], (y[w] + 1) % U8}
         /\ \/ cells' = cells
            \/ cells' = [o \in DOMAIN cells |->
                                   IF o + Width \in DOMAIN cells THEN cells[o + Width] ELSE " "]
            \/ cells' = [o \in DOMAIN cells |->
                            IF c[w] \in Printable /\ o = Offset(x[w], y[w]) THEN c[w] ELSE cells[o]]
         /\ crtc' = crtc \/ crtc' = Offset(x[w], y[w])
         /\ c' = c \/ \E char \in Printable \cup Controls : c' = [c EXCEPT ![w] = char]
         /\ back' = back \/ \E b \in {"row", "ret"} : back' = [back EXCEPT ![w] = b]
         /\ \/ x' = x \/ x' = [x EXCEPT ![w] = cursor_x] \/ x' = [x EXCEPT ![w] = 0]
         /\ \/ y' = y \/ y' = [y EXCEPT ![w] = cursor_y] \/ y' = [y EXCEPT ![w] = 0]
         /\ \/ left' = left
            \/ w = Printer /\ left' = [left EXCEPT ![w] = left[w]]
            \/ left[w] > 0 /\ left' = [left EXCEPT ![w] = left[w] - 1]
         /\ alone' = alone
  BY DEF InPutc, vga_putc, test_full, vga_scroll_up, home, bottom, row, col, put, load_x,
         store_x, test_x, zero_x, load_y, store_y, test_y, args_y, args_x, move_crtc, move_x,
         move_y, ret, Go, LoadX, LoadY, StoreX, StoreY, Forget, Show, screen, Test, locals,
         writers, Places, Controls

LEMMA TypeStep ==
  ASSUME TypeOK, NEW w \in Writers, vga_putc(w) \/ InPutc(w)
  PROVE  TypeOK'
  <1> DEFINE B == 0 .. U8 - 1
  <1>1. /\ cursor_x \in B /\ cursor_y \in B /\ x[w] \in B /\ y[w] \in B
        /\ x \in [Writers -> B] /\ y \in [Writers -> B] /\ 0 \in B
        /\ c[w] \in Printable \cup Controls /\ back[w] \in {"row", "ret"}
    BY Byte DEF TypeOK
  <1> HIDE DEF B
  <1>2. pc' \in [Writers -> Places]
    <2>1. \E to \in Places : pc' = [pc EXCEPT ![w] = to]
      <3>1. \E to \in Places \cup {back[w]} : pc' = [pc EXCEPT ![w] = to]
        BY StepForm
      <3>2. "row" \in Places /\ "ret" \in Places
        BY DEF Places
      <3> QED BY <1>1, <3>1, <3>2
    <2> QED BY <2>1 DEF TypeOK
  <1>3. cursor_x' \in B
    <2>1. \A n \in B : (n + Tab) % U8 \in B /\ (n + U8 - 1) % U8 \in B /\ (n + 1) % U8 \in B
      BY Byte DEF B
    <2> QED BY <1>1, <2>1, StepForm
  <1>4. cursor_y' \in B
    <2>1. cursor_y' \in {cursor_y, Height - 1, y[w], (y[w] + 1) % U8}
      BY StepForm, Zenon
    <2> QED BY <1>1, <2>1, Byte DEF B
  <1>5. cells' \in [0 .. Width * Height - 1 -> Printable \cup {" "}]
    <2>1. cells \in [0 .. Width * Height - 1 -> Printable \cup {" "}]
      BY DEF TypeOK
    <2>2. \/ cells' = cells
          \/ cells' = [o \in DOMAIN cells |->
                         IF o + Width \in DOMAIN cells THEN cells[o + Width] ELSE " "]
          \/ cells' = [o \in DOMAIN cells |->
                         IF c[w] \in Printable /\ o = Offset(x[w], y[w]) THEN c[w] ELSE cells[o]]
      BY StepForm, Zenon
    <2> QED BY <2>1, <2>2
  <1>6. crtc' \in Nat
    <2>1. Offset(x[w], y[w]) \in Nat
      BY <1>1, OffsetNat, Byte DEF B
    <2> QED BY <2>1, StepForm DEF TypeOK
  <1>7. c' \in [Writers -> Printable \cup Controls]
    BY StepForm, Zenon DEF TypeOK
  <1>8. back' \in [Writers -> {"row", "ret"}]
    BY StepForm DEF TypeOK
  <1>9. x' \in [Writers -> B] /\ y' \in [Writers -> B]
    BY <1>1, StepForm
  <1>10. left' \in [Writers -> 0 .. MaxRacing] /\ alone' \in BOOLEAN
    <2>1. left \in [Writers -> 0 .. MaxRacing] /\ alone \in BOOLEAN
      BY DEF TypeOK
    <2>2. left' \in [Writers -> 0 .. MaxRacing]
      <3>1. ASSUME left[w] > 0 PROVE left[w] - 1 \in 0 .. MaxRacing
        BY <2>1, <3>1, Sizes
      <3> QED BY <2>1, <3>1, StepForm
    <2> QED BY <2>1, <2>2, StepForm
  <1> QED BY <1>2, <1>3, <1>4, <1>5, <1>6, <1>7, <1>8, <1>9, <1>10 DEF TypeOK, B

LEMMA TestFullStep == ASSUME IInv, alone, test_full(Printer) PROVE LoneInv'
  <1> DEFINE to == IF cursor_y = Height THEN "scroll" ELSE "row"
  <1>1. /\ Here = "test" /\ pc' = [pc EXCEPT ![Printer] = to]
        /\ UNCHANGED <<cells, cursor_x, cursor_y, crtc, c, back, x, y, alone, left, page>>
    BY DEF test_full, Go, Test, Here, screen, locals, writers
  <1>2. Here' = to /\ Shown' = Shown
    BY <1>1, Sizes DEF IInv, TypeOK, Here, Shown
  <1>3. cursor_x < Width /\ (cursor_y < Height => Shown) /\ cursor_y \leq Height
    BY <1>1 DEF IInv, LoneInv, RestInv
  <1>4. to \in {"scroll", "row"} /\ (to = "row" => cursor_y < Height)
    BY <1>3, Ranges, Sizes
  <1> HIDE DEF to
  <1>5. Nobody'
    BY <1>1 DEF IInv, TypeOK, LoneInv, Nobody
  <1>6. RestInv' /\ MoveInv' /\ ArgsInv'
    BY <1>1, <1>2, <1>3, <1>4 DEF RestInv, MoveInv, ArgsInv
  <1> QED BY <1>1, <1>3, <1>5, <1>6 DEF LoneInv

LEMMA PutcStep == ASSUME IInv, alone, vga_putc(Printer) PROVE LoneInv'
  <1>1. /\ Here = "out" /\ pc' = [pc EXCEPT ![Printer] = "test"] /\ alone' = alone
        /\ cursor_x' = cursor_x /\ cursor_y' = cursor_y /\ crtc' = crtc
        /\ left' = [left EXCEPT ![Printer] = left[Printer]]
    BY DEF vga_putc, Go, Here
  <1>2. /\ pc \in [Writers -> Places] /\ left' = left /\ Printer \in Writers
        /\ LoneInv
    BY <1>1, Sizes DEF IInv, TypeOK
  <1>3. /\ cursor_y \leq Height /\ cursor_x < Width /\ (cursor_y < Height => Shown)
        /\ Nobody
    BY <1>1, <1>2 DEF LoneInv, RestInv
  <1>4. Here' = "test" /\ \A w \in Writers \ {Printer} : pc'[w] = pc[w]
    BY <1>1, <1>2 DEF Here
  <1>5. Nobody'
    BY <1>2, <1>3, <1>4 DEF Nobody
  <1>6. Shown' = Shown
    BY <1>1 DEF Shown
  <1>7. RestInv' /\ MoveInv' /\ ArgsInv'
    BY <1>1, <1>3, <1>4, <1>6, Zenon DEF RestInv, MoveInv, ArgsInv
  <1> QED BY <1>1, <1>3, <1>5, <1>7 DEF LoneInv

\* Those that need no more than the definitions.
LEMMA EasySteps ==
  ASSUME IInv, alone,
         \/ vga_scroll_up(Printer) \/ home(Printer)
         \/ row(Printer) \/ col(Printer) \/ load_x(Printer) \/ zero_x(Printer) \/ load_y(Printer)
         \/ args_y(Printer) \/ args_x(Printer) \/ move_crtc(Printer) \/ move_x(Printer)
         \/ move_y(Printer) \/ ret(Printer) \/ vga_putc(Printer)
  PROVE  LoneInv'
  <1> USE Sizes
      DEF IInv, TypeOK, LoneInv, Nobody, RestInv, MoveInv, ArgsInv, Here, Char, Back, X, Y, Shown,
          Go, LoadX, LoadY, StoreX, StoreY, Forget, Show, screen, Test, locals, writers, Places
  <1>1. CASE vga_scroll_up(Printer)
    BY <1>1 DEF vga_scroll_up
  <1>2. CASE home(Printer)
    BY <1>2 DEF home
  <1>3. CASE row(Printer)
    BY <1>3 DEF row
  <1>4. CASE col(Printer)
    BY <1>4 DEF col
  <1>5. CASE load_x(Printer)
    BY <1>5 DEF load_x
  <1>6. CASE zero_x(Printer)
    BY <1>6 DEF zero_x
  <1>7. CASE load_y(Printer)
    BY <1>7 DEF load_y
  <1>8. CASE args_y(Printer)
    BY <1>8 DEF args_y
  <1>9. CASE args_x(Printer)
    BY <1>9 DEF args_x
  <1>10. CASE move_crtc(Printer)
    BY <1>10 DEF move_crtc
  <1>11. CASE move_x(Printer)
    BY <1>11 DEF move_x
  <1>12. CASE move_y(Printer)
    BY <1>12 DEF move_y
  <1>13. CASE ret(Printer)
    BY <1>13 DEF ret
  <1>14. CASE vga_putc(Printer)
    BY <1>14, PutcStep, Zenon
  <1> QED BY <1>1, <1>2, <1>3, <1>4, <1>5, <1>6, <1>7, <1>8, <1>9, <1>10, <1>11, <1>12, <1>13,
             <1>14, Zenon

LEMMA InitInv == Init => IInv
  <1> SUFFICES ASSUME Init PROVE IInv
    OBVIOUS
  <1>1. TypeOK
    <2>1. cells \in [0 .. Width * Height - 1 -> Printable \cup {" "}]
      BY DEF Init
    <2>2. /\ cursor_x \in 0 .. U8 - 1 /\ cursor_y \in 0 .. U8 - 1 /\ crtc \in Nat
          /\ x \in [Writers -> 0 .. U8 - 1] /\ y \in [Writers -> 0 .. U8 - 1]
      BY Byte DEF Init
    <2>3. left \in [Writers -> 0 .. MaxRacing] /\ alone \in BOOLEAN
      <3>1. 0 \in 0 .. MaxRacing /\ MaxRacing \in 0 .. MaxRacing
        BY Sizes
      <3> QED BY <3>1 DEF Init
    <2>4. /\ pc \in [Writers -> Places] /\ c \in [Writers -> Printable \cup Controls]
          /\ back \in [Writers -> {"row", "ret"}]
      BY DEF Init, Places, Controls
    <2> QED BY <2>1, <2>2, <2>3, <2>4 DEF TypeOK
  <1>2. LoneInv
    <2>1. Offset(0, 0) = 0
      BY Sizes DEF Offset
    <2>2. Here = "out" /\ cursor_x = 0 /\ cursor_y = 0 /\ crtc = 0
      BY Sizes DEF Init, Here
    <2>3. cursor_x < Width /\ cursor_y \leq Height
      BY <2>2, Sizes
    <2>4. alone => Nobody
      BY DEF Init, Nobody
    <2> QED BY <2>1, <2>2, <2>3, <2>4 DEF LoneInv, RestInv, MoveInv, ArgsInv, Shown
  <1> QED BY <1>1, <1>2 DEF IInv

LEMMA OnlyPrinter ==
  ASSUME IInv, alone, NEW w \in Writers, vga_putc(w) \/ InPutc(w)
  PROVE  w = Printer
  <1>1. InPutc(w) => pc[w] # "out"
    BY DEF InPutc, test_full, vga_scroll_up, home, bottom, row, col, put, load_x, store_x,
           test_x, zero_x, load_y, store_y, test_y, args_y, args_x, move_crtc, move_x, move_y,
           ret, Go
  <1>2. vga_putc(w) => w = Printer \/ left[w] # 0
    BY DEF vga_putc
  <1> QED BY <1>1, <1>2 DEF IInv, LoneInv, Nobody

LEMMA LoneStep ==
  ASSUME IInv, NEW w \in Writers, vga_putc(w) \/ InPutc(w)
  PROVE  LoneInv'
  <1> SUFFICES ASSUME alone' PROVE LoneInv'
    BY DEF LoneInv
  <1>1. alone
    BY StepForm
  <1>2. w = Printer
    BY <1>1, OnlyPrinter
  <1> QED BY <1>1, <1>2, EasySteps, TestFullStep, BottomStep, PutStep, StoreXStep, TestXStep,
             StoreYStep, TestYStep DEF InPutc

THEOREM Inductive == Spec => []IInv
  <1>1. IInv /\ UNCHANGED vars => IInv'
    <2> SUFFICES ASSUME IInv, UNCHANGED vars PROVE IInv'
      OBVIOUS
    <2>1. UNCHANGED <<cells, cursor_x, cursor_y, crtc, pc, c, back, x, y, alone, left>>
      BY DEF vars, locals, writers
    <2>2. TypeOK'
      BY <2>1 DEF IInv, TypeOK
    <2>3. Here' = Here /\ Char' = Char /\ Back' = Back /\ X' = X /\ Y' = Y /\ Shown' = Shown
      BY <2>1 DEF Here, Char, Back, X, Y, Shown
    <2>4. LoneInv'
      BY <2>1, <2>3 DEF IInv, LoneInv, Nobody, RestInv, MoveInv, ArgsInv
    <2> QED BY <2>2, <2>4 DEF IInv
  <1>2. IInv /\ [Next]_vars => IInv'
    BY <1>1, TypeStep, LoneStep DEF IInv, Next
  <1> QED BY <1>2, InitInv, PTL DEF Spec

\* The variables keep their types: the cursor's coordinates are bytes, however writers race.
THEOREM ConsoleTypeCorrect == Spec => []TypeOK
  <1>1. IInv => TypeOK
    BY DEF IInv
  <1> QED BY <1>1, Inductive, PTL

\* The only writer writes on the screen, whatever it prints and however large the screen is;
\* its cursor is at most one row behind it, and shown where it is (vga.c:78-140).
THEOREM LoneWriter == Spec => []WritesOnScreen
  <1>1. IInv => WritesOnScreen
    BY DEF IInv, LoneInv, RestInv, WritesOnScreen, OnScreen, Here, X, Y, Shown
  <1> QED BY <1>1, Inductive, PTL

(***************************************************************************)
(* The console of a lone writer is a terminal.                             *)
(***************************************************************************)

\* The first n rows of the screen with contents f; there is nothing in a row behind the last.
RowAt(f, i) == [k \in Columns |-> IF i \leq Height THEN f[Offset(k, i - 1)] ELSE " "]
RowsOf(f, n) == [i \in 1 .. n |-> RowAt(f, i)]

\* The rows of the page when there is room for a character, and with the character.
Roomy == Screen!Room(page.rows)
With == IF Char \in Printable THEN [Roomy EXCEPT ![Len(Roomy)][page.col] = Char] ELSE Roomy

\* Does the character end the row?
Ends == \/ Char \in {"n", "r"}
        \/ Char \in Printable /\ page.col + 1 = Width
        \/ Char = "t" /\ page.col + Tab \geq Width

\* The column it leaves the cursor in if it does not.
Next_col == CASE Char = "t" -> page.col + Tab
              [] Char = "b" -> IF page.col > 0 THEN page.col - 1 ELSE 0
              [] OTHER -> page.col + 1

\* The page behind the character.
Target ==
    [rows |-> IF Char = "t" /\ Ends THEN Screen!Room(Append(With, Screen!Blank))
              ELSE IF Ends THEN Append(With, Screen!Blank) ELSE With,
     col |-> IF Ends THEN 0 ELSE Next_col]

\* The rows below the cursor's are blank.
BlankBelow ==
    \A j \in cursor_y + 1 .. Height - 1 : \A k \in Columns : cells[Offset(k, j)] = " "

Now == RowsOf(cells, cursor_y + 1)

Moving == Here \in {"args", "args x", "crtc", "move x", "move y"}

\* There is room for the character / it has been printed.
Ready == Here \in {"row", "col", "put"} \/ (Moving /\ Back = "row")
Done == Here = "ret" \/ (Moving /\ Back = "ret")

PageType ==
    /\ page.col \in Columns
    /\ page.rows \in Seq([Columns -> Printable \cup {" "}]) /\ Len(page.rows) \in 1 .. Height + 1

\* The cursor is behind the last row only at the start of a row.
Behind == Here \in {"out", "test"} \/ Done => (cursor_y = Height => cursor_x = 0)

\* How far the screen is from the page of the last character to that of this one.
PageInv == alone =>
    /\ PageType /\ BlankBelow /\ Behind
    /\ Here \in {"out", "test"} => page = PageOf /\ Back = "row"
    /\ Here \in {"scroll", "home", "bottom"} => cursor_y = Height
    /\ Here = "scroll" /\ Back = "row" => page = PageOf /\ cursor_x = 0
    /\ Here = "scroll" /\ Back = "ret" => Char = "t" /\ Ends /\ Now = Append(With, Screen!Blank)
    /\ Here \in {"home", "bottom"} /\ Back = "row" =>
           RowsOf(cells, Height) = Roomy /\ page.col = 0
    /\ Here \in {"home", "bottom"} /\ Back = "ret" =>
           RowsOf(cells, Height) = Target.rows /\ Ends
    /\ Ready => Now = Roomy /\ cursor_x = page.col
    /\ Here \in {"load x", "store x"} => Now = With /\ cursor_x = page.col
    /\ Here = "test x" => Now = With /\ cursor_x = Next_col
    /\ Here \in {"zero x", "load y", "store y"} => Now = With /\ Ends
    /\ Here = "test y" /\ ~ Ends => Now = With /\ cursor_x = Next_col /\ cursor_y < Height
    /\ Here = "test y" /\ Ends => Now = Append(With, Screen!Blank) /\ cursor_x = 0
    /\ Done => PageOf = Target

Glyphs == Printable \cup {" "}
Row == [Columns -> Glyphs]
Contents == [0 .. Width * Height - 1 -> Glyphs]

LEMMA OffsetIs ==
  ASSUME NEW k \in Columns, NEW j \in 0 .. Height
  PROVE  /\ Offset(k, j) \in Nat
         /\ j < Height <=> Offset(k, j) \in 0 .. Width * Height - 1
         /\ Offset(k, j) + Width = Offset(k, j + 1)
  <1>1. k \in Nat /\ j \in Nat /\ k < Width /\ j \leq Height
    BY Sizes DEF Columns
  <1>2. Offset(k, j) \in Nat
    BY <1>1, OffsetNat
  <1>3. (j + 1) * Width = j * Width + Width
    BY <1>1, Sizes
  <1>4. ASSUME j < Height PROVE Offset(k, j) < Width * Height
    <2>1. PICK d \in Nat : Height = (j + 1) + d
      <3>1. Height - (j + 1) \in Nat /\ Height = (j + 1) + (Height - (j + 1))
        BY <1>1, <1>4, Sizes
      <3> QED BY <3>1
    <2>2. Width * Height = (j + 1) * Width + d * Width /\ d * Width \in Nat
      BY <1>1, <2>1, Sizes
    <2>3. j * Width \in Nat
      BY <1>1, Sizes
    <2> QED BY <1>1, <1>3, <2>2, <2>3, Sizes DEF Offset
  <1>5. ASSUME ~ j < Height PROVE ~ Offset(k, j) < Width * Height
    <2>1. j = Height
      BY <1>1, <1>5, Sizes
    <2>2. Height * Width = Width * Height /\ Width * Height \in Nat
      BY Sizes
    <2> QED BY <1>1, <2>1, <2>2 DEF Offset
  <1>6. Width * Height \in Nat
    BY Sizes
  <1>7. j < Height <=> Offset(k, j) \in 0 .. Width * Height - 1
    BY <1>2, <1>4, <1>5, <1>6
  <1>8. Offset(k, j) + Width = Offset(k, j + 1)
    <2>1. j * Width \in Nat
      BY <1>1, Sizes
    <2> QED BY <1>1, <1>3, <2>1, Sizes DEF Offset
  <1> QED BY <1>2, <1>7, <1>8

LEMMA OffsetDiffers ==
  ASSUME NEW k \in Columns, NEW j \in 0 .. Height, NEW a \in Columns, NEW b \in 0 .. Height,
         Offset(k, j) = Offset(a, b)
  PROVE  k = a /\ j = b
  <1>1. k \in Nat /\ j \in Nat /\ k < Width /\ a \in Nat /\ b \in Nat /\ a < Width
    BY Sizes DEF Columns
  <1>2. ASSUME NEW m \in Nat, NEW n \in Nat, NEW p \in Nat, NEW q \in Nat, p < Width, q < Width, m < n
        PROVE  Offset(p, m) # Offset(q, n)
    <2>1. PICK d \in Nat : n = (m + 1) + d
      <3>1. n - (m + 1) \in Nat /\ n = (m + 1) + (n - (m + 1))
        BY <1>2
      <3> QED BY <3>1
    <2>2. n * Width = m * Width + Width + d * Width /\ d * Width \in Nat /\ m * Width \in Nat
      BY <2>1, Sizes
    <2> QED BY <1>2, <2>2, Sizes DEF Offset
  <1>3. j = b
    BY <1>1, <1>2
  <1>4. j * Width \in Nat
    BY <1>1, Sizes
  <1> QED BY <1>1, <1>3, <1>4 DEF Offset

LEMMA RowsSeq ==
  ASSUME NEW f \in Contents, NEW n \in 1 .. Height + 1
  PROVE  /\ RowsOf(f, n) \in Seq(Row) /\ Len(RowsOf(f, n)) = n
         /\ \A i \in 1 .. n : RowsOf(f, n)[i] = RowAt(f, i) /\ RowAt(f, i) \in Row
  <1>1. n \in Nat /\ Height \in Nat
    BY Sizes
  <1>2. ASSUME NEW i \in 1 .. n, NEW k \in Columns
        PROVE  (IF i \leq Height THEN f[Offset(k, i - 1)] ELSE " ") \in Glyphs
    <2>1. CASE i \leq Height
      <3>1. i - 1 \in 0 .. Height /\ i - 1 < Height
        BY <1>1, <2>1
      <3>2. Offset(k, i - 1) \in 0 .. Width * Height - 1
        BY <3>1, OffsetIs
      <3> QED BY <2>1, <3>2 DEF Contents
    <2>2. CASE ~ i \leq Height
      BY <2>2 DEF Glyphs
    <2> QED BY <2>1, <2>2
  <1>3. \A i \in 1 .. n : RowAt(f, i) \in Row
    BY <1>2 DEF RowAt, Row
  <1>4. RowsOf(f, n) \in [1 .. n -> Row]
    BY <1>3 DEF RowsOf
  <1>5. RowsOf(f, n) \in Seq(Row) /\ Len(RowsOf(f, n)) = n
    BY <1>1, <1>4
  <1> QED BY <1>3, <1>5 DEF RowsOf

\* Rows that agree one by one.
LEMMA RowsEqual ==
  ASSUME NEW f \in Contents, NEW n \in 1 .. Height + 1, NEW s \in Seq(Row), Len(s) = n,
         \A i \in 1 .. n : s[i] = RowAt(f, i)
  PROVE  RowsOf(f, n) = s
  <1>1. /\ RowsOf(f, n) \in Seq(Row) /\ Len(RowsOf(f, n)) = n
        /\ \A i \in 1 .. n : RowsOf(f, n)[i] = RowAt(f, i)
    BY RowsSeq
  <1> QED BY <1>1, SeqEqual

\* The cells as vga_scroll_up leaves them behind.
Scrolled(f) ==
    [o \in DOMAIN f |-> IF o + Width \in DOMAIN f THEN f[o + Width] ELSE " "]

LEMMA ScrolledRows ==
  ASSUME NEW f \in Contents
  PROVE  /\ Scrolled(f) \in Contents
         /\ RowsOf(Scrolled(f), Height) = Tail(RowsOf(f, Height + 1))
  <1> DEFINE g == Scrolled(f)
             s == RowsOf(f, Height + 1)
  <1>1. DOMAIN f = 0 .. Width * Height - 1
    BY DEF Contents
  <1>2. g \in Contents
    BY <1>1 DEF Contents, Glyphs, Scrolled
  <1>3. Height \in Nat \ {0} /\ Height \in 1 .. Height + 1 /\ Height + 1 \in 1 .. Height + 1
    BY Sizes
  <1>4. s \in Seq(Row) /\ Len(s) = Height + 1 /\ \A i \in 1 .. Height + 1 : s[i] = RowAt(f, i)
    BY <1>3, RowsSeq
  <1> HIDE DEF s
  <1>5. Tail(s) \in Seq(Row) /\ Len(Tail(s)) = Height /\ \A i \in 1 .. Height : Tail(s)[i] = s[i + 1]
    <2>1. s # <<>>
      BY <1>3, <1>4
    <2> QED BY <1>3, <1>4, <2>1, HeadTailProperties
  <1>6. ASSUME NEW i \in 1 .. Height PROVE Tail(s)[i] = RowAt(g, i)
    <2>1. i \in Nat /\ i + 1 \in 1 .. Height + 1 /\ i \leq Height
      BY <1>3
    <2>2. Tail(s)[i] = RowAt(f, i + 1)
      BY <1>4, <1>5, <2>1
    <2>3. ASSUME NEW k \in Columns
          PROVE  (IF i \leq Height THEN g[Offset(k, i - 1)] ELSE " ")
                     = (IF i + 1 \leq Height THEN f[Offset(k, (i + 1) - 1)] ELSE " ")
      <3>1. i - 1 \in 0 .. Height /\ i \in 0 .. Height /\ i - 1 < Height /\ (i + 1) - 1 = i
            /\ (i - 1) + 1 = i
        BY <1>3, <2>1
      <3>2. Offset(k, i - 1) \in DOMAIN f /\ Offset(k, i - 1) + Width = Offset(k, i)
        BY <1>1, <3>1, OffsetIs
      <3>3. Offset(k, i) \in DOMAIN f <=> i < Height
        BY <1>1, <3>1, OffsetIs
      <3>4. g[Offset(k, i - 1)] = IF i < Height THEN f[Offset(k, i)] ELSE " "
        BY <3>2, <3>3 DEF Scrolled
      <3>5. i + 1 \leq Height <=> i < Height
        BY <1>3, <2>1
      <3> QED BY <2>1, <3>1, <3>4, <3>5
    <2>4. RowAt(g, i) = RowAt(f, i + 1)
      BY <2>3 DEF RowAt
    <2> QED BY <2>2, <2>4
  <1> HIDE DEF g
  <1>7. RowsOf(g, Height) = Tail(s)
    BY <1>2, <1>3, <1>5, <1>6, RowsEqual
  <1> QED BY <1>2, <1>7 DEF g, s

\* The cells with one more character.
Written(f, a, b, v) == [o \in DOMAIN f |-> IF o = Offset(a, b) THEN v ELSE f[o]]

LEMMA WrittenRows ==
  ASSUME NEW f \in Contents, NEW a \in Columns, NEW b \in 0 .. Height - 1, NEW v \in Glyphs
  PROVE  /\ Written(f, a, b, v) \in Contents
         /\ RowsOf(Written(f, a, b, v), b + 1) = [RowsOf(f, b + 1) EXCEPT ![b + 1][a] = v]
         /\ \A j \in b + 1 .. Height - 1 : \A k \in Columns :
               Written(f, a, b, v)[Offset(k, j)] = f[Offset(k, j)]
  <1> DEFINE g == Written(f, a, b, v)
             n == b + 1
             s == RowsOf(f, n)
             r == [s EXCEPT ![n] = [s[n] EXCEPT ![a] = v]]
  <1>1. DOMAIN f = 0 .. Width * Height - 1
    BY DEF Contents
  <1>2. g \in Contents
    BY <1>1 DEF Contents, Written
  <1>3. /\ Height \in Nat \ {0} /\ b \in Nat /\ n \in 1 .. Height + 1 /\ n \leq Height
        /\ b \in 0 .. Height /\ n - 1 = b
    BY Sizes
  <1>4. /\ s \in Seq(Row) /\ Len(s) = n
        /\ \A i \in 1 .. n : s[i] = RowAt(f, i) /\ RowAt(f, i) \in Row
    BY <1>3, RowsSeq
  <1>5. g[Offset(a, b)] = v
    <2>1. Offset(a, b) \in DOMAIN f
      BY <1>1, <1>3, OffsetIs
    <2> QED BY <2>1 DEF Written
  <1>6. ASSUME NEW j \in 0 .. Height - 1, NEW k \in Columns, j # b \/ k # a
        PROVE  g[Offset(k, j)] = f[Offset(k, j)]
    <2>1. j \in 0 .. Height /\ j < Height
      BY <1>3
    <2>2. Offset(k, j) \in DOMAIN f
      BY <1>1, <2>1, OffsetIs
    <2>3. Offset(k, j) # Offset(a, b)
      BY <1>3, <1>6, <2>1, OffsetDiffers
    <2> QED BY <2>2, <2>3 DEF Written
  <1> HIDE DEF g
  <1>7. \A j \in b + 1 .. Height - 1 : \A k \in Columns : g[Offset(k, j)] = f[Offset(k, j)]
    <2> SUFFICES ASSUME NEW j \in b + 1 .. Height - 1, NEW k \in Columns
                 PROVE  g[Offset(k, j)] = f[Offset(k, j)]
      OBVIOUS
    <2>1. j \in 0 .. Height - 1 /\ j # b
      BY <1>3
    <2> QED BY <1>6, <2>1
  <1>8. ASSUME NEW i \in 1 .. n PROVE r[i] = RowAt(g, i)
    <2>1. i - 1 \in 0 .. Height - 1 /\ i \leq Height /\ i \in Nat
      BY <1>3
    <2>2. DOMAIN s = 1 .. n /\ n \in 1 .. n
      BY <1>3, <1>4
    <2>3. CASE i = n
      <3>1. r[i] = [RowAt(f, n) EXCEPT ![a] = v]
        BY <1>4, <2>2, <2>3
      <3>2. RowAt(f, n) = [k \in Columns |-> f[Offset(k, b)]]
        BY <1>3 DEF RowAt
      <3>3. RowAt(g, n) = [k \in Columns |-> g[Offset(k, b)]]
        BY <1>3 DEF RowAt
      <3>4. \A k \in Columns : g[Offset(k, b)] = IF k = a THEN v ELSE f[Offset(k, b)]
        BY <1>5, <1>6
      <3> QED BY <2>3, <3>1, <3>2, <3>3, <3>4
    <2>4. CASE i # n
      <3>1. r[i] = RowAt(f, i)
        BY <1>4, <2>2, <2>4
      <3>2. i - 1 # b
        BY <1>3, <2>1, <2>4
      <3>3. \A k \in Columns : g[Offset(k, i - 1)] = f[Offset(k, i - 1)]
        BY <1>6, <2>1, <3>2
      <3> QED BY <3>1, <3>3 DEF RowAt
    <2> QED BY <2>3, <2>4
  <1>9. r \in Seq(Row) /\ Len(r) = n
    <2>1. n \in 1 .. n
      BY <1>3
    <2>2. [s[n] EXCEPT ![a] = v] \in Row
      BY <1>4, <2>1 DEF Row
    <2> QED BY <1>4, <2>1, <2>2, ExceptSeq
  <1> HIDE DEF r
  <1>10. RowsOf(g, n) = r
    BY <1>2, <1>3, <1>8, <1>9, RowsEqual
  <1> QED BY <1>2, <1>7, <1>10 DEF g, r, s, n

\* Row n, counted from 0, is blank or behind the last.
BlankRow(f, n) == n < Height => \A k \in Columns : f[Offset(k, n)] = " "

LEMMA Appended ==
  ASSUME NEW S, NEW s \in Seq(S), NEW e \in S
  PROVE  LET r == Append(s, e) IN
         /\ r \in Seq(S) /\ r # <<>>
         /\ Len(s) \in Nat /\ Len(r) = Len(s) + 1
         /\ r[Len(s) + 1] = e
         /\ \A i \in 1 .. Len(s) : r[i] = s[i]
  BY AppendProperties, LenProperties

LEMMA MoreRows ==
  ASSUME NEW f \in Contents, NEW n \in 1 .. Height, BlankRow(f, n)
  PROVE  RowsOf(f, n + 1) = Append(RowsOf(f, n), Screen!Blank)
  <1> DEFINE s == RowsOf(f, n)
             bl == Screen!Blank
             ap == Append(s, bl)
  <1>1. Height \in Nat /\ n \in Nat /\ n \in 1 .. Height + 1 /\ n + 1 \in 1 .. Height + 1
        /\ (n + 1) - 1 = n
    <2>1. Height \in Nat
      BY Sizes
    <2> QED BY <2>1
  <1>2. s \in Seq(Row) /\ Len(s) = n /\ \A i \in 1 .. n : s[i] = RowAt(f, i)
    BY <1>1, RowsSeq
  <1>3. bl \in Row /\ bl = [k \in Columns |-> " "]
    BY DEF Screen!Blank, Row, Columns, Glyphs
  <1>4. bl = RowAt(f, n + 1)
    <2>1. n + 1 \leq Height <=> n < Height
      BY <1>1
    <2> QED BY <1>1, <1>3, <2>1 DEF RowAt, BlankRow
  <1> HIDE DEF s, bl
  <1>5. /\ ap \in Seq(Row) /\ Len(ap) = n + 1
        /\ \A i \in 1 .. n : ap[i] = s[i]
        /\ ap[n + 1] = bl
    <2>1. s \in Seq(Row) /\ Len(s) = n /\ bl \in Row
      BY <1>2, <1>3
    <2>2. LET r == Append(s, bl) IN
          /\ r \in Seq(Row) /\ Len(r) = Len(s) + 1
          /\ r[Len(s) + 1] = bl
          /\ \A i \in 1 .. Len(s) : r[i] = s[i]
      BY <2>1, Appended
    <2> QED BY <2>1, <2>2
  <1>6. \A i \in 1 .. n + 1 : ap[i] = RowAt(f, i)
    <2>1. \A i \in 1 .. n + 1 : i \in 1 .. n \/ i = n + 1
      BY <1>1
    <2> QED BY <1>2, <1>4, <1>5, <2>1
  <1> HIDE DEF ap
  <1>7. RowsOf(f, n + 1) = ap
    BY <1>1, <1>5, <1>6, RowsEqual
  <1> QED BY <1>7 DEF ap, s, bl

\* The page and the screen by name.
LEMMA PageIs ==
  /\ PageOf = [rows |-> Now, col |-> cursor_x]
  /\ PageOf' = [rows |-> Now', col |-> cursor_x']
  BY DEF PageOf, Now, RowsOf, RowAt

LEMMA SameScreen ==
  ASSUME UNCHANGED <<cells, cursor_y>>
  PROVE  /\ Now' = Now /\ RowsOf(cells, Height)' = RowsOf(cells, Height)
         /\ BlankBelow' <=> BlankBelow
  BY DEF Now, RowsOf, RowAt, BlankBelow

LEMMA SamePage ==
  ASSUME page' = page, Char' = Char
  PROVE  /\ Roomy' = Roomy /\ With' = With /\ Next_col' = Next_col /\ Target' = Target
         /\ Ends' <=> Ends
         /\ PageType' <=> PageType
  <1>1. Roomy' = Roomy
    BY DEF Roomy, Screen!Room
  <1>2. With' = With
    BY <1>1 DEF With
  <1>3. Next_col' = Next_col /\ (Ends' <=> Ends)
    BY DEF Next_col, Ends
  <1>4. Target' = Target
    BY <1>2, <1>3 DEF Target, Screen!Room, Screen!Blank
  <1>5. PageType' <=> PageType
    BY DEF PageType
  <1> QED BY <1>1, <1>2, <1>3, <1>4, <1>5

LEMMA NowType ==
  ASSUME IInv, cursor_y \leq Height
  PROVE  /\ cells \in Contents /\ cursor_y \in Nat /\ cursor_y + 1 \in 1 .. Height + 1
         /\ Now \in Seq(Row) /\ Len(Now) = cursor_y + 1
  <1>1. cells \in Contents
    BY DEF IInv, TypeOK, Contents, Glyphs
  <1>2. cursor_y \in Nat /\ cursor_y + 1 \in 1 .. Height + 1
    BY Ranges, Sizes
  <1> QED BY <1>1, <1>2, RowsSeq DEF Now

\* No control is shown.
LEMMA Kinds ==
  ASSUME IInv
  PROVE  /\ Char \in Printable \cup {"n", "t", "r", "b"}
         /\ Char \in {"n", "t", "r", "b"} => Char \notin Printable
         /\ Back \in {"row", "ret"}
  BY Sizes, ConsoleAssumption DEF IInv, TypeOK, Char, Back, Controls

LEMMA RoomShort ==
  ASSUME NEW s, Len(s) \in Nat
  PROVE  /\ Len(s) \leq Height => Screen!Room(s) = s
         /\ Len(s) = Height + 1 => Screen!Room(s) = Tail(s)
  BY Sizes DEF Screen!Room

(***************************************************************************)
(* The steps of a lone printer as to the page.                             *)
(***************************************************************************)
LEMMA PagePutc == ASSUME IInv, PageInv, alone, vga_putc(Printer) PROVE PageInv'
  <1>1. /\ Here = "out" /\ pc' = [pc EXCEPT ![Printer] = "test"]
        /\ UNCHANGED <<cells, cursor_x, cursor_y, back, alone, page>>
    BY DEF vga_putc, Go, Here
  <1>2. Here' = "test" /\ Back' = Back
    BY <1>1, Sizes DEF IInv, TypeOK, Here, Back
  <1>3. PageType /\ BlankBelow /\ Behind /\ page = PageOf /\ Back = "row"
    BY <1>1 DEF PageInv
  <1>4. PageOf' = PageOf
    BY <1>1, SameScreen, PageIs
  <1>5. PageType' /\ BlankBelow'
    BY <1>1, <1>3, SameScreen DEF PageType
  <1>6. Behind'
    BY <1>1, <1>2, <1>3 DEF Behind
  <1>7. ~ Ready' /\ ~ Done'
    BY <1>2 DEF Ready, Done, Moving
  <1> QED BY <1>1, <1>2, <1>3, <1>4, <1>5, <1>6, <1>7 DEF PageInv

LEMMA PageTestFull == ASSUME IInv, PageInv, alone, test_full(Printer) PROVE PageInv'
  <1> DEFINE to == IF cursor_y = Height THEN "scroll" ELSE "row"
  <1>1. /\ Here = "test" /\ pc' = [pc EXCEPT ![Printer] = to]
        /\ UNCHANGED <<cells, cursor_x, cursor_y, crtc, c, back, x, y, alone, left, page>>
    BY DEF test_full, Go, Test, Here, screen, locals, writers
  <1>2. Here' = to /\ Back' = Back /\ Char' = Char
    BY <1>1, Sizes DEF IInv, TypeOK, Here, Back, Char
  <1>3. PageType /\ BlankBelow /\ Behind /\ page = PageOf /\ Back = "row"
    BY <1>1 DEF PageInv
  <1>4. PageOf' = PageOf /\ Now' = Now /\ Roomy' = Roomy /\ PageType' /\ BlankBelow'
    BY <1>1, <1>2, <1>3, SameScreen, SamePage, PageIs
  <1>5. cursor_y \leq Height /\ cursor_y \in Nat
    BY <1>1, Ranges DEF IInv, LoneInv
  <1>6. CASE cursor_y = Height
    <2>1. Here' = "scroll" /\ cursor_x = 0
      BY <1>1, <1>2, <1>3, <1>6 DEF Behind
    <2> QED BY <1>1, <1>2, <1>3, <1>4, <1>6, <2>1 DEF PageInv, Ready, Done, Moving, Behind
  <1>7. CASE cursor_y # Height
    <2>1. Here' = "row"
      BY <1>2, <1>7
    <2>2. Now = page.rows /\ cursor_x = page.col
      BY <1>3, PageIs
    <2>3. Roomy = Now
      <3>1. Len(Now) = cursor_y + 1 /\ cursor_y + 1 \leq Height
        BY <1>5, <1>7, NowType, Sizes
      <3> QED BY <1>5, <2>2, <3>1, RoomShort DEF Roomy
    <2> QED BY <1>1, <1>2, <1>3, <1>4, <1>7, <2>1, <2>2, <2>3
        DEF PageInv, Ready, Done, Moving, Behind
  <1> QED BY <1>6, <1>7

LEMMA PageScroll == ASSUME IInv, PageInv, alone, vga_scroll_up(Printer) PROVE PageInv'
  <1>1. /\ Here = "scroll" /\ pc' = [pc EXCEPT ![Printer] = "home"]
        /\ cells' = Scrolled(cells)
        /\ UNCHANGED <<cursor_x, cursor_y, crtc, c, back, x, y, alone, left, page>>
    BY DEF vga_scroll_up, Go, Show, Scrolled, Here, locals, writers
  <1>2. Here' = "home" /\ Back' = Back /\ Char' = Char
    BY <1>1, Sizes DEF IInv, TypeOK, Here, Back, Char
  <1>3. PageType /\ cursor_y = Height
    BY <1>1 DEF PageInv
  <1>4. PageType' /\ Roomy' = Roomy /\ Target' = Target /\ (Ends' <=> Ends)
    BY <1>1, <1>2, <1>3, SamePage
  <1>5. Now \in Seq(Row) /\ Len(Now) = Height + 1 /\ Now = RowsOf(cells, Height + 1)
        /\ cells \in Contents
    BY <1>3, NowType, Sizes DEF Now
  <1>6. RowsOf(cells, Height)' = Screen!Room(Now)
    <2>1. Screen!Room(Now) = Tail(Now)
      BY <1>5, Sizes, RoomShort
    <2> QED BY <1>1, <1>5, <2>1, ScrolledRows
  <1>7. BlankBelow'
    <2>1. cursor_y' + 1 .. Height - 1 = {}
      BY <1>1, <1>3, Sizes
    <2> QED BY <2>1 DEF BlankBelow
  <1>8. CASE Back = "row"
    <2>1. page.rows = Now /\ page.col = 0
      BY <1>1, <1>8, PageIs DEF PageInv
    <2>2. RowsOf(cells, Height)' = Roomy
      BY <1>6, <2>1 DEF Roomy
    <2> QED BY <1>1, <1>2, <1>3, <1>4, <1>7, <1>8, <2>1, <2>2
        DEF PageInv, Ready, Done, Moving, Behind
  <1>9. CASE Back = "ret"
    <2>1. Char = "t" /\ Ends /\ Now = Append(With, Screen!Blank)
      BY <1>1, <1>9 DEF PageInv
    <2>2. RowsOf(cells, Height)' = Target.rows
      BY <1>6, <2>1 DEF Target
    <2> QED BY <1>1, <1>2, <1>3, <1>4, <1>7, <1>9, <2>1, <2>2
        DEF PageInv, Ready, Done, Moving, Behind
  <1> QED BY <1>8, <1>9, Kinds

LEMMA PageHome == ASSUME IInv, PageInv, alone, home(Printer) PROVE PageInv'
  <1>1. /\ Here = "home" /\ pc' = [pc EXCEPT ![Printer] = "bottom"]
        /\ UNCHANGED <<cells, cursor_y, crtc, c, back, x, y, alone, left, page>>
    BY DEF home, Go, StoreX, Here, locals, writers
  <1>2. Here' = "bottom" /\ Back' = Back /\ Char' = Char
    BY <1>1, Sizes DEF IInv, TypeOK, Here, Back, Char
  <1>3. /\ PageType' <=> PageType
        /\ BlankBelow' <=> BlankBelow
        /\ Roomy' = Roomy /\ Target' = Target /\ (Ends' <=> Ends)
        /\ RowsOf(cells, Height)' = RowsOf(cells, Height)
    BY <1>1, <1>2, SamePage, SameScreen
  <1> QED BY <1>1, <1>2, <1>3 DEF PageInv, Ready, Done, Moving, Behind

LEMMA PageBottom == ASSUME IInv, PageInv, alone, bottom(Printer) PROVE PageInv'
  <1>1. /\ Here = "bottom" /\ pc' = [pc EXCEPT ![Printer] = "args"] /\ cursor_y' = Height - 1
        /\ UNCHANGED <<cells, cursor_x, crtc, c, back, x, y, alone, left, page>>
    BY DEF bottom, Go, StoreY, Here, locals, writers
  <1>2. Here' = "args" /\ Back' = Back /\ Char' = Char
    BY <1>1, Sizes DEF IInv, TypeOK, Here, Back, Char
  <1>3. PageType /\ cursor_x = 0
    BY <1>1 DEF PageInv, IInv, LoneInv, MoveInv
  <1>4. PageType' /\ Roomy' = Roomy /\ Target' = Target /\ (Ends' <=> Ends)
    BY <1>1, <1>2, <1>3, SamePage
  <1>5. Now' = RowsOf(cells, Height)
    <2>1. cursor_y' + 1 = Height
      BY <1>1, Sizes
    <2> QED BY <1>1, <2>1 DEF Now
  <1>6. BlankBelow' /\ cursor_y' # Height
    <2>1. cursor_y' + 1 .. Height - 1 = {} /\ cursor_y' # Height
      BY <1>1, Sizes
    <2> QED BY <2>1 DEF BlankBelow
  <1>7. CASE Back = "row"
    <2>1. Now' = Roomy /\ page.col = 0
      BY <1>1, <1>5, <1>7 DEF PageInv
    <2> QED BY <1>1, <1>2, <1>3, <1>4, <1>6, <1>7, <2>1
        DEF PageInv, Ready, Done, Moving, Behind
  <1>8. CASE Back = "ret"
    <2>1. Now' = Target.rows /\ Ends
      BY <1>1, <1>5, <1>8 DEF PageInv
    <2>2. Target = [rows |-> Target.rows, col |-> 0]
      BY <2>1 DEF Target
    <2>3. PageOf' = [rows |-> Now', col |-> cursor_x']
      BY PageIs
    <2>4. PageOf' = Target'
      BY <1>1, <1>3, <1>4, <2>1, <2>2, <2>3
    <2> QED BY <1>1, <1>2, <1>3, <1>4, <1>6, <1>8, <2>4
        DEF PageInv, Ready, Done, Moving, Behind
  <1> QED BY <1>7, <1>8, Kinds

\* Steps that only load the cursor, or put back into it what was loaded.
LEMMA PageLoads ==
  ASSUME IInv, PageInv, alone,
         \/ row(Printer) \/ col(Printer) \/ load_x(Printer) \/ load_y(Printer)
         \/ args_y(Printer) \/ args_x(Printer) \/ move_crtc(Printer) \/ move_x(Printer)
         \/ move_y(Printer)
  PROVE  PageInv'
  <1>1. /\ UNCHANGED <<cells, c, back, alone, page>>
        /\ cursor_x' = cursor_x \/ (cursor_x' = X /\ Here = "move x")
        /\ cursor_y' = cursor_y \/ (cursor_y' = Y /\ Here = "move y")
    BY DEF row, col, load_x, load_y, args_y, args_x, move_crtc, move_x, move_y, Go, LoadX, LoadY,
           StoreX, StoreY, Here, X, Y, screen, locals, writers
  <1>2. cursor_x' = cursor_x /\ cursor_y' = cursor_y
    BY <1>1 DEF IInv, LoneInv, ArgsInv
  <1>3. /\ \/ Here \in {"row", "col"} /\ Here' \in {"col", "put"}
           \/ Here = "load x" /\ Here' = "store x"
           \/ Here = "load y" /\ Here' = "store y"
           \/ Moving /\ Moving'
           \/ Here = "move y" /\ Here' = Back
    BY Sizes
    DEF row, col, load_x, load_y, args_y, args_x, move_crtc, move_x, move_y, Go, Here, Back,
           Moving, IInv, TypeOK
  <1>4. Back' = Back /\ Char' = Char
    BY <1>1 DEF Back, Char
  <1>5. /\ PageType' <=> PageType
        /\ BlankBelow' <=> BlankBelow
        /\ Roomy' = Roomy /\ With' = With /\ Target' = Target /\ (Ends' <=> Ends) /\ Now' = Now
    BY <1>1, <1>2, <1>4, SamePage, SameScreen
  <1>6. PageOf' = PageOf
    BY <1>2, <1>5, PageIs
  <1>7. PageType' /\ BlankBelow' /\ Behind
    BY <1>5 DEF PageInv
  <1>8. CASE Here \in {"row", "col"} /\ Here' \in {"col", "put"}
    <2>1. Ready /\ ~ Done'
      BY <1>8 DEF Ready, Done, Moving
    <2>2. Now = Roomy /\ cursor_x = page.col
      BY <2>1 DEF PageInv
    <2> QED BY <1>1, <1>2, <1>5, <1>7, <1>8, <2>1, <2>2 DEF PageInv, Behind
  <1>9. CASE Here = "load x" /\ Here' = "store x"
    BY <1>1, <1>2, <1>5, <1>7, <1>9 DEF PageInv, Behind, Ready, Done, Moving
  <1>10. CASE Here = "load y" /\ Here' = "store y"
    BY <1>1, <1>2, <1>5, <1>7, <1>10 DEF PageInv, Behind, Ready, Done, Moving
  <1>11. ASSUME Moving, Moving' \/ Here' = Back PROVE PageInv'
    <2>1. Here' \in {"args", "args x", "crtc", "move x", "move y", "row", "ret"}
      BY <1>11, Kinds DEF Moving
    <2>2. CASE Back = "row"
      <3>1. Ready /\ ~ Done' /\ Here' # "ret"
        BY <1>4, <1>11, <2>2 DEF Ready, Done, Moving
      <3>2. Now = Roomy /\ cursor_x = page.col
        BY <3>1 DEF PageInv
      <3> QED BY <1>1, <1>2, <1>5, <1>7, <2>1, <3>1, <3>2 DEF PageInv, Behind
    <2>3. CASE Back = "ret"
      <3>1. Done /\ ~ Ready'
        BY <1>4, <1>11, <2>1, <2>3 DEF Ready, Done, Moving
      <3>2. PageOf' = Target'
        BY <1>5, <1>6, <3>1 DEF PageInv
      <3>3. Behind'
        BY <1>2, <1>7, <3>1 DEF Behind
      <3> QED BY <1>1, <1>7, <2>1, <3>1, <3>2, <3>3 DEF PageInv
    <2> QED BY <2>2, <2>3, Kinds
  <1>12. Here = "move y" => Moving
    BY DEF Moving
  <1> QED BY <1>3, <1>8, <1>9, <1>10, <1>11, <1>12

LEMMA PageZeroX == ASSUME IInv, PageInv, alone, zero_x(Printer) PROVE PageInv'
  <1>1. /\ Here = "zero x" /\ pc' = [pc EXCEPT ![Printer] = "load y"]
        /\ UNCHANGED <<cells, cursor_y, crtc, c, back, x, y, alone, left, page>>
    BY DEF zero_x, Go, StoreX, Here, locals, writers
  <1>2. Here' = "load y" /\ Back' = Back /\ Char' = Char
    BY <1>1, Sizes DEF IInv, TypeOK, Here, Back, Char
  <1>3. /\ PageType' <=> PageType
        /\ BlankBelow' <=> BlankBelow
        /\ With' = With /\ (Ends' <=> Ends) /\ Now' = Now
    BY <1>1, <1>2, SamePage, SameScreen
  <1> QED BY <1>1, <1>2, <1>3 DEF PageInv, Ready, Done, Moving, Behind

LEMMA PagePut == ASSUME IInv, PageInv, alone, put(Printer) PROVE PageInv'
  <1> DEFINE to == CASE Char \in {"n", "r"} -> "zero x"
                     [] Char = "b" /\ cursor_x = 0 -> "ret"
                     [] OTHER -> "load x"
  <1>1. /\ Here = "put" /\ pc' = [pc EXCEPT ![Printer] = to]
        /\ back' = [back EXCEPT ![Printer] = "ret"]
        /\ cells' = [o \in DOMAIN cells |->
                        IF Char \in Printable /\ o = Offset(X, Y) THEN Char ELSE cells[o]]
        /\ UNCHANGED <<cursor_x, cursor_y, crtc, c, alone, left, page>>
    BY DEF put, Go, Show, Here, Char, X, Y, writers
  <1>2. Here' = to /\ Back' = "ret" /\ Char' = Char
    BY <1>1, Sizes DEF IInv, TypeOK, Here, Back, Char
  <1>3. /\ cursor_x \in Columns /\ cursor_y \in 0 .. Height - 1 /\ cursor_y < Height
        /\ X = cursor_x /\ Y = cursor_y
    <2>1. cursor_x < Width /\ cursor_y < Height /\ X = cursor_x /\ Y = cursor_y
      BY <1>1 DEF IInv, LoneInv, RestInv
    <2> QED BY <2>1, Sizes, Ranges DEF Columns
  <1>4. PageType /\ BlankBelow /\ Now = Roomy /\ cursor_x = page.col
    BY <1>1 DEF PageInv, Ready
  <1>5. /\ PageType' /\ With' = With /\ Target' = Target /\ (Ends' <=> Ends)
    BY <1>1, <1>2, <1>4, SamePage
  <1>6. cells \in Contents /\ Len(Now) = cursor_y + 1 /\ cursor_y < Height
    <2>1. cursor_y \leq Height
      BY <1>3, Sizes
    <2> QED BY <1>3, <2>1, NowType
  <1>7. Now' = With /\ BlankBelow'
    <2>1. CASE Char \in Printable
      <3>1. cells' = Written(cells, cursor_x, cursor_y, Char) /\ Char \in Glyphs
        BY <1>1, <1>3, <2>1 DEF Written, Glyphs
      <3>2. /\ RowsOf(cells', cursor_y + 1) = [Now EXCEPT ![cursor_y + 1][cursor_x] = Char]
            /\ \A j \in cursor_y + 1 .. Height - 1 : \A k \in Columns :
                  cells'[Offset(k, j)] = cells[Offset(k, j)]
        BY <1>3, <1>6, <3>1, WrittenRows DEF Now
      <3>3. Now' = RowsOf(cells', cursor_y + 1)
        BY <1>1 DEF Now
      <3>4. With = [Now EXCEPT ![cursor_y + 1][cursor_x] = Char]
        BY <1>4, <1>6, <2>1 DEF With
      <3>5. BlankBelow'
        BY <1>1, <1>4, <3>2 DEF BlankBelow
      <3> QED BY <3>2, <3>3, <3>4, <3>5
    <2>2. CASE Char \notin Printable
      <3>1. cells' = cells
        BY <1>1, <1>6, <2>2 DEF Contents
      <3> QED BY <1>1, <1>4, <2>2, <3>1, SameScreen DEF With
    <2> QED BY <2>1, <2>2
  <1>8. CASE Char \in {"n", "r"}
    <2>1. Here' = "zero x" /\ Ends
      BY <1>2, <1>8 DEF Ends
    <2> QED BY <1>1, <1>5, <1>7, <2>1 DEF PageInv, Ready, Done, Moving, Behind
  <1>9. CASE Char = "b" /\ cursor_x = 0
    <2>1. Here' = "ret" /\ ~ Ends
      BY <1>2, <1>9, Kinds DEF Ends
    <2>2. Next_col = 0
      BY <1>4, <1>9 DEF Next_col
    <2>3. Target = [rows |-> With, col |-> 0]
      BY <1>9, <2>1, <2>2 DEF Target
    <2>4. PageOf' = Target'
      BY <1>1, <1>5, <1>7, <1>9, <2>3, PageIs
    <2>5. cursor_y' # Height
      <3>1. cursor_y' < Height
        BY <1>1, <1>3
      <3> QED BY <3>1, Sizes
    <2> QED BY <1>1, <1>5, <1>7, <2>1, <2>4, <2>5 DEF PageInv, Ready, Moving, Behind
  <1>10. CASE Char \notin {"n", "r"} /\ ~ (Char = "b" /\ cursor_x = 0)
    <2>1. Here' = "load x"
      BY <1>2, <1>10
    <2> QED BY <1>1, <1>4, <1>5, <1>7, <2>1 DEF PageInv, Ready, Done, Moving, Behind
  <1> QED BY <1>8, <1>9, <1>10

LEMMA PageStoreX == ASSUME IInv, PageInv, alone, store_x(Printer) PROVE PageInv'
  <1> DEFINE to == IF Char = "b" THEN "args" ELSE "test x"
             v == CASE Char = "t" -> (X + Tab) % U8
                    [] Char = "b" -> (X + U8 - 1) % U8
                    [] OTHER -> (X + 1) % U8
  <1>1. /\ Here = "store x" /\ pc' = [pc EXCEPT ![Printer] = to] /\ cursor_x' = v
        /\ UNCHANGED <<cells, cursor_y, crtc, c, back, x, y, alone, left, page>>
    BY DEF store_x, Go, StoreX, Here, Char, X, locals, writers
  <1>2. Here' = to /\ Back' = Back /\ Char' = Char
    BY <1>1, Sizes DEF IInv, TypeOK, Here, Back, Char
  <1>3. /\ cursor_x < Width /\ cursor_y < Height /\ Back = "ret"
        /\ X = cursor_x /\ Char \notin {"n", "r"} /\ (Char = "b" => cursor_x > 0)
    BY <1>1 DEF IInv, LoneInv, MoveInv
  <1>4. PageType /\ BlankBelow /\ Now = With /\ cursor_x = page.col
    BY <1>1 DEF PageInv
  <1>5. /\ PageType' /\ BlankBelow' /\ Now' = Now /\ With' = With /\ Target' = Target
        /\ (Ends' <=> Ends) /\ Next_col' = Next_col
    BY <1>1, <1>2, <1>4, SamePage, SameScreen
  <1>6. v = Next_col
    <2>1. CASE Char = "t"
      <3>1. v = (X + Tab) % U8 /\ X + Tab \in 0 .. U8 - 1
        BY <1>3, <2>1, Sizes, Ranges
      <3>2. v = X + Tab
        BY <3>1, ModByte
      <3>3. Next_col = page.col + Tab
        BY <2>1 DEF Next_col
      <3> QED BY <1>3, <1>4, <3>2, <3>3
    <2>2. CASE Char = "b"
      <3>1. v = (X + U8 - 1) % U8 /\ X + U8 - 1 \in U8 .. 2 * U8 - 1
        BY <1>3, <2>2, Sizes, Ranges
      <3>2. v = (X + U8 - 1) - U8
        BY <3>1, ModWrap
      <3>3. Next_col = IF page.col > 0 THEN page.col - 1 ELSE 0
        BY <2>2 DEF Next_col
      <3>4. X \in Nat /\ X > 0 /\ X = page.col
        BY <1>3, <1>4, <2>2, Ranges
      <3> QED BY <3>2, <3>3, <3>4, Sizes
    <2>3. CASE Char \notin {"b", "t"}
      <3>1. v = (X + 1) % U8 /\ X + 1 \in 0 .. U8 - 1
        BY <1>3, <2>3, Sizes, Ranges
      <3>2. v = X + 1
        BY <3>1, ModByte
      <3>3. Next_col = page.col + 1
        BY <2>3 DEF Next_col
      <3> QED BY <1>3, <1>4, <3>2, <3>3
    <2> QED BY <2>1, <2>2, <2>3
  <1> HIDE DEF v
  <1>7. CASE Char = "b"
    <2>1. Here' = "args" /\ ~ Ends
      BY <1>2, <1>7, Kinds DEF Ends
    <2>2. Target = [rows |-> With, col |-> Next_col]
      BY <1>7, <2>1 DEF Target
    <2>3. PageOf' = Target'
      BY <1>1, <1>4, <1>5, <1>6, <2>2, PageIs
    <2>4. cursor_y' # Height
      <3>1. cursor_y' < Height
        BY <1>1, <1>3
      <3> QED BY <3>1, Sizes
    <2> QED BY <1>1, <1>2, <1>3, <1>5, <2>1, <2>3, <2>4 DEF PageInv, Ready, Done, Moving, Behind
  <1>8. CASE Char # "b"
    <2>1. Here' = "test x"
      BY <1>2, <1>8
    <2> QED BY <1>1, <1>4, <1>5, <1>6, <2>1 DEF PageInv, Ready, Done, Moving, Behind
  <1> QED BY <1>7, <1>8

LEMMA PageTestX == ASSUME IInv, PageInv, alone, test_x(Printer) PROVE PageInv'
  <1> DEFINE to == IF cursor_x = Width \/ (Char = "t" /\ cursor_x > Width)
                   THEN "zero x" ELSE "test y"
  <1>1. /\ Here = "test x" /\ pc' = [pc EXCEPT ![Printer] = to]
        /\ UNCHANGED <<cells, cursor_x, cursor_y, crtc, c, back, x, y, alone, left, page>>
    BY DEF test_x, Go, Test, Here, Char, screen, locals, writers
  <1>2. Here' = to /\ Back' = Back /\ Char' = Char
    BY <1>1, Sizes DEF IInv, TypeOK, Here, Back, Char
  <1>3. /\ cursor_y < Height /\ Char \notin {"n", "r", "b"} /\ (cursor_x \leq Width \/ Char = "t")
    BY <1>1 DEF IInv, LoneInv, MoveInv
  <1>4. PageType /\ BlankBelow /\ Now = With /\ cursor_x = Next_col
    BY <1>1 DEF PageInv
  <1>5. /\ PageType' /\ BlankBelow' /\ Now' = Now /\ With' = With
        /\ (Ends' <=> Ends) /\ Next_col' = Next_col
    BY <1>1, <1>2, <1>4, SamePage, SameScreen
  <1>6. Here' \in {"zero x", "test y"} /\ (Here' = "zero x" <=> Ends)
    <2>1. CASE Char = "t"
      <3>1. cursor_x = page.col + Tab
        BY <1>4, <2>1 DEF Next_col
      <3>2. Ends <=> cursor_x \geq Width
        BY <2>1, <3>1, Kinds DEF Ends
      <3>3. cursor_x \geq Width <=> cursor_x = Width \/ cursor_x > Width
        BY Ranges, Sizes
      <3> QED BY <1>2, <2>1, <3>2, <3>3
    <2>2. CASE Char # "t"
      <3>1. cursor_x = page.col + 1 /\ Char \in Printable
        BY <1>3, <1>4, <2>2, Kinds DEF Next_col
      <3>2. Ends <=> cursor_x = Width
        BY <1>3, <2>2, <3>1 DEF Ends
      <3> QED BY <1>2, <2>2, <3>2
    <2> QED BY <2>1, <2>2
  <1> HIDE DEF to
  <1> QED BY <1>1, <1>3, <1>4, <1>5, <1>6 DEF PageInv, Ready, Done, Moving, Behind

LEMMA PageStoreY == ASSUME IInv, PageInv, alone, store_y(Printer) PROVE PageInv'
  <1> DEFINE to == IF Char = "r" THEN "args" ELSE "test y"
             v == (Y + 1) % U8
  <1>1. /\ Here = "store y" /\ pc' = [pc EXCEPT ![Printer] = to] /\ cursor_y' = v
        /\ UNCHANGED <<cells, cursor_x, crtc, c, back, x, y, alone, left, page>>
    BY DEF store_y, Go, StoreY, Here, Char, Y, locals, writers
  <1>2. Here' = to /\ Back' = Back /\ Char' = Char
    BY <1>1, Sizes DEF IInv, TypeOK, Here, Back, Char
  <1>3. cursor_y < Height /\ cursor_x = 0 /\ Y = cursor_y /\ Back = "ret"
    BY <1>1 DEF IInv, LoneInv, MoveInv
  <1>4. PageType /\ BlankBelow /\ Now = With /\ Ends
    BY <1>1 DEF PageInv
  <1>5. PageType' /\ With' = With /\ Target' = Target /\ (Ends' <=> Ends)
    BY <1>1, <1>2, <1>4, SamePage
  <1>6. cursor_y' = cursor_y + 1
    <2>1. Y + 1 \in 0 .. U8 - 1
      BY <1>3, Ranges, Sizes
    <2> QED BY <1>1, <1>3, <2>1, ModByte, Ranges
  <1> HIDE DEF v
  <1>7. Now' = Append(With, Screen!Blank)
    <2>1. cursor_y + 1 \in 1 .. Height /\ cells \in Contents
      <3>1. cursor_y \leq Height
        BY <1>3, Ranges, Sizes
      <3> QED BY <1>3, <3>1, NowType, Ranges, Sizes
    <2>2. BlankRow(cells, cursor_y + 1)
      <3>1. cursor_y + 1 < Height => cursor_y + 1 \in cursor_y + 1 .. Height - 1
        BY Ranges, Sizes
      <3> QED BY <1>4, <3>1 DEF BlankRow, BlankBelow
    <2>3. RowsOf(cells, (cursor_y + 1) + 1) = Append(Now, Screen!Blank)
      BY <2>1, <2>2, MoreRows DEF Now
    <2>4. Now' = RowsOf(cells, (cursor_y + 1) + 1)
      BY <1>1, <1>6 DEF Now
    <2> QED BY <1>4, <2>3, <2>4
  <1>8. BlankBelow'
    <2>1. \A j \in cursor_y' + 1 .. Height - 1 : j \in cursor_y + 1 .. Height - 1
      BY <1>6, Ranges, Sizes
    <2> QED BY <1>1, <1>4, <2>1 DEF BlankBelow
  <1>9. CASE Char = "r"
    <2>1. Here' = "args"
      BY <1>2, <1>9
    <2>2. Target = [rows |-> Append(With, Screen!Blank), col |-> 0]
      BY <1>4, <1>9 DEF Target
    <2>3. PageOf' = Target'
      BY <1>1, <1>3, <1>5, <1>7, <2>2, PageIs
    <2> QED BY <1>1, <1>2, <1>3, <1>5, <1>8, <2>1, <2>3 DEF PageInv, Ready, Done, Moving, Behind
  <1>10. CASE Char # "r"
    <2>1. Here' = "test y"
      BY <1>2, <1>10
    <2>2. Now' = Append(With', Screen!Blank') /\ cursor_x' = 0
      <3>1. Screen!Blank' = Screen!Blank
        BY DEF Screen!Blank
      <3> QED BY <1>1, <1>3, <1>5, <1>7, <3>1
    <2> QED BY <1>1, <1>4, <1>5, <1>8, <2>1, <2>2 DEF PageInv, Ready, Done, Moving, Behind
  <1> QED BY <1>9, <1>10

LEMMA PageTestY == ASSUME IInv, PageInv, alone, test_y(Printer) PROVE PageInv'
  <1> DEFINE to == CASE Char = "t" /\ cursor_y \geq Height -> "scroll"
                     [] Char # "t" /\ cursor_y = Height -> "ret"
                     [] OTHER -> "args"
  <1>1. /\ Here = "test y" /\ pc' = [pc EXCEPT ![Printer] = to]
        /\ UNCHANGED <<cells, cursor_x, cursor_y, crtc, c, back, x, y, alone, left, page>>
    BY DEF test_y, Go, Test, Here, Char, screen, locals, writers
  <1>2. Here' = to /\ Back' = Back /\ Char' = Char
    BY <1>1, Sizes DEF IInv, TypeOK, Here, Back, Char
  <1>3. cursor_y \leq Height /\ Back = "ret"
    BY <1>1 DEF IInv, LoneInv, MoveInv
  <1>4. /\ PageType /\ BlankBelow
        /\ ~ Ends => Now = With /\ cursor_x = Next_col /\ cursor_y < Height
        /\ Ends => Now = Append(With, Screen!Blank) /\ cursor_x = 0
    BY <1>1 DEF PageInv
  <1>5. /\ PageType' /\ BlankBelow' /\ Now' = Now /\ With' = With /\ Target' = Target
        /\ (Ends' <=> Ends) /\ PageOf' = PageOf /\ Screen!Blank' = Screen!Blank
    BY <1>1, <1>2, <1>4, SamePage, SameScreen, PageIs DEF Screen!Blank
  <1>6. ~ Ends => cursor_y # Height
    BY <1>4, Ranges, Sizes
  <1>7. ASSUME ~ (Char = "t" /\ Ends /\ cursor_y = Height)
        PROVE  PageOf = Target /\ (cursor_y = Height => cursor_x = 0)
    <2>1. CASE ~ Ends
      BY <1>4, <1>6, <2>1, PageIs DEF Target
    <2>2. CASE Ends
      <3>1. Char = "t" => Screen!Room(Now) = Now
        <4>1. Char = "t" => Len(Now) \leq Height
          BY <1>3, <1>7, <2>2, NowType, Ranges, Sizes
        <4>2. Len(Now) \in Nat
          BY <1>3, NowType, Ranges, Sizes
        <4> QED BY <4>1, <4>2, RoomShort
      <3>2. Target = [rows |-> Now, col |-> 0]
        BY <1>4, <2>2, <3>1 DEF Target
      <3> QED BY <1>4, <2>2, <3>2, PageIs
    <2> QED BY <2>1, <2>2
  <1>8. CASE Char = "t" /\ cursor_y \geq Height
    <2>1. Here' = "scroll" /\ cursor_y = Height /\ Ends
      BY <1>2, <1>3, <1>6, <1>8, Ranges, Sizes
    <2> QED BY <1>1, <1>2, <1>3, <1>4, <1>5, <1>8, <2>1 DEF PageInv, Ready, Done, Moving, Behind
  <1>9. CASE ~ (Char = "t" /\ cursor_y \geq Height)
    <2>1. Here' \in {"ret", "args"}
      BY <1>2, <1>9
    <2>2. PageOf = Target /\ (cursor_y = Height => cursor_x = 0)
      <3>1. ~ (Char = "t" /\ cursor_y = Height)
        BY <1>9, Ranges, Sizes
      <3> QED BY <1>7, <3>1
    <2> HIDE DEF to
    <2> QED BY <1>1, <1>2, <1>3, <1>5, <2>1, <2>2 DEF PageInv, Ready, Done, Moving, Behind
  <1> QED BY <1>8, <1>9

LEMMA PageRet ==
  ASSUME IInv, PageInv, alone, ret(Printer)
  PROVE  PageInv' /\ page' = Target
  <1>1. /\ Here = "ret" /\ pc' = [pc EXCEPT ![Printer] = "out"] /\ page' = PageOf
        /\ back' = [back EXCEPT ![Printer] = "row"]
        /\ UNCHANGED <<cells, cursor_x, cursor_y, alone>>
    BY DEF ret, Go, Here, writers
  <1>2. Here' = "out" /\ Back' = "row"
    BY <1>1, Sizes DEF IInv, TypeOK, Here, Back
  <1>3. BlankBelow /\ Behind /\ PageOf = Target
    BY <1>1 DEF PageInv, Done
  <1>4. cursor_y \leq Height /\ cursor_x < Width
    BY <1>1 DEF IInv, LoneInv, RestInv
  <1>5. BlankBelow' /\ PageOf' = PageOf
    BY <1>1, <1>3, SameScreen, PageIs
  <1>6. PageType'
    <2>1. page' = [rows |-> Now, col |-> cursor_x]
      BY <1>1, PageIs
    <2>2. Now \in Seq(Row) /\ Len(Now) \in 1 .. Height + 1
      BY <1>4, NowType
    <2>3. cursor_x \in Columns
      BY <1>4, Ranges, Sizes DEF Columns
    <2> QED BY <2>1, <2>2, <2>3 DEF PageType, Row, Glyphs
  <1>7. Behind'
    BY <1>1, <1>3 DEF Behind, Done
  <1>8. PageInv'
    BY <1>1, <1>2, <1>5, <1>6, <1>7 DEF PageInv, Ready, Done, Moving
  <1> QED BY <1>1, <1>3, <1>8

LEMMA PageInit == Init => PageInv /\ Screen!Init
  <1> SUFFICES ASSUME Init PROVE PageInv /\ Screen!Init
    OBVIOUS
  <1>0. cursor_x = 0 /\ cursor_y = 0
    BY DEF Init
  <1>1. /\ cells = [o \in 0 .. Width * Height - 1 |-> " "]
        /\ page = PageOf /\ Here = "out" /\ Back = "row"
    BY Sizes DEF Init, Here, Back
  <1>2. cells \in Contents /\ Now \in Seq(Row) /\ Len(Now) = 1 /\ cursor_y \leq Height
        /\ Now = RowsOf(cells, 1)
    <2>1. IInv
      BY InitInv
    <2>2. cursor_y \leq Height
      BY <1>0, Sizes
    <2>3. cursor_y + 1 = 1
      BY <1>0
    <2>4. Now = RowsOf(cells, 1)
      BY <2>3 DEF Now
    <2> QED BY <2>1, <2>2, <2>3, <2>4, NowType
  <1>3. page = [rows |-> Now, col |-> 0]
    BY <1>0, <1>1, PageIs
  <1>4. BlankBelow
    <2> SUFFICES ASSUME NEW j \in cursor_y + 1 .. Height - 1, NEW k \in Columns
                 PROVE  cells[Offset(k, j)] = " "
      BY DEF BlankBelow
    <2>1. j \in 0 .. Height /\ j < Height
      BY <1>0, Sizes
    <2>2. Offset(k, j) \in 0 .. Width * Height - 1
      BY <2>1, OffsetIs
    <2> QED BY <1>1, <2>2
  <1>5. PageType
    <2>1. 0 \in Columns /\ 1 \in 1 .. Height + 1
      BY Sizes DEF Columns
    <2> QED BY <1>2, <1>3, <2>1 DEF PageType, Row, Glyphs
  <1>6. PageInv
    BY <1>0, <1>1, <1>4, <1>5 DEF PageInv, Behind, Ready, Done, Moving
  <1>7. Now = <<Screen!Blank>>
    <2>1. Screen!Blank \in Row /\ Screen!Blank = [k \in Columns |-> " "]
      BY DEF Screen!Blank, Row, Columns, Glyphs
    <2>2. RowAt(cells, 1) = Screen!Blank
      <3>1. \A k \in Columns : cells[Offset(k, 0)] = " "
        <4> SUFFICES ASSUME NEW k \in Columns PROVE cells[Offset(k, 0)] = " "
          OBVIOUS
        <4>1. 0 \in 0 .. Height /\ 0 < Height
          BY Sizes
        <4>2. Offset(k, 0) \in 0 .. Width * Height - 1
          BY <4>1, OffsetIs
        <4> QED BY <1>1, <4>2
      <3>2. 1 - 1 = 0
        OBVIOUS
      <3> QED BY <2>1, <3>1, <3>2 DEF RowAt
    <2>3. 1 \in 1 .. Height + 1
      BY Sizes
    <2>4. Now[1] = RowAt(cells, 1)
      BY <1>2, <2>3, RowsSeq
    <2> QED BY <1>2, <2>2, <2>4
  <1> QED BY <1>3, <1>6, <1>7 DEF Screen!Init

\* The page behind a character is what Terminal makes of it.
LEMMA TargetIsTerminal ==
  ASSUME IInv, PageType, page' = Target
  PROVE  Screen!Next
  <1>1. page.col \in Nat /\ Width \in Nat /\ Tab \in Nat
    <2>1. page.col \in 0 .. Width - 1
      BY DEF PageType, Columns
    <2> QED BY <2>1, Sizes
  <1>2. CASE Char \in Printable
    <2>1. Char \notin {"n", "t", "r", "b"}
      BY <1>2, Kinds
    <2>2. /\ Ends <=> page.col + 1 = Width
          /\ Next_col = page.col + 1
          /\ With = [Roomy EXCEPT ![Len(Roomy)][page.col] = Char]
      BY <1>2, <2>1 DEF Ends, Next_col, With
    <2>3. Screen!PutChar(Char)
      BY <2>1, <2>2 DEF Screen!PutChar, Screen!EndLine, Target, Roomy
    <2> QED BY <1>2, <2>3 DEF Screen!Next
  <1>3. CASE Char \in {"n", "t", "r", "b"}
    <2>1. With = Roomy
      BY <1>3, Kinds DEF With
    <2>2. CASE Char \in {"n", "r"}
      <3>1. Target = [rows |-> Append(Roomy, Screen!Blank), col |-> 0]
        BY <2>1, <2>2 DEF Target, Ends
      <3> QED BY <3>1 DEF Screen!Next, Screen!NewLine, Screen!EndLine, Roomy
    <2>3. CASE Char = "t"
      <3>1. /\ Ends <=> ~ page.col + Tab < Width
            /\ Next_col = page.col + Tab
        BY <1>1, <2>3, Kinds DEF Ends, Next_col
      <3>2. Screen!HorizontalTab
        BY <2>1, <2>3, <3>1 DEF Screen!HorizontalTab, Screen!EndLine, Target, Roomy
      <3> QED BY <3>2 DEF Screen!Next
    <2>4. CASE Char = "b"
      <3>1. /\ ~ Ends
            /\ Next_col = IF page.col > 0 THEN page.col - 1 ELSE 0
        BY <2>4, Kinds DEF Ends, Next_col
      <3>2. Screen!Backspace
        BY <2>1, <2>4, <3>1 DEF Screen!Backspace, Target, Roomy
      <3> QED BY <3>2 DEF Screen!Next
    <2> QED BY <1>3, <2>2, <2>3, <2>4
  <1> QED BY <1>2, <1>3, Kinds

LEMMA PageStep ==
  ASSUME IInv, PageInv, [Next]_vars
  PROVE  PageInv' /\ [Screen!Next]_page
  <1>1. CASE UNCHANGED vars
    <2>1. UNCHANGED <<cells, cursor_x, cursor_y, pc, c, back, alone, page>>
      BY <1>1 DEF vars, locals, writers
    <2>2. Here' = Here /\ Char' = Char /\ Back' = Back
      BY <2>1 DEF Here, Char, Back
    <2>3. /\ (PageType' <=> PageType) /\ (BlankBelow' <=> BlankBelow) /\ Now' = Now
          /\ RowsOf(cells, Height)' = RowsOf(cells, Height)
          /\ Roomy' = Roomy /\ With' = With /\ Next_col' = Next_col /\ Target' = Target
          /\ (Ends' <=> Ends) /\ PageOf' = PageOf /\ Screen!Blank' = Screen!Blank
      BY <2>1, <2>2, SamePage, SameScreen, PageIs DEF Screen!Blank
    <2>4. (Ready' <=> Ready) /\ (Done' <=> Done) /\ (Behind' <=> Behind)
      BY <2>1, <2>2 DEF Ready, Done, Moving, Behind
    <2>5. PageInv'
      BY <2>1, <2>2, <2>3, <2>4 DEF PageInv
    <2> QED BY <2>1, <2>5
  <1>2. ASSUME NEW w \in Writers, vga_putc(w) \/ InPutc(w)
        PROVE  PageInv' /\ [Screen!Next]_page
    <2>1. alone' = alone
      BY <1>2, StepForm
    <2>2. page' = page \/ (alone /\ ret(w))
      BY <1>2
      DEF InPutc, vga_putc, test_full, vga_scroll_up, home, bottom, row, col, put, load_x,
          store_x, test_x, zero_x, load_y, store_y, test_y, args_y, args_x, move_crtc, move_x,
          move_y, ret, LoadX, LoadY, StoreX, StoreY, Show, screen, Test
    <2>3. CASE ~ alone
      BY <2>1, <2>2, <2>3 DEF PageInv
    <2>4. CASE alone
      <3>1. w = Printer
        BY <1>2, <2>4, OnlyPrinter
      <3>2. PageInv'
        BY <1>2, <2>4, <3>1, PagePutc, PageTestFull, PageScroll, PageHome, PageBottom, PageLoads,
           PageZeroX, PagePut, PageStoreX, PageTestX, PageStoreY, PageTestY, PageRet DEF InPutc
      <3>3. ret(Printer) => Screen!Next
        <4>1. PageType
          BY <2>4 DEF PageInv
        <4> QED BY <2>4, <4>1, PageRet, TargetIsTerminal
      <3> QED BY <2>2, <3>1, <3>2, <3>3
    <2> QED BY <2>3, <2>4
  <1> QED BY <1>1, <1>2 DEF Next

\* For the only writer the console is a terminal, whatever the size of the screen and of the
\* tabs: rows of text of which the screen shows the last (vga.c:78-140).
THEOREM ImplementsTerminal == Spec => TerminalSpec
  <1>1. Init => PageInv /\ Screen!Init
    BY PageInit
  <1>2. IInv /\ PageInv /\ [Next]_vars => PageInv' /\ [Screen!Next]_page
    BY PageStep
  <1> QED BY <1>1, <1>2, Inductive, PTL DEF Spec, TerminalSpec, Screen!Spec
=============================================================================
