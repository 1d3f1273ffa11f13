------------------------------- MODULE Console -------------------------------
(***************************************************************************)
(* The text console of kernel/vga.c under preemption.  Writers call        *)
(* vga_putc, through printk or vga_puts, and nothing excludes one while    *)
(* another is in it: each access to cursor_x and cursor_y is a step.       *)
(*                                                                         *)
(* The cursor is two bytes.  They are compared with the size of the screen *)
(* for equality in most places, so that a cursor that has got past the end *)
(* stays out until its bytes wrap.                                         *)
(***************************************************************************)
EXTENDS Naturals, Sequences

CONSTANTS
    Writers,     \* threads that print
    Printer,     \* the one of them that never stops
    Printable,   \* the characters that are shown
    Width, Height, Tab,
    U8,          \* the number of values of a byte
    MaxRacing    \* bound: characters a writer prints that stops

Controls == {"n", "t", "r", "b"}   \* line feed, tab, carriage return, backspace

ASSUME ConsoleAssumption ==
    /\ Printable \cap (Controls \cup {" "}) = {}
    /\ {Width, Height, Tab, U8} \subseteq Nat \ {0}
    /\ Width + Tab < U8 /\ Height < U8
    /\ Printer \in Writers
    /\ MaxRacing \in Nat

VARIABLES
    cells,               \* video memory, as far as it is on the screen, if alone
    cursor_x, cursor_y,
    crtc,                \* where the controller shows the cursor, if alone
    pc, c, back,         \* per writer: its place in vga_putc, the character, where
                         \* move_cursor returns to
    x, y,                \* per writer: what it loaded from the cursor
    alone,               \* is the printer the only writer there is?
    left,                \* per writer: characters to print, for the others
    page                 \* history: the screen when the only writer had returned

locals == <<c, back, x, y>>
writers == <<alone, left>>
vars == <<cells, cursor_x, cursor_y, crtc, pc, locals, writers, page>>

Columns == 0 .. Width - 1
Offset(col, row) == row * Width + col

\* The screen as rows up to the cursor's, which may be the one behind the last.
PageOf ==
    [rows |-> [i \in 1 .. cursor_y + 1 |->
                 [k \in Columns |-> IF i \leq Height THEN cells[Offset(k, i - 1)] ELSE " "]],
     col |-> cursor_x]

\* vga_clearscreen, before there are tasks.
Init ==
    /\ cells = [o \in 0 .. Width * Height - 1 |-> " "]
    /\ cursor_x = 0 /\ cursor_y = 0 /\ crtc = 0
    /\ pc = [w \in Writers |-> "out"]
    /\ c = [w \in Writers |-> "n"]
    /\ back = [w \in Writers |-> "row"]
    /\ x = [w \in Writers |-> 0] /\ y = [w \in Writers |-> 0]
    /\ alone \in BOOLEAN
    /\ left = [w \in Writers |-> IF alone THEN 0 ELSE MaxRacing]
    /\ page = PageOf

\* Writer w goes from one place of vga_putc to another.
Go(w, from, to) == pc[w] = from /\ pc' = [pc EXCEPT ![w] = to]

LoadX(w) == x' = [x EXCEPT ![w] = cursor_x] /\ UNCHANGED <<c, back, y>>
LoadY(w) == y' = [y EXCEPT ![w] = cursor_y] /\ UNCHANGED <<c, back, x>>
Forget(w) == x' = [x EXCEPT ![w] = 0] /\ y' = [y EXCEPT ![w] = 0]
StoreX(v) == cursor_x' = v /\ UNCHANGED <<cells, cursor_y, crtc, locals, writers, page>>
StoreY(v) == cursor_y' = v /\ UNCHANGED <<cells, cursor_x, crtc, locals, writers, page>>
Show(contents) == cells' = IF alone THEN contents ELSE cells
screen == <<cells, cursor_x, cursor_y, crtc, writers, page>>
Test == UNCHANGED <<screen, locals>>

vga_putc(w) ==
    /\ Go(w, "out", "test")
    /\ w = Printer \/ left[w] > 0
    /\ left' = [left EXCEPT ![w] = IF w = Printer THEN @ ELSE @ - 1]
    /\ \E char \in Printable \cup Controls : c' = [c EXCEPT ![w] = char]
    /\ UNCHANGED <<cells, cursor_x, cursor_y, crtc, back, x, y, alone, page>>

\* Mutated form: no look at whether the cursor is behind the last row.
test_full_never(w) == Go(w, "test", "row") /\ Test

test_full(w) == Go(w, "test", IF cursor_y = Height THEN "scroll" ELSE "row") /\ Test

\* Mutated form: the last row is not cleared.
vga_scroll_up_dirty(w) ==
    /\ Go(w, "scroll", "home")
    /\ Show([o \in DOMAIN cells |->
              IF o + Width \in DOMAIN cells THEN cells[o + Width] ELSE cells[o]])
    /\ UNCHANGED <<cursor_x, cursor_y, crtc, locals, writers, page>>

\* vga_scroll_up: the cells, as one step, then the cursor, and move_cursor.
vga_scroll_up(w) ==
    /\ Go(w, "scroll", "home")
    /\ Show([o \in DOMAIN cells |->
              IF o + Width \in DOMAIN cells THEN cells[o + Width] ELSE " "])
    /\ UNCHANGED <<cursor_x, cursor_y, crtc, locals, writers, page>>
home(w) == Go(w, "home", "bottom") /\ StoreX(0)
bottom(w) == Go(w, "bottom", "args") /\ StoreY(Height - 1)

\* location_offset.
row(w) == Go(w, "row", "col") /\ LoadY(w) /\ UNCHANGED screen
col(w) == Go(w, "col", "put") /\ LoadX(w) /\ UNCHANGED screen

\* The switch: a printable character is written, wherever that is.
put(w) ==
    /\ Go(w, "put", CASE c[w] \in {"n", "r"} -> "zero x"
                      [] c[w] = "b" /\ cursor_x = 0 -> "ret"
                      [] OTHER -> "load x")
    /\ Show([o \in DOMAIN cells |->
              IF c[w] \in Printable /\ o = Offset(x[w], y[w]) THEN c[w] ELSE cells[o]])
    /\ back' = [back EXCEPT ![w] = "ret"]
    /\ Forget(w)
    /\ UNCHANGED <<cursor_x, cursor_y, crtc, c, writers, page>>

\* cursor_x++, cursor_x-- or the tab.
load_x(w) == Go(w, "load x", "store x") /\ LoadX(w) /\ UNCHANGED screen
store_x(w) ==
    /\ Go(w, "store x", IF c[w] = "b" THEN "args" ELSE "test x")
    /\ StoreX(CASE c[w] = "t" -> (x[w] + Tab) % U8
                [] c[w] = "b" -> (x[w] + U8 - 1) % U8
                [] OTHER -> (x[w] + 1) % U8)

test_x(w) ==
    /\ Go(w, "test x", IF cursor_x = Width \/ (c[w] = "t" /\ cursor_x > Width)
                       THEN "zero x" ELSE "test y")
    /\ Test

\* The cursor to the start of the next row.
zero_x(w) == Go(w, "zero x", "load y") /\ StoreX(0)
load_y(w) == Go(w, "load y", "store y") /\ LoadY(w) /\ UNCHANGED screen

\* Mutated form: the row stays at its largest value.
store_y_saturate(w) ==
    /\ Go(w, "store y", IF c[w] = "r" THEN "args" ELSE "test y")
    /\ StoreY(IF y[w] + 1 = U8 THEN y[w] ELSE y[w] + 1)

store_y(w) ==
    /\ Go(w, "store y", IF c[w] = "r" THEN "args" ELSE "test y")
    /\ StoreY((y[w] + 1) % U8)

\* A tab makes room at once; the others leave a cursor behind the last row there.
test_y(w) ==
    /\ Go(w, "test y", CASE c[w] = "t" /\ cursor_y \geq Height -> "scroll"
                         [] c[w] # "t" /\ cursor_y = Height -> "ret"
                         [] OTHER -> "args")
    /\ Test

\* move_cursor (cursor_x, cursor_y): the arguments, the controller, and both back
\* into the cursor.
args_y(w) == Go(w, "args", "args x") /\ LoadY(w) /\ UNCHANGED screen
args_x(w) == Go(w, "args x", "crtc") /\ LoadX(w) /\ UNCHANGED screen
move_crtc(w) ==
    /\ Go(w, "crtc", "move x")
    /\ crtc' = IF alone THEN Offset(x[w], y[w]) ELSE crtc
    /\ UNCHANGED <<cells, cursor_x, cursor_y, locals, writers, page>>
move_x(w) == Go(w, "move x", "move y") /\ StoreX(x[w])

move_y(w) == Go(w, "move y", back[w]) /\ StoreY(y[w])

\* The locals are forgotten.
ret(w) ==
    /\ Go(w, "ret", "out")
    /\ page' = IF alone THEN PageOf ELSE page
    /\ c' = [c EXCEPT ![w] = "n"]
    /\ back' = [back EXCEPT ![w] = "row"]
    /\ Forget(w)
    /\ UNCHANGED <<cells, cursor_x, cursor_y, crtc, writers>>

InPutc(w) ==
    \/ test_full(w) \/ vga_scroll_up(w) \/ home(w) \/ bottom(w)
    \/ row(w) \/ col(w) \/ put(w)
    \/ load_x(w) \/ store_x(w) \/ test_x(w)
    \/ zero_x(w) \/ load_y(w) \/ store_y(w) \/ test_y(w)
    \/ args_y(w) \/ args_x(w) \/ move_crtc(w) \/ move_x(w) \/ move_y(w) \/ ret(w)

Next == \E w \in Writers : vga_putc(w) \/ InPutc(w)

Spec == Init /\ [][Next]_vars

\* Every task gets the CPU again (Scheduler), and what the printer prints has line ends.
FairSpec ==
    /\ Spec
    /\ \A w \in Writers : WF_vars(InPutc(w))
    /\ \A w \in Writers : SF_vars(w = Printer /\ vga_putc(w) /\ c'[w] = "n")

(***************************************************************************)
(* Properties.                                                             *)
(***************************************************************************)
Places == {"out", "test", "scroll", "home", "bottom", "row", "col", "put", "load x",
           "store x", "test x", "zero x", "load y", "store y", "test y", "args", "args x",
           "crtc", "move x", "move y", "ret"}

TypeOK ==
    /\ cells \in [0 .. Width * Height - 1 -> Printable \cup {" "}]
    /\ cursor_x \in 0 .. U8 - 1 /\ cursor_y \in 0 .. U8 - 1
    /\ crtc \in Nat
    /\ pc \in [Writers -> Places]
    /\ c \in [Writers -> Printable \cup Controls]
    /\ back \in [Writers -> {"row", "ret"}]
    /\ x \in [Writers -> 0 .. U8 - 1] /\ y \in [Writers -> 0 .. U8 - 1]
    /\ alone \in BOOLEAN
    /\ left \in [Writers -> 0 .. MaxRacing]

OnScreen(col_, row_) == col_ < Width /\ row_ < Height

\* The only writer writes on the screen, whatever it prints (vga.c:126), and its
\* cursor is at most one row behind it.  When it has returned, the controller shows the
\* cursor where the next character goes, unless that is in a row there is no room for
\* yet (vga.c:100, 136).
WritesOnScreen ==
    alone => /\ pc[Printer] = "put" => OnScreen(x[Printer], y[Printer])
             /\ cursor_y \leq Height
             /\ pc[Printer] = "out" /\ OnScreen(cursor_x, cursor_y) =>
                    crtc = Offset(cursor_x, cursor_y)

\* For the only writer the console is a terminal (vga.c:78-140).
Screen == INSTANCE Terminal
TerminalSpec == Screen!Spec

\* Two writers can move the cursor off the screen (vga.c:89, 128), and then what is
\* printed goes to memory that is not shown.  It comes back for good, once there is
\* only one of them, since the bytes of the cursor wrap.
Recovers == <>[](cursor_y \leq Height /\ (pc[Printer] = "out" => cursor_x < Width))

=============================================================================
