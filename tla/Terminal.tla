------------------------------ MODULE Terminal ------------------------------
(***************************************************************************)
(* What vga.c promises the one who prints: rows of text, of which the      *)
(* screen shows the last ones.  The row that a line end begins is only     *)
(* made room for when something is put into it, except behind a tab.       *)
(***************************************************************************)
EXTENDS Naturals, Sequences

CONSTANTS Width, Height, Tab, Printable

VARIABLE page   \* the rows up to the cursor's, and the cursor's column

Blank == [x \in 0 .. Width - 1 |-> " "]

Init == page = [rows |-> <<Blank>>, col |-> 0]

Room(rows) == IF Len(rows) > Height THEN Tail(rows) ELSE rows
EndLine(rows) == [rows |-> Append(rows, Blank), col |-> 0]

PutChar(c) ==
    LET rows == Room(page.rows)
        with == [rows EXCEPT ![Len(rows)][page.col] = c]
    IN page' = IF page.col + 1 = Width THEN EndLine(with)
               ELSE [rows |-> with, col |-> page.col + 1]

NewLine == page' = EndLine(Room(page.rows))

HorizontalTab ==
    LET rows == Room(page.rows)
    IN page' = IF page.col + Tab < Width THEN [rows |-> rows, col |-> page.col + Tab]
               ELSE [EndLine(rows) EXCEPT !.rows = Room(@)]

Backspace ==
    page' = [rows |-> Room(page.rows), col |-> IF page.col > 0 THEN page.col - 1 ELSE 0]

Next == (\E c \in Printable : PutChar(c)) \/ NewLine \/ HorizontalTab \/ Backspace

Spec == Init /\ [][Next]_page
=============================================================================
