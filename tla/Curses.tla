------------------------------- MODULE Curses -------------------------------
(***************************************************************************)
(* What the boxes of support/kconfig/lxdialog share: windows as curses     *)
(* keeps them, and small operations of util.c.  A window is what each of   *)
(* its rows shows, an item of the list or Blank, and which are highlighted.*)
(***************************************************************************)
EXTENDS Integers

CONSTANT Nothing            \* a box that is not open

Blank == -1                 \* nothing in a row or a column, no item

MinOf(a, b) == IF a < b THEN a ELSE b
MaxOf(a, b) == IF a > b THEN a ELSE b

\* Prints an item in a row, highlighted or not.
PrintRow(w, row, item, on) ==
    [rows |-> [w.rows EXCEPT ![row] = item],
     lit  |-> IF on THEN w.lit \cup {row} ELSE w.lit \ {row}]

\* Scrolls the window up by n rows (down if n is negative) and prints the
\* items that appear, which come after (before) those shown.
ScrollRows(w, n, top) ==
    [rows |-> [i \in DOMAIN w.rows |-> IF i + n \in DOMAIN w.rows THEN w.rows[i + n] ELSE top + i],
     lit  |-> {i \in DOMAIN w.rows : i + n \in w.lit}]

\* Draws a list from an item on, with a row highlighted.
DrawRows(height, shown, top, row) ==
    [rows |-> [i \in 0..(height - 1) |-> IF i < shown THEN top + i ELSE Blank],
     lit  |-> IF row < shown THEN {row} ELSE {}]

\* TAB and the arrows go round the buttons.
NextButton(button, step, last) ==
    LET b == button + step IN IF b < 0 THEN last ELSE IF b > last THEN 0 ELSE b
=============================================================================
