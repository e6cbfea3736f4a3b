------------------------------ MODULE InputBox ------------------------------
(***************************************************************************)
(* lxdialog/inputbox.c: the box for a string or a number.  input is the    *)
(* state of a call of dialog_inputbox, or Nothing.                         *)
(*   instr            dialog_input_result, the string as it stands         *)
(*   show_x, input_x, pos   the first character shown, the cursor's column *)
(*         and the cursor's place in the string                            *)
(*   cells            what each column of the field shows                  *)
(*   button, shown    -1 while the field has the keys; the one highlighted *)
(***************************************************************************)
EXTENDS Curses, Sequences

CONSTANTS Chars,        \* the characters that are typed
          BoxWidth,     \* box_width
          MaxLen,       \* MAX_LEN
          Inits         \* the strings the box is opened with

ASSUME InputBoxAssumption ==
    /\ BoxWidth \in Nat \ {0}
    /\ MaxLen \in Nat
    /\ Inits \subseteq Seq(Chars)

VARIABLES input

Columns == 0..(BoxWidth - 1)

Empty == [i \in Columns |-> Blank]

\* Plausible bug: the loop stops at the end of the string without the blank.
PrintedNoBlank(cells, instr, show_x) ==
    [i \in Columns |-> IF show_x + i < Len(instr) THEN instr[show_x + i + 1] ELSE cells[i]]

\* The loop that prints the field: up to the end of the string, and one blank.
Printed(cells, instr, show_x) ==
    [i \in Columns |-> IF show_x + i < Len(instr) THEN instr[show_x + i + 1]
                       ELSE IF show_x + i = Len(instr) THEN Blank ELSE cells[i]]

\* From the label do_resize on: the cursor goes behind the last character.
InputDraw(b) ==
    LET len == Len(b.instr)
        show_x == IF len >= BoxWidth THEN len - BoxWidth + 1 ELSE 0
    IN [b EXCEPT !.pos = len, !.input_x = len - show_x, !.show_x = show_x, !.shown = 0,
                 !.cells = [i \in Columns |-> IF show_x + i < len THEN b.instr[show_x + i + 1] ELSE Blank]]

InputOpen(init) ==
    /\ input = Nothing
    /\ input' = InputDraw([instr |-> init, show_x |-> 0, input_x |-> 0, pos |-> 0, cells |-> Empty,
                           button |-> -1, shown |-> 0, resized |-> FALSE])

\* The cursor moves by one column, or the field moves under it at an edge.
Moved(b, n) ==
    LET inside == b.input_x + n \in Columns
    IN [b EXCEPT !.pos = @ + n,
                 !.input_x = IF inside THEN @ + n ELSE @,
                 !.show_x = IF inside THEN @ ELSE @ + n]

Field(b)   == [b EXCEPT !.cells = Printed(@, b.instr, b.show_x)]

\* The string with a character at pos, and without the one before pos.
Inserted(b, c) == SubSeq(b.instr, 1, b.pos) \o <<c>> \o SubSeq(b.instr, b.pos + 1, Len(b.instr))
Deleted(b)     == SubSeq(b.instr, 1, b.pos - 1) \o SubSeq(b.instr, b.pos + 1, Len(b.instr))

HasKeys == input # Nothing /\ input.button = -1

InputBackspace ==
    /\ HasKeys /\ input.pos > 0
    /\ input' = Field(Moved([input EXCEPT !.instr = Deleted(input)], -1))

\* The field is only printed again when it moved.
InputLeft ==
    /\ HasKeys /\ input.pos > 0
    /\ input' = IF input.input_x > 0 THEN Moved(input, -1) ELSE Field(Moved(input, -1))

InputRight ==
    /\ HasKeys /\ input.pos < Len(input.instr)
    /\ input' = IF input.input_x < BoxWidth - 1 THEN Moved(input, 1) ELSE Field(Moved(input, 1))

InputChar(c) ==
    /\ HasKeys /\ Len(input.instr) < MaxLen
    /\ input' = Field(Moved([input EXCEPT !.instr = Inserted(input, c)], 1))

\* TAB and the arrows go round the field and the buttons; -1 highlights Ok as well.
InputButton(step) ==
    /\ input # Nothing
    /\ LET b == input.button + step
           next == IF b > 1 THEN -1 ELSE IF b < -1 THEN 1 ELSE b
       IN input' = [input EXCEPT !.button = next, !.shown = MaxOf(next, 0)]

InputResize ==
    /\ input # Nothing
    /\ input' = InputDraw([input EXCEPT !.resized = TRUE])

InputClose == input # Nothing /\ input' = Nothing

InputNext ==
    \/ \E init \in Inits : InputOpen(init)
    \/ InputBackspace \/ InputLeft \/ InputRight
    \/ \E c \in Chars : InputChar(c)
    \/ \E step \in {-1, 1} : InputButton(step)
    \/ InputResize \/ InputClose

InputInit == input = Nothing
=============================================================================
