-------------------------- MODULE LxdialogProofs --------------------------
(***************************************************************************)
(* Proofs about the input box of Lxdialog, for strings of any length and   *)
(* boxes of any width, and about its text box, for texts of any length,    *)
(* windows of any height and any number of keys.                           *)
(***************************************************************************)
EXTENDS Lxdialog, FiniteSetTheorems, TLAPS

(* The input box *)

\* Every leaf about a box needs what its fields are.
InputType ==
    [instr : Seq(Chars), show_x : Nat, input_x : Nat, pos : Nat, cells : [Columns -> Chars \cup {Blank}],
     button : Int, shown : Int, resized : BOOLEAN]

\* What the field shows, of a box b.
FieldTrue(b) ==
    /\ b \in InputType
    /\ b.pos = b.show_x + b.input_x
    /\ b.pos <= Len(b.instr) /\ b.input_x \in Columns
    /\ \A i \in Columns :
          b.cells[i] = IF b.show_x + i < Len(b.instr) THEN b.instr[b.show_x + i + 1] ELSE Blank

InputInv == input # Nothing => FieldTrue(input)

\* A box as it is before the field is printed again: what is beyond the string, and one column of
\* blank, has to be blank already.
Unprinted(b) ==
    /\ b \in InputType
    /\ b.pos = b.show_x + b.input_x
    /\ b.pos <= Len(b.instr) /\ b.input_x \in Columns
    /\ \A i \in Columns : b.show_x + i > Len(b.instr) => b.cells[i] = Blank

\* Printing the field makes it show the string (the loop of dialog_inputbox that prints it).
LEMMA PrintingIsEnough == ASSUME NEW b, Unprinted(b) PROVE FieldTrue(Field(b))
<1>1. b \in InputType
  BY DEF Unprinted
<1> DEFINE c == Field(b)
<1>2. c.cells = Printed(b.cells, b.instr, b.show_x) /\ c.instr = b.instr /\ c.show_x = b.show_x
      /\ c.input_x = b.input_x /\ c.pos = b.pos
  BY <1>1 DEF Field, InputType
<1>3. \A i \in Columns : c.cells[i] = IF b.show_x + i < Len(b.instr) THEN b.instr[b.show_x + i + 1] ELSE Blank
  BY <1>1, <1>2, InputBoxAssumption DEF Printed, Unprinted, InputType, Columns
<1>4. c.cells \in [Columns -> Chars \cup {Blank}]
  <2>1. \A i \in Columns : b.show_x + i < Len(b.instr) => b.instr[b.show_x + i + 1] \in Chars
    BY <1>1, InputBoxAssumption DEF InputType, Columns
  <2>2. \A i \in Columns : c.cells[i] \in Chars \cup {Blank}
    BY <2>1, <1>3
  <2> QED BY <1>2, <2>2 DEF Printed
<1>5. c \in InputType
  BY <1>1, <1>4 DEF Field, InputType
<1> QED BY <1>2, <1>3, <1>5 DEF FieldTrue, Unprinted

\* Drawing the box anew puts the cursor behind the string and shows its end.
LEMMA DrawingShows ==
    ASSUME NEW b \in InputType
    PROVE  FieldTrue(InputDraw(b))
<1> DEFINE c == InputDraw(b)
           s == b.instr
           x == IF Len(s) >= BoxWidth THEN Len(s) - BoxWidth + 1 ELSE 0
<1>1. x \in Nat /\ Len(s) \in Nat /\ x <= Len(s) /\ Len(s) - x \in Columns /\ s \in Seq(Chars)
  BY InputBoxAssumption DEF Columns, InputType
<1>2. c.show_x = x /\ c.input_x = Len(s) - x /\ c.pos = Len(s) /\ c.instr = s
      /\ c.cells = [i \in Columns |-> IF x + i < Len(s) THEN s[x + i + 1] ELSE Blank]
  BY DEF InputDraw, InputType
<1>3. c.cells \in [Columns -> Chars \cup {Blank}]
  <2>1. \A i \in Columns : x + i < Len(s) => s[x + i + 1] \in Chars
    BY <1>1, InputBoxAssumption DEF Columns
  <2> QED BY <1>2, <2>1
<1>4. c \in InputType
  <2> DEFINE len == Len(s)
             shown == 0
             b1 == [b EXCEPT !.pos = len]
             b2 == [b1 EXCEPT !.input_x = Len(s) - x]
             b3 == [b2 EXCEPT !.show_x = x]
             b4 == [b3 EXCEPT !.shown = shown]
             b5 == [b4 EXCEPT !.cells = c.cells]
  <2>1. c = b5
    BY <1>2 DEF InputDraw
  <2>2. Len(s) - x \in Nat
    BY <1>1, InputBoxAssumption DEF Columns
  <2>3. len \in Nat /\ shown \in Int
    BY <1>1
  <2> HIDE DEF x, c, len, shown
  <2>4. b1 \in InputType
    BY <2>3 DEF InputType
  <2>5. b2 \in InputType
    BY <2>4, <2>2 DEF InputType
  <2>6. b3 \in InputType
    BY <2>5, <1>1 DEF InputType
  <2>7. b4 \in InputType
    BY <2>6, <2>3 DEF InputType
  <2>8. b5 \in InputType
    BY <2>7, <1>3 DEF InputType
  <2> QED BY <2>1, <2>8
<1> QED BY <1>1, <1>2, <1>4 DEF FieldTrue
-----------------------------------------------------------------------------
\* The string with one character less or more.
LEMMA DeletedIsShorter ==
    ASSUME NEW b \in InputType, b.pos > 0, b.pos <= Len(b.instr)
    PROVE  Deleted(b) \in Seq(Chars) /\ Len(Deleted(b)) = Len(b.instr) - 1
<1> DEFINE s == b.instr
<1>1. s \in Seq(Chars) /\ b.pos \in 1..Len(s)
  BY DEF InputType
<1>2. SubSeq(s, 1, b.pos - 1) \in Seq(Chars) /\ Len(SubSeq(s, 1, b.pos - 1)) = b.pos - 1
  BY <1>1
<1>3. SubSeq(s, b.pos + 1, Len(s)) \in Seq(Chars) /\ Len(SubSeq(s, b.pos + 1, Len(s))) = Len(s) - b.pos
  BY <1>1
<1> DEFINE l == SubSeq(s, 1, b.pos - 1)
           r == SubSeq(s, b.pos + 1, Len(s))
<1>4. Deleted(b) = l \o r
  BY DEF Deleted
<1> HIDE DEF l, r
<1>5. l \o r \in Seq(Chars) /\ Len(l \o r) = Len(l) + Len(r)
  BY <1>2, <1>3 DEF l, r
<1> QED BY <1>1, <1>2, <1>3, <1>4, <1>5 DEF l, r

LEMMA InsertedIsLonger ==
    ASSUME NEW b \in InputType, NEW c \in Chars, b.pos <= Len(b.instr)
    PROVE  Inserted(b, c) \in Seq(Chars) /\ Len(Inserted(b, c)) = Len(b.instr) + 1
<1> DEFINE s == b.instr
<1>1. s \in Seq(Chars) /\ b.pos \in 0..Len(s)
  BY DEF InputType
<1>2. SubSeq(s, 1, b.pos) \in Seq(Chars) /\ Len(SubSeq(s, 1, b.pos)) = b.pos
  BY <1>1
<1>3. SubSeq(s, b.pos + 1, Len(s)) \in Seq(Chars) /\ Len(SubSeq(s, b.pos + 1, Len(s))) = Len(s) - b.pos
  BY <1>1
<1> QED BY <1>1, <1>2, <1>3 DEF Inserted

\* One step of the cursor: the place in the string and the column stay together, and at an edge
\* the field moves.
LEMMA CursorMoves ==
    ASSUME NEW b \in InputType, NEW n \in {-1, 1},
           b.pos = b.show_x + b.input_x, b.input_x \in Columns, b.pos + n >= 0
    PROVE  /\ Moved(b, n) \in InputType
           /\ Moved(b, n).instr = b.instr /\ Moved(b, n).cells = b.cells
           /\ Moved(b, n).pos = b.pos + n
           /\ Moved(b, n).pos = Moved(b, n).show_x + Moved(b, n).input_x
           /\ Moved(b, n).input_x \in Columns
           /\ IF b.input_x + n \in Columns THEN Moved(b, n).show_x = b.show_x
              ELSE Moved(b, n).show_x = b.show_x + n /\ Moved(b, n).input_x = b.input_x
<1> DEFINE inside  == b.input_x + n \in Columns
           input_x == IF inside THEN b.input_x + n ELSE b.input_x
           show_x  == IF inside THEN b.show_x ELSE b.show_x + n
           b1 == [b EXCEPT !.pos = b.pos + n]
           b2 == [b1 EXCEPT !.input_x = input_x]
           b3 == [b2 EXCEPT !.show_x = show_x]
<1>1. Moved(b, n) = b3
  BY DEF Moved, InputType
<1>2. b.pos + n \in Nat /\ input_x \in Columns /\ show_x \in Nat /\ b.pos + n = show_x + input_x
  BY InputBoxAssumption DEF Columns, InputType
<1>3. input_x \in Nat
  BY <1>2, InputBoxAssumption DEF Columns
<1>4. b3 \in InputType
  <2> HIDE DEF input_x, show_x
  <2>1. b1 \in InputType
    BY <1>2 DEF InputType
  <2>2. b2 \in InputType
    BY <2>1, <1>3 DEF InputType
  <2> QED BY <2>2, <1>2 DEF InputType
<1>5. b3.pos = b.pos + n /\ b3.input_x = input_x /\ b3.show_x = show_x
      /\ b3.instr = b.instr /\ b3.cells = b.cells
  BY DEF InputType
<1> QED BY <1>1, <1>2, <1>4, <1>5

\* A key that moves the cursor by one column leaves the field showing the string d has, also when
\* the key takes a character away before the cursor or puts one there.
LEMMA KeyShows ==
    ASSUME NEW b, FieldTrue(b), NEW d \in InputType, NEW n \in {-1, 1},
           d.pos = b.pos, d.show_x = b.show_x, d.input_x = b.input_x, d.cells = b.cells,
           d.pos + n >= 0, d.pos + n <= Len(d.instr),
           IF n = 1 THEN Len(d.instr) >= Len(b.instr) ELSE Len(d.instr) >= Len(b.instr) - 1
    PROVE  FieldTrue(Field(Moved(d, n)))
<1> DEFINE m == Moved(d, n)
<1>1. b \in InputType /\ d.pos = d.show_x + d.input_x /\ d.input_x \in Columns
  BY DEF FieldTrue
<1>2. /\ m \in InputType /\ m.instr = d.instr /\ m.cells = d.cells
      /\ m.pos = d.pos + n /\ m.pos = m.show_x + m.input_x /\ m.input_x \in Columns
      /\ m.show_x = d.show_x \/ m.show_x = d.show_x + n
  BY <1>1, CursorMoves
<1> HIDE DEF m
<1>3. Len(d.instr) \in Nat /\ Len(b.instr) \in Nat /\ b.show_x \in Nat
  BY <1>1 DEF InputType
<1>4. \A i \in Columns : b.show_x + i >= Len(b.instr) => b.cells[i] = Blank
  BY <1>1, <1>3, InputBoxAssumption DEF FieldTrue, Columns
<1>5. ASSUME NEW i \in Columns, m.show_x + i > Len(m.instr) PROVE b.show_x + i >= Len(b.instr)
  <2>1. i \in Int /\ Len(m.instr) = Len(d.instr)
    BY <1>2, InputBoxAssumption DEF Columns
  <2>2. m.show_x = b.show_x \/ m.show_x = b.show_x + n
    BY <1>2
  <2>3. CASE n = 1
    BY <1>3, <1>5, <2>1, <2>2, <2>3
  <2>4. CASE n = -1
    BY <1>3, <1>5, <2>1, <2>2, <2>4
  <2> QED BY <2>3, <2>4
<1>6. Unprinted(m)
  BY <1>2, <1>4, <1>5 DEF Unprinted
<1> QED BY <1>6, PrintingIsEnough DEF m

\* A key that moves the cursor within the field leaves what it shows.
LEMMA InsideShows ==
    ASSUME NEW b, FieldTrue(b), NEW n \in {-1, 1},
           b.pos + n >= 0, b.pos + n <= Len(b.instr), b.input_x + n \in Columns
    PROVE  FieldTrue(Moved(b, n))
<1> DEFINE m == Moved(b, n)
<1>1. b \in InputType /\ b.pos = b.show_x + b.input_x /\ b.input_x \in Columns
  BY DEF FieldTrue
<1>2. /\ m \in InputType /\ m.instr = b.instr /\ m.cells = b.cells
      /\ m.pos = b.pos + n /\ m.pos = m.show_x + m.input_x /\ m.input_x \in Columns
      /\ m.show_x = b.show_x
  BY <1>1, CursorMoves
<1> HIDE DEF m
<1> QED BY <1>2 DEF FieldTrue, m
-----------------------------------------------------------------------------
\* The input box keeps InputInv through every key.
LEMMA InputStep == ASSUME InputInv, InputNext PROVE InputInv'
<1> SUFFICES ASSUME input' # Nothing PROVE FieldTrue(input')
  BY DEF InputInv, FieldTrue, InputType, Columns
<1>1. ASSUME NEW init \in Inits, InputOpen(init) PROVE FieldTrue(input')
  <2> DEFINE none == -1
             b == [instr |-> init, show_x |-> 0, input_x |-> 0, pos |-> 0, cells |-> Empty,
                   button |-> none, shown |-> 0, resized |-> FALSE]
  <2>1. init \in Seq(Chars) /\ Empty \in [Columns -> Chars \cup {Blank}]
    BY InputBoxAssumption DEF Empty
  <2>2. none \in Int
    OBVIOUS
  <2>3. input' = InputDraw(b)
    BY <1>1 DEF InputOpen
  <2> HIDE DEF none
  <2>4. b \in InputType
    BY <2>1, <2>2 DEF InputType
  <2> QED BY <2>3, <2>4, DrawingShows
<1>2. ASSUME input # Nothing PROVE FieldTrue(input) /\ input \in InputType
  BY <1>2 DEF InputInv, FieldTrue
<1>3. CASE InputBackspace
  <2> DEFINE d == [input EXCEPT !.instr = Deleted(input)]
  <2>1. FieldTrue(input) /\ input \in InputType /\ input.pos > 0 /\ input' = Field(Moved(d, -1))
    BY <1>2, <1>3 DEF InputBackspace, HasKeys
  <2>2. Deleted(input) \in Seq(Chars) /\ Len(Deleted(input)) = Len(input.instr) - 1
    BY <2>1, DeletedIsShorter DEF FieldTrue
  <2>3. /\ d \in InputType /\ d.pos = input.pos /\ d.show_x = input.show_x
        /\ d.input_x = input.input_x /\ d.cells = input.cells /\ d.instr = Deleted(input)
    BY <2>1, <2>2 DEF InputType
  <2> HIDE DEF d
  <2>4. input.pos \in Nat /\ Len(input.instr) \in Nat /\ input.pos <= Len(input.instr)
    BY <2>1 DEF InputType, FieldTrue
  <2>5. FieldTrue(Field(Moved(d, -1)))
    BY <2>1, <2>2, <2>3, <2>4, KeyShows
  <2> QED BY <2>1, <2>5
<1>4. CASE InputLeft
  <2>1. FieldTrue(input) /\ input \in InputType /\ input.pos > 0
    BY <1>2, <1>4 DEF InputLeft, HasKeys
  <2>2. /\ input.pos \in Nat /\ Len(input.instr) \in Nat /\ input.pos <= Len(input.instr)
        /\ input.input_x \in Columns
    BY <2>1 DEF InputType, FieldTrue
  <2>3. CASE input.input_x > 0
    <3>1. input' = Moved(input, -1)
      BY <1>4, <2>3 DEF InputLeft
    <3>2. input.input_x + (-1) \in Columns
      BY <2>2, <2>3, InputBoxAssumption DEF Columns
    <3> QED BY <2>1, <2>2, <3>1, <3>2, InsideShows
  <2>4. CASE ~(input.input_x > 0)
    <3>1. input' = Field(Moved(input, -1))
      BY <1>4, <2>4 DEF InputLeft
    <3> QED BY <2>1, <2>2, <3>1, KeyShows
  <2> QED BY <2>3, <2>4
<1>5. CASE InputRight
  <2>1. FieldTrue(input) /\ input \in InputType /\ input.pos < Len(input.instr)
    BY <1>2, <1>5 DEF InputRight, HasKeys
  <2>2. /\ input.pos \in Nat /\ Len(input.instr) \in Nat /\ input.pos <= Len(input.instr)
        /\ input.input_x \in Columns
    BY <2>1 DEF InputType, FieldTrue
  <2>3. CASE input.input_x < BoxWidth - 1
    <3>1. input' = Moved(input, 1)
      BY <1>5, <2>3 DEF InputRight
    <3>2. input.input_x + 1 \in Columns
      BY <2>2, <2>3, InputBoxAssumption DEF Columns
    <3> QED BY <2>1, <2>2, <3>1, <3>2, InsideShows
  <2>4. CASE ~(input.input_x < BoxWidth - 1)
    <3>1. input' = Field(Moved(input, 1))
      BY <1>5, <2>4 DEF InputRight
    <3> QED BY <2>1, <2>2, <3>1, KeyShows
  <2> QED BY <2>3, <2>4
<1>6. ASSUME NEW c \in Chars, InputChar(c) PROVE FieldTrue(input')
  <2> DEFINE d == [input EXCEPT !.instr = Inserted(input, c)]
  <2>1. FieldTrue(input) /\ input \in InputType /\ input' = Field(Moved(d, 1))
    BY <1>2, <1>6 DEF InputChar, HasKeys
  <2>2. Inserted(input, c) \in Seq(Chars) /\ Len(Inserted(input, c)) = Len(input.instr) + 1
    BY <2>1, InsertedIsLonger DEF FieldTrue
  <2>3. /\ d \in InputType /\ d.pos = input.pos /\ d.show_x = input.show_x
        /\ d.input_x = input.input_x /\ d.cells = input.cells /\ d.instr = Inserted(input, c)
    BY <2>1, <2>2 DEF InputType
  <2> HIDE DEF d
  <2>4. input.pos \in Nat /\ Len(input.instr) \in Nat /\ input.pos <= Len(input.instr)
    BY <2>1 DEF InputType, FieldTrue
  <2>5. FieldTrue(Field(Moved(d, 1)))
    BY <2>1, <2>2, <2>3, <2>4, KeyShows
  <2> QED BY <2>1, <2>5
<1>7. ASSUME NEW step \in {-1, 1}, InputButton(step) PROVE FieldTrue(input')
  <2>1. FieldTrue(input) /\ input \in InputType
    BY <1>2, <1>7 DEF InputButton
  <2> DEFINE b == input.button + step
             next == IF b > 1 THEN -1 ELSE IF b < -1 THEN 1 ELSE b
             shown == MaxOf(next, 0)
             b1 == [input EXCEPT !.button = next]
             b2 == [b1 EXCEPT !.shown = shown]
  <2>2. input' = b2
    BY <1>7 DEF InputButton
  <2>3. next \in Int
    BY <2>1 DEF InputType
  <2>4. shown \in Int
    BY <2>3 DEF MaxOf
  <2> HIDE DEF next, shown
  <2>5. b1 \in InputType
    BY <2>1, <2>3 DEF InputType
  <2>6. b2 \in InputType
    BY <2>5, <2>4 DEF InputType
  <2>7. /\ b2.pos = input.pos /\ b2.show_x = input.show_x /\ b2.input_x = input.input_x
        /\ b2.instr = input.instr /\ b2.cells = input.cells
    BY <2>1 DEF InputType
  <2> HIDE DEF b1, b2
  <2> QED BY <2>1, <2>2, <2>6, <2>7 DEF FieldTrue
<1>8. CASE InputResize
  <2> DEFINE b == [input EXCEPT !.resized = TRUE]
  <2>1. input \in InputType /\ input' = InputDraw(b)
    BY <1>2, <1>8 DEF InputResize
  <2>2. b \in InputType
    BY <2>1 DEF InputType
  <2> HIDE DEF b
  <2> QED BY <2>1, <2>2, DrawingShows
<1>9. CASE InputClose
  BY <1>9 DEF InputClose
<1> QED BY <1>1, <1>3, <1>4, <1>5, <1>6, <1>7, <1>8, <1>9 DEF InputNext

\* The field of the box for a string shows, after every key and at every width of the box, the part
\* of the string that starts at show_x and nothing else, with the cursor where the next key acts:
\* dialog_inputbox prints the field again only up to one blank behind the string.
THEOREM FieldTrueAlways == Spec => []FieldShowsString
<1>1. Init => InputInv
  BY DEF Init, InputInit, InputInv
<1>2. InputInv /\ [Next]_vars => InputInv'
  <2> SUFFICES ASSUME InputInv, [Next]_vars PROVE InputInv'
    OBVIOUS
  <2>1. CASE InputNext
    BY <2>1, InputStep
  <2>2. CASE UNCHANGED input
    BY <2>2 DEF InputInv, FieldTrue, InputType, Columns
  <2> QED BY <2>1, <2>2 DEF Next, vars, boxes
<1>3. InputInv => FieldShowsString
  BY DEF InputInv, FieldTrue, FieldShowsString, InputType
<1> QED BY <1>1, <1>2, <1>3, PTL DEF Spec

-----------------------------------------------------------------------------
(* The text box *)

TextFields == {"lines", "ended", "height", "search", "jumps", "page", "begin_reached",
               "end_reached", "page_length", "top", "keys"}

\* What no key changes of a text, and its window.
TextKind(t) ==
    /\ DOMAIN t = TextFields
    /\ t.lines \in Nat \ {0} /\ t.height \in Nat \ {0}
    /\ t.ended \in BOOLEAN /\ t.search \in BOOLEAN /\ (t.search => t.ended)
    /\ t.jumps \subseteq 0..(t.lines - 1)

\* A text about to be printed: page says where, and begin_reached whether that is the start.
Ready(t) ==
    /\ TextKind(t) /\ t.ended
    /\ t.page \in 0..t.lines
    /\ t.begin_reached \in BOOLEAN /\ (t.begin_reached <=> t.page = 0)

\* The line print_page begins with: a page of search results fills the box.
FirstLine(t) ==
    IF ~t.search \/ t.page + t.height <= t.lines THEN t.page ELSE MaxOf(t.lines - t.height + 1, 0)

\* A text on the screen.
Placed(t) ==
    /\ TextKind(t) /\ t.ended
    /\ t.top \in 0..t.lines
    /\ t.search => t.top = 0 \/ t.top + t.height <= t.lines + 1
    /\ t.page = MinOf(t.top + t.height, t.lines)
    /\ t.page_length = MinOf(t.height, t.lines - t.top + 1)
    /\ t.begin_reached \in BOOLEAN /\ (t.begin_reached <=> t.top = 0)
    /\ t.end_reached \in BOOLEAN /\ (t.end_reached <=> t.top + t.height > t.lines)
    /\ t.search => t.keys = Offered(t, t.top, t.top + t.height)

\* Of a text without a final newline no more is told than what its keys leave alone.
ToPrint(t) == TextKind(t) /\ (t.ended => Ready(t))
OnScreen(t) == TextKind(t) /\ (t.ended => Placed(t))

TextInv ==
    /\ vscroll \in Nat
    /\ text # Nothing => OnScreen(text)

\* Two states of one text in one box.
SameText(u, t) ==
    /\ DOMAIN u = DOMAIN t
    /\ u.lines = t.lines /\ u.height = t.height /\ u.jumps = t.jumps
    /\ u.ended = t.ended /\ u.search = t.search

\* back_lines goes back n lines, or n - 1 from the end, and tells whether that is the start.
LEMMA GoingBack ==
    ASSUME NEW t, TextKind(t), t.page \in 0..t.lines, NEW n \in Nat,
           NEW skip, skip = IF n > 0 /\ t.page = t.lines /\ t.end_reached THEN 1 ELSE 0
    PROVE  LET u == BackLines(t, n)
           IN /\ SameText(u, t)
              /\ u.page \in 0..t.lines
              /\ u.page = IF t.page >= n - skip THEN t.page - (n - skip) ELSE 0
              /\ u.begin_reached \in BOOLEAN
              /\ u.begin_reached <=> n > skip /\ t.page <= n - skip
              /\ u.keys = t.keys
<1> DEFINE back == MaxOf(t.page - MaxOf(n - skip, 0), 0)
           start == n > skip /\ t.page <= n - skip
           end == t.end_reached /\ skip = 0
           t1 == [t EXCEPT !.page = back]
           t2 == [t1 EXCEPT !.begin_reached = start]
           t3 == [t2 EXCEPT !.end_reached = end]
<1>1. BackLines(t, n) = t3
    BY DEF BackLines
<1>2. skip \in {0, 1} /\ n - skip \in Nat
    OBVIOUS
<1>3. back \in 0..t.lines /\ back = IF t.page >= n - skip THEN t.page - (n - skip) ELSE 0
    BY DEF MaxOf, TextKind
<1>6. start \in BOOLEAN
    BY Zenon
<1> HIDE DEF back, start, end
<1>4. DOMAIN t = TextFields /\ "page" \in TextFields /\ "begin_reached" \in TextFields
      /\ "end_reached" \in TextFields
    BY DEF TextKind, TextFields
<1>5. SameText(t3, t) /\ t3.page = back /\ t3.begin_reached = start /\ t3.keys = t.keys
    BY <1>4 DEF SameText, TextFields
<1> HIDE DEF t3
<1> QED
    BY <1>1, <1>2, <1>3, <1>5, <1>6 DEF start

\* The keys of a page depend on nothing but the jumps.
LEMMA OfferedForJumps ==
    ASSUME NEW t, NEW u, u.jumps = t.jumps, NEW start, NEW end
    PROVE  Offered(u, start, end) = Offered(t, start, end)
BY DEF Offered, Number

\* print_page shows the lines from FirstLine on, and the pointer and the flags tell where it is.
LEMMA PagePlaced ==
    ASSUME NEW t, Ready(t)
    PROVE  LET u == PrintPage(t)
           IN Placed(u) /\ u.top = FirstLine(t) /\ SameText(u, t)
<1> DEFINE p == Prepared(t)
           u == PrintPage(t)
<1>0. /\ DOMAIN t = TextFields /\ t.lines \in Nat \ {0} /\ t.height \in Nat \ {0}
      /\ t.search \in BOOLEAN /\ t.ended /\ t.jumps \subseteq 0..(t.lines - 1)
      /\ t.page \in 0..t.lines
    BY DEF Ready, TextKind
<1>1. /\ SameText(p, t) /\ p.page = FirstLine(t) /\ p.page \in 0..t.lines
      /\ p.begin_reached \in BOOLEAN /\ (p.begin_reached <=> p.page = 0)
      /\ t.search => p.page = 0 \/ p.page + t.height <= t.lines + 1
      /\ t.search => p.keys = Offered(t, p.page, p.page + t.height)
  <2>1. CASE ~t.search
    <3>1. p = t
        BY <2>1, Zenon DEF Prepared
    <3> HIDE DEF p
    <3> QED
        BY <1>0, <2>1, <3>1 DEF FirstLine, SameText, Ready
  <2>2. CASE t.search
    <3> DEFINE reach == MinOf(t.page + t.height, t.lines)
               over == t.page + t.height > t.lines - (IF t.ended THEN 0 ELSE 1)
               far1 == [t EXCEPT !.page = reach]
               far == [far1 EXCEPT !.end_reached = over]
               back == BackLines(far, t.height)
               keys == Offered(t, back.page, far.page)
               skip == IF t.height > 0 /\ far.page = far.lines /\ far.end_reached THEN 1 ELSE 0
    <3>1. GetLines(t, t.height) = far
        BY DEF GetLines
    <3>2. p = [back EXCEPT !.keys = keys]
        BY <2>2, <3>1, Zenon DEF Prepared
    <3>3. over \in BOOLEAN /\ (over <=> t.page + t.height > t.lines)
      <4>1. over \in BOOLEAN
          BY <1>0
      <4> QED
          BY <1>0, <4>1
    <3>4. reach \in 0..t.lines /\ reach = IF t.page + t.height > t.lines THEN t.lines ELSE t.page + t.height
        BY <1>0 DEF MinOf
    <3> HIDE DEF reach, over
    <3>5. SameText(far, t) /\ far.page = reach /\ far.end_reached = over
        BY <1>0 DEF SameText, TextFields
    <3> HIDE DEF far
    <3>6. TextKind(far) /\ far.page \in 0..far.lines /\ t.height \in Nat
        BY <1>0, <3>4, <3>5 DEF SameText, TextKind, Ready
    <3>7. skip = IF t.page + t.height > t.lines THEN 1 ELSE 0
        BY <1>0, <3>3, <3>4, <3>5 DEF SameText
    <3> HIDE DEF skip
    <3>8. /\ SameText(back, far)
          /\ back.page \in 0..t.lines
          /\ back.page = IF far.page >= t.height - skip THEN far.page - (t.height - skip) ELSE 0
          /\ back.begin_reached \in BOOLEAN
          /\ back.begin_reached <=> t.height > skip /\ far.page <= t.height - skip
        BY <3>5, <3>6, GoingBack DEF skip, SameText
    <3> HIDE DEF back, keys
    <3>9. SameText(p, t) /\ p.page = back.page /\ p.begin_reached = back.begin_reached /\ p.keys = keys
        BY <1>0, <3>2, <3>5, <3>8 DEF SameText, TextFields
    <3>10. p.page = FirstLine(t) /\ (p.begin_reached <=> p.page = 0)
           /\ (p.page = 0 \/ p.page + t.height <= t.lines + 1)
      <4>1. CASE t.page + t.height > t.lines
        <5>1. skip = 1 /\ far.page = t.lines
            BY <3>4, <3>5, <3>7, <4>1
        <5>2. p.page = IF t.lines >= t.height - 1 THEN t.lines - (t.height - 1) ELSE 0
            BY <3>8, <3>9, <5>1
        <5>3. FirstLine(t) = MaxOf(t.lines - t.height + 1, 0)
            BY <1>0, <2>2, <4>1 DEF FirstLine
        <5> QED
            BY <1>0, <3>8, <3>9, <5>1, <5>2, <5>3 DEF MaxOf
      <4>2. CASE t.page + t.height <= t.lines
        <5>1. skip = 0 /\ far.page = t.page + t.height
            BY <1>0, <3>4, <3>5, <3>7, <4>2
        <5>2. p.page = t.page
            BY <1>0, <3>8, <3>9, <5>1
        <5>3. FirstLine(t) = t.page
            BY <4>2 DEF FirstLine
        <5> QED
            BY <1>0, <3>8, <3>9, <4>2, <5>1, <5>2, <5>3
      <4> QED
          BY <1>0, <4>1, <4>2
    <3>11. keys = Offered(t, p.page, p.page + t.height)
      <4>1. {l \in t.jumps : back.page <= l /\ l < far.page}
            = {l \in t.jumps : p.page <= l /\ l < p.page + t.height}
          BY <1>0, <3>4, <3>5, <3>7, <3>8, <3>9
      <4> QED
          BY <4>1 DEF keys, Offered
    <3> QED
        BY <3>8, <3>9, <3>10, <3>11
  <2> QED
      BY <2>1, <2>2, <1>0
<1> DEFINE lastLine == LastLine(p, p.page)
           end == p.page + p.height - 1 >= lastLine
           next == IF end THEN p.lines ELSE p.page + p.height
           shown == IF end THEN lastLine - p.page + 1 ELSE p.height
           u1 == [p EXCEPT !.top = p.page]
           u2 == [u1 EXCEPT !.page = next]
           u3 == [u2 EXCEPT !.end_reached = end]
           u4 == [u3 EXCEPT !.page_length = shown]
<1>2. u = u4
    BY DEF PrintPage
<1>4. lastLine = t.lines
    BY <1>0, <1>1 DEF LastLine, SameText
<1>3. end \in BOOLEAN
    OBVIOUS
<1> HIDE DEF p
<1>5. p.height = t.height /\ p.lines = t.lines /\ DOMAIN p = TextFields
    BY <1>0, <1>1 DEF SameText
<1>6. end <=> p.page + t.height > t.lines
    BY <1>0, <1>1, <1>3, <1>4, <1>5
<1>7. next = MinOf(p.page + t.height, t.lines) /\ shown = MinOf(t.height, t.lines - p.page + 1)
    BY <1>0, <1>1, <1>3, <1>4, <1>5, <1>6 DEF MinOf
<1> HIDE DEF end, next, shown
<1>8. /\ SameText(u4, p) /\ u4.top = p.page /\ u4.page = next /\ u4.end_reached = end
      /\ u4.page_length = shown /\ u4.begin_reached = p.begin_reached /\ u4.keys = p.keys
    BY <1>5 DEF SameText, TextFields
<1> HIDE DEF u, u4
<1>9. SameText(u, t) /\ u.top = FirstLine(t) /\ TextKind(u) /\ u.ended
    BY <1>0, <1>1, <1>2, <1>8 DEF SameText, TextKind, Ready
<1>10. u.search => u.keys = Offered(u, u.top, u.top + u.height)
  <2>1. u.jumps = t.jumps /\ u.top = p.page /\ u.height = t.height /\ u.search = t.search
        /\ u.keys = p.keys
      BY <1>2, <1>8, <1>9 DEF SameText
  <2> QED
      BY <1>1, <2>1, OfferedForJumps
<1>11. Placed(u)
    BY <1>0, <1>1, <1>2, <1>3, <1>6, <1>7, <1>8, <1>9, <1>10 DEF SameText, Placed
<1> QED
    BY <1>9, <1>11 DEF u

\* Going back from a text on the screen leads to the line that is n above the end of what it shows.
LEMMA BackReady ==
    ASSUME NEW t, Placed(t), NEW n \in Nat
    PROVE  LET u == BackLines(t, n)
           IN /\ Ready(u) /\ SameText(u, t)
              /\ u.page = IF n = 0 THEN t.page ELSE MaxOf(MinOf(t.top + t.height, t.lines + 1) - n, 0)
<1> DEFINE u == BackLines(t, n)
           skip == IF n > 0 /\ t.page = t.lines /\ t.end_reached THEN 1 ELSE 0
<1>1. /\ TextKind(t) /\ t.lines \in Nat \ {0} /\ t.height \in Nat \ {0} /\ t.ended
      /\ t.top \in 0..t.lines /\ t.page \in 1..t.lines /\ t.page \in 0..t.lines
      /\ t.page = IF t.top + t.height > t.lines THEN t.lines ELSE t.top + t.height
      /\ t.end_reached <=> t.top + t.height > t.lines
    BY DEF Placed, TextKind, MinOf
<1>2. skip = IF n > 0 /\ t.top + t.height > t.lines THEN 1 ELSE 0
    BY <1>1
<1> HIDE DEF skip
<1>3. /\ SameText(u, t)
      /\ u.page \in 0..t.lines
      /\ u.page = IF t.page >= n - skip THEN t.page - (n - skip) ELSE 0
      /\ u.begin_reached \in BOOLEAN
      /\ u.begin_reached <=> n > skip /\ t.page <= n - skip
    BY <1>1, GoingBack DEF skip
<1> HIDE DEF u
<1>4. u.begin_reached <=> u.page = 0
    BY <1>1, <1>2, <1>3
<1>5. TextKind(u) /\ u.ended /\ u.page \in 0..u.lines
    BY <1>1, <1>3 DEF TextKind, SameText
<1>6. u.page = IF n = 0 THEN t.page ELSE MaxOf(MinOf(t.top + t.height, t.lines + 1) - n, 0)
    BY <1>1, <1>2, <1>3 DEF MinOf, MaxOf
<1> QED
    BY <1>3, <1>4, <1>5, <1>6 DEF u, Ready

\* back_lines and print_page change nothing of a text but where it stands, however it ends.
LEMMA BackStays ==
    ASSUME NEW t, TextKind(t), NEW n
    PROVE  LET u == BackLines(t, n) IN SameText(u, t) /\ TextKind(u)
<1> DEFINE skip == IF n > 0 /\ t.page = t.lines /\ t.end_reached THEN 1 ELSE 0
           back == MaxOf(t.page - MaxOf(n - skip, 0), 0)
           start == n > skip /\ t.page <= n - skip
           end == t.end_reached /\ skip = 0
           t1 == [t EXCEPT !.page = back]
           t2 == [t1 EXCEPT !.begin_reached = start]
           t3 == [t2 EXCEPT !.end_reached = end]
<1>1. BackLines(t, n) = t3
    BY DEF BackLines
<1> HIDE DEF back, start, end
<1>2. SameText(t3, t)
    BY DEF SameText, TextKind, TextFields
<1> HIDE DEF t3
<1>3. TextKind(t3)
    BY <1>2 DEF SameText, TextKind
<1> QED
    BY <1>1, <1>2, <1>3

LEMMA PageShows ==
    ASSUME NEW t, ToPrint(t)
    PROVE  OnScreen(PrintPage(t))
<1>1. CASE t.ended
  <2>1. Ready(t) /\ TextKind(t)
      BY <1>1 DEF ToPrint
  <2> DEFINE u == PrintPage(t)
  <2>2. Placed(u) /\ SameText(u, t)
      BY <2>1, PagePlaced
  <2> HIDE DEF u
  <2>3. OnScreen(u)
      BY <2>2 DEF OnScreen, Placed
  <2> QED
      BY <2>3 DEF u
<1>2. CASE ~t.ended
  <2> DEFINE lastLine == LastLine(t, t.page)
             over == t.page + t.height - 1 >= lastLine
             next == IF over THEN t.lines ELSE t.page + t.height
             length == IF over THEN lastLine - t.page + 1 ELSE t.height
             u1 == [t EXCEPT !.top = t.page]
             u2 == [u1 EXCEPT !.page = next]
             u3 == [u2 EXCEPT !.end_reached = over]
             u4 == [u3 EXCEPT !.page_length = length]
  <2>1. TextKind(t) /\ ~t.search
      BY <1>2 DEF ToPrint, TextKind
  <2>2. Prepared(t) = t
      BY <2>1, Zenon DEF Prepared
  <2>3. PrintPage(t) = u4
      BY <2>2 DEF PrintPage
  <2> HIDE DEF over, next, length
  <2>4. SameText(u4, t)
      BY <2>1 DEF SameText, TextKind, TextFields
  <2> HIDE DEF u4
  <2>5. TextKind(u4) /\ ~u4.ended
      BY <1>2, <2>1, <2>4 DEF SameText, TextKind
  <2> QED
      BY <2>3, <2>5 DEF OnScreen
<1>3. t.ended \in BOOLEAN
    BY DEF ToPrint, TextKind
<1> QED
    BY <1>1, <1>2

\* What the keys hand to print_page is a text to print.
LEMMA BackToPrint ==
    ASSUME NEW t, OnScreen(t), NEW n, t.ended => n \in Nat
    PROVE  ToPrint(BackLines(t, n))
<1> DEFINE u == BackLines(t, n)
<1>1. TextKind(u) /\ SameText(u, t)
    BY BackStays DEF OnScreen
<1>2. CASE t.ended
  <2>1. Ready(u)
      BY <1>2, BackReady DEF OnScreen
  <2> HIDE DEF u
  <2> QED
      BY <1>1, <2>1 DEF ToPrint, u
<1>3. CASE ~t.ended
  <2> HIDE DEF u
  <2>1. ~u.ended
      BY <1>1, <1>3 DEF SameText
  <2> QED
      BY <1>1, <2>1 DEF ToPrint, u
<1> QED
    BY <1>2, <1>3

\* page_length counts the lines on the screen.
LEMMA LengthShown ==
    ASSUME NEW t, Placed(t)
    PROVE  /\ t.page_length \in Nat \ {0}
           /\ t.page_length = MinOf(t.top + t.height, t.lines + 1) - t.top
BY DEF Placed, TextKind, MinOf

LEMMA TurnKeeps ==
    ASSUME TextInv, NEW t, ToPrint(t), Turn(t)
    PROVE  TextInv'
<1>1. text' = PrintPage(t) /\ vscroll' = vscroll
    BY DEF Turn
<1>2. OnScreen(text')
    BY <1>1, PageShows
<1> QED
    BY <1>1, <1>2 DEF TextInv

LEMMA TextStep == ASSUME TextInv, TextNext PROVE TextInv'
<1>0. vscroll \in Nat /\ (text # Nothing => OnScreen(text) /\ TextKind(text))
    BY DEF TextInv, OnScreen
<1>1. ASSUME NEW lines \in 1..MaxLines, NEW height \in BoxHeights, NEW ended \in BOOLEAN,
             NEW search \in BOOLEAN, search => ended, NEW jumps \in SUBSET (0..(lines - 1)),
             TextOpen(lines, ended, height, search, jumps)
      PROVE  TextInv'
  <2> DEFINE from == IF search THEN vscroll ELSE 0
             start == MinOf(from, lines)
             new == [lines |-> lines, ended |-> ended, height |-> height, search |-> search,
                     jumps |-> jumps, page |-> start, begin_reached |-> from = 0,
                     end_reached |-> FALSE, page_length |-> 0, top |-> 0, keys |-> {}]
  <2>1. from \in Nat /\ start \in 0..lines /\ (start = 0 <=> from = 0)
      BY <1>0 DEF MinOf
  <2>2. text' = PrintPage(new) /\ vscroll' = vscroll
      BY <1>1, Zenon DEF TextOpen
  <2> HIDE DEF from, start
  <2>3. lines \in Nat \ {0} /\ height \in Nat \ {0}
      BY TextBoxAssumption
  <2>4. TextKind(new)
      BY <1>1, <2>3 DEF TextKind, TextFields
  <2>5. new.ended => Ready(new)
      BY <2>1, <2>4 DEF Ready
  <2> HIDE DEF new
  <2>6. OnScreen(text')
      BY <2>2, <2>4, <2>5, PageShows DEF ToPrint
  <2> QED
      BY <1>0, <2>2, <2>6 DEF TextInv
<1>2. ASSUME FirstPage PROVE TextInv'
  <2> DEFINE t1 == [text EXCEPT !.begin_reached = TRUE]
             t == [t1 EXCEPT !.page = 0]
  <2>1. TextKind(text) /\ Turn(t)
      BY <1>0, <1>2 DEF FirstPage
  <2>2. TextKind(t) /\ t.page = 0 /\ t.begin_reached \in BOOLEAN /\ t.begin_reached
      BY <2>1 DEF TextKind, TextFields
  <2> HIDE DEF t
  <2>3. ToPrint(t)
      BY <2>2 DEF ToPrint, Ready, TextKind
  <2> QED
      BY <2>1, <2>3, TurnKeeps
<1>3. ASSUME LastPage PROVE TextInv'
  <2> DEFINE t1 == [text EXCEPT !.end_reached = TRUE]
             t == [t1 EXCEPT !.page = text.lines]
             u == BackLines(t, text.height)
             skip == IF text.height > 0 /\ t.page = t.lines /\ t.end_reached THEN 1 ELSE 0
  <2>1. TextKind(text) /\ Turn(u)
      BY <1>0, <1>3 DEF LastPage
  <2>2. SameText(t, text) /\ t.page = text.lines /\ t.end_reached = TRUE
      BY <2>1 DEF TextKind, TextFields, SameText
  <2> HIDE DEF t
  <2>3. TextKind(t) /\ t.page \in 0..t.lines
      BY <2>1, <2>2 DEF TextKind, SameText
  <2>4. skip = 1 /\ t.lines \in Nat \ {0} /\ text.height \in Nat \ {0} /\ t.page = t.lines
      BY <2>1, <2>2, <2>3 DEF TextKind, SameText
  <2> HIDE DEF skip
  <2>5. /\ SameText(u, t)
        /\ u.page \in 0..t.lines
        /\ u.page = IF t.page >= text.height - skip THEN t.page - (text.height - skip) ELSE 0
        /\ u.begin_reached \in BOOLEAN
        /\ u.begin_reached <=> text.height > skip /\ t.page <= text.height - skip
      BY <2>3, <2>4, GoingBack DEF skip
  <2>6. TextKind(u)
      BY <2>3, BackStays
  <2> HIDE DEF u
  <2>7. u.begin_reached <=> u.page = 0
      BY <2>4, <2>5
  <2>8. ToPrint(u)
      BY <2>5, <2>6, <2>7 DEF ToPrint, Ready, SameText
  <2> QED
      BY <2>1, <2>8, TurnKeeps
<1>4. ASSUME text # Nothing, NEW n, Turn(BackLines(text, n)), text.ended => n \in Nat PROVE TextInv'
    BY <1>0, <1>4, BackToPrint, TurnKeeps
<1>5. (text # Nothing /\ text.ended) => text.page_length \in Nat \ {0} /\ text.height \in Nat \ {0}
    BY <1>0, LengthShown DEF OnScreen, TextKind
<1>6. ASSUME PreviousLine PROVE TextInv'
    BY <1>4, <1>5, <1>6 DEF PreviousLine
<1>7. ASSUME PreviousPage PROVE TextInv'
    BY <1>4, <1>5, <1>7 DEF PreviousPage
<1>8. ASSUME NextLine PROVE TextInv'
    BY <1>4, <1>5, <1>8 DEF NextLine
<1>9. ASSUME NextPage PROVE TextInv'
  <2> DEFINE t == [text EXCEPT !.begin_reached = FALSE]
  <2>1. OnScreen(text) /\ TextKind(text) /\ Turn(t)
      BY <1>0, <1>9 DEF NextPage
  <2>2. TextKind(t) /\ t.page = text.page /\ SameText(t, text)
        /\ t.begin_reached \in BOOLEAN /\ ~t.begin_reached
      BY <2>1 DEF TextKind, TextFields, SameText
  <2> HIDE DEF t
  <2>3. text.ended => text.page \in 1..text.lines
      BY <2>1 DEF OnScreen, Placed, TextKind, MinOf
  <2>4. ToPrint(t)
      BY <2>2, <2>3 DEF ToPrint, Ready, SameText
  <2> QED
      BY <2>1, <2>4, TurnKeeps
<1>10. ASSUME Sideways PROVE TextInv'
    BY <1>4, <1>5, <1>10 DEF Sideways, Reprint
<1>11. ASSUME TextClose PROVE TextInv'
  <2>1. text # Nothing /\ text' = Nothing
        /\ vscroll' = IF text.search THEN Reprint(text).page ELSE vscroll
      BY <1>11 DEF TextClose
  <2>2. CASE text.search
    <3> DEFINE u == Reprint(text)
    <3>1. text.ended /\ Placed(text) /\ text.page_length \in Nat
        BY <1>0, <1>5, <2>1, <2>2 DEF TextKind, OnScreen
    <3>2. Ready(u)
        BY <3>1, BackReady DEF Reprint
    <3> HIDE DEF u
    <3>3. u.page \in Nat
        BY <3>2 DEF Ready, TextKind
    <3>4. vscroll' = u.page
        BY <2>1, <2>2 DEF u
    <3> QED
        BY <2>1, <3>3, <3>4 DEF TextInv
  <2>3. CASE ~text.search
      BY <1>0, <2>1, <2>3 DEF TextInv
  <2> QED
      BY <2>2, <2>3
<1>12. ASSUME NewSearch PROVE TextInv'
    BY <1>0, <1>12 DEF NewSearch, TextInv
<1>13. ASSUME NEW height \in BoxHeights, TextResize(height) PROVE TextInv'
  <2> DEFINE u == BackLines(text, text.height + 4)
             t == [u EXCEPT !.height = height]
  <2>1. OnScreen(text) /\ Turn(t) /\ text.height + 4 \in Nat
      BY <1>0, <1>13 DEF TextResize, TextKind
  <2>2. ToPrint(u)
      BY <2>1, BackToPrint
  <2> HIDE DEF u
  <2>3. DOMAIN u = TextFields /\ height \in Nat \ {0}
      BY <2>2, TextBoxAssumption DEF ToPrint, TextKind
  <2>4. /\ DOMAIN t = TextFields /\ t.height = height
        /\ t.lines = u.lines /\ t.ended = u.ended /\ t.search = u.search /\ t.jumps = u.jumps
        /\ t.page = u.page /\ t.begin_reached = u.begin_reached
      BY <2>3 DEF TextFields
  <2> HIDE DEF t
  <2>5. ToPrint(t)
      BY <2>2, <2>3, <2>4 DEF ToPrint, Ready, TextKind
  <2> QED
      BY <2>1, <2>5, TurnKeeps
<1>14. CASE \E lines \in 1..MaxLines, height \in BoxHeights :
               \/ \E ended \in BOOLEAN : TextOpen(lines, ended, height, FALSE, {})
               \/ \E jumps \in SUBSET (0..(lines - 1)) : TextOpen(lines, TRUE, height, TRUE, jumps)
  <2>1. PICK lines \in 1..MaxLines, height \in BoxHeights :
               \/ \E ended \in BOOLEAN : TextOpen(lines, ended, height, FALSE, {})
               \/ \E jumps \in SUBSET (0..(lines - 1)) : TextOpen(lines, TRUE, height, TRUE, jumps)
      BY <1>14
  <2>2. {} \in SUBSET (0..(lines - 1)) /\ TRUE \in BOOLEAN /\ FALSE \in BOOLEAN
      OBVIOUS
  <2> QED
      BY <1>1, <2>1, <2>2, Zenon
<1> QED
    BY <1>2, <1>3, <1>6, <1>7, <1>8, <1>9, <1>10, <1>11, <1>12, <1>13, <1>14, Zenon DEF TextNext

-----------------------------------------------------------------------------
(* The rows of the keys *)

\* Dividing by JumpNb leaves different remainders to numbers less than JumpNb apart.
LEMMA RemaindersDiffer ==
    ASSUME NEW d \in Nat \ {0}, NEW a \in Nat, NEW b \in Nat,
           a % d = b % d, a <= b, b - a < d
    PROVE  a = b
<1>1. a = (a \div d) * d + (a % d) /\ b = (b \div d) * d + (b % d)
    BY Z3
<1>2. a \div d \in Int /\ b \div d \in Int /\ a % d \in Int
    OBVIOUS
<1> DEFINE qa == a \div d
           qb == b \div d
           r == a % d
<1>3. a = qa * d + r /\ b = qb * d + r /\ qa \in Int /\ qb \in Int /\ r \in Int
    BY <1>1, <1>2
<1> HIDE DEF qa, qb, r
<1>4. CASE qa = qb
    BY <1>3, <1>4
<1>5. CASE qb > qa
  <2>1. qb * d >= (qa + 1) * d /\ (qa + 1) * d = qa * d + d
      BY <1>3, <1>5
  <2> QED
      BY <1>3, <2>1
<1>6. CASE qb < qa
  <2>1. qa * d >= (qb + 1) * d /\ (qb + 1) * d = qb * d + d
      BY <1>3, <1>6
  <2> QED
      BY <1>3, <2>1
<1> QED
    BY <1>3, <1>4, <1>5, <1>6

\* The rank of an element of a finite set of numbers.
Below(S, l) == {k \in S : k < l}

LEMMA RankBijection ==
    ASSUME NEW S, S \subseteq Nat, IsFiniteSet(S)
    PROVE  [l \in S |-> Cardinality(Below(S, l))] \in Bijection(S, 0..(Cardinality(S) - 1))
<1> DEFINE c == Cardinality(S)
           rank == [l \in S |-> Cardinality(Below(S, l))]
<1>1. c \in Nat
    BY FS_CardinalityType
<1>2. ASSUME NEW l \in S
      PROVE  IsFiniteSet(Below(S, l)) /\ Cardinality(Below(S, l)) \in 0..(c - 1)
  <2>1. Below(S, l) \in SUBSET S /\ Below(S, l) # S
      BY DEF Below
  <2>2. IsFiniteSet(Below(S, l)) /\ Cardinality(Below(S, l)) <= c /\ Cardinality(Below(S, l)) # c
      BY <2>1, FS_Subset, Zenon
  <2>3. Cardinality(Below(S, l)) \in Nat
      BY <2>2, FS_CardinalityType
  <2> QED
      BY <1>1, <2>2, <2>3
<1>3. ASSUME NEW l \in S, NEW m \in S, l < m
      PROVE  Cardinality(Below(S, l)) < Cardinality(Below(S, m))
  <2>1. Below(S, l) \in SUBSET Below(S, m) /\ Below(S, l) # Below(S, m)
    <3>1. l \in Below(S, m) /\ l \notin Below(S, l)
        BY <1>3 DEF Below
    <3>2. \A k \in Below(S, l) : k \in Below(S, m)
        BY <1>3 DEF Below
    <3> QED
        BY <3>1, <3>2, Zenon
  <2>2. Cardinality(Below(S, l)) <= Cardinality(Below(S, m))
        /\ Cardinality(Below(S, l)) # Cardinality(Below(S, m))
      BY <1>2, <2>1, FS_Subset, Zenon
  <2> QED
      BY <1>2, <2>2
<1> HIDE DEF c
<1>4. rank \in [S -> 0..(c - 1)]
    BY <1>2
<1>5. ASSUME NEW l \in S, NEW m \in S, rank[l] = rank[m] PROVE l = m
  <2>1. Cardinality(Below(S, l)) = Cardinality(Below(S, m))
      BY <1>5
  <2>2. Cardinality(Below(S, l)) \in Int
      BY <1>2
  <2>3. ~(l < m)
      BY <1>3, <2>1, <2>2
  <2>4. ~(m < l)
      BY <1>3, <2>1, <2>2
  <2> QED
      BY <2>3, <2>4
<1> HIDE DEF rank
<1>6. rank \in Injection(S, 0..(c - 1))
    BY <1>4, <1>5 DEF Injection, IsInjective
<1>7. IsFiniteSet(0..(c - 1)) /\ Cardinality(0..(c - 1)) = c
    BY <1>1, FS_Interval
<1>8. rank \in Surjection(S, 0..(c - 1))
    BY <1>6, <1>7, FS_Injection DEF c
<1> QED
    BY <1>6, <1>8 DEF Bijection, rank, c

\* As many elements are among the first n as there are, up to n.
LEMMA FirstOnes ==
    ASSUME NEW S, S \subseteq Nat, IsFiniteSet(S), NEW n \in Nat \ {0},
           NEW T, T = {l \in S : Cardinality(Below(S, l)) < n}
    PROVE  IsFiniteSet(T) /\ Cardinality(T) = MinOf(n, Cardinality(S))
<1> DEFINE c == Cardinality(S)
           rank == [l \in S |-> Cardinality(Below(S, l))]
           few == MinOf(n, c)
           rankT == [l \in T |-> rank[l]]
<1>1. c \in Nat
    BY FS_CardinalityType
<1>2. rank \in Bijection(S, 0..(c - 1)) /\ \A l \in S : rank[l] = Cardinality(Below(S, l))
    BY RankBijection
<1>3. T \in SUBSET S /\ IsFiniteSet(T)
    BY FS_Subset
<1> HIDE DEF c, rank
<1>4. /\ \A l \in S : rank[l] \in 0..(c - 1)
      /\ \A l, m \in S : rank[l] = rank[m] => l = m
      /\ \A r \in 0..(c - 1) : \E l \in S : rank[l] = r
    BY <1>2 DEF Bijection, Injection, IsInjective, Surjection
<1>5. few \in Nat /\ \A r \in Int : r \in 0..(few - 1) <=> r \in 0..(c - 1) /\ r < n
    BY <1>1 DEF MinOf
<1> HIDE DEF few
<1>6. \A l \in S : l \in T <=> rank[l] < n
    BY <1>2
<1>7. rankT \in [T -> 0..(few - 1)]
  <2>1. ASSUME NEW l \in T PROVE rank[l] \in 0..(few - 1)
    <3>1. l \in S /\ rank[l] \in Int
        BY <1>3, <1>4
    <3> QED
        BY <1>4, <1>5, <1>6, <3>1
  <2> QED
      BY <2>1
<1>8. \A r \in 0..(few - 1) : \E l \in T : rankT[l] = r
    BY <1>4, <1>5, <1>6
<1>9. rankT \in Bijection(T, 0..(few - 1))
    BY <1>3, <1>4, <1>7, <1>8 DEF Bijection, Injection, IsInjective, Surjection
<1> HIDE DEF rankT
<1>10. Cardinality(0..(few - 1)) = Cardinality(T)
    BY <1>3, <1>9, FS_Bijection DEF ExistsBijection
<1>11. Cardinality(0..(few - 1)) = few
    BY <1>5, FS_Interval
<1> QED
    BY <1>3, <1>10, <1>11 DEF few, c

\* The lines with a place to jump to, from one line to another.
PlacesIn(t, start, end) == {l \in t.jumps : start <= l /\ l < end}

\* The keys of a page are different, and every place in view has one while there are keys.
LEMMA OfferedRight ==
    ASSUME NEW t, t.jumps \subseteq Nat, IsFiniteSet(t.jumps), NEW start \in Nat, NEW end \in Nat,
           NEW shown, shown = PlacesIn(t, start, end),
           NEW keys, keys = Offered(t, start, end)
    PROVE  /\ \A k \in keys : k[2] \in shown
           /\ \A k1, k2 \in keys : k1[1] = k2[1] => k1 = k2
           /\ Cardinality(keys) = MinOf(JumpNb, Cardinality(shown))
<1> DEFINE before == {l \in t.jumps : l < start}
           taken == {l \in shown : Cardinality(Below(shown, l)) < JumpNb}
           key(l) == <<Number(t, l) % JumpNb, l>>
           keyOf == [l \in taken |-> key(l)]
<1>0. shown = {l \in t.jumps : start <= l /\ l < end}
    BY DEF PlacesIn
<1>1. JumpNb \in Nat \ {0}
    BY TextBoxAssumption
<1>2. shown \subseteq Nat /\ IsFiniteSet(shown) /\ IsFiniteSet(before)
    BY <1>0, FS_Subset
<1>3. keys = {key(l) : l \in taken}
    BY <1>0 DEF Offered, Below
<1>4. ASSUME NEW l \in shown
      PROVE  /\ Number(t, l) = Cardinality(before) + Cardinality(Below(shown, l))
             /\ Cardinality(before) \in Nat /\ Cardinality(Below(shown, l)) \in Nat
  <2>1. Below(shown, l) \in SUBSET shown
      BY DEF Below
  <2>2. IsFiniteSet(Below(shown, l))
      BY <1>2, <2>1, FS_Subset
  <2>3. {j \in t.jumps : j < l} = before \cup Below(shown, l)
      BY <1>0 DEF Below
  <2>4. before \cap Below(shown, l) = {}
      BY <1>0 DEF Below
  <2>5. Cardinality(before) \in Nat /\ Cardinality(Below(shown, l)) \in Nat
      BY <1>2, <2>2, FS_CardinalityType
  <2> HIDE DEF before
  <2>6. Cardinality(before \cup Below(shown, l))
            = Cardinality(before) + Cardinality(Below(shown, l)) - Cardinality({})
      BY <1>2, <2>2, <2>4, FS_Union
  <2>7. Cardinality({}) = 0
      BY FS_EmptySet
  <2>8. Number(t, l) = Cardinality(before \cup Below(shown, l))
      BY <2>3, Zenon DEF Number
  <2> DEFINE b == Cardinality(before)
             r == Cardinality(Below(shown, l))
  <2>9. Number(t, l) = b + r - 0
      BY <2>6, <2>7, <2>8, Zenon
  <2> HIDE DEF b, r
  <2>10. Number(t, l) = b + r
      BY <2>5, <2>9 DEF b, r
  <2> QED
      BY <2>5, <2>10 DEF b, r
<1>5. \A l, m \in shown : Cardinality(Below(shown, l)) = Cardinality(Below(shown, m)) => l = m
  <2> DEFINE rank == [l \in shown |-> Cardinality(Below(shown, l))]
  <2>1. rank \in Bijection(shown, 0..(Cardinality(shown) - 1))
      BY <1>2, RankBijection
  <2>2. \A l \in shown : rank[l] = Cardinality(Below(shown, l))
      OBVIOUS
  <2> HIDE DEF rank
  <2>3. \A l, m \in shown : rank[l] = rank[m] => l = m
      BY <2>1 DEF Bijection, Injection, IsInjective
  <2> QED
      BY <2>2, <2>3
<1>6. ASSUME NEW l \in taken, NEW m \in taken, Number(t, l) % JumpNb = Number(t, m) % JumpNb
      PROVE  l = m
  <2> DEFINE rl == Cardinality(Below(shown, l))
             rm == Cardinality(Below(shown, m))
             b == Cardinality(before)
  <2>1. Number(t, l) = b + rl /\ Number(t, m) = b + rm /\ b \in Nat /\ rl \in Nat /\ rm \in Nat
      BY <1>4
  <2>2. rl < JumpNb /\ rm < JumpNb
      OBVIOUS
  <2> HIDE DEF rl, rm, b
  <2>3. (b + rl) % JumpNb = (b + rm) % JumpNb
      BY <1>6, <2>1
  <2>4. CASE rl <= rm
    <3>1. b + rl \in Nat /\ b + rm \in Nat /\ b + rl <= b + rm /\ b + rm - (b + rl) < JumpNb
        BY <1>1, <2>1, <2>2, <2>4
    <3> QED
        BY <1>1, <1>5, <2>1, <2>3, <3>1, RemaindersDiffer DEF rl, rm
  <2>5. CASE rm <= rl
    <3>1. b + rl \in Nat /\ b + rm \in Nat /\ b + rm <= b + rl /\ b + rl - (b + rm) < JumpNb
        BY <1>1, <2>1, <2>2, <2>5
    <3> QED
        BY <1>1, <1>5, <2>1, <2>3, <3>1, RemaindersDiffer DEF rl, rm
  <2> QED
      BY <2>1, <2>4, <2>5
<1>7. taken \in SUBSET shown /\ IsFiniteSet(taken)
      /\ Cardinality(taken) = MinOf(JumpNb, Cardinality(shown))
    BY <1>1, <1>2, FirstOnes
<1> HIDE DEF taken
<1>8. keyOf \in Bijection(taken, keys)
  <2>1. keyOf \in [taken -> keys]
      BY <1>3
  <2>2. \A l, m \in taken : keyOf[l] = keyOf[m] => l = m
      OBVIOUS
  <2>3. \A k \in keys : \E l \in taken : keyOf[l] = k
      BY <1>3
  <2> HIDE DEF keyOf
  <2> QED
      BY <2>1, <2>2, <2>3 DEF Bijection, Injection, IsInjective, Surjection
<1>9. Cardinality(keys) = Cardinality(taken)
    BY <1>7, <1>8, FS_Bijection DEF ExistsBijection
<1>10. \A k \in keys : k[2] \in shown
    BY <1>3, <1>7
<1>11. \A k1, k2 \in keys : k1[1] = k2[1] => k1 = k2
    BY <1>3, <1>6
<1> QED
    BY <1>7, <1>9, <1>10, <1>11

-----------------------------------------------------------------------------
(* The theorems *)

\* Every step of the system is a step of the text box, or leaves it alone.
LEMMA TextAlways == Spec => []TextInv
<1>1. Init => TextInv
    BY DEF Init, TextInit, TextInv
<1>2. TextInv /\ [Next]_vars => TextInv'
  <2>1. CASE TextNext
      BY <2>1, TextStep
  <2>2. CASE UNCHANGED textVars
      BY <2>2 DEF textVars, TextInv
  <2> QED
      BY <2>1, <2>2, Zenon DEF Next, vars, boxes
<1> QED
    BY <1>1, <1>2, PTL DEF Spec

\* dialog_textbox knows which lines it shows.
THEOREM KeepsPlaceAlways == Spec => []KeepsPlace
<1>1. TextInv => KeepsPlace
  <2> SUFFICES ASSUME OnScreen(text), text.ended
               PROVE  /\ Reprint(text).page = text.top
                      /\ text.begin_reached = (text.top = 0)
                      /\ text.end_reached = (text.top + text.height > text.lines)
      BY Zenon DEF TextInv, KeepsPlace
  <2>1. Placed(text)
      BY DEF OnScreen
  <2> DEFINE length == text.page_length
             end == MinOf(text.top + text.height, text.lines + 1)
             u == Reprint(text)
  <2>2. length \in Nat \ {0} /\ length = end - text.top
      BY <2>1, LengthShown
  <2>3. u.page = IF length = 0 THEN text.page ELSE MaxOf(end - length, 0)
      BY <2>1, <2>2, BackReady DEF Reprint
  <2>4. text.top \in Nat /\ end \in Nat /\ text.height \in Nat /\ text.lines \in Nat
      BY <2>1 DEF Placed, TextKind, MinOf
  <2> HIDE DEF length, end
  <2>5. MaxOf(end - length, 0) = text.top
      BY <2>2, <2>4 DEF MaxOf
  <2>6. Reprint(text).page = text.top
      BY <2>2, <2>3, <2>5
  <2>7. text.begin_reached = (text.top = 0)
      BY <2>1 DEF Placed
  <2>8. text.end_reached = (text.top + text.height > text.lines)
      BY <2>1, <2>4 DEF Placed
  <2> QED
      BY <2>6, <2>7, <2>8
<1> QED
    BY <1>1, TextAlways, PTL

\* The keys of a page of search results belong to its lines.
THEOREM KeysMatchAlways == Spec => []KeysMatchPage
<1>1. TextInv => KeysMatchPage
  <2> SUFFICES ASSUME OnScreen(text), text.search,
                      NEW shown, shown = PlacesIn(text, text.top, text.top + text.height)
               PROVE  /\ \A k \in text.keys : k[2] \in shown
                      /\ \A k1, k2 \in text.keys : k1[1] = k2[1] => k1 = k2
                      /\ Cardinality(text.keys) = MinOf(JumpNb, Cardinality(shown))
      BY Zenon DEF TextInv, KeysMatchPage, PlacesIn
  <2>1. TextKind(text) /\ Placed(text)
      BY DEF OnScreen, TextKind
  <2>2. text.top \in Nat /\ text.top + text.height \in Nat /\ text.lines \in Nat
        /\ text.jumps \in SUBSET (0..(text.lines - 1))
      BY <2>1 DEF TextKind, Placed
  <2>3. text.jumps \subseteq Nat /\ IsFiniteSet(text.jumps)
    <3>1. 0 \in Int /\ text.lines - 1 \in Int
        BY <2>2
    <3>2. IsFiniteSet(0..(text.lines - 1))
        BY <3>1, FS_Interval, Zenon
    <3>3. IsFiniteSet(text.jumps)
        BY <2>2, <3>2, FS_Subset, Zenon
    <3> QED
        BY <2>2, <3>3
  <2>4. text.keys = Offered(text, text.top, text.top + text.height)
      BY <2>1 DEF Placed
  <2> DEFINE keys == Offered(text, text.top, text.top + text.height)
  <2>5. \A k \in keys : k[2] \in shown
      BY <2>2, <2>3, OfferedRight
  <2>6. \A k1, k2 \in keys : k1[1] = k2[1] => k1 = k2
      BY <2>2, <2>3, OfferedRight
  <2>7. Cardinality(keys) = MinOf(JumpNb, Cardinality(shown))
      BY <2>2, <2>3, OfferedRight
  <2> HIDE DEF keys
  <2> QED
      BY <2>4, <2>5, <2>6, <2>7, Zenon DEF keys
<1> QED
    BY <1>1, TextAlways, PTL

\* Where print_page begins, after the keys that turn a page or move by a line.
LEMMA PageTurned ==
    ASSUME NEW t, Placed(t), NEW u, Ready(u), SameText(u, t)
    PROVE  LET top == PrintPage(u).top
           IN /\ top = IF ~t.search \/ u.page + t.height <= t.lines THEN u.page
                       ELSE MaxOf(t.lines - t.height + 1, 0)
              /\ t.lines \in Nat \ {0} /\ t.height \in Nat \ {0} /\ t.top \in 0..t.lines
              /\ t.search => t.top = 0 \/ t.top + t.height <= t.lines + 1
BY PagePlaced DEF FirstLine, SameText, Placed, TextKind

\* No key of a text jumps over a line.
THEOREM NoLineMissedEver == Spec => NoLineMissed
<1> DEFINE NotMissed ==
        (text # Nothing /\ text.ended) =>
          /\ NextPage => text'.top > text.top /\ text'.top <= text.top + text.height
          /\ PreviousPage => text'.top < text.top /\ text'.top + text.height >= text.top
          /\ NextLine => text'.top = text.top + 1
          /\ PreviousLine => text'.top = text.top - 1
<1>1. TextInv => NotMissed
  <2> SUFFICES ASSUME Placed(text), text.ended
               PROVE  NotMissed
      BY Zenon DEF TextInv, OnScreen
  <2>1. /\ text.page_length \in Nat \ {0}
        /\ text.page_length = MinOf(text.top + text.height, text.lines + 1) - text.top
      BY LengthShown
  <2>2. /\ text.lines \in Nat \ {0} /\ text.height \in Nat \ {0} /\ text.top \in 0..text.lines
        /\ text.page = MinOf(text.top + text.height, text.lines)
        /\ text.begin_reached <=> text.top = 0
        /\ text.end_reached <=> text.top + text.height > text.lines
        /\ TextKind(text)
        /\ text.search => text.top = 0 \/ text.top + text.height <= text.lines + 1
      BY DEF Placed, TextKind
  <2>3. ASSUME NEW n \in Nat, Turn(BackLines(text, n)), NEW page,
               page = IF n = 0 THEN text.page
                      ELSE MaxOf(MinOf(text.top + text.height, text.lines + 1) - n, 0)
        PROVE  text'.top = IF ~text.search \/ page + text.height <= text.lines THEN page
                           ELSE MaxOf(text.lines - text.height + 1, 0)
    <3> DEFINE u == BackLines(text, n)
    <3>1. Ready(u) /\ SameText(u, text) /\ u.page = page
        BY <2>3, BackReady
    <3>2. text' = PrintPage(u)
        BY <2>3 DEF Turn
    <3> HIDE DEF u
    <3> QED
        BY <3>1, <3>2, PageTurned
  <2>4. ASSUME NextPage
        PROVE  text'.top > text.top /\ text'.top <= text.top + text.height
    <3> DEFINE u == [text EXCEPT !.begin_reached = FALSE]
    <3>1. text' = PrintPage(u) /\ ~text.end_reached
        BY <2>4 DEF NextPage, Turn
    <3>2. SameText(u, text) /\ u.page = text.page /\ u.begin_reached \in BOOLEAN /\ ~u.begin_reached
        BY <2>2 DEF TextKind, TextFields, SameText
    <3> HIDE DEF u
    <3>3. u.page = text.top + text.height /\ text.top + text.height <= text.lines
        BY <2>2, <3>1, <3>2 DEF MinOf
    <3>4. TextKind(u) /\ u.ended
        BY <2>2, <3>2 DEF TextKind, SameText
    <3>5. Ready(u)
        BY <2>2, <3>2, <3>3, <3>4 DEF Ready, SameText
    <3>6. text'.top = IF ~text.search \/ u.page + text.height <= text.lines THEN u.page
                      ELSE MaxOf(text.lines - text.height + 1, 0)
        BY <3>1, <3>2, <3>5, PageTurned
    <3> QED
        BY <2>2, <3>3, <3>6 DEF MaxOf
  <2>5. ASSUME PreviousPage
        PROVE  text'.top < text.top /\ text'.top + text.height >= text.top
    <3> DEFINE n == text.page_length + text.height
               page == MaxOf(text.top - text.height, 0)
    <3>1. Turn(BackLines(text, n)) /\ ~text.begin_reached
        BY <2>5 DEF PreviousPage
    <3>2. n \in Nat /\ n # 0
          /\ MinOf(text.top + text.height, text.lines + 1) - n = text.top - text.height
        BY <2>1, <2>2 DEF MinOf
    <3> HIDE DEF n
    <3>3. text'.top = IF ~text.search \/ page + text.height <= text.lines THEN page
                      ELSE MaxOf(text.lines - text.height + 1, 0)
        BY <2>3, <3>1, <3>2
    <3> QED
        BY <2>2, <3>1, <3>3 DEF MaxOf
  <2>6. ASSUME NextLine PROVE text'.top = text.top + 1
    <3> DEFINE n == text.page_length - 1
               page == text.top + 1
    <3>1. Turn(BackLines(text, n)) /\ ~text.end_reached
        BY <2>6 DEF NextLine
    <3>2. n \in Nat /\ text.top + text.height <= text.lines
          /\ page = IF n = 0 THEN text.page
                    ELSE MaxOf(MinOf(text.top + text.height, text.lines + 1) - n, 0)
        BY <2>1, <2>2, <3>1 DEF MinOf, MaxOf
    <3> HIDE DEF n
    <3>3. text'.top = IF ~text.search \/ page + text.height <= text.lines THEN page
                      ELSE MaxOf(text.lines - text.height + 1, 0)
        BY <2>3, <3>1, <3>2
    <3> QED
        BY <2>2, <3>2, <3>3 DEF MaxOf
  <2>7. ASSUME PreviousLine PROVE text'.top = text.top - 1
    <3> DEFINE n == text.page_length + 1
               page == text.top - 1
    <3>1. Turn(BackLines(text, n)) /\ ~text.begin_reached
        BY <2>7 DEF PreviousLine
    <3>2. n \in Nat
          /\ page = IF n = 0 THEN text.page
                    ELSE MaxOf(MinOf(text.top + text.height, text.lines + 1) - n, 0)
        BY <2>1, <2>2, <3>1 DEF MinOf, MaxOf
    <3> HIDE DEF n
    <3>3. text'.top = IF ~text.search \/ page + text.height <= text.lines THEN page
                      ELSE MaxOf(text.lines - text.height + 1, 0)
        BY <2>3, <3>1, <3>2
    <3> QED
        BY <2>2, <3>1, <3>3 DEF MaxOf
  <2> QED
      BY <2>4, <2>5, <2>6, <2>7
<1>2. TextInv => [NotMissed]_vars
    BY <1>1
<1> QED
    BY <1>2, TextAlways, PTL DEF NoLineMissed
=============================================================================
