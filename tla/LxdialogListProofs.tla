------------------------ MODULE LxdialogListProofs ------------------------
(***************************************************************************)
(* Proofs about the two boxes of Lxdialog that show a list, and about the  *)
(* list of nconf and the search in it, for lists of any length and windows *)
(* of any height.                                                          *)
(***************************************************************************)
EXTENDS Lxdialog, WellFoundedInduction, TLAPS

(* Windows *)

\* A window without a highlight is one whose highlighted row is behind the items.
Clear(h, shown, top) == DrawRows(h, shown, top, shown)

LEMMA ClearWindow ==
    ASSUME NEW h \in Nat, NEW shown \in 0..h, NEW top \in Int
    PROVE  Clear(h, shown, top) = [rows |-> [i \in 0..(h - 1) |-> IF i < shown THEN top + i ELSE Blank],
                                   lit |-> {}]
<1>1. ~(shown < shown)
  OBVIOUS
<1>2. (IF shown < shown THEN {shown} ELSE {}) = {}
  BY <1>1
<1> QED BY <1>2, Zenon DEF Clear, DrawRows

\* Printing the highlighted item anew takes the highlight from it.
LEMMA DimmedWindow ==
    ASSUME NEW h \in Nat, NEW shown \in 0..h, NEW top \in Int, NEW row \in 0..(shown - 1)
    PROVE  PrintRow(DrawRows(h, shown, top, row), row, top + row, FALSE) = Clear(h, shown, top)
<1> DEFINE rows == [i \in 0..(h - 1) |-> IF i < shown THEN top + i ELSE Blank]
<1>1. [rows EXCEPT ![row] = top + row] = rows
  OBVIOUS
<1>2. row < shown /\ {row} \ {row} = {}
  OBVIOUS
<1> HIDE DEF rows
<1>3. DrawRows(h, shown, top, row) = [rows |-> rows, lit |-> {row}]
  BY <1>2 DEF DrawRows, rows
<1>4. Clear(h, shown, top) = [rows |-> rows, lit |-> {}]
  BY ClearWindow DEF rows
<1> QED BY <1>1, <1>2, <1>3, <1>4 DEF PrintRow

\* Printing an item of a window without a highlight puts one on it.
LEMMA LitWindow ==
    ASSUME NEW h \in Nat, NEW shown \in 0..h, NEW top \in Int, NEW row \in 0..(shown - 1)
    PROVE  PrintRow(Clear(h, shown, top), row, top + row, TRUE) = DrawRows(h, shown, top, row)
<1> DEFINE rows == [i \in 0..(h - 1) |-> IF i < shown THEN top + i ELSE Blank]
<1>1. [rows EXCEPT ![row] = top + row] = rows
  OBVIOUS
<1>2. row < shown /\ {} \cup {row} = {row}
  OBVIOUS
<1> HIDE DEF rows
<1>3. DrawRows(h, shown, top, row) = [rows |-> rows, lit |-> {row}]
  BY <1>2 DEF DrawRows, rows
<1>4. Clear(h, shown, top) = [rows |-> rows, lit |-> {}]
  BY ClearWindow DEF rows
<1> QED BY <1>1, <1>2, <1>3, <1>4 DEF PrintRow

\* Scrolling a full window, or not at all, shows the list from another item on.
LEMMA ScrolledWindow ==
    ASSUME NEW h \in Nat, NEW shown \in 0..h, NEW top \in Int, NEW k \in Int, shown = h \/ k = 0
    PROVE  ScrollRows(Clear(h, shown, top), k, top + k) = Clear(h, shown, top + k)
<1> DEFINE rows == [i \in 0..(h - 1) |-> IF i < shown THEN top + i ELSE Blank]
           after == [i \in 0..(h - 1) |-> IF i < shown THEN top + k + i ELSE Blank]
           moved == [i \in DOMAIN rows |-> IF i + k \in DOMAIN rows THEN rows[i + k] ELSE top + k + i]
<1>1. moved = after
  <2>1. DOMAIN rows = 0..(h - 1)
    OBVIOUS
  <2>2. ASSUME NEW i \in 0..(h - 1) PROVE moved[i] = after[i]
    <3>1. CASE shown = h
      <4>1. i < shown
        BY <3>1
      <4>2. i + k \in 0..(h - 1) => i + k < shown /\ top + (i + k) = top + k + i
        BY <3>1
      <4> QED BY <4>1, <4>2, <2>1
    <3>2. CASE k = 0
      BY <3>2, <2>1
    <3> QED BY <3>1, <3>2
  <2> QED BY <2>1, <2>2
<1>2. Clear(h, shown, top) = [rows |-> rows, lit |-> {}]
  BY ClearWindow
<1>3. Clear(h, shown, top + k) = [rows |-> after, lit |-> {}]
  <2>1. top + k \in Int
    OBVIOUS
  <2> QED BY <2>1, ClearWindow
<1>4. ScrollRows([rows |-> rows, lit |-> {}], k, top + k) = [rows |-> moved, lit |-> {}]
  <2> HIDE DEF rows
  <2> QED BY DEF ScrollRows
<1> HIDE DEF rows, after, moved
<1> QED BY <1>1, <1>2, <1>3, <1>4

\* A set of rows has a first one.
LEMMA FirstRow ==
    ASSUME NEW S, S \subseteq Nat, S # {}
    PROVE  \E i \in S : \A j \in S : i <= j
<1> DEFINE R == OpToRel(<, Nat)
<1>1. IsWellFoundedOn(R, Nat)
  BY NatLessThanWellFounded
<1>2. \A x, y \in Nat : x < y => <<x, y>> \in R
  BY DEF OpToRel
<1> HIDE DEF R
<1>3. PICK i \in S : \A j \in S : ~(<<j, i>> \in R)
  BY <1>1, WFMin
<1>4. ASSUME NEW j \in S PROVE i <= j
  <2>1. i \in Nat /\ j \in Nat
    OBVIOUS
  <2>2. ~(j < i)
    BY <2>1, <1>2, <1>3
  <2> QED BY <2>1, <2>2
<1> QED BY <1>4
-----------------------------------------------------------------------------
(* The menu box *)

MenuFields == {"n", "height", "selected", "first", "scroll", "choice", "win", "up", "down",
               "button", "shown", "resized", "off"}

\* What a call of dialog_menu starts and goes on with: the item asked for, and the highlight, are
\* in the list.
Sized(m) ==
    /\ DOMAIN m = MenuFields
    /\ m.n \in Nat /\ m.height \in Nat \ {0} /\ m.first \in Int
    /\ m.selected = Blank \/ m.selected \in 0..(m.n - 1)
    /\ m.choice \in Nat /\ (m.n = 0 => m.choice = 0) /\ (m.n > 0 => m.choice < m.n)

\* The highlight is in the window and the window in the list.
Placed(m) ==
    /\ Sized(m)
    /\ m.scroll \in 0..(m.n - MaxChoice(m))
    /\ m.n > 0 => m.choice < MaxChoice(m)

\* The window shows the list from scroll on, with a row highlighted.
Window(m, row) == m.off = 0 => m.win = DrawRows(m.height, MaxChoice(m), m.scroll, row)

MenuShows(m) ==
    /\ Placed(m) /\ Window(m, m.choice)
    /\ m.up = (m.scroll > 0) /\ m.down = (m.scroll + m.height < m.n)

\* The highlight was taken away, on a list that is not empty.
MenuDimmed(m) == Placed(m) /\ m.n > 0 /\ Window(m, MaxChoice(m))

LEMMA WindowSize ==
    ASSUME NEW m, Sized(m)
    PROVE  /\ MaxChoice(m) \in 0..m.height /\ MaxChoice(m) <= m.n /\ MaxChoice(m) \in Nat
           /\ MaxChoice(m) = m.height \/ MaxChoice(m) = m.n
           /\ m.n > 0 => MaxChoice(m) > 0
  BY DEF Sized, MaxChoice, MinOf

\* The arrows tell whether the list goes on above and below the window.
LEMMA ArrowsTell ==
    ASSUME NEW m, Placed(m), Window(m, m.choice)
    PROVE  MenuShows(Arrows(m))
<1> DEFINE a == Arrows(m)
<1>1. /\ DOMAIN a = MenuFields /\ a.n = m.n /\ a.height = m.height /\ a.selected = m.selected
      /\ a.first = m.first /\ a.scroll = m.scroll /\ a.choice = m.choice /\ a.win = m.win /\ a.off = m.off
      /\ a.up = (m.scroll > 0) /\ a.down = (m.height < m.n /\ m.scroll + m.height < m.n)
  BY DEF Arrows, Placed, Sized, MenuFields
<1>2. m.scroll \in Nat /\ m.n \in Nat /\ m.height \in Nat
  BY WindowSize DEF Placed, Sized
<1>3. (m.height < m.n /\ m.scroll + m.height < m.n) = (m.scroll + m.height < m.n)
  BY <1>2
<1> HIDE DEF a
<1>4. Placed(a) /\ Window(a, a.choice)
  BY <1>1 DEF Placed, Sized, MaxChoice, Window
<1>5. a.down = (a.scroll + a.height < a.n)
  <2>1. a.down = (m.scroll + m.height < m.n)
    BY <1>1, <1>3
  <2> QED BY <2>1, <1>1
<1>6. a.up = (a.scroll > 0)
  BY <1>1
<1> QED BY <1>4, <1>5, <1>6 DEF MenuShows, a

\* From the label do_resize on, the box shows the item asked for or the highlighted one; and where
\* the saved position has that item in a full window, it is kept.
LEMMA DrawPlaces ==
    ASSUME NEW m, Sized(m), s_scroll \in Nat
    PROVE  /\ MenuShows(Draw(m)) /\ Draw(m).n = m.n /\ Draw(m).height = m.height
           /\ Draw(m).selected = m.selected
           /\ LET c == IF m.selected # Blank THEN m.selected ELSE m.choice
              IN KeepsScroll(m, c) => Draw(m).scroll = s_scroll /\ Draw(m).choice = c - s_scroll
<1> DEFINE c == IF m.selected # Blank THEN m.selected ELSE m.choice
           kept == KeepsScroll(m, c)
           far == ~kept /\ c >= MaxChoice(m)
           scroll == IF kept THEN s_scroll ELSE IF far THEN Centred(m, c) ELSE 0
           first == IF kept \/ far THEN scroll ELSE m.first
           off == first - scroll
           win == DrawRows(m.height, MaxChoice(m), first, c - scroll)
           d == [m EXCEPT !.scroll = scroll, !.first = first, !.choice = c - scroll,
                          !.off = off, !.shown = 0, !.win = win]
<1>1. /\ MaxChoice(m) \in 0..m.height /\ MaxChoice(m) <= m.n /\ MaxChoice(m) \in Nat
      /\ m.n > 0 => MaxChoice(m) > 0
      /\ m.n \in Nat /\ m.height \in Nat /\ m.first \in Int
  BY WindowSize DEF Sized
<1>2. c \in Nat /\ (m.n = 0 => c = 0) /\ (m.n > 0 => c < m.n)
  BY <1>1 DEF Sized, Blank
<1>3. /\ scroll \in 0..(m.n - MaxChoice(m)) /\ c - scroll \in Nat
      /\ m.n > 0 => c - scroll < MaxChoice(m)
      /\ m.n = 0 => c - scroll = 0
  <2> HIDE DEF c
  <2>1. CASE kept
    BY <1>1, <1>2, <2>1 DEF KeepsScroll
  <2>2. CASE far
    <3> DEFINE half == MaxChoice(m) \div 2
    <3>1. half \in Nat /\ 2 * half <= MaxChoice(m) /\ MaxChoice(m) <= 2 * half + 1
      BY <1>1
    <3>2. scroll = IF c >= m.n - half THEN m.n - MaxChoice(m) ELSE c - half
      BY <2>2 DEF Centred
    <3> HIDE DEF half, scroll
    <3> QED BY <1>1, <1>2, <2>2, <3>1, <3>2
  <2>3. CASE ~kept /\ ~far
    BY <1>1, <1>2, <2>3
  <2> QED BY <2>1, <2>2, <2>3
<1>4. Draw(m) = Arrows(d)
  BY DEF Draw
<1>5. kept => scroll = s_scroll
  OBVIOUS
<1>6. first \in Int /\ (off = 0 => first = scroll)
  <2>1. CASE kept \/ far
    BY <1>3, <2>1
  <2>2. CASE ~(kept \/ far)
    <3>1. scroll = 0 /\ first = m.first
      BY <2>2
    <3> HIDE DEF scroll, first
    <3> QED BY <1>1, <3>1
  <2> QED BY <2>1, <2>2
<1> HIDE DEF c, kept, far, scroll, first, off, win
<1>7. /\ DOMAIN d = MenuFields /\ d.n = m.n /\ d.height = m.height /\ d.selected = m.selected
      /\ d.first = first /\ d.scroll = scroll /\ d.choice = c - scroll /\ d.win = win /\ d.off = off
  BY DEF Sized, MenuFields
<1> HIDE DEF d
<1>8. MaxChoice(d) = MaxChoice(m)
  BY <1>7 DEF MaxChoice
<1>9. Placed(d)
  BY <1>1, <1>2, <1>3, <1>6, <1>7, <1>8 DEF Placed, Sized
<1>10. Window(d, d.choice)
  BY <1>6, <1>7, <1>8 DEF Window, win
<1>11. MenuShows(Arrows(d))
  BY <1>9, <1>10, ArrowsTell
<1>12. Arrows(d).scroll = scroll /\ Arrows(d).choice = c - scroll /\ Arrows(d).n = m.n
       /\ Arrows(d).height = m.height /\ Arrows(d).selected = m.selected
  BY <1>7 DEF Arrows, MenuFields
<1>13. kept => Arrows(d).scroll = s_scroll /\ Arrows(d).choice = c - s_scroll
  BY <1>5, <1>12
<1> QED BY <1>4, <1>11, <1>12, <1>13 DEF kept, c

\* A key that moves the highlight begins by taking it from its item,
LEMMA MenuDims ==
    ASSUME NEW m, MenuShows(m), m.n > 0
    PROVE  MenuDimmed(Dim(m))
<1> DEFINE win == PrintRow(m.win, m.choice, m.scroll + m.choice, FALSE)
           d == [m EXCEPT !.win = win]
<1>1. Placed(m) /\ Sized(m) /\ Window(m, m.choice)
  BY DEF MenuShows, Placed
<1>2. /\ MaxChoice(m) \in 0..m.height /\ m.height \in Nat /\ m.scroll \in Int
      /\ m.choice \in 0..(MaxChoice(m) - 1)
  BY <1>1, WindowSize DEF Placed, Sized
<1>3. m.off = 0 => win = Clear(m.height, MaxChoice(m), m.scroll)
  BY <1>1, <1>2, DimmedWindow DEF Window
<1>4. Dim(m) = d
  BY DEF Dim
<1> HIDE DEF win
<1>5. /\ DOMAIN d = MenuFields /\ d.n = m.n /\ d.height = m.height /\ d.selected = m.selected
      /\ d.first = m.first /\ d.scroll = m.scroll /\ d.choice = m.choice /\ d.win = win /\ d.off = m.off
  BY <1>1 DEF Sized, MenuFields
<1> HIDE DEF d
<1>6. Placed(d)
  BY <1>1, <1>5 DEF Placed, Sized, MaxChoice
<1>7. Window(d, MaxChoice(d))
  BY <1>3, <1>5 DEF Window, Clear, MaxChoice
<1> QED BY <1>4, <1>5, <1>6, <1>7 DEF MenuDimmed

\* ends by putting it on one,
LEMMA MenuLights ==
    ASSUME NEW m, MenuDimmed(m)
    PROVE  MenuShows(Light(m))
<1> DEFINE win == PrintRow(m.win, m.choice, m.scroll + m.choice, TRUE)
           d == [m EXCEPT !.win = win]
<1>1. Placed(m) /\ Sized(m) /\ Window(m, MaxChoice(m)) /\ m.n > 0
  BY DEF MenuDimmed, Placed
<1>2. /\ MaxChoice(m) \in 0..m.height /\ m.height \in Nat /\ m.scroll \in Int
      /\ m.choice \in 0..(MaxChoice(m) - 1)
  BY <1>1, WindowSize DEF Placed, Sized
<1>3. m.off = 0 => win = DrawRows(m.height, MaxChoice(m), m.scroll, m.choice)
  <2>1. m.off = 0 => m.win = Clear(m.height, MaxChoice(m), m.scroll)
    BY <1>1 DEF Window, Clear
  <2> QED BY <2>1, <1>2, LitWindow
<1>4. Light(m) = Arrows(d)
  BY DEF Light
<1> HIDE DEF win
<1>5. /\ DOMAIN d = MenuFields /\ d.n = m.n /\ d.height = m.height /\ d.selected = m.selected
      /\ d.first = m.first /\ d.scroll = m.scroll /\ d.choice = m.choice /\ d.win = win /\ d.off = m.off
  BY <1>1 DEF Sized, MenuFields
<1> HIDE DEF d
<1>6. Placed(d)
  BY <1>1, <1>5 DEF Placed, Sized, MaxChoice
<1>7. Window(d, d.choice)
  BY <1>3, <1>5 DEF Window, MaxChoice
<1> QED BY <1>4, <1>6, <1>7, ArrowsTell

\* and between the two scrolls the window within the list
LEMMA MenuScrolls ==
    ASSUME NEW m, MenuDimmed(m), NEW k \in Int, m.scroll + k \in 0..(m.n - MaxChoice(m))
    PROVE  LET d == Scrolled(m, k)
           IN MenuDimmed(d) /\ d.n = m.n /\ d.height = m.height /\ d.choice = m.choice /\ d.scroll = m.scroll + k
<1> DEFINE scroll == m.scroll + k
           win == ScrollRows(m.win, k, scroll)
           d == [m EXCEPT !.scroll = scroll, !.win = win]
<1>1. Placed(m) /\ Sized(m) /\ Window(m, MaxChoice(m)) /\ m.n > 0
  BY DEF MenuDimmed, Placed
<1>2. MaxChoice(m) \in 0..m.height /\ m.height \in Nat /\ m.scroll \in Int
  BY <1>1, WindowSize DEF Placed, Sized
<1>3. MaxChoice(m) = m.height \/ k = 0
  BY <1>1, <1>2, WindowSize DEF Placed, Sized
<1>4. m.off = 0 => win = Clear(m.height, MaxChoice(m), scroll)
  <2>1. m.off = 0 => m.win = Clear(m.height, MaxChoice(m), m.scroll)
    BY <1>1 DEF Window, Clear
  <2> QED BY <2>1, <1>2, <1>3, ScrolledWindow
<1>5. Scrolled(m, k) = d
  BY DEF Scrolled
<1>6. scroll \in 0..(m.n - MaxChoice(m))
  OBVIOUS
<1> HIDE DEF win, scroll
<1>7. /\ DOMAIN d = MenuFields /\ d.n = m.n /\ d.height = m.height /\ d.selected = m.selected
      /\ d.first = m.first /\ d.scroll = scroll /\ d.choice = m.choice /\ d.win = win /\ d.off = m.off
  BY <1>1 DEF Sized, MenuFields
<1> HIDE DEF d
<1>8. Placed(d)
  BY <1>1, <1>6, <1>7 DEF Placed, Sized, MaxChoice
<1>9. Window(d, MaxChoice(d))
  BY <1>4, <1>7 DEF Window, Clear, MaxChoice
<1>10. MenuDimmed(d)
  BY <1>1, <1>7, <1>8, <1>9 DEF MenuDimmed
<1> QED BY <1>5, <1>7, <1>10 DEF scroll

\* or goes to another of its rows.
LEMMA MenuChooses ==
    ASSUME NEW m, MenuDimmed(m), NEW c \in 0..(MaxChoice(m) - 1)
    PROVE  MenuDimmed([m EXCEPT !.choice = c])
<1> DEFINE d == [m EXCEPT !.choice = c]
<1>1. Placed(m) /\ Sized(m) /\ Window(m, MaxChoice(m)) /\ m.n > 0
  BY DEF MenuDimmed, Placed
<1>2. /\ DOMAIN d = MenuFields /\ d.n = m.n /\ d.height = m.height /\ d.selected = m.selected
      /\ d.first = m.first /\ d.scroll = m.scroll /\ d.choice = c /\ d.win = m.win /\ d.off = m.off
  BY <1>1 DEF Sized, MenuFields
<1>3. MaxChoice(m) <= m.n /\ MaxChoice(m) \in Nat /\ m.n \in Nat
  BY <1>1, WindowSize DEF Sized
<1> HIDE DEF d
<1>4. Placed(d)
  BY <1>1, <1>2, <1>3 DEF Placed, Sized, MaxChoice
<1>5. Window(d, MaxChoice(d))
  BY <1>1, <1>2 DEF Window, MaxChoice
<1> QED BY <1>1, <1>2, <1>4, <1>5 DEF MenuDimmed, d

\* The five keys that move the highlight.
LEMMA MenuMoves ==
    ASSUME NEW m, MenuDimmed(m)
    PROVE  /\ MenuDimmed(Up(m)) /\ MenuDimmed(Down(m)) /\ MenuDimmed(PageUp(m)) /\ MenuDimmed(PageDown(m))
           /\ \A letter : Hits(m, letter) # {} => MenuDimmed(Jump(m, letter))
<1> DEFINE max == MaxChoice(m)
<1>1. /\ max \in Nat /\ max > 0 /\ m.n \in Nat /\ max <= m.n
      /\ m.scroll \in 0..(m.n - max) /\ m.choice \in 0..(max - 1)
  BY WindowSize DEF MenuDimmed, Placed, Sized
<1>2. ASSUME NEW k \in Int, m.scroll + k \in 0..(m.n - max), NEW c \in 0..(max - 1)
      PROVE  MenuDimmed([Scrolled(m, k) EXCEPT !.choice = c])
  <2>1. MenuDimmed(Scrolled(m, k)) /\ MaxChoice(Scrolled(m, k)) = max
    BY <1>2, MenuScrolls DEF MaxChoice
  <2> QED BY <2>1, MenuChooses
<1>3. MenuDimmed(Up(m))
  <2>1. CASE m.choice < 2 /\ m.scroll > 0
    <3>1. m.scroll + (-1) \in 0..(m.n - max)
      BY <1>1, <2>1
    <3> QED BY <2>1, <3>1, MenuScrolls DEF Up
  <2>2. CASE ~(m.choice < 2 /\ m.scroll > 0)
    <3>1. MaxOf(m.choice - 1, 0) \in 0..(max - 1)
      BY <1>1 DEF MaxOf
    <3>2. Up(m) = [m EXCEPT !.choice = MaxOf(m.choice - 1, 0)]
      BY <2>2 DEF Up
    <3> QED BY <3>1, <3>2, MenuChooses
  <2> QED BY <2>1, <2>2
<1>4. MenuDimmed(Down(m))
  <2>1. CASE m.choice > max - 3 /\ m.scroll + max < m.n
    <3>1. m.scroll + 1 \in 0..(m.n - max)
      BY <1>1, <2>1
    <3> QED BY <2>1, <3>1, MenuScrolls DEF Down
  <2>2. CASE ~(m.choice > max - 3 /\ m.scroll + max < m.n)
    <3>1. MinOf(m.choice + 1, max - 1) \in 0..(max - 1)
      BY <1>1 DEF MinOf
    <3>2. Down(m) = [m EXCEPT !.choice = MinOf(m.choice + 1, max - 1)]
      BY <2>2 DEF Down
    <3> QED BY <3>1, <3>2, MenuChooses
  <2> QED BY <2>1, <2>2
<1>5. MenuDimmed(PageUp(m))
  <2> DEFINE steps == MinOf(max, m.scroll)
             k == -steps
             c == MaxOf(m.choice - (max - steps), 0)
  <2>1. k \in Int /\ m.scroll + k \in 0..(m.n - max) /\ c \in 0..(max - 1)
    BY <1>1 DEF MinOf, MaxOf
  <2>2. Scrolled(m, k).choice = m.choice
    BY <2>1, MenuScrolls
  <2>3. PageUp(m) = [Scrolled(m, k) EXCEPT !.choice = c]
    BY <2>2 DEF PageUp
  <2> HIDE DEF max, k, c
  <2> QED BY <1>2, <2>1, <2>3
<1>6. MenuDimmed(PageDown(m))
  <2> DEFINE steps == MinOf(max, m.n - max - m.scroll)
             c == MinOf(m.choice + (max - steps), max - 1)
  <2>1. steps \in Int /\ m.scroll + steps \in 0..(m.n - max) /\ c \in 0..(max - 1)
    BY <1>1 DEF MinOf
  <2>2. Scrolled(m, steps).choice = m.choice
    BY <2>1, MenuScrolls
  <2>3. PageDown(m) = [Scrolled(m, steps) EXCEPT !.choice = c]
    BY <2>2 DEF PageDown
  <2> HIDE DEF max, steps, c
  <2> QED BY <1>2, <2>1, <2>3
<1>7. ASSUME NEW letter, Hits(m, letter) # {} PROVE MenuDimmed(Jump(m, letter))
  <2> DEFINE below == {i \in Hits(m, letter) : i > m.choice}
             among == IF below # {} THEN below ELSE Hits(m, letter)
             c == CHOOSE i \in among : \A j \in among : i <= j
  <2>1. among \subseteq 0..(max - 1) /\ among # {}
    BY <1>7 DEF Hits
  <2>2. \E i \in among : \A j \in among : i <= j
    <3>1. among \subseteq Nat
      BY <1>1, <2>1
    <3> HIDE DEF among
    <3> QED BY <2>1, <3>1, FirstRow
  <2>3. c \in 0..(max - 1)
    <3> HIDE DEF among
    <3>1. c \in among
      BY <2>2
    <3> QED BY <2>1, <3>1
  <2>4. Jump(m, letter) = [m EXCEPT !.choice = c]
    BY DEF Jump
  <2> HIDE DEF c
  <2> QED BY <2>3, <2>4, MenuChooses
<1> QED BY <1>3, <1>4, <1>5, <1>6, <1>7
-----------------------------------------------------------------------------
\* How the last menu looked is how the next one would have to look, and the position saved is its.
LastInv ==
    /\ s_scroll \in Nat
    /\ last # Nothing =>
          LET max == MinOf(last.height, last.n)
          IN /\ last.n \in Nat /\ last.height \in Nat \ {0}
             /\ last.scroll = s_scroll /\ last.scroll \in 0..(last.n - max)
             /\ last.choice \in Nat /\ (last.n > 0 => last.choice < max)

MenuInv == LastInv /\ (menu # Nothing => MenuShows(menu))

LEMMA MenuStep == ASSUME MenuInv, MenuNext PROVE MenuInv'
<1>1. ASSUME NEW n \in 0..MaxItems, NEW height \in 1..MaxHeight, NEW selected \in {Blank} \cup (0..(n - 1)),
             MenuOpen(n, height, selected)
      PROVE  MenuInv'
  <2> DEFINE m == [n |-> n, height |-> height, selected |-> selected, first |-> 0,
                   scroll |-> 0, choice |-> 0, win |-> DrawRows(0, 0, 0, 0),
                   up |-> FALSE, down |-> FALSE, button |-> 0, shown |-> 0,
                   resized |-> FALSE, off |-> 0]
  <2>1. menu' = Draw(m)
    BY <1>1 DEF MenuOpen
  <2>2. Sized(m)
    <3>1. n \in Nat /\ height \in Nat \ {0}
      BY MenuBoxAssumption
    <3>2. DOMAIN m = MenuFields
      BY DEF MenuFields
    <3> QED BY <3>1, <3>2 DEF Sized
  <2> HIDE DEF m
  <2>3. MenuShows(menu')
    BY <2>1, <2>2, DrawPlaces DEF MenuInv, LastInv
  <2> QED BY <1>1, <2>3 DEF MenuOpen, MenuInv, LastInv
<1>2. ASSUME NEW m, menu # Nothing, menu.n # 0, MenuDimmed(Dim(menu)) => MenuDimmed(m), MoveTo(m)
      PROVE  MenuInv'
  <2>1. MenuShows(menu) /\ menu.n > 0
    BY <1>2 DEF MenuInv, MenuShows, Placed, Sized
  <2>2. MenuShows(Light(m))
    BY <1>2, <2>1, MenuDims, MenuLights
  <2> QED BY <1>2, <2>2 DEF MoveTo, MenuInv, LastInv
<1>3. CASE MenuUp
  BY <1>2, <1>3, MenuMoves DEF MenuUp, MoveTo
<1>4. CASE MenuDown
  BY <1>2, <1>4, MenuMoves DEF MenuDown, MoveTo
<1>5. CASE MenuPageUp
  BY <1>2, <1>5, MenuMoves DEF MenuPageUp, MoveTo
<1>6. CASE MenuPageDown
  BY <1>2, <1>6, MenuMoves DEF MenuPageDown, MoveTo
<1>7. CASE MenuLetter
  <2>1. PICK letter \in Letters : Hits(menu, letter) # {} /\ MoveTo(Jump(Dim(menu), letter))
    BY <1>7 DEF MenuLetter
  <2>2. menu # Nothing /\ menu.n # 0 /\ MenuShows(menu)
    BY <1>7, <2>1 DEF MenuLetter, MoveTo, MenuInv
  <2>3. Hits(Dim(menu), letter) = Hits(menu, letter)
    BY <2>2 DEF Dim, Hits, MaxChoice, MenuShows, Placed, Sized, MenuFields
  <2>4. MenuDimmed(Dim(menu)) => MenuDimmed(Jump(Dim(menu), letter))
    BY <2>1, <2>3, MenuMoves
  <2> QED BY <1>2, <2>1, <2>2, <2>4
<1>8. CASE MenuButton
  <2>1. PICK b : menu' = [menu EXCEPT !.button = b, !.shown = b] /\ menu # Nothing
                 /\ UNCHANGED <<s_scroll, last, died>>
    BY <1>8 DEF MenuButton
  <2>2. MenuShows(menu) /\ DOMAIN menu = MenuFields
    BY <2>1 DEF MenuInv, MenuShows, Placed, Sized
  <2>3. /\ DOMAIN menu' = MenuFields /\ menu'.n = menu.n /\ menu'.height = menu.height
        /\ menu'.selected = menu.selected /\ menu'.first = menu.first /\ menu'.scroll = menu.scroll
        /\ menu'.choice = menu.choice /\ menu'.win = menu.win /\ menu'.off = menu.off
        /\ menu'.up = menu.up /\ menu'.down = menu.down
    BY <2>1, <2>2 DEF MenuFields
  <2>4. MenuShows(menu')
    BY <2>2, <2>3 DEF MenuShows, Placed, Sized, Window, MaxChoice
  <2> QED BY <2>1, <2>4 DEF MenuInv, LastInv
<1>9. ASSUME NEW key \in Commands, MenuReturn(key) PROVE MenuInv'
  <2>1. MenuShows(menu)
    BY <1>9 DEF MenuInv, MenuReturn
  <2>2. menu.n \in Nat /\ menu.height \in Nat \ {0} /\ menu.scroll \in 0..(menu.n - MaxChoice(menu))
        /\ menu.choice \in Nat /\ (menu.n > 0 => menu.choice < MaxChoice(menu)) /\ menu.scroll \in Nat
    BY <2>1, WindowSize DEF MenuShows, Placed, Sized
  <2>3. LastInv'
    BY <1>9, <2>2 DEF MenuReturn, LastInv, MaxChoice
  <2> QED BY <1>9, <2>3 DEF MenuReturn, MenuInv
<1>10. ASSUME NEW key \in Leaving, MenuLeave(key) PROVE MenuInv'
  BY <1>10 DEF MenuLeave, MenuInv, LastInv
<1>11. ASSUME NEW height \in 1..MaxHeight, MenuResize(height) PROVE MenuInv'
  <2> DEFINE m == [menu EXCEPT !.height = height, !.resized = TRUE]
  <2>1. MenuShows(menu) /\ Sized(menu) /\ height \in Nat \ {0}
    BY <1>11, MenuBoxAssumption DEF MenuInv, MenuResize, MenuShows, Placed
  <2>2. Sized(m)
    BY <2>1 DEF Sized, MenuFields
  <2>3. menu' = Nothing \/ menu' = Draw(m)
    BY <1>11 DEF MenuResize
  <2> HIDE DEF m
  <2>4. menu' # Nothing => MenuShows(menu')
    BY <2>2, <2>3, DrawPlaces DEF MenuInv, LastInv
  <2> QED BY <1>11, <2>4 DEF MenuResize, MenuInv, LastInv
<1> QED BY <1>1, <1>3, <1>4, <1>5, <1>6, <1>7, <1>8, <1>9, <1>10, <1>11 DEF MenuNext
-----------------------------------------------------------------------------
(* The box for a choice *)

ListFields == {"n", "scroll", "choice", "win", "up", "down", "button", "shown", "resized"}

ListPlaced(l) ==
    /\ DOMAIN l = ListFields /\ l.n \in Nat \ {0}
    /\ l.scroll \in 0..(l.n - ListMax(l)) /\ l.choice \in 0..(ListMax(l) - 1)

ListShows(l) ==
    /\ ListPlaced(l)
    /\ l.win = DrawRows(ListHeight, ListMax(l), l.scroll, l.choice)
    /\ l.up = (l.scroll > 0)
    /\ ~l.resized => l.down = (l.scroll + ListHeight < l.n)

ListInv == list # Nothing => ListShows(list)

LEMMA ListSize ==
    ASSUME NEW l, l.n \in Nat \ {0}
    PROVE  /\ ListMax(l) \in 0..ListHeight /\ ListMax(l) <= l.n /\ ListMax(l) > 0
           /\ ListMax(l) = ListHeight \/ ListMax(l) = l.n
           /\ ListHeight \in Nat /\ ListHeight > 0
  BY CheckListAssumption DEF ListMax, MinOf

\* The arrows of a window at an edge of which the highlight stands, or of a list that fits. The one
\* below depends on the highlight, which is where a resize finds it wrong.
LEMMA ListArrowsTell ==
    ASSUME NEW l, ListPlaced(l), l.win = DrawRows(ListHeight, ListMax(l), l.scroll, l.choice),
           \/ l.resized = TRUE \/ l.scroll = 0 \/ l.choice = ListMax(l) - 1
           \/ l.choice = 0 /\ l.scroll + ListHeight < l.n
    PROVE  ListShows(ListArrows(l))
<1> DEFINE down == ListHeight < l.n /\ l.scroll + l.choice < l.n - 1
           a == ListArrows(l)
<1>1. /\ ListMax(l) \in 0..ListHeight /\ ListMax(l) <= l.n /\ ListMax(l) > 0
      /\ ListMax(l) = ListHeight \/ ListMax(l) = l.n
      /\ ListHeight \in Nat /\ ListHeight > 0
      /\ l.n \in Nat /\ l.scroll \in 0..(l.n - ListMax(l)) /\ l.choice \in 0..(ListMax(l) - 1)
  BY ListSize DEF ListPlaced
<1>2. ~l.resized => down = (l.scroll + ListHeight < l.n)
  BY <1>1
<1>3. /\ DOMAIN a = ListFields /\ a.n = l.n /\ a.scroll = l.scroll /\ a.choice = l.choice
      /\ a.win = l.win /\ a.resized = l.resized /\ a.up = (l.scroll > 0) /\ a.down = down
  BY DEF ListArrows, ListPlaced, ListFields
<1> HIDE DEF a, down
<1>4. ListPlaced(a) /\ a.win = DrawRows(ListHeight, ListMax(a), a.scroll, a.choice)
  BY <1>3 DEF ListPlaced, ListMax
<1>5. a.up = (a.scroll > 0)
  BY <1>3
<1>6. ~a.resized => a.down = (a.scroll + ListHeight < a.n)
  BY <1>2, <1>3
<1> QED BY <1>4, <1>5, <1>6 DEF ListShows, a

\* From the label do_resize on, the choice is in the window, at its end if it was below.
LEMMA ListDrawShows ==
    ASSUME NEW l, DOMAIN l = ListFields, l.n \in Nat \ {0}, l.choice \in 0..(l.n - 1),
           l.scroll = 0 \/ (ListPlaced(l) /\ l.resized = TRUE)
    PROVE  ListShows(ListDraw(l))
<1> DEFINE over == IF l.choice >= ListHeight THEN l.choice - ListHeight + 1 ELSE 0
           scroll == IF over > 0 THEN over ELSE l.scroll
           choice == l.choice - over
           win == DrawRows(ListHeight, ListMax(l), scroll, choice)
           d == [l EXCEPT !.scroll = scroll, !.choice = choice, !.shown = 0, !.win = win]
<1>1. /\ ListMax(l) \in 0..ListHeight /\ ListMax(l) <= l.n /\ ListMax(l) > 0
      /\ ListMax(l) = ListHeight \/ ListMax(l) = l.n
      /\ ListHeight \in Nat /\ ListHeight > 0 /\ l.n \in Nat
  BY ListSize
<1>2. /\ scroll \in 0..(l.n - ListMax(l)) /\ choice \in 0..(ListMax(l) - 1)
      /\ l.resized = TRUE \/ scroll = 0 \/ choice = ListMax(l) - 1
  <2>1. CASE l.choice >= ListHeight
    BY <1>1, <2>1
  <2>2. CASE l.choice < ListHeight
    BY <1>1, <2>2 DEF ListPlaced
  <2>3. l.choice >= ListHeight \/ l.choice < ListHeight
    BY <1>1
  <2> HIDE DEF over, scroll, choice
  <2> QED BY <2>1, <2>2, <2>3
<1>3. ListDraw(l) = ListArrows(d)
  BY DEF ListDraw
<1> HIDE DEF over, scroll, choice, win
<1>4. /\ DOMAIN d = ListFields /\ d.n = l.n /\ d.scroll = scroll /\ d.choice = choice
      /\ d.win = win /\ d.resized = l.resized
  BY DEF ListFields
<1> HIDE DEF d
<1>5. ListMax(d) = ListMax(l)
  BY <1>4 DEF ListMax
<1>6. ListPlaced(d)
  BY <1>2, <1>4, <1>5 DEF ListPlaced
<1>7. d.win = DrawRows(ListHeight, ListMax(d), d.scroll, d.choice)
  BY <1>4, <1>5 DEF win
<1>8. d.resized = TRUE \/ d.scroll = 0 \/ d.choice = ListMax(d) - 1
  BY <1>2, <1>4, <1>5
<1> QED BY <1>3, <1>6, <1>7, <1>8, ListArrowsTell

\* The highlight goes to another row, and the window stays.
LEMMA ListHighlights ==
    ASSUME NEW l, ListShows(l), NEW i \in 0..(ListMax(l) - 1)
    PROVE  ListShows(Highlight(l, i))
<1> DEFINE dim == PrintRow(l.win, l.choice, l.scroll + l.choice, FALSE)
           win == PrintRow(dim, i, l.scroll + i, TRUE)
           d == [l EXCEPT !.choice = i, !.win = win]
<1>1. /\ ListPlaced(l) /\ ListMax(l) \in 0..ListHeight /\ ListHeight \in Nat /\ l.scroll \in Int
      /\ l.choice \in 0..(ListMax(l) - 1)
  BY ListSize DEF ListShows, ListPlaced
<1>2. dim = Clear(ListHeight, ListMax(l), l.scroll)
  BY <1>1, DimmedWindow DEF ListShows
<1> HIDE DEF dim
<1>3. win = DrawRows(ListHeight, ListMax(l), l.scroll, i)
  BY <1>1, <1>2, LitWindow
<1>4. Highlight(l, i) = d
  BY DEF Highlight, dim
<1> HIDE DEF win
<1>5. /\ DOMAIN d = ListFields /\ d.n = l.n /\ d.scroll = l.scroll /\ d.choice = i
      /\ d.win = win /\ d.resized = l.resized /\ d.up = l.up /\ d.down = l.down
  BY <1>1 DEF ListPlaced, ListFields
<1> HIDE DEF d
<1>6. ListMax(d) = ListMax(l)
  BY <1>5 DEF ListMax
<1>7. ListPlaced(d)
  BY <1>1, <1>5, <1>6 DEF ListPlaced
<1> QED BY <1>3, <1>4, <1>5, <1>6, <1>7 DEF ListShows

\* At an edge of the window the list scrolls by one row under the highlight. A window of one row
\* has nothing to move: its only item is printed over.
LEMMA ListScrollShows ==
    ASSUME NEW l, ListShows(l), NEW k \in {-1, 1}, l.scroll + k \in 0..(l.n - ListMax(l)),
           IF k = 1 THEN l.choice = ListMax(l) - 1 ELSE l.choice = 0
    PROVE  ListShows(ListScroll(l, k))
<1> DEFINE max == ListMax(l)
           scroll == l.scroll + k
           dim == PrintRow(l.win, l.choice, l.scroll + l.choice, FALSE)
           moved == IF ListHeight > 1 THEN ScrollRows(dim, k, scroll) ELSE dim
           win == PrintRow(moved, l.choice, scroll + l.choice, TRUE)
           d == [l EXCEPT !.scroll = scroll, !.win = win]
<1>1. /\ ListPlaced(l) /\ max \in 0..ListHeight /\ ListHeight \in Nat /\ ListHeight > 0
      /\ l.scroll \in Int /\ l.choice \in 0..(max - 1) /\ scroll \in 0..(l.n - max) /\ scroll \in Int
  BY ListSize DEF ListShows, ListPlaced
<1>2. max = ListHeight /\ l.n \in Nat
  BY <1>1, ListSize DEF ListPlaced
<1>3. dim = Clear(ListHeight, max, l.scroll)
  BY <1>1, DimmedWindow DEF ListShows
<1> HIDE DEF dim, max
<1>4. win = DrawRows(ListHeight, max, scroll, l.choice)
  <2>1. CASE ListHeight > 1
    <3>1. moved = ScrollRows(dim, k, scroll)
      BY <2>1
    <3>2. ScrollRows(Clear(ListHeight, max, l.scroll), k, l.scroll + k) = Clear(ListHeight, max, scroll)
      <4>1. k \in Int /\ (max = ListHeight \/ k = 0)
        BY <1>2
      <4> QED BY <1>1, <4>1, ScrolledWindow
    <3>3. moved = Clear(ListHeight, max, scroll)
      <4> HIDE DEF moved
      <4> QED BY <1>3, <3>1, <3>2
    <3> HIDE DEF moved, scroll
    <3> QED BY <1>1, <3>3, LitWindow
  <2>2. CASE ~(ListHeight > 1)
    <3>1. ListHeight = 1 /\ l.choice = 0 /\ max = 1
      BY <1>1, <1>2, <2>2
    <3>2. moved = [rows |-> [i \in 0..0 |-> IF i < 1 THEN l.scroll + i ELSE Blank], lit |-> {}]
      <4>1. Clear(ListHeight, max, l.scroll)
            = [rows |-> [i \in 0..(ListHeight - 1) |-> IF i < max THEN l.scroll + i ELSE Blank], lit |-> {}]
        BY <1>1, ClearWindow
      <4>2. moved = dim
        BY <2>2
      <4>3. ListHeight - 1 = 0
        BY <3>1
      <4> HIDE DEF moved
      <4> QED BY <1>3, <3>1, <4>1, <4>2, <4>3, Zenon
    <3> HIDE DEF moved, scroll
    <3>3. [[i \in 0..0 |-> IF i < 1 THEN l.scroll + i ELSE Blank] EXCEPT ![0] = scroll + 0]
          = [i \in 0..0 |-> IF i < 1 THEN scroll + i ELSE Blank]
      BY <1>1
    <3>4. {} \cup {0} = {0}
      OBVIOUS
    <3>5. win = [rows |-> [i \in 0..0 |-> IF i < 1 THEN scroll + i ELSE Blank], lit |-> {0}]
      BY <3>1, <3>2, <3>3, <3>4 DEF PrintRow
    <3>6. DrawRows(1, 1, scroll, 0) = [rows |-> [i \in 0..0 |-> IF i < 1 THEN scroll + i ELSE Blank], lit |-> {0}]
      BY DEF DrawRows
    <3> QED BY <3>1, <3>5, <3>6
  <2> QED BY <2>1, <2>2
<1>5. ListScroll(l, k) = ListArrows(d)
  BY DEF ListScroll, dim
<1>6. l.resized = TRUE \/ scroll = 0 \/ l.choice = max - 1 \/ (l.choice = 0 /\ scroll + ListHeight < l.n)
  BY <1>1, <1>2 DEF ListPlaced, max
<1> HIDE DEF win, moved, scroll
<1>7. /\ DOMAIN d = ListFields /\ d.n = l.n /\ d.scroll = scroll /\ d.choice = l.choice
      /\ d.win = win /\ d.resized = l.resized
  BY <1>1 DEF ListPlaced, ListFields
<1> HIDE DEF d
<1>8. ListMax(d) = max
  BY <1>7 DEF ListMax, max
<1>9. ListPlaced(d)
  BY <1>1, <1>7, <1>8 DEF ListPlaced, max
<1>10. d.win = DrawRows(ListHeight, ListMax(d), d.scroll, d.choice)
  BY <1>4, <1>7, <1>8
<1>11. \/ d.resized = TRUE \/ d.scroll = 0 \/ d.choice = ListMax(d) - 1
       \/ d.choice = 0 /\ d.scroll + ListHeight < d.n
  BY <1>6, <1>7, <1>8
<1> QED BY <1>5, <1>9, <1>10, <1>11, ListArrowsTell

LEMMA ListStep == ASSUME ListInv, ListNext PROVE ListInv'
<1>1. ASSUME NEW n \in 1..MaxItems, NEW current \in 0..(n - 1), ListOpen(n, current) PROVE ListInv'
  <2> DEFINE l == [n |-> n, scroll |-> 0, choice |-> current, win |-> DrawRows(0, 0, 0, 0),
                   up |-> FALSE, down |-> FALSE, button |-> 0, shown |-> 0, resized |-> FALSE]
  <2>1. list' = ListDraw(l)
    BY <1>1 DEF ListOpen
  <2>2. DOMAIN l = ListFields /\ l.n \in Nat \ {0} /\ l.choice \in 0..(l.n - 1) /\ l.scroll = 0
    BY MenuBoxAssumption DEF ListFields
  <2> HIDE DEF l
  <2> QED BY <2>1, <2>2, ListDrawShows DEF ListInv
<1>2. ASSUME list # Nothing
      PROVE  ListShows(list) /\ ListPlaced(list) /\ list.choice \in 0..(ListMax(list) - 1) /\ ListMax(list) \in Nat
             /\ list.scroll \in 0..(list.n - ListMax(list)) /\ list.n \in Nat /\ ListMax(list) <= list.n
  BY <1>2, ListSize DEF ListInv, ListShows, ListPlaced
<1>3. CASE ListUp
  <2>1. CASE list.choice > 0
    <3>1. list.choice - 1 \in 0..(ListMax(list) - 1) /\ ListShows(list)
      BY <1>2, <1>3, <2>1 DEF ListUp
    <3>2. list' = Highlight(list, list.choice - 1)
      BY <1>3, <2>1 DEF ListUp
    <3> QED BY <3>1, <3>2, ListHighlights DEF ListInv
  <2>2. CASE ~(list.choice > 0)
    <3>1. list.scroll > 0 /\ list' = ListScroll(list, -1)
      BY <1>3, <2>2 DEF ListUp
    <3>2. list.scroll + (-1) \in 0..(list.n - ListMax(list)) /\ list.choice = 0 /\ ListShows(list)
      BY <1>2, <1>3, <2>2, <3>1 DEF ListUp
    <3> QED BY <3>1, <3>2, ListScrollShows DEF ListInv
  <2> QED BY <2>1, <2>2
<1>4. CASE ListDown
  <2>1. CASE list.choice # ListMax(list) - 1
    <3>1. list.choice + 1 \in 0..(ListMax(list) - 1) /\ ListShows(list)
      BY <1>2, <1>4, <2>1 DEF ListDown
    <3>2. list' = Highlight(list, list.choice + 1)
      BY <1>4, <2>1 DEF ListDown
    <3> QED BY <3>1, <3>2, ListHighlights DEF ListInv
  <2>2. CASE list.choice = ListMax(list) - 1
    <3>1. list.scroll + list.choice < list.n - 1 /\ list' = ListScroll(list, 1)
      BY <1>4, <2>2 DEF ListDown
    <3>2. list.scroll + 1 \in 0..(list.n - ListMax(list)) /\ ListShows(list)
      BY <1>2, <1>4, <2>2, <3>1 DEF ListDown
    <3> QED BY <2>2, <3>1, <3>2, ListScrollShows DEF ListInv
  <2> QED BY <2>1, <2>2
<1>5. CASE ListLetter
  <2>1. PICK letter \in Letters :
           /\ ListHits(list, letter) # {}
           /\ LET i == CHOOSE i \in ListHits(list, letter) : \A j \in ListHits(list, letter) : i <= j
              IN list' = IF i = list.choice THEN list ELSE Highlight(list, i)
    BY <1>5 DEF ListLetter
  <2> DEFINE hits == ListHits(list, letter)
             i == CHOOSE i \in hits : \A j \in hits : i <= j
  <2>2. hits \subseteq 0..(ListMax(list) - 1) /\ hits # {}
    BY <2>1 DEF ListHits
  <2>3. \E h \in hits : \A j \in hits : h <= j
    <3>1. hits \subseteq Nat
      BY <2>2
    <3> HIDE DEF hits
    <3> QED BY <2>2, <3>1, FirstRow
  <2>4. i \in 0..(ListMax(list) - 1)
    <3> HIDE DEF hits
    <3>1. i \in hits
      BY <2>3
    <3> QED BY <2>2, <3>1
  <2>5. list' = list \/ list' = Highlight(list, i)
    BY <2>1
  <2>6. ListShows(list)
    BY <1>2, <1>5 DEF ListLetter
  <2> HIDE DEF i
  <2> QED BY <2>4, <2>5, <2>6, ListHighlights DEF ListInv
<1>6. CASE ListButton
  <2>1. PICK b : list' = [list EXCEPT !.button = b, !.shown = b] /\ list # Nothing
    BY <1>6 DEF ListButton
  <2>2. ListShows(list) /\ DOMAIN list = ListFields
    BY <1>2, <2>1 DEF ListPlaced
  <2>3. /\ DOMAIN list' = ListFields /\ list'.n = list.n /\ list'.scroll = list.scroll
        /\ list'.choice = list.choice /\ list'.win = list.win /\ list'.up = list.up
        /\ list'.down = list.down /\ list'.resized = list.resized
    BY <2>1, <2>2 DEF ListFields
  <2>4. ListShows(list')
    BY <2>2, <2>3 DEF ListShows, ListPlaced, ListMax
  <2> QED BY <2>4 DEF ListInv
<1>7. CASE ListResize
  <2> DEFINE l == [list EXCEPT !.resized = TRUE]
  <2>1. list # Nothing /\ list' = ListDraw(l)
    BY <1>7 DEF ListResize
  <2>2. /\ DOMAIN l = ListFields /\ l.n = list.n /\ l.scroll = list.scroll /\ l.choice = list.choice
        /\ l.resized = TRUE
    BY <1>2, <2>1 DEF ListPlaced, ListFields
  <2> HIDE DEF l
  <2>3. ListPlaced(l) /\ l.n \in Nat \ {0} /\ l.choice \in 0..(l.n - 1)
    BY <1>2, <2>1, <2>2 DEF ListPlaced, ListMax
  <2> QED BY <2>1, <2>2, <2>3, ListDrawShows DEF ListInv
<1>8. ASSUME NEW key \in {"RETURN", "SPACE", "?", "h", "s", "ESC", "x"}, ListClose(key) PROVE ListInv'
  BY <1>8 DEF ListClose, ListInv
<1> QED BY <1>1, <1>3, <1>4, <1>5, <1>6, <1>7, <1>8 DEF ListNext
-----------------------------------------------------------------------------
BoxesInv == MenuInv /\ ListInv

LEMMA BoxesInvariant == Spec => []BoxesInv
<1>1. Init => BoxesInv
  BY DEF Init, MenuInit, ListInit, BoxesInv, MenuInv, LastInv, ListInv
<1>2. BoxesInv /\ [Next]_vars => BoxesInv'
  <2> SUFFICES ASSUME BoxesInv, [Next]_vars PROVE BoxesInv'
    OBVIOUS
  <2>1. MenuNext \/ UNCHANGED menuVars
    BY DEF Next, vars, boxes
  <2>2. ListNext \/ UNCHANGED list
    BY DEF Next, vars, boxes
  <2>3. MenuInv'
    BY <2>1, MenuStep DEF BoxesInv, MenuInv, LastInv, menuVars
  <2>4. ListInv'
    BY <2>2, ListStep DEF BoxesInv, ListInv
  <2> QED BY <2>3, <2>4 DEF BoxesInv
<1> QED BY <1>1, <1>2, PTL DEF Spec

\* What dialog_menu and dialog_checklist highlight is the item a key acts on, and the window shows
\* the list there, for every length of the list and height of the window: do_scroll and print_item
\* keep them in step with scroll and choice through every key.
THEOREM ItemsShown == Spec => []ShowsItems
<1>1. BoxesInv => ShowsItems
  <2> SUFFICES ASSUME BoxesInv PROVE ShowsItems
    OBVIOUS
  <2>1. ASSUME menu # Nothing
        PROVE  /\ MenuShows(menu) /\ menu.choice \in Nat /\ MaxChoice(menu) \in Nat
               /\ menu.n > 0 => menu.choice \in 0..(MaxChoice(menu) - 1)
    BY <2>1, WindowSize DEF BoxesInv, MenuInv, MenuShows, Placed, Sized
  <2>2. ASSUME list # Nothing PROVE ListShows(list)
    BY <2>2 DEF BoxesInv, ListInv
  <2> QED BY <2>1, <2>2 DEF ShowsItems, MenuShows, Placed, Window, ListShows, ListPlaced
<1> QED BY <1>1, BoxesInvariant, PTL

\* dialog_menu called again on the item it returned, with the same list and window, comes back as it
\* was: the position conf() keeps in s_scroll is always one of a full window with that item in it.
THEOREM ComesBack == Spec => MenuComesBack
<1> DEFINE Again == menu = Nothing /\ menu' # Nothing /\ last # Nothing
                    /\ menu'.n = last.n /\ menu'.height = last.height
                    /\ menu'.selected = last.scroll + last.choice /\ last.n > 0
           Same == menu'.scroll = last.scroll /\ menu'.choice = last.choice
<1>1. ASSUME BoxesInv, [Next]_vars, Again PROVE Same
  <2>1. PICK n \in 0..MaxItems, height \in 1..MaxHeight :
           \E selected \in {Blank} \cup (0..(n - 1)) : MenuOpen(n, height, selected)
    BY <1>1 DEF Next, vars, boxes, menuVars, MenuNext, MenuUp, MenuDown, MenuPageUp, MenuPageDown, MenuLetter,
       MoveTo, MenuButton, MenuReturn, MenuLeave, MenuResize
  <2>2. PICK selected \in {Blank} \cup (0..(n - 1)) : MenuOpen(n, height, selected)
    BY <2>1
  <2> DEFINE m == [n |-> n, height |-> height, selected |-> selected, first |-> 0,
                   scroll |-> 0, choice |-> 0, win |-> DrawRows(0, 0, 0, 0),
                   up |-> FALSE, down |-> FALSE, button |-> 0, shown |-> 0,
                   resized |-> FALSE, off |-> 0]
  <2>3. menu' = Draw(m)
    BY <2>2 DEF MenuOpen
  <2>4. m.n = n /\ m.height = height /\ m.selected = selected /\ Sized(m)
    <3>1. n \in Nat /\ height \in Nat \ {0}
      BY MenuBoxAssumption
    <3>2. DOMAIN m = MenuFields
      BY DEF MenuFields
    <3> QED BY <3>1, <3>2 DEF Sized
  <2> HIDE DEF m
  <2>5. s_scroll \in Nat /\ Draw(m).n = n /\ Draw(m).height = height /\ Draw(m).selected = selected
    BY <1>1, <2>4, DrawPlaces DEF BoxesInv, MenuInv, LastInv
  <2>6. /\ last.n = n /\ last.height = height /\ selected = s_scroll + last.choice
        /\ last.scroll = s_scroll /\ last.choice \in Nat
        /\ last.choice < MaxChoice(m) /\ s_scroll + MaxChoice(m) <= n
        /\ n \in Nat /\ MaxChoice(m) \in Nat
    BY <1>1, <2>3, <2>4, <2>5, WindowSize DEF BoxesInv, MenuInv, LastInv, MaxChoice, Sized
  <2>7. selected # Blank
    BY <2>5, <2>6 DEF Blank
  <2>8. KeepsScroll(m, selected)
    BY <2>4, <2>5, <2>6 DEF KeepsScroll
  <2>9. Draw(m).scroll = s_scroll /\ Draw(m).choice = selected - s_scroll
    BY <2>4, <2>5, <2>7, <2>8, DrawPlaces
  <2> QED BY <2>3, <2>5, <2>6, <2>9
<1>2. BoxesInv /\ [Next]_vars => [Again => Same]_vars
  BY <1>1
<1> QED BY <1>2, BoxesInvariant, PTL DEF Spec, MenuComesBack

-----------------------------------------------------------------------------
(* The list of nconf *)

NMenuFields == {"n", "max", "top", "cur", "last_top_row", "in_search", "dir", "hits", "hung"}

\* The list has items and the window rows; the window is in the list and the highlight in the window.
NMenuPlaced(m) ==
    /\ DOMAIN m = NMenuFields
    /\ m.n \in Nat \ {0} /\ m.max \in Nat \ {0}
    /\ m.top \in Rows(m) /\ m.cur \in Listed(m) /\ InView(m, m.cur)
    /\ m.hits \subseteq Listed(m)

NMenuInv == nmenu # Nothing => NMenuPlaced(nmenu)

\* Two states of one list, with the same matches.
SameList(u, m) == DOMAIN u = DOMAIN m /\ u.n = m.n /\ u.max = m.max /\ u.hits = m.hits

\* set_top_row moves the window to a row, or leaves all as it is.
LEMMA RowSet ==
    ASSUME NEW m, NMenuPlaced(m), NEW row
    PROVE  LET u == SetTopRow(m, row)
           IN /\ NMenuPlaced(u) /\ SameList(u, m)
              /\ u.top = IF row \in Rows(m) THEN row ELSE m.top
              /\ row = m.top => u = m
<1> DEFINE u == SetTopRow(m, row)
           u1 == [m EXCEPT !.top = row]
           u2 == [u1 EXCEPT !.cur = row]
<1>1. CASE row \in Rows(m) /\ row # m.top
  <2>1. u = u2
    BY <1>1 DEF SetTopRow
  <2>2. SameList(u2, m) /\ u2.top = row /\ u2.cur = row
    BY DEF SameList, NMenuPlaced, NMenuFields
  <2> HIDE DEF u, u2
  <2>3. /\ m.n \in Nat \ {0} /\ m.max \in Nat \ {0} /\ u.n = m.n /\ u.max = m.max
        /\ u.hits = m.hits /\ u.hits \subseteq 0..(m.n - 1)
    BY <2>1, <2>2 DEF NMenuPlaced, SameList, Listed
  <2>4. row \in 0..(m.n - MinOf(m.n, m.max))
    BY <1>1 DEF Rows
  <2>5. row \in 0..(m.n - 1) /\ row < row + m.max
    BY <2>3, <2>4 DEF MinOf
  <2>6. NMenuPlaced(u)
    BY <2>1, <2>2, <2>3, <2>4, <2>5 DEF NMenuPlaced, SameList, Rows, Listed, InView
  <2> QED BY <1>1, <2>1, <2>2, <2>6 DEF u
<1>2. CASE ~(row \in Rows(m) /\ row # m.top)
  <2>1. u = m
    BY <1>2, Zenon DEF SetTopRow
  <2>2. SameList(m, m) /\ m.top = IF row \in Rows(m) THEN row ELSE m.top
    BY <1>2 DEF SameList
  <2> QED BY <2>1, <2>2
<1> QED BY <1>1, <1>2

\* center_item brings the item into view, and leaves a window that has it in view.
LEMMA ItemCentred ==
    ASSUME NEW m, NMenuPlaced(m), NEW item \in Int
    PROVE  LET u == CenterItem(m, item)
           IN /\ NMenuPlaced(u) /\ SameList(u, m)
              /\ item \in Listed(m) => u.cur = item
              /\ (m.last_top_row \in Rows(m) /\ item \in Listed(m)
                  /\ m.last_top_row <= item /\ item < m.last_top_row + m.max) => u.top = m.last_top_row
<1> DEFINE r == SetTopRow(m, m.last_top_row)
           top == TopFor(r, item)
           s == SetTopRow(r, top)
           cur == IF item \in Listed(r) THEN item ELSE s.cur
           u1 == [s EXCEPT !.cur = cur]
           u2 == [u1 EXCEPT !.last_top_row = top]
<1>1. /\ NMenuPlaced(r) /\ SameList(r, m)
      /\ r.top = IF m.last_top_row \in Rows(m) THEN m.last_top_row ELSE m.top
  BY RowSet
<1>2. CenterItem(m, item) = u2
  BY DEF CenterItem, CenterFrom
<1> HIDE DEF r
<1>3. /\ NMenuPlaced(s) /\ SameList(s, r)
      /\ s.top = IF top \in Rows(r) THEN top ELSE r.top
      /\ top = r.top => s = r
  BY <1>1, RowSet
<1> HIDE DEF s, top
<1>4. /\ m.n \in Nat \ {0} /\ m.max \in Nat \ {0}
      /\ r.n = m.n /\ r.max = m.max /\ s.n = m.n /\ s.max = m.max
      /\ m.hits \subseteq Listed(m) /\ DOMAIN s = NMenuFields
  BY <1>1, <1>3 DEF NMenuPlaced, SameList
<1>5. /\ r.top \in 0..(m.n - MinOf(m.n, m.max)) /\ s.top \in 0..(m.n - MinOf(m.n, m.max))
      /\ s.cur \in 0..(m.n - 1) /\ s.top <= s.cur /\ s.cur < s.top + m.max
  BY <1>1, <1>3, <1>4 DEF NMenuPlaced, Rows, Listed, InView
<1>6. /\ cur = IF item \in 0..(m.n - 1) THEN item ELSE s.cur
      /\ s.top = IF top \in 0..(m.n - MinOf(m.n, m.max)) THEN top ELSE r.top
      /\ top = IF r.top <= item /\ item < r.top + m.max THEN r.top
               ELSE MinOf(MaxOf(item - m.max \div 2, 0), m.n - m.max)
  <2>1. top = IF r.top <= item /\ item < r.top + r.max THEN r.top
              ELSE MinOf(MaxOf(item - r.max \div 2, 0), r.n - r.max)
    BY Zenon DEF top, TopFor, InView, Middle
  <2>2. s.top = IF top \in 0..(r.n - MinOf(r.n, r.max)) THEN top ELSE r.top
    BY <1>3 DEF Rows
  <2>3. cur = IF item \in 0..(r.n - 1) THEN item ELSE s.cur
    BY Zenon DEF Listed
  <2> HIDE DEF cur
  <2> QED BY <1>4, <2>1, <2>2, <2>3
<1>7. m.max \div 2 \in Nat /\ m.max \div 2 < m.max
  BY <1>4
<1> HIDE DEF cur
<1>8. item \in 0..(m.n - 1) => s.top <= item /\ item < s.top + m.max
  <2> SUFFICES ASSUME item \in 0..(m.n - 1) PROVE s.top <= item /\ item < s.top + m.max
    OBVIOUS
  <2>1. CASE r.top <= item /\ item < r.top + m.max
    BY <1>5, <1>6, <2>1
  <2>2. CASE ~(r.top <= item /\ item < r.top + m.max)
    <3> DEFINE half == m.max \div 2
    <3>1. m.n > m.max
      BY <1>4, <1>5, <2>2 DEF MinOf
    <3>2. half \in Nat /\ half < m.max /\ top = MinOf(MaxOf(item - half, 0), m.n - m.max)
      BY <1>6, <1>7, <2>2
    <3> HIDE DEF half
    <3>3. top \in 0..(m.n - m.max) /\ top <= item /\ item < top + m.max
      BY <1>4, <3>1, <3>2 DEF MinOf, MaxOf
    <3>4. s.top = top
      BY <1>4, <1>6, <3>1, <3>3 DEF MinOf
    <3> QED BY <3>3, <3>4
  <2> QED BY <2>1, <2>2
<1>9. cur \in 0..(m.n - 1) /\ s.top <= cur /\ cur < s.top + m.max
  BY <1>5, <1>6, <1>8
<1>10. /\ DOMAIN u2 = NMenuFields /\ u2.n = m.n /\ u2.max = m.max /\ u2.hits = m.hits
       /\ u2.top = s.top /\ u2.cur = cur
  BY <1>1, <1>3, <1>4 DEF NMenuFields, SameList
<1> HIDE DEF u2
<1>11. NMenuPlaced(u2) /\ SameList(u2, m)
  BY <1>4, <1>5, <1>9, <1>10 DEF NMenuPlaced, SameList, Rows, Listed, InView
<1>12. item \in Listed(m) => u2.cur = item
  BY <1>6, <1>10 DEF Listed
<1>13. (m.last_top_row \in Rows(m) /\ item \in Listed(m)
        /\ m.last_top_row <= item /\ item < m.last_top_row + m.max) => u2.top = m.last_top_row
  BY <1>1, <1>5, <1>6, <1>10
<1> QED BY <1>2, <1>11, <1>12, <1>13
-----------------------------------------------------------------------------
(* Counting round the list *)
LEMMA RoundTheList ==
    ASSUME NEW n \in Nat \ {0}, NEW x \in 0..(3 * n - 1)
    PROVE  x % n = IF x < n THEN x ELSE IF x < 2 * n THEN x - n ELSE x - 2 * n
<1>1. x = (x \div n) * n + (x % n)
  BY Z3
<1>2. x \div n \in Int /\ x % n \in 0..(n - 1)
  OBVIOUS
<1> DEFINE q == x \div n
           r == x % n
<1>3. x = q * n + r /\ q \in Int /\ r \in 0..(n - 1)
  BY <1>1, <1>2
<1> HIDE DEF q, r
<1>4. q >= 0
  <2>1. CASE q <= -1
    <3>1. q * n <= (-1) * n
      BY <1>3, <2>1
    <3> QED BY <1>3, <3>1
  <2> QED BY <1>3, <2>1
<1>5. q < 3
  <2>1. CASE q >= 3
    <3>1. q * n >= 3 * n
      BY <1>3, <2>1
    <3> QED BY <1>3, <3>1
  <2> QED BY <1>3, <2>1
<1>6. q \in {0, 1, 2}
  BY <1>3, <1>4, <1>5
<1>7. r = IF x < n THEN x ELSE IF x < 2 * n THEN x - n ELSE x - 2 * n
  BY <1>3, <1>6
<1> QED BY <1>7 DEF r

\* The item looked at after k others, from one on and in a direction; and how far an item is.
ItemAt(n, first, step, k) == (first + step * k + n) % n
Distance(n, first, step, i) == (step * (i - first) + n) % n

\* The k-th item looked at is the one at distance k, and the other way round.
LEMMA VisitsInOrder ==
    ASSUME NEW n \in Nat \ {0}, NEW first \in -1..n, NEW step \in {-1, 1}, NEW k \in 0..(n - 1)
    PROVE  LET visited(j) == ItemAt(n, first, step, j)
               distance(i) == Distance(n, first, step, i)
           IN /\ visited(k) \in 0..(n - 1) /\ distance(k) \in 0..(n - 1)
              /\ distance(visited(k)) = k /\ visited(distance(k)) = k
<1> DEFINE visited(j) == ItemAt(n, first, step, j)
           distance(i) == Distance(n, first, step, i)
           Round(x) == IF x < n THEN x ELSE IF x < 2 * n THEN x - n ELSE x - 2 * n
<1>1. CASE step = 1
  <2>1. ASSUME NEW j \in 0..(n - 1)
        PROVE  /\ visited(j) = Round(first + j + n) /\ distance(j) = Round(j - first + n)
               /\ visited(j) \in 0..(n - 1) /\ distance(j) \in 0..(n - 1)
    <3>1. first + j + n \in 0..(3 * n - 1) /\ j - first + n \in 0..(3 * n - 1)
      OBVIOUS
    <3>2. first + step * j + n = first + j + n /\ step * (j - first) + n = j - first + n
      BY <1>1
    <3>3. visited(j) = (first + j + n) % n /\ distance(j) = (j - first + n) % n
      BY <3>2, Zenon DEF ItemAt, Distance
    <3> HIDE DEF visited, distance
    <3>4. visited(j) = Round(first + j + n) /\ distance(j) = Round(j - first + n)
      BY <3>1, <3>3, RoundTheList
    <3> QED BY <3>1, <3>4
  <2>2. visited(k) \in 0..(n - 1) /\ distance(k) \in 0..(n - 1)
    BY <2>1
  <2> HIDE DEF visited, distance
  <2>3. /\ visited(k) = Round(first + k + n) /\ distance(k) = Round(k - first + n)
        /\ distance(visited(k)) = Round(visited(k) - first + n)
        /\ visited(distance(k)) = Round(first + distance(k) + n)
    BY <2>1, <2>2
  <2>4. distance(visited(k)) = k
    BY <2>2, <2>3
  <2>5. visited(distance(k)) = k
    BY <2>2, <2>3
  <2> QED BY <2>2, <2>4, <2>5 DEF visited, distance
<1>2. CASE step = -1
  <2>1. ASSUME NEW j \in 0..(n - 1)
        PROVE  /\ visited(j) = Round(first - j + n) /\ distance(j) = Round(first - j + n)
               /\ visited(j) \in 0..(n - 1) /\ distance(j) \in 0..(n - 1)
    <3>1. first - j + n \in 0..(3 * n - 1)
      OBVIOUS
    <3>2. first + step * j + n = first - j + n /\ step * (j - first) + n = first - j + n
      BY <1>2
    <3>3. visited(j) = (first - j + n) % n /\ distance(j) = (first - j + n) % n
      BY <3>2, Zenon DEF ItemAt, Distance
    <3> HIDE DEF visited, distance
    <3>4. visited(j) = Round(first - j + n) /\ distance(j) = Round(first - j + n)
      BY <3>1, <3>3, RoundTheList
    <3> QED BY <3>1, <3>4
  <2>2. visited(k) \in 0..(n - 1) /\ distance(k) \in 0..(n - 1)
    BY <2>1
  <2> HIDE DEF visited, distance
  <2>3. /\ visited(k) = Round(first - k + n) /\ distance(k) = Round(first - k + n)
        /\ distance(visited(k)) = Round(first - visited(k) + n)
        /\ visited(distance(k)) = Round(first - distance(k) + n)
    BY <2>1, <2>2
  <2>4. distance(visited(k)) = k
    BY <2>2, <2>3
  <2>5. visited(distance(k)) = k
    BY <2>2, <2>3
  <2> QED BY <2>2, <2>4, <2>5 DEF visited, distance
<1> QED BY <1>1, <1>2

\* get_mext_match finds the nearest match, whatever the direction and the item it starts at.
LEMMA MatchFollowed ==
    ASSUME NEW m, NMenuPlaced(m), NEW dir
    PROVE  LET u == Follow(m, dir)
           IN /\ NMenuPlaced(u) /\ SameList(u, m)
              /\ m.hits = {} => u.cur = m.cur
              /\ m.hits # {} => Nearest(u, u.cur, MatchStart(m, dir), Step(dir))
<1> DEFINE u == Follow(m, dir)
           n == m.n
           first == MatchStart(m, dir)
           step == Step(dir)
           visited(j) == ItemAt(n, first, step, j)
           distance(i) == Distance(n, first, step, i)
<1>1. /\ n \in Nat \ {0} /\ m.cur \in 0..(n - 1) /\ m.hits \subseteq 0..(n - 1)
      /\ DOMAIN m = NMenuFields
  BY DEF NMenuPlaced, Listed
<1>2. first \in -1..n
  BY <1>1 DEF MatchStart
<1>3. step \in {-1, 1}
  BY DEF Step
<1>4. Matching(m, dir) = {k \in 0..(n - 1) : visited(k) \in m.hits}
  BY Zenon DEF Matching, Visited, ItemAt, Listed
<1> HIDE DEF first, step
<1> HIDE DEF n
<1>5. ASSUME NEW k \in 0..(n - 1)
      PROVE  /\ visited(k) \in 0..(n - 1) /\ distance(k) \in 0..(n - 1)
             /\ distance(visited(k)) = k /\ visited(distance(k)) = k
  BY <1>1, <1>2, <1>3, VisitsInOrder
<1> HIDE DEF visited, distance
<1>6. CASE Matching(m, dir) = {}
  <2> DEFINE hung == ~Stops(m, dir)
             u1 == [m EXCEPT !.dir = dir]
             u2 == [u1 EXCEPT !.hung = hung]
  <2>1. u = u2
    BY <1>6 DEF Follow
  <2> HIDE DEF hung
  <2>2. DOMAIN u2 = NMenuFields /\ SameList(u2, m) /\ u2.top = m.top /\ u2.cur = m.cur
    BY <1>1 DEF NMenuFields, SameList
  <2> HIDE DEF u2
  <2>3. NMenuPlaced(u2)
    BY <2>2 DEF NMenuPlaced, SameList, Rows, Listed, InView
  <2>4. m.hits = {}
    <3> SUFFICES ASSUME NEW i \in m.hits PROVE FALSE
      OBVIOUS
    <3>1. i \in 0..(n - 1)
      BY <1>1
    <3>2. distance(i) \in Matching(m, dir)
      BY <1>4, <1>5, <3>1
    <3> QED BY <1>6, <3>2
  <2> QED BY <2>1, <2>2, <2>3, <2>4
<1>7. CASE Matching(m, dir) # {}
  <2> DEFINE k == CHOOSE k \in Matching(m, dir) : \A j \in Matching(m, dir) : k <= j
             item == Visited(m, dir, k)
             c == CenterItem(m, item)
             u1 == [c EXCEPT !.dir = dir]
  <2>1. u = u1
    BY <1>7, Zenon DEF Follow
  <2>2. k \in Matching(m, dir) /\ \A j \in Matching(m, dir) : k <= j
    <3>1. Matching(m, dir) \subseteq Nat
      BY <1>1, <1>4
    <3>2. \E i \in Matching(m, dir) : \A j \in Matching(m, dir) : i <= j
      BY <1>7, <3>1, FirstRow
    <3> QED BY <3>2
  <2>3. item = visited(k)
    BY Zenon DEF Visited, ItemAt, visited, first, step, n
  <2> HIDE DEF k, item
  <2>4. k \in 0..(n - 1) /\ item \in m.hits /\ item \in 0..(n - 1)
    BY <1>1, <1>4, <2>2, <2>3
  <2>5. item \in Int /\ item \in Listed(m)
    BY <1>1, <2>4 DEF Listed, n
  <2>6. NMenuPlaced(c) /\ SameList(c, m) /\ c.cur = item
    BY <2>5, ItemCentred
  <2> HIDE DEF c
  <2>7. DOMAIN u1 = NMenuFields /\ SameList(u1, c) /\ u1.top = c.top /\ u1.cur = c.cur
    BY <2>6 DEF NMenuPlaced, NMenuFields, SameList
  <2> HIDE DEF u1
  <2>8. NMenuPlaced(u1)
    BY <2>6, <2>7 DEF NMenuPlaced, SameList, Rows, Listed, InView
  <2>9. SameList(u1, m)
    BY <2>6, <2>7 DEF SameList
  <2>10. Nearest(u1, u1.cur, first, step)
    <3>1. distance(item) = k
      BY <1>5, <2>3, <2>4
    <3>2. ASSUME NEW i \in m.hits PROVE k <= distance(i)
      <4>1. i \in 0..(n - 1)
        BY <1>1
      <4>2. distance(i) \in Matching(m, dir)
        BY <1>4, <1>5, <4>1
      <4> QED BY <2>2, <4>2
    <3>3. u1.n = n /\ u1.hits = m.hits /\ u1.cur = item
      BY <2>6, <2>7, <2>9 DEF SameList, n
    <3>4. item \in u1.hits /\ \A i \in u1.hits : distance(item) <= distance(i)
      BY <2>4, <3>1, <3>2, <3>3
    <3> QED BY <3>3, <3>4, Zenon DEF Nearest, Distance, distance
  <2>11. m.hits # {}
    BY <2>4
  <2> QED BY <2>1, <2>8, <2>9, <2>10, <2>11 DEF first, step
<1> QED BY <1>6, <1>7

\* What conf shows the menu anew with is placed as well, and where it was if the list is the same.
LEMMA ShownAgain ==
    ASSUME NEW m, NMenuPlaced(m), NEW n \in Nat \ {0}, NEW max \in Nat \ {0}
    PROVE  LET u == ShowAgain(m, n, max)
           IN /\ NMenuPlaced(u)
              /\ (n = m.n /\ max = m.max) => u.cur = m.cur /\ u.top = m.top
<1> DEFINE c1 == [m EXCEPT !.in_search = FALSE]
           c2 == [c1 EXCEPT !.hits = {}]
           c3 == [c2 EXCEPT !.dir = "tinker_down"]
           c4 == [c3 EXCEPT !.n = n]
           c5 == [c4 EXCEPT !.max = max]
           c6 == [c5 EXCEPT !.top = 0]
           c7 == [c6 EXCEPT !.cur = 0]
           c8 == [c7 EXCEPT !.last_top_row = m.top]
<1>1. ShowAgain(m, n, max) = CenterItem(c8, m.cur)
  BY DEF ShowAgain, SetMenuItems, NoSearch
<1>2. /\ DOMAIN c8 = NMenuFields /\ c8.n = n /\ c8.max = max /\ c8.top = 0 /\ c8.cur = 0
      /\ c8.hits = {} /\ c8.last_top_row = m.top
  BY DEF NMenuPlaced, NMenuFields
<1> HIDE DEF c8
<1>3. NMenuPlaced(c8)
  BY <1>2 DEF NMenuPlaced, Rows, Listed, InView, MinOf
<1>4. m.cur \in Int
  BY DEF NMenuPlaced, Listed
<1>5. (n = m.n /\ max = m.max) =>
        /\ m.cur \in Listed(c8) /\ c8.last_top_row \in Rows(c8)
        /\ c8.last_top_row <= m.cur /\ m.cur < c8.last_top_row + c8.max
  BY <1>2 DEF NMenuPlaced, Listed, Rows, InView
<1> DEFINE u == CenterItem(c8, m.cur)
<1>6. /\ NMenuPlaced(u)
      /\ m.cur \in Listed(c8) => u.cur = m.cur
      /\ (c8.last_top_row \in Rows(c8) /\ m.cur \in Listed(c8)
          /\ c8.last_top_row <= m.cur /\ m.cur < c8.last_top_row + c8.max) => u.top = c8.last_top_row
  BY <1>3, <1>4, ItemCentred
<1> HIDE DEF u
<1> QED BY <1>1, <1>2, <1>5, <1>6 DEF u

LEMMA NMenuStep == ASSUME NMenuInv, NMenuNext PROVE NMenuInv'
<1>1. ASSUME NEW n \in 1..MaxListed, NEW max \in 1..MaxShown, NMenuOpen(n, max) PROVE NMenuInv'
  <2>1. n \in Nat \ {0} /\ max \in Nat \ {0}
    OBVIOUS
  <2> DEFINE u == [n |-> n, max |-> max, top |-> 0, cur |-> 0, last_top_row |-> 0,
                   in_search |-> FALSE, dir |-> "tinker_down", hits |-> {}, hung |-> FALSE]
  <2>2. nmenu' = u
    BY <1>1 DEF NMenuOpen
  <2>3. NMenuPlaced(u)
    BY <2>1 DEF NMenuPlaced, NMenuFields, Rows, Listed, InView, MinOf
  <2> QED BY <2>2, <2>3 DEF NMenuInv
<1>2. ASSUME NEW n \in 1..MaxListed, NEW max \in 1..MaxShown, NMenuShow(n, max) PROVE NMenuInv'
  <2>1. n \in Nat \ {0} /\ max \in Nat \ {0} /\ NMenuPlaced(nmenu)
    BY <1>2 DEF NMenuShow, Open, NMenuInv
  <2>2. NMenuPlaced(nmenu')
    BY <1>2, <2>1, ShownAgain DEF NMenuShow
  <2> QED BY <2>2 DEF NMenuInv
<1>3. ASSUME NMenuMove PROVE NMenuInv'
  <2>1. PICK cur \in Listed(nmenu), top \in Rows(nmenu) :
               /\ top <= cur /\ cur < top + nmenu.max
               /\ nmenu' = [NoSearch(nmenu) EXCEPT !.cur = cur, !.top = top]
    BY <1>3 DEF NMenuMove
  <2>2. NMenuPlaced(nmenu)
    BY <1>3 DEF NMenuMove, Open, NMenuInv
  <2> DEFINE c1 == [nmenu EXCEPT !.in_search = FALSE]
             c2 == [c1 EXCEPT !.hits = {}]
             c3 == [c2 EXCEPT !.dir = "tinker_down"]
             c4 == [c3 EXCEPT !.cur = cur]
             c5 == [c4 EXCEPT !.top = top]
  <2>3. nmenu' = c5
    BY <2>1 DEF NoSearch
  <2>4. /\ DOMAIN c5 = NMenuFields /\ c5.n = nmenu.n /\ c5.max = nmenu.max /\ c5.hits = {}
        /\ c5.top = top /\ c5.cur = cur
    BY <2>2 DEF NMenuPlaced, NMenuFields
  <2> HIDE DEF c5
  <2>5. NMenuPlaced(c5)
    BY <2>1, <2>2, <2>4 DEF NMenuPlaced, Rows, Listed, InView
  <2> QED BY <2>3, <2>5 DEF NMenuInv
<1>4. ASSUME NMenuPlaced(nmenu), NEW u, nmenu' = u, DOMAIN u = NMenuFields,
             u.n = nmenu.n, u.max = nmenu.max, u.top = nmenu.top, u.cur = nmenu.cur,
             u.hits \subseteq Listed(nmenu)
      PROVE  NMenuInv'
  <2>1. NMenuPlaced(u)
    BY <1>4 DEF NMenuPlaced, Rows, Listed, InView
  <2> QED BY <1>4, <2>1 DEF NMenuInv
<1>5. ASSUME NMenuSlash PROVE NMenuInv'
  <2>1. NMenuPlaced(nmenu)
    BY <1>5 DEF NMenuSlash, Open, NMenuInv
  <2> DEFINE c1 == [nmenu EXCEPT !.in_search = FALSE]
             c2 == [c1 EXCEPT !.hits = {}]
             c3 == [c2 EXCEPT !.dir = "tinker_down"]
             c4 == [c3 EXCEPT !.in_search = TRUE]
             c5 == [c4 EXCEPT !.hits = Listed(nmenu)]
  <2>2. nmenu' = c3 \/ nmenu' = c5
    BY <1>5 DEF NMenuSlash, NoSearch
  <2>3. \A u \in {c3, c5} : /\ DOMAIN u = NMenuFields /\ u.n = nmenu.n /\ u.max = nmenu.max
                            /\ u.top = nmenu.top /\ u.cur = nmenu.cur
                            /\ u.hits \subseteq Listed(nmenu)
    BY <2>1 DEF NMenuPlaced, NMenuFields
  <2> HIDE DEF c3, c5
  <2> QED BY <1>4, <2>1, <2>2, <2>3
<1>6. ASSUME NEW hits, NMenuType(hits) PROVE NMenuInv'
  <2> DEFINE m == [nmenu EXCEPT !.hits = hits]
             u == Follow(m, AdjMatchDir(nmenu.dir))
  <2>1. NMenuPlaced(nmenu) /\ hits \subseteq nmenu.hits /\ nmenu' = u
    BY <1>6 DEF NMenuType, Searching, Open, NMenuInv
  <2>2. DOMAIN m = NMenuFields /\ m.n = nmenu.n /\ m.max = nmenu.max /\ m.top = nmenu.top
        /\ m.cur = nmenu.cur /\ m.hits = hits
    BY <2>1 DEF NMenuPlaced, NMenuFields
  <2> HIDE DEF m
  <2>3. NMenuPlaced(m)
    BY <2>1, <2>2 DEF NMenuPlaced, Rows, Listed, InView
  <2>4. NMenuPlaced(u)
    BY <2>3, MatchFollowed
  <2> QED BY <2>1, <2>4 DEF NMenuInv
<1>7. ASSUME NEW hits, NMenuBackspace(hits) PROVE NMenuInv'
  <2> DEFINE dir == AdjMatchDir(nmenu.dir)
             u1 == [nmenu EXCEPT !.hits = hits]
             u == [u1 EXCEPT !.dir = dir]
  <2>1. NMenuPlaced(nmenu) /\ hits \subseteq Listed(nmenu)
    BY <1>7 DEF NMenuBackspace, Searching, Open, NMenuInv
  <2>2. nmenu' = u
    BY <1>7 DEF NMenuBackspace
  <2> HIDE DEF dir
  <2>3. /\ DOMAIN u = NMenuFields /\ u.n = nmenu.n /\ u.max = nmenu.max
        /\ u.top = nmenu.top /\ u.cur = nmenu.cur /\ u.hits = hits
    BY <2>1 DEF NMenuPlaced, NMenuFields
  <2> HIDE DEF u
  <2> QED BY <1>4, <2>1, <2>2, <2>3
<1>8. ASSUME NEW dir, NMenuFind(dir) PROVE NMenuInv'
  <2>1. NMenuPlaced(nmenu) /\ nmenu' = Follow(nmenu, dir)
    BY <1>8 DEF NMenuFind, Searching, Open, NMenuInv
  <2>2. NMenuPlaced(nmenu')
    BY <2>1, MatchFollowed
  <2> QED BY <2>2 DEF NMenuInv
<1>9. ASSUME NMenuLeave PROVE NMenuInv'
  BY <1>9 DEF NMenuLeave, NMenuInv
<1> QED
  BY <1>1, <1>2, <1>3, <1>5, <1>6, <1>7, <1>8, <1>9 DEF NMenuNext

LEMMA NMenuAlways == Spec => []NMenuInv
<1>1. Init => NMenuInv
  BY DEF Init, NMenuInit, NMenuInv
<1>2. NMenuInv /\ [Next]_vars => NMenuInv'
  <2>1. CASE NMenuNext
    BY <2>1, NMenuStep
  <2>2. CASE UNCHANGED nmenu
    BY <2>2 DEF NMenuInv, NMenuPlaced, Listed, Rows, InView
  <2> QED BY <2>1, <2>2, Zenon DEF Next, vars, boxes
<1> QED BY <1>1, <1>2, PTL DEF Spec

\* A search in nconf's list of any length goes to the nearest match in its direction, or stays, and
\* always keeps the highlight in view (get_mext_match and center_item).
THEOREM SearchFindsAlways == Spec => SearchFinds
<1> DEFINE Finds ==
        (nmenu # Nothing /\ nmenu' # Nothing) =>
          LET finds(first, step) ==
                IF nmenu'.hits = {} THEN nmenu'.cur = nmenu.cur
                ELSE Nearest(nmenu', nmenu'.cur, first, step)
          IN /\ InView(nmenu', nmenu'.cur) /\ nmenu'.cur \in Listed(nmenu')
             /\ NMenuFind("find_down") => finds(nmenu.cur + 1, 1)
             /\ NMenuFind("find_up")   => finds(nmenu.cur - 1, -1)
             /\ (\E hits \in SUBSET nmenu.hits : NMenuType(hits)) => finds(nmenu.cur, Step(nmenu.dir))
             /\ NMenuShow(nmenu.n, nmenu.max) => nmenu'.cur = nmenu.cur /\ nmenu'.top = nmenu.top
<1>1. NMenuInv /\ NMenuInv' => Finds
  <2> SUFFICES ASSUME NMenuPlaced(nmenu), NMenuPlaced(nmenu') PROVE Finds
    BY DEF NMenuInv
  <2> DEFINE finds(first, step) ==
                IF nmenu'.hits = {} THEN nmenu'.cur = nmenu.cur
                ELSE Nearest(nmenu', nmenu'.cur, first, step)
  <2>1. InView(nmenu', nmenu'.cur) /\ nmenu'.cur \in Listed(nmenu')
    BY DEF NMenuPlaced
  <2>2. ASSUME NEW dir, NMenuFind(dir) PROVE finds(MatchStart(nmenu, dir), Step(dir))
    <3> DEFINE u == Follow(nmenu, dir)
    <3>1. nmenu' = u
      BY <2>2 DEF NMenuFind
    <3>2. /\ SameList(u, nmenu)
          /\ nmenu.hits = {} => u.cur = nmenu.cur
          /\ nmenu.hits # {} => Nearest(u, u.cur, MatchStart(nmenu, dir), Step(dir))
      BY MatchFollowed
    <3> HIDE DEF u
    <3> QED BY <3>1, <3>2, Zenon DEF SameList
  <2>3. MatchStart(nmenu, "find_down") = nmenu.cur + 1 /\ Step("find_down") = 1
    BY DEF MatchStart, Step
  <2>4. MatchStart(nmenu, "find_up") = nmenu.cur - 1 /\ Step("find_up") = -1
    BY DEF MatchStart, Step
  <2>5. ASSUME NEW hits \in SUBSET nmenu.hits, NMenuType(hits)
        PROVE  finds(nmenu.cur, Step(nmenu.dir))
    <3> DEFINE m == [nmenu EXCEPT !.hits = hits]
               dir == AdjMatchDir(nmenu.dir)
               u == Follow(m, dir)
    <3>1. nmenu' = u
      BY <2>5 DEF NMenuType
    <3>2. MatchStart(m, dir) = m.cur /\ Step(dir) = Step(nmenu.dir)
      BY DEF AdjMatchDir, MatchStart, Step
    <3>3. DOMAIN m = NMenuFields /\ m.n = nmenu.n /\ m.max = nmenu.max /\ m.top = nmenu.top
          /\ m.cur = nmenu.cur /\ m.hits = hits
      BY DEF NMenuPlaced, NMenuFields
    <3> HIDE DEF m, dir
    <3>4. NMenuPlaced(m)
      BY <3>3 DEF NMenuPlaced, Rows, Listed, InView
    <3>5. /\ SameList(u, m)
          /\ m.hits = {} => u.cur = m.cur
          /\ m.hits # {} => Nearest(u, u.cur, MatchStart(m, dir), Step(dir))
      BY <3>4, MatchFollowed
    <3> HIDE DEF u
    <3>6. u.hits = {} => u.cur = nmenu.cur
      BY <3>3, <3>5 DEF SameList
    <3>7. u.hits # {} => Nearest(u, u.cur, nmenu.cur, Step(nmenu.dir))
      BY <3>2, <3>3, <3>5, Zenon DEF SameList
    <3> QED BY <3>1, <3>6, <3>7, Zenon
  <2>6. NMenuShow(nmenu.n, nmenu.max) => nmenu'.cur = nmenu.cur /\ nmenu'.top = nmenu.top
    <3>1. nmenu.n \in Nat \ {0} /\ nmenu.max \in Nat \ {0}
      BY DEF NMenuPlaced
    <3> QED BY <3>1, ShownAgain DEF NMenuShow
  <2>7. NMenuFind("find_down") => finds(nmenu.cur + 1, 1)
    BY <2>2, <2>3, Zenon
  <2>8. NMenuFind("find_up") => finds(nmenu.cur - 1, -1)
    BY <2>2, <2>4, Zenon
  <2> QED BY <2>1, <2>5, <2>6, <2>7, <2>8, Zenon
<1>2. NMenuInv /\ NMenuInv' => [Finds]_vars
  BY <1>1
<1> QED BY <1>2, NMenuAlways, PTL DEF SearchFinds
=============================================================================
