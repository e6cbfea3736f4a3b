------------------------------ MODULE MenuBox ------------------------------
(***************************************************************************)
(* lxdialog/menubox.c: the box mconf shows a menu in.  menu is the state   *)
(* of a call of dialog_menu, with the names of its variables, or Nothing.  *)
(*   n, height, selected   item_count(), menu_height, the item asked for   *)
(*   first, scroll, choice   first_item, the items above the window, the   *)
(*         highlighted row                                                 *)
(*   win, up, down   what the window shows, and the two arrows             *)
(*   button, shown   the button RETURN presses, and the one highlighted    *)
(*   resized, off    history: whether the box was drawn again, and by how  *)
(*         many items the last drawing missed the list                     *)
(* s_scroll outlives the call: conf() keeps it for the next one.  last is  *)
(* history: how the box looked when it returned an item.                   *)
(***************************************************************************)
EXTENDS Curses

CONSTANTS MaxItems, MaxHeight,      \* bounds: the items of a menu, the rows of its window
          Letters,                  \* the letters that are tried
          Hot(_)                    \* the letter first_alpha() finds in an item

ASSUME MenuBoxAssumption == MaxItems \in Nat /\ MaxHeight \in Nat \ {0}

VARIABLES menu, s_scroll, last,
          died                      \* an item beyond the list was used, a null pointer

menuVars == <<menu, s_scroll, last, died>>

\* The keys that return an item, and those that leave the box.
Commands == {"RETURN", "SPACE", "?", "/", "h", "y", "n", "m", "s", "z"}
Leaving  == {"ESC", "e", "x"}

MaxChoice(m) == MinOf(m.height, m.n)

Arrows(m) == [m EXCEPT !.up = m.scroll > 0, !.down = m.height < m.n /\ m.scroll + m.height < m.n]

\* Plausible bug: a choice in the first row is taken for one above the window.
KeepsScrollStrict(m, c) ==
    s_scroll < c /\ s_scroll + MaxChoice(m) > c /\ s_scroll + MaxChoice(m) <= m.n

\* The saved position counts when it shows a full window with the choice in it.
KeepsScroll(m, c) ==
    s_scroll <= c /\ s_scroll + MaxChoice(m) > c /\ s_scroll + MaxChoice(m) <= m.n

\* Where a choice below the window goes: the middle, or the end of the list.
Centred(m, c) ==
    IF c >= m.n - MaxChoice(m) \div 2 THEN m.n - MaxChoice(m) ELSE c - MaxChoice(m) \div 2

\* From the label do_resize on: places the list and prints it.
Draw(m) ==
    LET c == IF m.selected # Blank THEN m.selected ELSE m.choice
        kept == KeepsScroll(m, c)
        far == ~kept /\ c >= MaxChoice(m)
        scroll == IF kept THEN s_scroll ELSE IF far THEN Centred(m, c) ELSE 0
        first == IF kept \/ far THEN scroll ELSE m.first
    IN Arrows([m EXCEPT !.scroll = scroll, !.first = first, !.choice = c - scroll,
                        !.off = first - scroll, !.shown = 0,
                        !.win = DrawRows(m.height, MaxChoice(m), first, c - scroll)])

\* dialog_menu is called: selected is the item to start on, if it is listed.
MenuOpen(n, height, selected) ==
    /\ menu = Nothing /\ ~died
    /\ menu' = Draw([n |-> n, height |-> height, selected |-> selected, first |-> 0,
                     scroll |-> 0, choice |-> 0, win |-> DrawRows(0, 0, 0, 0),
                     up |-> FALSE, down |-> FALSE, button |-> 0, shown |-> 0,
                     resized |-> FALSE, off |-> 0])
    /\ UNCHANGED <<s_scroll, last, died>>

\* Takes the highlight from the current item; a key moves the list; and back.
Dim(m)   == [m EXCEPT !.win = PrintRow(@, m.choice, m.scroll + m.choice, FALSE)]
Light(m) == Arrows([m EXCEPT !.win = PrintRow(@, m.choice, m.scroll + m.choice, TRUE)])

\* do_scroll, n times one row, each followed by the item that appears.
Scrolled(m, n) == [m EXCEPT !.scroll = @ + n, !.win = ScrollRows(@, n, m.scroll + n)]

Up(m) ==
    IF m.choice < 2 /\ m.scroll > 0 THEN Scrolled(m, -1)
    ELSE [m EXCEPT !.choice = MaxOf(@ - 1, 0)]

Down(m) ==
    IF m.choice > MaxChoice(m) - 3 /\ m.scroll + MaxChoice(m) < m.n THEN Scrolled(m, 1)
    ELSE [m EXCEPT !.choice = MinOf(@ + 1, MaxChoice(m) - 1)]

\* A page is MaxChoice steps: those the list can scroll, the others move the choice.
PageUp(m) ==
    LET steps == MinOf(MaxChoice(m), m.scroll)
    IN [Scrolled(m, -steps) EXCEPT !.choice = MaxOf(@ - (MaxChoice(m) - steps), 0)]

PageDown(m) ==
    LET steps == MinOf(MaxChoice(m), m.n - MaxChoice(m) - m.scroll)
    IN [Scrolled(m, steps) EXCEPT !.choice = MinOf(@ + (MaxChoice(m) - steps), MaxChoice(m) - 1)]

\* The rows whose item has the letter: first those below the choice, then all.
Hits(m, letter) == {i \in 0..(MaxChoice(m) - 1) : Hot(m.scroll + i) = letter}

Jump(m, letter) ==
    LET below == {i \in Hits(m, letter) : i > m.choice}
        among == IF below # {} THEN below ELSE Hits(m, letter)
    IN [m EXCEPT !.choice = CHOOSE i \in among : \A j \in among : i <= j]

\* A key that moves the highlight, on a list that is not empty.
MoveTo(m) == /\ menu # Nothing /\ menu.n # 0
             /\ menu' = Light(m)
             /\ UNCHANGED <<s_scroll, last, died>>

MenuUp       == MoveTo(Up(Dim(menu)))
MenuDown     == MoveTo(Down(Dim(menu)))
MenuPageUp   == MoveTo(PageUp(Dim(menu)))
MenuPageDown == MoveTo(PageDown(Dim(menu)))
MenuLetter   ==
    /\ menu # Nothing
    /\ \E letter \in Letters : Hits(menu, letter) # {} /\ MoveTo(Jump(Dim(menu), letter))

MenuButton ==
    /\ menu # Nothing
    /\ \E step \in {-1, 1} :
          LET b == NextButton(menu.button, step, 4)
          IN menu' = [menu EXCEPT !.button = b, !.shown = b]
    /\ UNCHANGED <<s_scroll, last, died>>

\* A command returns the item under the highlight, and the position is saved.
\* A letter goes to the items that have it first.
MenuReturn(key) ==
    /\ menu # Nothing /\ Hits(menu, key) = {}
    /\ menu' = Nothing
    /\ s_scroll' = menu.scroll
    /\ last' = [n |-> menu.n, height |-> menu.height, scroll |-> menu.scroll, choice |-> menu.choice]
    /\ UNCHANGED died

MenuLeave(key) ==
    /\ menu # Nothing /\ Hits(menu, key) = {}
    /\ menu' = Nothing
    /\ UNCHANGED <<s_scroll, last, died>>

\* The terminal has another size: all is drawn again, from the item asked for.
MenuResize(height) ==
    /\ menu # Nothing
    /\ LET m == Draw([menu EXCEPT !.height = height, !.resized = TRUE])
       IN IF m.first + MaxChoice(m) > m.n
          THEN died' = TRUE /\ menu' = Nothing
          ELSE died' = died /\ menu' = m
    /\ UNCHANGED <<s_scroll, last>>

MenuNext ==
    \/ \E n \in 0..MaxItems, height \in 1..MaxHeight :
          \E selected \in {Blank} \cup (0..(n - 1)) : MenuOpen(n, height, selected)
    \/ MenuUp \/ MenuDown \/ MenuPageUp \/ MenuPageDown \/ MenuLetter \/ MenuButton
    \/ \E key \in Commands : MenuReturn(key)
    \/ \E key \in Leaving : MenuLeave(key)
    \/ \E height \in 1..MaxHeight : MenuResize(height)

MenuInit == menu = Nothing /\ s_scroll = 0 /\ last = Nothing /\ died = FALSE
=============================================================================
