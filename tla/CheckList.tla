----------------------------- MODULE CheckList -----------------------------
(***************************************************************************)
(* lxdialog/checklist.c: the box mconf shows the values of a choice in.    *)
(* list is the state of a call of dialog_checklist, or Nothing; its fields *)
(* are those of menu in MenuBox.  The height of the list is fixed.         *)
(***************************************************************************)
EXTENDS MenuBox

CONSTANT ListHeight

ASSUME CheckListAssumption == ListHeight \in Nat \ {0}

VARIABLES list

ListMax(l) == MinOf(ListHeight, l.n)

ListArrows(l) ==
    [l EXCEPT !.up = l.scroll > 0, !.down = ListHeight < l.n /\ l.scroll + l.choice < l.n - 1]

\* From the label do_resize on; scroll is 0 the first time.
ListDraw(l) ==
    LET over == IF l.choice >= ListHeight THEN l.choice - ListHeight + 1 ELSE 0
        scroll == IF over > 0 THEN over ELSE l.scroll
        choice == l.choice - over
    IN ListArrows([l EXCEPT !.scroll = scroll, !.choice = choice, !.shown = 0,
                            !.win = DrawRows(ListHeight, ListMax(l), scroll, choice)])

\* dialog_checklist is called with n items; current is the one marked X or selected.
ListOpen(n, current) ==
    /\ list = Nothing
    /\ list' = ListDraw([n |-> n, scroll |-> 0, choice |-> current, win |-> DrawRows(0, 0, 0, 0),
                         up |-> FALSE, down |-> FALSE, button |-> 0, shown |-> 0,
                         resized |-> FALSE])

\* The highlight goes to another row of the window.
Highlight(l, i) ==
    [l EXCEPT !.choice = i,
              !.win = PrintRow(PrintRow(@, l.choice, l.scroll + l.choice, FALSE), i, l.scroll + i, TRUE)]

\* Plausible bug: the item that leaves the edge keeps its highlight.
ListScrollLit(l, n) ==
    LET moved == IF ListHeight > 1 THEN ScrollRows(l.win, n, l.scroll + n) ELSE l.win
    IN ListArrows([l EXCEPT !.scroll = @ + n,
                            !.win = PrintRow(moved, l.choice, l.scroll + n + l.choice, TRUE)])

\* At the edge of the window the list scrolls, if there is more than one row to move.
ListScroll(l, n) ==
    LET dim == PrintRow(l.win, l.choice, l.scroll + l.choice, FALSE)
        moved == IF ListHeight > 1 THEN ScrollRows(dim, n, l.scroll + n) ELSE dim
    IN ListArrows([l EXCEPT !.scroll = @ + n,
                            !.win = PrintRow(moved, l.choice, l.scroll + n + l.choice, TRUE)])

ListUp ==
    /\ list # Nothing
    /\ IF list.choice > 0 THEN list' = Highlight(list, list.choice - 1)
       ELSE list.scroll > 0 /\ list' = ListScroll(list, -1)

ListDown ==
    /\ list # Nothing
    /\ IF list.choice # ListMax(list) - 1 THEN list' = Highlight(list, list.choice + 1)
       ELSE list.scroll + list.choice < list.n - 1 /\ list' = ListScroll(list, 1)

\* A letter goes to the first row whose item begins with it.
ListHits(l, letter) == {i \in 0..(ListMax(l) - 1) : Hot(l.scroll + i) = letter}

ListLetter ==
    /\ list # Nothing
    /\ \E letter \in Letters :
          /\ ListHits(list, letter) # {}
          /\ LET i == CHOOSE i \in ListHits(list, letter) :
                         \A j \in ListHits(list, letter) : i <= j
             IN list' = IF i = list.choice THEN list ELSE Highlight(list, i)

ListButton ==
    /\ list # Nothing
    /\ \E step \in {-1, 1} :
          LET b == NextButton(list.button, step, 1)
          IN list' = [list EXCEPT !.button = b, !.shown = b]

\* Select and Help return the item under the highlight, leaving returns none.
ListClose(key) == list # Nothing /\ ListHits(list, key) = {} /\ list' = Nothing

ListResize ==
    /\ list # Nothing
    /\ list' = ListDraw([list EXCEPT !.resized = TRUE])

ListNext ==
    \/ \E n \in 1..MaxItems : \E current \in 0..(n - 1) : ListOpen(n, current)
    \/ ListUp \/ ListDown \/ ListLetter \/ ListButton \/ ListResize
    \/ \E key \in {"RETURN", "SPACE", "?", "h", "s", "ESC", "x"} : ListClose(key)

ListInit == list = Nothing
=============================================================================
