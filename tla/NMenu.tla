------------------------------- MODULE NMenu -------------------------------
(***************************************************************************)
(* support/kconfig/nconf.c: the list nconf shows a menu in, a menu of the  *)
(* curses library, and the search in it by typing.  nmenu is the state of  *)
(* a call of conf(), or Nothing.                                           *)
(*   n, max         the items and mwin_max_lines, the rows for them        *)
(*   top, cur       the first item in the window and the highlighted one   *)
(*   last_top_row   where center_item is to begin                          *)
(*   in_search, dir, hits   match_state; hits are the items whose text has *)
(*         the pattern in it, all of them while it is empty                *)
(*   hung           get_mext_match does not return                         *)
(***************************************************************************)
EXTENDS Curses, FiniteSets

CONSTANTS MaxListed, MaxShown       \* bounds: the items of a menu, the rows of its window

VARIABLE nmenu

Listed(m) == 0..(m.n - 1)
InView(m, item) == m.top <= item /\ item < m.top + m.max

\* set_top_row and set_menu_items of the library: a row that leaves part of the window empty is
\* refused, another row takes the highlight with it.
Rows(m) == 0..(m.n - MinOf(m.n, m.max))
SetTopRow(m, row) ==
    IF row \in Rows(m) /\ row # m.top THEN [m EXCEPT !.top = row, !.cur = row] ELSE m
SetMenuItems(m, n, max) == [m EXCEPT !.n = n, !.max = max, !.top = 0, !.cur = 0]

\* center_item
Middle(m, item) == MinOf(MaxOf(item - m.max \div 2, 0), m.n - m.max)
TopFor(m, item) == IF InView(m, item) THEN m.top ELSE Middle(m, item)
CenterFrom(m, item) ==
    [SetTopRow(m, TopFor(m, item)) EXCEPT
        !.cur = IF item \in Listed(m) THEN item ELSE @, !.last_top_row = TopFor(m, item)]
CenterItem(m, item) == CenterFrom(SetTopRow(m, m.last_top_row), item)

\* Plausible bug: a search for the next match begins with the current item.
MatchStartHere(m, dir) == m.cur

MatchStart(m, dir) ==
    CASE dir = "find_down" -> m.cur + 1 [] dir = "find_up" -> m.cur - 1 [] OTHER -> m.cur

\* get_mext_match looks at one item after the other, round the list, and stops where it began.
Step(dir) == IF dir \in {"find_up", "tinker_up"} THEN -1 ELSE 1
Visited(m, dir, k) == (MatchStart(m, dir) + Step(dir) * k + m.n) % m.n
Matching(m, dir) == {k \in Listed(m) : Visited(m, dir, k) \in m.hits}
Stops(m, dir) == Matching(m, dir) # {} \/ MatchStart(m, dir) \in Listed(m)

\* Goes to the match, if there is one.
Follow(m, dir) ==
    IF Matching(m, dir) = {} THEN [m EXCEPT !.dir = dir, !.hung = ~Stops(m, dir)]
    ELSE [CenterItem(m, Visited(m, dir, CHOOSE k \in Matching(m, dir) : \A j \in Matching(m, dir) : k <= j))
            EXCEPT !.dir = dir]

AdjMatchDir(dir) ==
    CASE dir = "find_down" -> "tinker_down" [] dir = "find_up" -> "tinker_up" [] OTHER -> dir

Open      == nmenu # Nothing /\ ~nmenu.hung
Searching == Open /\ nmenu.in_search
NoSearch(m) == [m EXCEPT !.in_search = FALSE, !.hits = {}, !.dir = "tinker_down"]

NMenuOpen(n, max) ==
    /\ nmenu = Nothing
    /\ nmenu' = [n |-> n, max |-> max, top |-> 0, cur |-> 0, last_top_row |-> 0,
                 in_search |-> FALSE, dir |-> "tinker_down", hits |-> {}, hung |-> FALSE]

\* The arrow, page, home and end keys: the library moves the highlight.  In a search only the home
\* key gets there, and ends it.
NMenuMove ==
    /\ Open
    /\ \E cur \in Listed(nmenu), top \in Rows(nmenu) :
          /\ top <= cur /\ cur < top + nmenu.max
          /\ nmenu.in_search => cur = 0
          /\ nmenu' = [NoSearch(nmenu) EXCEPT !.cur = cur, !.top = top]

\* do_match: '/' and, in a search, ESC.
NMenuSlash ==
    /\ Open
    /\ nmenu' = IF nmenu.in_search THEN NoSearch(nmenu)
                ELSE [NoSearch(nmenu) EXCEPT !.in_search = TRUE, !.hits = Listed(nmenu)]

\* do_match: a letter leaves fewer matches.  PgDn, PgUp and End are letters too, as the key is cut
\* to a char.
NMenuType(hits) ==
    /\ Searching /\ hits \subseteq nmenu.hits
    /\ nmenu' = Follow([nmenu EXCEPT !.hits = hits], AdjMatchDir(nmenu.dir))

\* do_match: backspace does not search.
NMenuBackspace(hits) ==
    /\ Searching /\ nmenu.hits \subseteq hits /\ hits \subseteq Listed(nmenu)
    /\ nmenu' = [nmenu EXCEPT !.hits = hits, !.dir = AdjMatchDir(@)]

\* do_match: the arrows in a search.
NMenuFind(dir) ==
    /\ Searching
    /\ nmenu' = Follow(nmenu, dir)

\* Plausible bug: the list comes back with the window where it was last centred.
ShowAgainCentred(m, n, max) == CenterItem(SetMenuItems(NoSearch(m), n, max), m.cur)

\* conf remembers the location and shows the menu anew, with what is in it by then.
ShowAgain(m, n, max) ==
    CenterItem([SetMenuItems(NoSearch(m), n, max) EXCEPT !.last_top_row = m.top], m.cur)

\* A key that does something to an item, a function key or another size of the terminal.
NMenuShow(n, max) ==
    /\ Open
    /\ nmenu' = ShowAgain(nmenu, n, max)

\* ESC outside of a search and the left arrow.
NMenuLeave == Open /\ nmenu' = Nothing

NMenuInit == nmenu = Nothing

NMenuNext ==
    \/ \E n \in 1..MaxListed, max \in 1..MaxShown : NMenuOpen(n, max) \/ NMenuShow(n, max)
    \/ NMenuMove \/ NMenuSlash \/ NMenuLeave
    \/ \E dir \in {"find_down", "find_up"} : NMenuFind(dir)
    \/ \E hits \in SUBSET (0..(MaxListed - 1)) : NMenuType(hits) \/ NMenuBackspace(hits)
=============================================================================
