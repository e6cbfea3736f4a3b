------------------------------ MODULE Lxdialog ------------------------------
(***************************************************************************)
(* The boxes of lxdialog, the library mconf draws its screens with.  They  *)
(* share nothing but the terminal and are never open together, so that a   *)
(* behaviour follows one of them, opened again and again with other lists, *)
(* strings and texts.  lxdialog/yesno.c is small enough to stand here.     *)
(* The list of nconf, which has no lxdialog, is one more of them.          *)
(***************************************************************************)
EXTENDS CheckList, InputBox, TextBox, NMenu

VARIABLES box,          \* the box this behaviour follows
          yesno         \* a call of dialog_yesno, or Nothing

boxes == <<menuVars, list, input, textVars, yesno, nmenu>>
vars  == <<box, boxes>>

YesNoOpen == yesno = Nothing /\ yesno' = [button |-> 0, shown |-> 0, resized |-> FALSE]

YesNoButton ==
    /\ yesno # Nothing
    /\ \E step \in {-1, 1} :
          LET b == NextButton(yesno.button, step, 1)
          IN yesno' = [yesno EXCEPT !.button = b, !.shown = b]

YesNoResize == yesno # Nothing /\ yesno' = [yesno EXCEPT !.shown = 0, !.resized = TRUE]

YesNoClose == yesno # Nothing /\ yesno' = Nothing

YesNoNext == YesNoOpen \/ YesNoButton \/ YesNoResize \/ YesNoClose

Init ==
    /\ box \in {"menu", "list", "input", "text", "yesno", "nmenu"}
    /\ MenuInit /\ ListInit /\ InputInit /\ TextInit /\ NMenuInit
    /\ yesno = Nothing

Next ==
    /\ UNCHANGED box
    /\ \/ box = "menu"  /\ MenuNext  /\ UNCHANGED <<list, input, textVars, yesno, nmenu>>
       \/ box = "list"  /\ ListNext  /\ UNCHANGED <<menuVars, input, textVars, yesno, nmenu>>
       \/ box = "input" /\ InputNext /\ UNCHANGED <<menuVars, list, textVars, yesno, nmenu>>
       \/ box = "text"  /\ TextNext  /\ UNCHANGED <<menuVars, list, input, yesno, nmenu>>
       \/ box = "yesno" /\ YesNoNext /\ UNCHANGED <<menuVars, list, input, textVars, nmenu>>
       \/ box = "nmenu" /\ NMenuNext /\ UNCHANGED <<menuVars, list, input, textVars, yesno>>

Spec == Init /\ [][Next]_vars

\* The item RETURN acts on is the one the user sees highlighted, for the boxes with a list:
\* print_item and do_scroll of dialog_menu and dialog_checklist keep the window in step with
\* scroll and choice through every key, and the arrows tell whether the list goes on.
ShowsItems ==
    /\ (menu # Nothing /\ menu.off = 0) =>
          /\ menu.win = DrawRows(menu.height, MaxChoice(menu), menu.scroll, menu.choice)
          /\ menu.scroll \in 0..(menu.n - MaxChoice(menu))
          /\ menu.n > 0 => menu.choice \in 0..(MaxChoice(menu) - 1)
          /\ menu.up = (menu.scroll > 0)
          /\ menu.down = (menu.scroll + menu.height < menu.n)
    /\ list # Nothing =>
          /\ list.win = DrawRows(ListHeight, ListMax(list), list.scroll, list.choice)
          /\ list.scroll \in 0..(list.n - ListMax(list))
          /\ list.choice \in 0..(ListMax(list) - 1)
          /\ list.up = (list.scroll > 0)
          /\ ~list.resized => list.down = (list.scroll + ListHeight < list.n)

\* A menu that returned an item and is shown again unchanged comes back as it was: conf() hands
\* dialog_menu the item and the saved scroll position.
MenuComesBack ==
    [][ (menu = Nothing /\ menu' # Nothing /\ last # Nothing
         /\ menu'.n = last.n /\ menu'.height = last.height
         /\ menu'.selected = last.scroll + last.choice /\ last.n > 0)
        => menu'.scroll = last.scroll /\ menu'.choice = last.choice ]_vars

\* The field of dialog_inputbox shows the part of the string that starts at show_x, without
\* remains of what it showed before, and the cursor stands where the next key acts.
FieldShowsString ==
    input # Nothing =>
        /\ input.pos = input.show_x + input.input_x
        /\ input.pos \in 0..Len(input.instr) /\ input.input_x \in Columns
        /\ \A i \in Columns :
              input.cells[i] = IF input.show_x + i < Len(input.instr)
                               THEN input.instr[input.show_x + i + 1] ELSE Blank

\* dialog_textbox knows what it shows: going back page_length lines from where the printing
\* stopped leads to the first line on the screen, and the two flags tell whether the first and
\* the last line are in view.  Texts without a final newline are one line off (see README).
KeepsPlace ==
    (text # Nothing /\ text.ended) =>
        /\ Reprint(text).page = text.top
        /\ text.begin_reached = (text.top = 0)
        /\ text.end_reached = (text.top + text.height > text.lines)

\* Going through a text page by page or line by line misses no line, also where a search's
\* last page goes back to fill the box.
NoLineMissed ==
    [][ (text # Nothing /\ text.ended) =>
          /\ NextPage => text'.top > text.top /\ text'.top <= text.top + text.height
          /\ PreviousPage => text'.top < text.top /\ text'.top + text.height >= text.top
          /\ NextLine => text'.top = text.top + 1
          /\ PreviousLine => text'.top = text.top - 1 ]_vars

\* A key that a page of search results offers stands on a line of that page, no two lines have
\* the same one, and no place in view is left out while there are keys.
KeysMatchPage ==
    (text # Nothing /\ text.search) =>
        LET shown == {l \in text.jumps : text.top <= l /\ l < text.top + text.height}
        IN /\ \A k \in text.keys : k[2] \in shown
           /\ \A k1, k2 \in text.keys : k1[1] = k2[1] => k1 = k2
           /\ Cardinality(text.keys) = MinOf(JumpNb, Cardinality(shown))

\* Typing and the arrows of a search in nconf's list take the highlight to the nearest item that
\* matches, counted round the list in the direction of the search, or nowhere; it stays in view;
\* and a key that acts on the item finds the same list as it was.
Nearest(m, item, first, step) ==
    LET distance(i) == (step * (i - first) + m.n) % m.n
    IN item \in m.hits /\ \A i \in m.hits : distance(item) <= distance(i)
SearchFinds ==
    [][ (nmenu # Nothing /\ nmenu' # Nothing) =>
          LET finds(first, step) ==
                IF nmenu'.hits = {} THEN nmenu'.cur = nmenu.cur
                ELSE Nearest(nmenu', nmenu'.cur, first, step)
          IN /\ InView(nmenu', nmenu'.cur) /\ nmenu'.cur \in Listed(nmenu')
             /\ NMenuFind("find_down") => finds(nmenu.cur + 1, 1)
             /\ NMenuFind("find_up")   => finds(nmenu.cur - 1, -1)
             /\ (\E hits \in SUBSET nmenu.hits : NMenuType(hits)) => finds(nmenu.cur, Step(nmenu.dir))
             /\ NMenuShow(nmenu.n, nmenu.max) => nmenu'.cur = nmenu.cur /\ nmenu'.top = nmenu.top ]_vars

\* "return the index of the matched item, or -1 if no such item exists" (nconf.c): it returns.
SearchReturns == nmenu # Nothing => ~nmenu.hung

\* The button that is highlighted is the one RETURN presses.
ButtonShown == \A b \in {menu, list, input, yesno} \ {Nothing} : b.shown = MaxOf(b.button, 0)

\* No box uses an item beyond its list.
NeverDies == ~died
=============================================================================
