------------------------------- MODULE MConf -------------------------------
(***************************************************************************)
(* support/kconfig/mconf.c, "make menuconfig": menus in boxes.  The stack  *)
(* of calls of conf() and conf_choice() is the trail; the innermost one    *)
(* has its items on the screen, built anew after every key.  dialog_menu() *)
(* and its like are modelled in Lxdialog; here they return any item.       *)
(*                                                                         *)
(* win is [trail, box, all, single, open]: the calls, the items, "show     *)
(* all", single menu mode and the menus unfolded in it.                    *)
(***************************************************************************)
EXTENDS KFront

Call(kind, at) == [kind |-> kind, at |-> at]
Innermost(w)   == Last(w.trail)

Item(tag, at, shows) == [tag |-> tag, at |-> at, shows |-> shows]

\* The value in the text of an item.
InText(s, x) == CASE s = "" -> "" [] s # "" /\ IsChoice(s) /\ x.cur[s] = "y" /\ x.sel[s] # "none" -> x.sel[s]
                  [] OTHER -> x.cur[s]

\* The entry of a choice whose value is the selected one; without a value that is a comment.
Selected(c, ats, x) ==
    SelectSeq(ats, LAMBDA at : EntryAt(at).name = IF x.sel[c] = "none" THEN "" ELSE x.sel[c])

\* The tag of a symbol that is no choice.
TagOf(s, x) ==
    CASE ~IsTri(s) -> "s"
      [] IsTri(s) /\ IsChoiceValue(s) /\ x.cur[s] = "y" -> ":"
      [] OTHER -> "t"

(* build_conf of the entry at path at, after the items p.items: the items and the state *)
Add(tag, at, p) == [p EXCEPT !.items = Append(@, Item(tag, at, InText(EntryAt(at).name, p.x)))]
MenuEmpty(at, p) == [p EXCEPT !.x = AnyVisible(Below(at), @)[2]]        \* menu_is_empty

RECURSIVE Build(_, _, _)
BuildBelow(at, w, p) == FoldLeft(LAMBDA q, b : Build(b, w, q), p, Below(at))

\* A choice, of which the entries in chosen are the selected one.
BuildOfChoice(at, w, chosen, p) ==
    LET s == EntryAt(at).name
        done == Add(IF IsChangable(s, p.x) \/ chosen # <<>> THEN "t" ELSE ":", at, p)
    IN IF TriVal(s, p.x) # Yes THEN BuildBelow(at, w, done)
       ELSE IF chosen # <<>> /\ Below(Last(chosen)) # <<>> THEN Build(Last(chosen), w, done)
       ELSE done
BuildWithValues(at, w, values, items) ==
    BuildOfChoice(at, w, Selected(EntryAt(at).name, values[1], values[2]), [items |-> items, x |-> values[2]])

BuildVisible(at, w, p) ==
    LET m == EntryAt(at)
        s == m.name
        top == at = Innermost(w).at
        menu == s = "" /\ m.kind = "menu"
        tag == CASE s = "" -> IF menu THEN "m" ELSE ":"
                 [] s # "" -> IF top THEN ":" ELSE TagOf(s, p.x)
    IN CASE IsChoice(s) -> BuildWithValues(at, w, VisibleOf(Below(at), p.x), p.items)
         [] ~IsChoice(s) /\ s = "" /\ top -> BuildBelow(at, w, p)
         [] ~IsChoice(s) /\ ~top /\ menu /\ w.single /\ at \notin w.open -> Add(tag, at, p)
         [] ~IsChoice(s) /\ ~top /\ ((menu /\ ~w.single) \/ (m.kind = "menuconfig" /\ IsTri(s))) ->
              MenuEmpty(at, Add(tag, at, p))
         [] OTHER -> BuildBelow(at, w, Add(tag, at, p))

BuildSeen(at, w, seen, items) ==
    IF IF w.all THEN Prompted(EntryAt(at)) ELSE seen[1]
    THEN BuildVisible(at, w, [items |-> items, x |-> seen[2]])
    ELSE [items |-> items, x |-> seen[2]]
Build(at, w, p) == BuildSeen(at, w, MenuIsVisible(at, p.x), p.items)

\* The list of conf_choice.
ChoiceBox(c, values) ==
    LET tag(b) == CASE EntryAt(b).name = "" -> ":"
                    [] EntryAt(b).name # "" /\ EntryAt(b).name = values[2].sel[c] -> "X"
                    [] OTHER -> " "
    IN [items |-> [i \in DOMAIN values[1] |-> Item(tag(values[1][i]), values[1][i], tag(values[1][i]))],
        x |-> values[2]]
BuildChoice(at, x) == ChoiceBox(EntryAt(at).name, VisibleOf(Below(at), x))

MShown(w, x) == IF Innermost(w).kind = "conf" THEN Build(Innermost(w).at, w, [items |-> <<>>, x |-> x])
                ELSE BuildChoice(Innermost(w).at, x)

\* The loop of conf() or conf_choice() comes round: the items are to be made anew.
Redraw(w, x) == win' = [w EXCEPT !.box = <<>>] /\ st' = x /\ phase' = "draw"

MBegin(single) ==
    /\ prog = "mconf"
    /\ Begin
    /\ win = [trail |-> <<Call("conf", <<>>)>>, box |-> <<>>, all |-> FALSE, single |-> single, open |-> {}]

InMenu   == prog = "mconf" /\ phase = "run" /\ win.trail # <<>> /\ Innermost(win).kind = "conf"
InChoice == prog = "mconf" /\ phase = "run" /\ win.trail # <<>> /\ Innermost(win).kind = "choice"
Inner(kind, at) == [win EXCEPT !.trail = Append(@, Call(kind, at))]
KeepRest == MadeUpFor /\ UNCHANGED <<K, prog, files, filename>>

\* main() reads .config and calls conf(&rootmenu).
MStart ==
    /\ prog = "mconf" /\ phase = "start"
    /\ Redraw(win, ReadConfig)
    /\ KeepRest /\ UNCHANGED left

\* build_conf or the loop over the values of a choice, and the box is on the screen.
MShow ==
    /\ prog = "mconf" /\ phase = "draw"
    /\ \E p \in {MShown(win, st)} : win' = [win EXCEPT !.box = p.items] /\ st' = p.x
    /\ phase' = "run"
    /\ KeepRest /\ UNCHANGED left

\* Plausible bug: a symbol that is a menu is not one to enter.
LeadsNotIntoSymbols(item, x) ==
    CASE item.tag = "m" -> <<Call("conf", item.at)>>
      [] item.tag = "t" /\ IsChoice(EntryAt(item.at).name) /\ TriVal(EntryAt(item.at).name, x) = Yes ->
           <<Call("choice", item.at)>>
      [] OTHER -> <<>>

\* The call <Select> on an item leads to, if any.
Leads(item, x) ==
    LET m == EntryAt(item.at)
        choose == item.tag = "t" /\ IsChoice(m.name) /\ TriVal(m.name, x) = Yes
    IN CASE choose -> <<Call("choice", item.at)>>
         [] ~choose /\ (item.tag = "m" \/ (item.tag = "t" /\ IsMenu(m))) -> <<Call("conf", item.at)>>
         [] OTHER -> <<>>

\* In single menu mode <Select> on a menu shows or hides what is in it.
Unfolds(item, w) == [w EXCEPT !.open = IF item.at \in @ THEN @ \ {item.at} ELSE @ \cup {item.at}]

\* conf: <Select> on item i.
MEnter(i) ==
    LET item == win.box[i]
    IN /\ InMenu
       /\ Redraw(IF item.tag = "m" /\ win.single THEN Unfolds(item, win)
                 ELSE [win EXCEPT !.trail = @ \o Leads(item, st)], st)
       /\ KeepRest /\ UNCHANGED left

\* conf, conf_string: <Select> on item i and a value that is accepted.
MString(i, v) ==
    /\ InMenu /\ win.box[i].tag = "s"
    /\ Spend
    /\ \E r \in {SetString(EntryAt(win.box[i].at).name, v, st)} : r[1] /\ Redraw(win, r[2])
    /\ KeepRest

\* What y, n, m and the space bar do to a symbol.
YesOrMod(key, s, r) == IF key = "y" /\ ~r[1] THEN SetTristate(s, Mod, r[2])[2] ELSE r[2]
Pressed(key, s, x) ==
    IF key = " " THEN ToggleTristate(s, x) ELSE YesOrMod(key, s, SetTristate(s, Tri(key), x))

\* conf: a key on item i.
MKey(i, key) ==
    LET item == win.box[i]
    IN /\ InMenu
       /\ Spend
       /\ IF item.tag = "t" THEN Redraw(win, Pressed(key, EntryAt(item.at).name, st))
          ELSE Redraw(IF item.tag = "m" /\ key = " " THEN Inner("conf", item.at) ELSE win, st)
       /\ KeepRest

\* conf_choice: <Select> on item i.
MPick(i) ==
    LET s == EntryAt(win.box[i].at).name
    IN /\ InChoice /\ s # ""
       /\ Spend
       /\ Redraw([win EXCEPT !.trail = Front(@)], SetTristate(s, Yes, st)[2])
       /\ KeepRest

\* ESC or <Exit>: the calling box again, or handle_exit.
MBack ==
    /\ InMenu \/ InChoice
    /\ IF Len(win.trail) > 1
       THEN Redraw([win EXCEPT !.trail = Front(@)], st)
       ELSE /\ win' = [win EXCEPT !.trail = <<>>, !.box = <<>>]
            /\ Leave
            /\ UNCHANGED st
    /\ UNCHANGED <<K, prog, files, filename, lost, left>>

\* get_prompt_str: where a search result offers to jump to, if anywhere: the entry itself or the
\* innermost visible one around it, when one around it is visible.
Target(at, x) ==
    LET outward == [i \in 1..Len(at) |-> SubSeq(at, 1, Len(at) - i + 1)]
        seen == SelectSeq(outward, LAMBDA b : MenuIsVisible(b, x)[1])
    IN IF seen \in {<<>>, <<at>>} THEN <<>> ELSE seen[1]

\* search_conf, from the main menu: a jump to the box a search result is in.
MJump(at) ==
    /\ InMenu /\ Len(win.trail) = 1
    /\ EntryAt(at).name # "" /\ Prompted(EntryAt(at))
    /\ \E target \in {Target(at, st)} :
          target # <<>> /\ Redraw(Inner("conf", Front(target)), st)
    /\ KeepRest /\ UNCHANGED left

MShowAll ==
    /\ InMenu
    /\ Redraw([win EXCEPT !.all = ~@], st)
    /\ KeepRest /\ UNCHANGED left

\* conf_load
MLoad(n) ==
    /\ InMenu
    /\ Spend
    /\ \E r \in {Load(n, st)} :
          /\ Redraw(win, IF r.ok THEN [r.x EXCEPT !.dirty = TRUE] ELSE r.x)
          /\ filename' = IF r.ok THEN n ELSE filename
          /\ LostByLoad(r)
    /\ UNCHANGED <<K, prog, files>>

\* conf_save
MSave(n) ==
    /\ InMenu
    /\ Spend
    /\ \E w \in Saves(n, st) :
          /\ Redraw(win, w.x)
          /\ files' = w.files
          /\ filename' = IF w.ok THEN n ELSE filename
          /\ LostBySave(w)
    /\ UNCHANGED <<K, prog>>

\* handle_exit, its question answered with ESC: conf(&rootmenu) from the start.
MStay ==
    /\ prog = "mconf" /\ phase = "asked"
    /\ Redraw([win EXCEPT !.trail = <<Call("conf", <<>>)>>], st)
    /\ UNCHANGED <<K, prog, files, filename, lost, left>>

\* sig_handler: the same question from wherever the user is, and ESC is no way back.
MInterrupt ==
    /\ prog = "mconf" /\ phase \in {"draw", "run"} /\ win.trail # <<>>
    /\ phase' = IF st.dirty THEN "interrupted" ELSE "kept"
    /\ UNCHANGED <<K, st, prog, files, filename, win, lost, left>>

\* sig_handler in the middle of conf_read, which has reset the change count: no question.  (Lines of
\* unknown symbols raise it again; there are none here.)
MCutLoad(n) ==
    /\ InMenu
    /\ left > 0 /\ files[n].now # Absent
    /\ phase' = "kept"
    /\ st' = [st EXCEPT !.dirty = FALSE]
    /\ lost' = IF st.dirty THEN "load" ELSE lost
    /\ UNCHANGED <<K, prog, files, filename, win, left>>

\* Where conf_write of the name n can be cut short: after some of the symbols, each of which is off
\* the list of those to write; with the text complete, before, between and after the renames.
\* buffered are the lines that are not in the temporary file yet: all so far, or none.
Cuts(n, x) ==
    LET from == [lines |-> <<>>, x |-> IF x.dirty THEN x ELSE ClearAllValid(x)]
        inText(p) == {[x |-> p.x, files |-> files, buffered |-> text] : text \in {p.lines, <<>>}}
        renaming(d) == {[x |-> d.x, files |-> fs, buffered |-> <<>>] :
                          fs \in {MovedAway(files, n), [MovedAway(files, n) EXCEPT ![n].now = d.lines]}}
    IN renaming(Dump(x)) \cup
       UNION {inText(FoldLeft(WriteSymbol, from, SubSeq(Written, 1, k))) : k \in 0..Len(Written)}

\* At exit() the FILE that was cut short writes what it has over the text of the conf_write in
\* between: the temporary file is the same.  (All lines are taken to be equally long.)
WrittenOver(buffered, lines) == buffered \o SubSeq(lines, Len(buffered) + 1, Len(lines))

\* sig_handler in the middle of conf_write of the name n, and the answer: handle_exit calls
\* conf_write again, for the symbols that are still on the list.
CutShort(n) ==
    \E c \in Cuts(n, st) :
        /\ \/ /\ phase' = "discarded"
              /\ st' = c.x /\ files' = c.files
              /\ UNCHANGED lost
           \/ \E d \in {Dump(c.x)} :
              \E w \in Outcomes(c.files, filename, c.x, [d EXCEPT !.lines = WrittenOver(c.buffered, @)]) :
                 /\ phase' = IF w.ok THEN "saved" ELSE "failed"
                 /\ st' = w.x /\ files' = w.files
                 /\ lost' = "save"
        /\ UNCHANGED <<K, prog, filename, win, left>>
MCutSave(n) == InMenu /\ left > 0 /\ CutShort(n)
MCutAnswer  == prog = "mconf" /\ phase = "asked" /\ CutShort(filename)

MAnswer ==
    /\ prog = "mconf" /\ phase \in {"asked", "interrupted"}
    /\ SaveAndLeave \/ Discard

MNext ==
    /\ prog = "mconf"
    /\ \/ MStart \/ MShow \/ MBack \/ MShowAll \/ MStay \/ MInterrupt \/ MAnswer \/ MCutAnswer
       \/ \E i \in DOMAIN win.box :
             \/ MEnter(i) \/ MPick(i)
             \/ \E key \in {"y", "n", "m", " "} : MKey(i, key)
             \/ \E v \in Strings : MString(i, v)
       \/ \E n \in FileNames : MLoad(n) \/ MSave(n) \/ MCutLoad(n) \/ MCutSave(n)
       \/ \E at \in Paths : MJump(at)
=============================================================================
