------------------------------- MODULE NConf -------------------------------
(***************************************************************************)
(* support/kconfig/nconf.c, "make nconfig": the menus of mconf in other    *)
(* windows.  The function keys act in every box, choices included; Enter   *)
(* toggles; what is shown is read before it is calculated again.           *)
(*                                                                         *)
(* win is [trail, box, all, single, open] as in MConf.                     *)
(***************************************************************************)
EXTENDS MConf

\* item_make: the text was made of the values as they were; the item asks whether it is visible.
NAdd(tag, at, p) ==
    [p EXCEPT !.items = Append(@, Item(tag, at, InText(EntryAt(at).name, p.x))),
              !.x = MenuIsVisible(at, @)[2]]

(* build_conf *)
RECURSIVE NBuild(_, _, _)
NBuildBelow(at, w, p) == FoldLeft(LAMBDA q, b : NBuild(b, w, q), p, Below(at))

\* A choice whose item is made, of which the entries in chosen are the selected one; val is its
\* value as it was before the item was.
NBuildOfChoice(at, w, chosen, val, p) ==
    IF val # Yes THEN NBuildBelow(at, w, p)
    ELSE IF chosen # <<>> /\ Below(Last(chosen)) # <<>> THEN NBuild(Last(chosen), w, p)
    ELSE p
NBuildOpen(at, w, chosen, p) ==
    NBuildOfChoice(at, w, chosen, TriVal(EntryAt(at).name, p.x),
                   NAdd(IF IsChangable(EntryAt(at).name, p.x) \/ chosen # <<>> THEN "t" ELSE ":", at, p))
NBuildWithValues(at, w, values, items) ==
    NBuildOpen(at, w, Selected(EntryAt(at).name, values[1], values[2]), [items |-> items, x |-> values[2]])

\* menu_is_empty, if asked.
NAsked(asked, at, p) == IF asked THEN MenuEmpty(at, p) ELSE p

\* The other entries: whether the program asks if the menu is empty (before or after it makes the
\* item), and whether it goes on to what is below.
NBuildItem(at, w, tag, p) ==
    LET m == EntryAt(at)
        top == at = Innermost(w).at
        emptyMenu == m.name = "" /\ m.kind = "menu" /\ ~w.single
        emptySym  == ~top /\ m.kind = "menuconfig" /\ IsTri(m.name)
        closed    == m.name = "" /\ m.kind = "menu" /\ w.single /\ at \notin w.open
    IN IF top /\ m.name = "" THEN NBuildBelow(at, w, p)
       ELSE IF emptyMenu \/ emptySym \/ closed
       THEN NAsked(emptySym, at, NAdd(tag, at, NAsked(emptyMenu, at, p)))
       ELSE NBuildBelow(at, w, NAdd(tag, at, p))

NBuildVisible(at, w, p) ==
    LET m == EntryAt(at)
        s == m.name
    IN IF IsChoice(s) THEN NBuildWithValues(at, w, VisibleOf(Below(at), p.x), p.items)
       ELSE NBuildItem(at, w, IF s = "" THEN (IF m.kind = "menu" THEN "m" ELSE ":")
                              ELSE IF at = Innermost(w).at THEN ":" ELSE TagOf(s, p.x), p)
NBuildSeen(at, w, seen, items) ==
    IF seen[1] THEN NBuildVisible(at, w, [items |-> items, x |-> seen[2]])
    ELSE [items |-> items, x |-> seen[2]]
NBuild(at, w, p) == NBuildSeen(at, w, IF w.all THEN <<TRUE, p.x>> ELSE MenuIsVisible(at, p.x), p.items)

\* The list of conf_choice, which has hidden values in it too if everything is to be shown.
NValueItem(c, b, p) ==
    LET s == EntryAt(b).name
        mark == CASE s = "" -> ":" [] s = p.x.sel[c] -> "X" [] OTHER -> " "
    IN [items |-> Append(p.items, Item(":", b, mark)), x |-> MenuIsVisible(b, p.x)[2]]
NValueSeen(c, b, seen, items) ==
    IF seen[1] THEN NValueItem(c, b, [items |-> items, x |-> CalcValue(c, seen[2])])
    ELSE [items |-> items, x |-> seen[2]]
NBuildChoice(at, w, x) ==
    FoldLeft(LAMBDA p, b : NValueSeen(EntryAt(at).name, b,
                                      IF w.all THEN <<TRUE, p.x>> ELSE MenuIsVisible(b, p.x), p.items),
             [items |-> <<>>, x |-> x], Below(at))

NShown(w, x) == IF Innermost(w).kind = "conf" THEN NBuild(Innermost(w).at, w, [items |-> <<>>, x |-> x])
                ELSE NBuildChoice(Innermost(w).at, w, x)
NBegin(single) ==
    /\ prog = "nconf"
    /\ Begin
    /\ win = [trail |-> <<Call("conf", <<>>)>>, box |-> <<>>, all |-> FALSE, single |-> single, open |-> {}]

NInBox    == prog = "nconf" /\ phase = "run" /\ win.trail # <<>>
NInMenu   == NInBox /\ Innermost(win).kind = "conf"
NInChoice == NInBox /\ Innermost(win).kind = "choice"

\* After every key both loops ask whether the item is still visible.
Looked(i, x) == MenuIsVisible(win.box[i].at, x)

\* main() reads .config and shows the main menu.
NStart ==
    /\ prog = "nconf" /\ phase = "start"
    /\ Redraw(win, ReadConfig)
    /\ KeepRest /\ UNCHANGED left

NShow ==
    /\ prog = "nconf" /\ phase = "draw"
    /\ \E p \in {NShown(win, st)} : win' = [win EXCEPT !.box = p.items] /\ st' = p.x
    /\ phase' = "run"
    /\ KeepRest /\ UNCHANGED left

\* conf: Enter (or the right arrow) on item i, if that is not to change a symbol.
NEnter(i) ==
    /\ NInMenu
    /\ \E seen \in {Looked(i, st)} :
          Redraw(IF ~seen[1] THEN win
                 ELSE IF win.box[i].tag = "m" /\ win.single THEN Unfolds(win.box[i], win)
                 ELSE [win EXCEPT !.trail = @ \o Leads(win.box[i], seen[2])], seen[2])
    /\ KeepRest /\ UNCHANGED left

\* conf: y, n, m and the space bar, and Enter where it toggles.
NKey(i, key) ==
    LET item == win.box[i]
    IN /\ NInMenu
       /\ Spend
       /\ \E seen \in {Looked(i, st)} :
             /\ seen[1]
             /\ key = "enter" => Leads(item, seen[2]) = <<>>
             /\ IF item.tag = "t"
                THEN Redraw(win, Pressed(IF key = "enter" THEN " " ELSE key, EntryAt(item.at).name, seen[2]))
                ELSE Redraw(IF item.tag = "m" /\ key = " " THEN Inner("conf", item.at) ELSE win, seen[2])
       /\ KeepRest

\* conf, conf_string
NString(i, v) ==
    /\ NInMenu /\ win.box[i].tag = "s"
    /\ Spend
    /\ \E seen \in {Looked(i, st)} :
          \E r \in {SetString(EntryAt(win.box[i].at).name, v, seen[2])} :
              seen[1] /\ r[1] /\ Redraw(win, r[2])
    /\ KeepRest

\* conf_choice: a hidden value is not taken.
NPick(i) ==
    LET s == EntryAt(win.box[i].at).name
    IN /\ NInChoice /\ s # ""
       /\ Spend
       /\ \E seen \in {Looked(i, st)} :
             IF seen[1] THEN Redraw([win EXCEPT !.trail = Front(@)], SetTristate(s, Yes, seen[2])[2])
             ELSE Redraw(win, seen[2])
       /\ KeepRest

\* F5, ESC and the left arrow, which does not leave the main menu: the calling box or do_exit.
NBack ==
    /\ NInBox
    /\ IF Len(win.trail) > 1
       THEN Redraw([win EXCEPT !.trail = Front(@)], st)
       ELSE /\ win' = [win EXCEPT !.trail = <<>>, !.box = <<>>]
            /\ Leave
            /\ UNCHANGED st
    /\ UNCHANGED <<K, prog, files, filename, lost, left>>

\* F4
NShowAll(i, all) ==
    /\ NInBox
    /\ Redraw([win EXCEPT !.all = all], Looked(i, st)[2])
    /\ KeepRest /\ UNCHANGED left

\* F7, conf_load
NLoad(i, n) ==
    /\ NInBox
    /\ Spend
    /\ \E r \in {Load(n, st)} :
          /\ Redraw(win, Looked(i, IF r.ok THEN [r.x EXCEPT !.dirty = TRUE] ELSE r.x)[2])
          /\ filename' = IF r.ok THEN n ELSE filename
          /\ LostByLoad(r)
    /\ UNCHANGED <<K, prog, files>>

\* F6, conf_save
NSave(i, n) ==
    /\ NInBox
    /\ Spend
    /\ \E w \in Saves(n, st) :
          /\ Redraw(win, Looked(i, w.x)[2])
          /\ files' = w.files
          /\ filename' = IF w.ok THEN n ELSE filename
          /\ LostBySave(w)
    /\ UNCHANGED <<K, prog>>

\* F9, do_exit in the middle of it
NExit ==
    /\ NInBox
    /\ Leave
    /\ UNCHANGED <<K, st, prog, files, filename, win, lost, left>>

\* do_exit answered with ESC: the box again it was called from, or the main menu.
NStay ==
    /\ prog = "nconf" /\ phase = "asked"
    /\ Redraw(IF win.trail = <<>> THEN [win EXCEPT !.trail = <<Call("conf", <<>>)>>] ELSE win, st)
    /\ UNCHANGED <<K, prog, files, filename, lost, left>>

\* The other answers: a failing save ends the program too.
NAnswer ==
    /\ prog = "nconf" /\ phase = "asked"
    /\ SaveAndLeave \/ Discard

NNext ==
    /\ prog = "nconf"
    /\ \/ NStart \/ NShow \/ NBack \/ NExit \/ NStay \/ NAnswer
       \/ \E i \in DOMAIN win.box :
             \/ NEnter(i) \/ NPick(i)
             \/ \E key \in {"y", "n", "m", " ", "enter"} : NKey(i, key)
             \/ \E v \in Strings : NString(i, v)
             \/ \E all \in BOOLEAN : NShowAll(i, all)
             \/ \E n \in FileNames : NLoad(i, n) \/ NSave(i, n)
=============================================================================
