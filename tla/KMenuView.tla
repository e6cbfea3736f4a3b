------------------------------ MODULE KMenuView ------------------------------
(***************************************************************************)
(* support/kconfig/menu.c: what the front ends ask of the finished menu,   *)
(* above all which of its entries are visible just now.  Asking calculates *)
(* symbols, so every answer comes with the new state.                      *)
(***************************************************************************)
EXTENDS KConfData

(* Entries of the menu by their path from the root *)
EntryAt(at)  == FoldLeft(LAMBDA m, i : m.list[i], K.menu, at)
Below(at)    == [i \in DOMAIN EntryAt(at).list |-> Append(at, i)]
IsMenu(m)    == m.kind \in {"menu", "menuconfig"}

\* menu_get_parent_menu
RECURSIVE ParentMenu(_)
ParentMenu(at) == IF at = <<>> \/ IsMenu(EntryAt(at)) THEN at ELSE ParentMenu(Front(at))

\* menu->prompt->visible.tri of an entry whose symbol is calculated.
PromptTri(m, x) ==
    LET c == K.choiceOf[m.name]
        tri == ValueOf(PromptCond(m), x)
    IN IF m.name = "" \/ c = "none" \/ Type[c] # "tristate" THEN tri
       ELSE IF Type[m.name] # "tristate" THEN (IF x.cur[c] = "y" THEN tri ELSE No)
       ELSE IF tri = Mod /\ x.cur[c] = "y" THEN No ELSE tri

\* menu_is_visible, which counts a symbol shown for its children as set: the answer and the state.
RECURSIVE MenuIsVisible(_, _), AnyVisible(_, _)
AnyRest(ats, r) == IF r[1] THEN r ELSE AnyVisible(ats, r[2])
AnyVisible(ats, x) ==
    IF ats = <<>> THEN <<FALSE, x>> ELSE AnyRest(Tail(ats), MenuIsVisible(Head(ats), x))

ShownForBelow(m, r) == IF r[1] THEN <<TRUE, [r[2] EXCEPT !.has = @ \cup {m.name}]>> ELSE r
PromptOrBelow(at, m, x) ==
    IF PromptTri(m, x) # No THEN <<TRUE, x>>
    ELSE IF m.name = "" \/ TriVal(m.name, x) = No THEN <<FALSE, x>>
    ELSE ShownForBelow(m, AnyVisible(Below(at), x))
WhereVisible(at, m, x) ==
    IF ValueOf(m.visibility, x) = No THEN <<FALSE, x>>
    ELSE PromptOrBelow(at, m, CalcAll(IF m.name # "" THEN <<m.name>> ELSE SymsOf(PromptCond(m)), x))
MenuIsVisible(at, x) ==
    IF ~Prompted(EntryAt(at)) THEN <<FALSE, x>>
    ELSE WhereVisible(at, EntryAt(at), With(EntryAt(at).visibility, x))

\* The entries of ats that are visible, and the state.
RECURSIVE VisibleOf(_, _)
VisibleAnd(at, seen, more) == <<(IF seen THEN <<at>> ELSE <<>>) \o more[1], more[2]>>
VisibleRest(ats, r) == VisibleAnd(Head(ats), r[1], VisibleOf(Tail(ats), r[2]))
VisibleOf(ats, x) ==
    IF ats = <<>> THEN <<<<>>, x>> ELSE VisibleRest(ats, MenuIsVisible(Head(ats), x))
=============================================================================
