------------------------------- MODULE KMenu -------------------------------
(***************************************************************************)
(* support/kconfig/menu.c: from the entries of the Config.in files to the  *)
(* tables the symbols are calculated from and the tree the front ends show.*)
(*                                                                         *)
(* An entry is a record                                                    *)
(*   [kind, name, optional, dep, visibility, props, list]                  *)
(* of kind "config", "choice", "menu", "if" or "comment"; name is "" when  *)
(* the entry has no symbol, and list holds its children in file order.  A  *)
(* property is [kind, arg, cond] of kind "prompt", "default" (arg an       *)
(* expression), "select", "imply" (arg a symbol) or "range" (arg a pair).  *)
(***************************************************************************)
EXTENDS KExpr, SequencesExt

CONSTANTS Modules       \* the symbol with "option modules", or n

\* rewrite_m: 'm' -> 'm' && MODULES
RECURSIVE RewriteM(_)
RewriteM(e) ==
    CASE e = Null -> Null
      [] e[1] \in Levels -> <<e[1], RewriteM(e[2]), RewriteM(e[3])>>
      [] e[1] = "not"    -> <<"not", RewriteM(e[2])>>
      [] e = Sym("m")    -> <<"and", e, Sym(Modules)>>
      [] OTHER -> e

Kinds(m, kind)  == SelectSeq(m.props, LAMBDA p : p.kind = kind)
Prompted(m)     == Kinds(m, "prompt") # <<>>
PromptCond(m)   == Last(Kinds(m, "prompt")).cond

\* menu_add_prop: a symbol's prompt inherits the visibility of the menus around it.
AddVisibility(m, around, p) ==
    IF m.name # "" /\ p.kind = "prompt" THEN AllocAnd(p.cond, around) ELSE p.cond

Simplify(parentdep, e) == EliminateDups(AllocAnd(parentdep, Transform(RewriteM(e))))

(* menu_finalize, first part: dependencies go down the tree *)
FinalizeCond(m, e) == IF e # Null /\ m.name # "" /\ Type[m.name] # "tristate" THEN TransBool[e] ELSE e

FinalizeProp(m, dep, around, p) ==
    [p EXCEPT !.cond = FinalizeCond(m, Simplify(dep, AddVisibility(m, around, p)))]

FinalizeEntry(m, dep, around) ==
    [m EXCEPT !.dep = dep,
              !.props = [i \in DOMAIN @ |-> FinalizeProp(m, dep, around, m.props[i])]]

\* What the children of a finalized entry depend on.
DepBelow(m) == CASE m.kind = "choice"                   -> Sym(m.name)
                 [] m.kind # "choice" /\ Prompted(m)    -> PromptCond(m)
                 [] m.kind # "choice" /\ ~Prompted(m)   -> m.dep

RECURSIVE Propagate(_, _, _)
PropagateBelow(m, around) ==
    [m EXCEPT !.list =
        [i \in DOMAIN @ |-> Propagate(m.list[i], DepBelow(m), AllocAnd(m.visibility, around))]]

Propagate(m, parentdep, around) ==
    PropagateBelow(FinalizeEntry(m, Simplify(parentdep, m.dep), around), around)

\* The auto-submenu test: does entry m depend on the symbol of entry owner?
ShownIf(m) == IF Prompted(m) THEN PromptCond(m) ELSE m.dep
NotNo(e) == EliminateDups(Transform(TransCompareNo(e, "!=")))

Follows(owner, m) ==
    /\ ContainsSymbol(ShownIf(m), owner.name)
    /\ \/ DependsSymbol(ShownIf(m), owner.name)
       \/ EliminateEq(NotNo(ShownIf(m)),
                      NotNo(IF Prompted(owner) THEN PromptCond(owner) ELSE Null))[2] \in {Null, Y}

\* An "if", or a symbol without a prompt, leaves its children at its own level.
Flatten(list) ==
    FlattenSeq([i \in DOMAIN list |->
        IF list[i].list # <<>> /\ ~Prompted(list[i])
        THEN <<[list[i] EXCEPT !.list = <<>>]>> \o list[i].list
        ELSE <<list[i]>>])

(* menu_finalize, second part: a symbol takes the entries that depend on   *)
(* it as its submenu.  Take and ArrangeHead give what they have made and   *)
(* the entries they leave.                                                 *)
RECURSIVE Arrange(_), ArrangeHead(_), Take(_, _)
Before(h, more)     == <<<<h>> \o more[1], more[2]>>
TakeMore(owner, h)  == Before(h[1], Take(owner, h[2]))
Take(owner, list) ==
    IF list = <<>> \/ ~Follows(owner, Head(list)) THEN <<<<>>, list>>
    ELSE TakeMore(owner, ArrangeHead(list))

Owner(m, taken) == <<[m EXCEPT !.list = Flatten(taken[1])], taken[2]>>
ArrangeHead(list) ==
    LET m == Head(list)
    IN CASE m.list # <<>>                   -> Owner(m, <<Arrange(m.list), Tail(list)>>)
         [] m.list = <<>> /\ m.name # ""    -> Owner(m, Take(m, Tail(list)))
         [] m.list = <<>> /\ m.name = ""    -> <<m, Tail(list)>>

ArrangeRest(h) == <<h[1]>> \o Arrange(h[2])
Arrange(list)  == IF list = <<>> THEN <<>> ELSE ArrangeRest(ArrangeHead(list))

RECURSIVE Entries(_)
Entries(m) == <<m>> \o FlattenSeq([i \in DOMAIN m.list |-> Entries(m.list[i])])

(* The tables, from the entries of the finalized tree *)
OrAll(es) == FoldLeft(AllocOr, Null, es)
Named(entries, s) == SelectSeq(entries, LAMBDA m : m.name = s)

\* The values of choice c, from the entries of the arranged menu.
MembersOf(arranged, c) ==
    LET vs == SelectSeq(Named(arranged, c)[1].list, LAMBDA e : e.name # "")
    IN [i \in DOMAIN vs |-> vs[i].name]

ChoiceFor(members, s) ==
    IF \E c \in DOMAIN members : Contains(members[c], s)
    THEN CHOOSE c \in DOMAIN members : Contains(members[c], s) ELSE "none"

\* Non-tristate values of a tristate choice also need the choice to be y.
UnderChoice(s, c, e) ==
    IF c # "none" /\ Type[s] # "tristate" /\ Type[c] = "tristate" THEN AllocAnd(<<"=", c, "y">>, e) ELSE e

PropsOf(ms, s, c, kind) ==
    LET ps == FlattenSeq([i \in DOMAIN ms |-> Kinds(ms[i], kind)])
    IN [j \in DOMAIN ps |-> [arg |-> ps[j].arg, cond |-> UnderChoice(s, c, ps[j].cond)]]

\* The conditions under which properties of a kind reach symbol s.
Reaching(m, ps) == [j \in DOMAIN ps |-> AllocAnd(Sym(m.name), ps[j].cond)]
SetBy(all, s, kind) ==
    OrAll(FlattenSeq([i \in DOMAIN all |->
        Reaching(all[i], SelectSeq(Kinds(all[i], kind), LAMBDA p : p.arg = s))]))

\* A choice that is not optional is at least m.
Forced(m) == IF m.kind = "choice" /\ ~m.optional /\ Prompted(m)
             THEN AllocAnd(PromptCond(m), Sym("m")) ELSE Null

Conds(ps) == [i \in DOMAIN ps |-> ps[i].cond]
Deps(ms)  == LET leaves == SelectSeq(ms, LAMBDA m : m.list = <<>>)
             IN [i \in DOMAIN leaves |-> leaves[i].dep]

Tables(menu, all, of, choiceOf, members) ==
    LET props(kind) == [s \in DOMAIN of |-> PropsOf(of[s], s, choiceOf[s], kind)]
    IN [ menu     |-> menu,
         order    |-> SetToSeq(DOMAIN of),
         syms     |-> DOMAIN of,
         choices  |-> DOMAIN members,
         members  |-> members,
         choiceOf |-> choiceOf,
         optional |-> [c \in DOMAIN members |-> Head(of[c]).optional],
         prompts  |-> [s \in DOMAIN of |-> Conds(PropsOf(of[s], s, choiceOf[s], "prompt"))],
         defaults |-> props("default"),
         ranges   |-> props("range"),
         implies  |-> props("imply"),
         dir      |-> [s \in DOMAIN of |-> OrAll(Deps(of[s]))],
         rev      |-> [s \in DOMAIN of |->
                         AllocOr(SetBy(all, s, "select"),
                                 OrAll([i \in DOMAIN of[s] |-> Forced(of[s][i])]))],
         imp      |-> [s \in DOMAIN of |-> SetBy(all, s, "imply")] ]

TablesOf(menu, all, of, members) ==
    Tables(menu, all, of, [s \in DOMAIN of |-> ChoiceFor(members, s)], members)

FromEntries(menu, all, arranged) ==
    TablesOf(menu, all,
             [s \in {all[i].name : i \in DOMAIN all} \ {""} |-> Named(all, s)],
             [c \in {m.name : m \in {e \in ToSet(all) : e.kind = "choice"}} |-> MembersOf(arranged, c)])

FromMenu(menu, all) == FromEntries(menu, all, Entries(menu))
FromTree(tree) == FromMenu([tree EXCEPT !.list = Flatten(Arrange(@))], Entries(tree))

\* menu_finalize(&rootmenu): the tree, and what the symbols hold once it is finalized.
Finalize(root) == FromTree(Propagate(root, Null, Null))
=============================================================================
