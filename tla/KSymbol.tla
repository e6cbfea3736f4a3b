------------------------------ MODULE KSymbol ------------------------------
(***************************************************************************)
(* support/kconfig/symbol.c: the values of the symbols, calculated on      *)
(* demand and cached until the next change.                                *)
(*                                                                         *)
(* The program keeps everything in the symbols; here it is one record st,  *)
(* and a function that changes symbols returns the new record.             *)
(*   cur   curr.tri as "n", "m" or "y", or curr.val of a number or string  *)
(*   sel   curr.val of a choice: the selected value, or "none"             *)
(*   vis, dir, rev, imp   the four tristates behind a value                *)
(*   valid, write, has, need   the symbols with that flag                  *)
(*         (has: SYMBOL_DEF_USER; need: SYMBOL_NEED_SET_CHOICE_VALUES)     *)
(*   utri, uval   def[S_DEF_USER], what the user or the file has set       *)
(*   mods  modules_val                                                     *)
(*   dirty whether conf_get_changed() has something to report              *)
(***************************************************************************)
EXTENDS KMenu

VARIABLES K,            \* the tables of the Config.in files the program has read
          st            \* the symbols

IsTri(s)         == s \in K.syms /\ Type[s] \in Tristates
IsChoice(s)      == s \in K.choices
IsChoiceValue(s) == K.choiceOf[s] # "none"

\* The symbols when conf_parse is done.
Blank(tables) ==
    LET all(v) == [s \in tables.syms |-> v]
    IN [cur |-> [s \in tables.syms |-> IF Type[s] \in Tristates THEN "n" ELSE ""],
        sel |-> all("none"), vis |-> all(No), dir |-> all(No), rev |-> all(No), imp |-> all(No),
        valid |-> {}, write |-> {}, has |-> {}, need |-> {},
        utri |-> all(No), uval |-> all("none"), mods |-> No, dirty |-> TRUE]

\* sym_get_string_value, and the tristate of a symbol; an undefined symbol is its own name.
Str(s, x)  == IF s \in K.syms THEN x.cur[s] ELSE s
TriVal(s, x) == IF s \in Constants \/ IsTri(s) THEN Tri(Str(s, x)) ELSE No

GetType(s, x) ==
    IF Type[s] = "tristate" /\ (x.mods = No \/ (IsChoiceValue(s) /\ x.vis[s] = Yes))
    THEN "bool" ELSE Type[s]

RECURSIVE SymsOf(_)
SymsOf(e) ==
    CASE e = Null -> <<>>
      [] e[1] \in Levels      -> SymsOf(e[2]) \o SymsOf(e[3])
      [] e[1] = "not"         -> SymsOf(e[2])
      [] e[1] = "sym"         -> <<e[2]>>
      [] e[1] \in Comparisons -> <<e[2], e[3]>>

ValueOf(e, x) == Calc(e, [s \in ToSet(SymsOf(e)) |-> Str(s, x)])

(* sym_calc_value and what it calls: steps from one state to the next *)
RECURSIVE CalcValue(_, _), CalcAll(_, _), FirstProp(_, _, _)
CalcAll(ss, x) == IF ss = <<>> THEN x ELSE CalcAll(Tail(ss), CalcValue(Head(ss), x))

\* expr_calc_value: calculating the symbols of e on the way.
With(e, x) == CalcAll(SymsOf(e), x)

\* sym_get_default_prop, sym_get_range_prop: the first property from i on whose condition is not n.
PropOr(ps, i, tri, x) == IF tri # No THEN [at |-> i, tri |-> tri, x |-> x] ELSE FirstProp(ps, i + 1, x)
PropAt(ps, i, x)      == PropOr(ps, i, ValueOf(ps[i].cond, x), x)
FirstProp(ps, i, x) ==
    IF i > Len(ps) THEN [at |-> 0, tri |-> No, x |-> x] ELSE PropAt(ps, i, With(ps[i].cond, x))

\* sym_calc_visibility.  A symbol of type bool cannot hold m.
BoundTri(s, tri, x)      == IF tri = Mod /\ GetType(s, x) = "bool" THEN Yes ELSE tri
Bound(s, e, default, x)  == IF e = Null THEN default ELSE BoundTri(s, ValueOf(e, x), x)

Hidden(s, tri, x) ==
    IsChoiceValue(s) /\ Type[s] = "tristate" /\ tri = Mod /\ x.cur[K.choiceOf[s]] = "y"
PromptsTri(s, x) ==
    Max({No} \cup {t \in {ValueOf(e, x) : e \in ToSet(K.prompts[s])} : ~Hidden(s, t, x)})
VisAs(s, tri, x) ==
    [x EXCEPT !.vis[s] = IF tri = Mod /\ (Type[s] # "tristate" \/ x.mods = No) THEN Yes ELSE tri]
CalcVis(s, x)    == VisAs(s, PromptsTri(s, x), x)

\* The limits dir, rev and imp; what implies a symbol counts only if its dependencies are met.
Counts(f, s, x)  == f # "imp" \/ x.dir[s] # No
LimitAs(f, s, x) ==
    [x EXCEPT ![f][s] = IF Counts(f, s, x) THEN Bound(s, K[f][s], IF f = "dir" THEN Yes ELSE No, x)
                        ELSE No]
Limit(s, x, f)   == LimitAs(f, s, IF Counts(f, s, x) THEN With(K[f][s], x) ELSE x)
CalcLimits(s, x) ==
    IF IsChoiceValue(s) THEN x ELSE FoldLeft(LAMBDA y, f : Limit(s, y, f), x, <<"dir", "rev", "imp">>)

CalcVisibility(s, x) ==
    CalcLimits(s, CalcVis(s, CalcAll(FlattenSeq([i \in DOMAIN K.prompts[s] |-> SymsOf(K.prompts[s][i])]), x)))

\* sym_choice_default, from default i on: the symbol and the new state.
RECURSIVE VisibilityOfAll(_, _), ChoiceDefault(_, _, _)
VisibilityOfAll(ss, x) ==
    IF ss = <<>> THEN x ELSE VisibilityOfAll(Tail(ss), CalcVisibility(Head(ss), x))

ChoiceDefaultAt(c, i, x) ==
    LET s == K.defaults[c][i].arg[2]
    IN IF ValueOf(K.defaults[c][i].cond, x) # No /\ x.vis[s] # No THEN <<s, x>>
       ELSE ChoiceDefault(c, i + 1, x)
ChoiceDefault(c, i, x) ==
    LET visible == SelectSeq(K.members[c], LAMBDA v : x.vis[v] # No)
    IN IF i > Len(K.defaults[c]) THEN <<IF visible = <<>> THEN "none" ELSE Head(visible), x>>
       ELSE ChoiceDefaultAt(c, i, With(K.defaults[c][i].cond, x))

\* sym_calc_choice
Answered(c, x) ==
    IF \A v \in ToSet(K.members[c]) : x.vis[v] # No => v \in x.has THEN x ELSE [x EXCEPT !.has = @ \ {c}]
SelectDefault(c, d) == [d[2] EXCEPT !.sel[c] = d[1], !.cur[c] = IF d[1] = "none" THEN "n" ELSE @]
SelectValue(c, x) ==
    IF x.uval[c] # "none" /\ x.vis[x.uval[c]] # No THEN [x EXCEPT !.sel[c] = x.uval[c]]
    ELSE SelectDefault(c, ChoiceDefault(c, 1, x))
CalcChoice(c, x) == SelectValue(c, Answered(c, VisibilityOfAll(K.members[c], x)))

\* The new value of a bool or tristate symbol: the tristate and the new state.
Writes(s, tri, x)  == IF tri # No THEN [x EXCEPT !.write = @ \cup {s}] ELSE x
Promoted(s, tri, x) == <<IF tri = Mod /\ (GetType(s, x) = "bool" \/ x.imp[s] = Yes) THEN Yes ELSE tri, x>>
RaisedBySelect(s, tri, x) == Promoted(s, AtLeast(tri, x.rev[s]), x)
Unset(s, tri, x)   == RaisedBySelect(s, tri, Writes(s, tri, x))

DefaultTri(s, d, x) == IF d.at # 0 THEN AtMost(ValueOf(K.defaults[s][d.at].arg, x), d.tri) ELSE No
DefaultWith(s, d)   == IF d.at # 0 THEN With(K.defaults[s][d.at].arg, d.x) ELSE d.x
TakeDefault(s, d, x) == Unset(s, AtLeast(DefaultTri(s, d, x), x.imp[s]), x)
ByDefault(s, d)     == TakeDefault(s, d, DefaultWith(s, d))

\* Plausible bug: a value the user has set hides a select.
NewTristateUserFirst(s, x) ==
    <<IF s \in x.has /\ x.vis[s] # No THEN AtMost(x.utri[s], x.vis[s]) ELSE x.rev[s], x>>

NewTristate(s, x) ==
    IF x.vis[s] # No /\ s \in x.has THEN RaisedBySelect(s, AtMost(x.utri[s], x.vis[s]), x)
    ELSE IF IsChoice(s) THEN RaisedBySelect(s, No, Writes(s, x.rev[s], x))
    ELSE ByDefault(s, FirstProp(K.defaults[s], 1, Writes(s, x.rev[s], x)))

CalcIfChoice(s, x) == IF IsChoice(s) /\ x.cur[s] = "y" THEN CalcChoice(s, x) ELSE x
TakeTri(s, r)      == CalcIfChoice(s, [r[2] EXCEPT !.cur[s] = TriName(r[1])])
CalcTri(s, x) ==
    TakeTri(s, IF IsChoiceValue(s) /\ x.vis[s] = Yes
               THEN <<IF x.sel[K.choiceOf[s]] = s THEN Yes ELSE No, x>>
               ELSE NewTristate(s, x))

\* strtoll and sprintf("%lld") on the numbers of the model; other strings read as 0.
StrToll(v) == IF v \in DOMAIN Number["int"] THEN Number["int"][v] ELSE 0
IntStr(i)  == CHOOSE v \in DOMAIN Number["int"] : Number["int"][v] = i

\* sym_validate_range
Clamped(s, from, to, x) ==
    LET v == StrToll(x.cur[s])
    IN IF v >= from /\ v <= to THEN x ELSE [x EXCEPT !.cur[s] = IntStr(IF v < from THEN from ELSE to)]
ClampTo(s, arg, x) == Clamped(s, StrToll(Str(arg[1], x)), StrToll(Str(arg[2], x)), x)
InRange(s, r) ==
    IF r.at = 0 THEN r.x ELSE ClampTo(s, K.ranges[s][r.at].arg, CalcAll(K.ranges[s][r.at].arg, r.x))
ValidateRange(s, x) ==
    IF Type[s] # "int" \/ K.ranges[s] = <<>> THEN x ELSE InRange(s, FirstProp(K.ranges[s], 1, x))

\* The new value of a number or string.
StringAs(s, source, x) == [x EXCEPT !.cur[s] = Str(source, x)]
StringOf(s, source, x) == StringAs(s, source, CalcValue(source, [x EXCEPT !.write = @ \cup {s}]))
StringBy(s, d)   == IF d.at = 0 THEN d.x ELSE StringOf(s, K.defaults[s][d.at].arg[2], d.x)
CalcString(s, x) ==
    IF x.vis[s] # No /\ s \in x.has THEN [x EXCEPT !.cur[s] = x.uval[s]]
    ELSE StringBy(s, FirstProp(K.defaults[s], 1, x))

\* set_all_choice_values (confdata.c)
SetAllChoiceValues(c, x) ==
    [x EXCEPT !.utri = [s \in DOMAIN @ |-> IF Contains(K.members[c], s) /\ s \notin x.has THEN No ELSE @[s]],
              !.has = @ \cup {c}, !.valid = @ \ {c}, !.need = @ \ {c}]

\* sym_calc_value: before, between and after.
Needed(s, x) ==
    IF IsChoiceValue(s) /\ s \in x.need THEN CalcValue(K.choiceOf[s], [x EXCEPT !.need = @ \ {s}]) ELSE x
Starts(s, x) == [x EXCEPT !.valid = @ \cup {s}, !.write = @ \ {s}]
Empty(s, x)  == [x EXCEPT !.write = IF x.vis[s] # No THEN @ \cup {s} ELSE @,
                          !.cur[s] = IF IsTri(s) THEN "n" ELSE "", !.sel[s] = "none"]
CalcNew(s, x)  == IF IsTri(s) THEN CalcTri(s, x) ELSE ValidateRange(s, CalcString(s, x))
SetsMods(s, x)  == IF s = Modules THEN [x EXCEPT !.mods = Tri(x.cur[s])] ELSE x
WritesAll(s, x) ==
    IF IsChoice(s) /\ s \in x.write
    THEN [x EXCEPT !.write = @ \cup {v \in ToSet(K.members[s]) : x.vis[v] # No}] ELSE x
Ends(s, x)      == IF s \in x.need THEN SetAllChoiceValues(s, x) ELSE x

CalcValue(s, x) ==
    IF s \notin K.syms \/ s \in x.valid THEN x
    ELSE Ends(s, WritesAll(s, SetsMods(s,
             CalcNew(s, Empty(s, CalcVisibility(s, Starts(s, Needed(s, x))))))))

\* Plausible bug: the values calculated before stay valid.
ClearOnlyModules(x) == CalcValue(Modules, [x EXCEPT !.valid = @ \ {Modules}, !.dirty = TRUE])
ClearAllValid(x) == CalcValue(Modules, [x EXCEPT !.valid = {}, !.dirty = TRUE])
-----------------------------------------------------------------------------
(* Setting values *)
\* Plausible bug: a select does not limit what may be set.
WithinRangeSelected(s, t, x) == x.vis[s] # No /\ t <= x.vis[s]

\* sym_tristate_within_range
WithinRange(s, t, x) ==
    LET type == GetType(s, x)
    IN /\ x.vis[s] # No
       /\ type \in Tristates
       /\ ~(type = "bool" /\ t = Mod)
       /\ x.vis[s] > x.rev[s]
       /\ ~(x.imp[s] = Yes /\ t = Mod)
       /\ IF IsChoiceValue(s) /\ x.vis[s] = Yes THEN t = Yes
          ELSE t >= x.rev[s] /\ t <= x.vis[s]

\* sym_set_tristate_value: whether it was accepted, and the new state.
SetTristate(s, t, x) ==
    LET old == Tri(x.cur[s])
        x1 == [x EXCEPT !.has = @ \cup {s}]
        c == K.choiceOf[s]
        x2 == IF c # "none" /\ t = Yes
              THEN [x1 EXCEPT !.uval[c] = s,
                              !.has = @ \cup {c} \cup {v \in ToSet(K.members[c]) : x.vis[v] # No}]
              ELSE x1
        x3 == [x2 EXCEPT !.utri[s] = t]
    IN IF old # t /\ ~WithinRange(s, t, x) THEN <<FALSE, x>>
       ELSE <<TRUE, IF old # t THEN ClearAllValid(x3) ELSE x3>>

\* sym_toggle_tristate_value
RECURSIVE Toggle(_, _, _)
ToggleOr(s, next, r, x) == IF r[1] \/ next = Tri(x.cur[s]) THEN r[2] ELSE Toggle(s, next, x)
Toggle(s, t, x) ==
    ToggleOr(s, (t + 1) % 3, SetTristate(s, (t + 1) % 3, x), x)
ToggleTristate(s, x) == Toggle(s, Tri(x.cur[s]), x)

\* sym_string_valid and sym_string_within_range, of numbers and strings.
WithinBounds(arg, v, x) ==
    StrToll(Str(arg[1], x)) <= StrToll(v) /\ StrToll(v) <= StrToll(Str(arg[2], x))
WithinProp(s, v, r) ==
    r.at = 0 \/ WithinBounds(K.ranges[s][r.at].arg, v, CalcAll(K.ranges[s][r.at].arg, r.x))
StringWithinRange(s, v, x) ==
    \/ Type[s] = "string"
    \/ v \in DOMAIN Number["int"] /\ WithinProp(s, v, FirstProp(K.ranges[s], 1, x))

\* Plausible bug: setting the value a symbol has already is not an answer.
SetStringSameIsNone(s, v, x) ==
    IF v = Str(s, x) THEN <<TRUE, x>>
    ELSE IF IsTri(s) THEN SetTristate(s, Tri(v), x)
    ELSE <<TRUE, ClearAllValid([x EXCEPT !.uval[s] = v, !.has = @ \cup {s}])>>

\* sym_set_string_value
SetString(s, v, x) ==
    IF IsTri(s) THEN IF v \in Constants THEN SetTristate(s, Tri(v), x) ELSE <<FALSE, x>>
    ELSE IF ~StringWithinRange(s, v, x) THEN <<FALSE, x>>
    ELSE LET x1 == [x EXCEPT !.has = @ \cup {s}]
         IN <<TRUE, IF x.uval[s] = v THEN x1 ELSE ClearAllValid([x1 EXCEPT !.uval[s] = v])>>

\* sym_get_string_default: the value s would have if nobody set it, and the new state.
NoMod(s, x) == Type[s] = "bool" \/ (~IsChoiceValue(s) /\ TriVal(Modules, x) = No)
TriDefault(s, tri, x) == TriName(AtLeast(IF tri = Mod /\ NoMod(s, x) THEN Yes ELSE tri, x.imp[s]))
DefaultText(s, d, x) ==
    <<CASE IsTri(s) -> TriDefault(s, AtLeast(DefaultTri(s, d, x), x.rev[s]), x)
        [] ~IsTri(s) /\ d.at # 0 -> Str(K.defaults[s][d.at].arg[2], x)
        [] ~IsTri(s) /\ d.at = 0 -> "", x>>
DefaultBy(s, d) == DefaultText(s, d, DefaultWith(s, d))
StringDefault(s, x) == DefaultBy(s, FirstProp(K.defaults[s], 1, CalcValue(Modules, CalcVisibility(s, x))))

IsChangable(s, x) == x.vis[s] > x.rev[s]
-----------------------------------------------------------------------------
(* sym_check_deps: a search with the marks SYMBOL_CHECK and SYMBOL_CHECKED  *)
(* for symbols whose values depend on themselves.  A loop is reported and  *)
(* ends the search from that symbol, but does not stop the program:        *)
(* "reported" notes that sym_check_print_recursive was called.             *)
RECURSIVE CheckDeps(_, _), CheckAll(_, _)

\* The result is the symbol a loop was found at, or "none", and the marks.
CheckRest(ss, r) == IF r[1] # "none" THEN r ELSE CheckAll(ss, r[2])
CheckAll(ss, marks) ==
    IF ss = <<>> THEN <<"none", marks>> ELSE CheckRest(Tail(ss), CheckDeps(Head(ss), marks))

UsesOf(ps) == FlattenSeq([i \in DOMAIN ps |-> SymsOf(ps[i].cond)])

\* Plausible bug: the symbols that select s are not followed.
UsesForgetsSelect(s) == UsesOf(K.defaults[s])

\* What sym_check_sym_deps follows: the symbols s is calculated from, those that imply it excepted.
Uses(s) ==
    LET arg(i) == SymsOf(K.defaults[s][i].arg)
    IN SymsOf(K.rev[s])
       \o FlattenSeq([i \in DOMAIN K.prompts[s] |-> SymsOf(K.prompts[s][i])])
       \o UsesOf(K.defaults[s]) \o UsesOf(K.ranges[s]) \o UsesOf(K.implies[s])
       \o (IF IsChoice(s) THEN <<>> ELSE FlattenSeq([i \in DOMAIN K.defaults[s] |-> arg(i)]))

\* sym_check_choice_deps
Mark(group, marks) == [marks EXCEPT !.check = @ \cup group, !.checked = @ \cup group]
Unmark(group, r)   == [r EXCEPT ![2].check = @ \ group]
CheckMembers(vs, r) == IF r[1] # "none" THEN r ELSE CheckAll(FlattenSeq([i \in DOMAIN vs |-> Uses(vs[i])]), r[2])
ForChoice(c, r)     == IF r[1] \in ToSet(K.members[c]) THEN <<c, r[2]>> ELSE r
CheckChoice(c, marks) ==
    LET vs == K.members[c]
    IN ForChoice(c, Unmark(ToSet(vs),
           CheckMembers(vs, Unmark({c}, CheckAll(Uses(c), Mark(ToSet(vs) \cup {c}, marks))))))

\* The loop is told at the symbol it was found at.
Told(s, r) == IF r[1] = s THEN <<"none", r[2]>> ELSE r
CheckDeps(s, marks) ==
    CASE s \in K.syms /\ s \in marks.check -> <<s, [marks EXCEPT !.reported = TRUE]>>
      [] s \in K.syms /\ s \notin marks.check \cup marks.checked ->
           Told(s, IF IsChoiceValue(s) THEN CheckDeps(K.choiceOf[s], marks)
                   ELSE IF IsChoice(s) THEN CheckChoice(s, marks)
                   ELSE Unmark({s}, CheckAll(Uses(s), Mark({s}, marks))))
      [] OTHER -> <<"none", marks>>

\* conf_parse: the check of every symbol.
LoopReported ==
    FoldLeft(LAMBDA marks, s : CheckDeps(s, marks)[2],
             [check |-> {}, checked |-> {}, reported |-> FALSE], K.order).reported
-----------------------------------------------------------------------------
(* For the properties *)
All(x) == CalcAll(K.order, x)
Reset(x) == [x EXCEPT !.valid = {}]

\* A number or string that was dropped has left its old value behind, and a tristate
\* choice set to y while a value of it is new becomes new itself as it is calculated (see the findings).
LeftBehind(x) ==
    \/ \E s \in K.syms : ~IsTri(s) /\ s \notin x.has /\ x.uval[s] # "none"
    \/ \E c \in K.choices : Type[c] = "tristate" /\ x.utri[c] = Yes /\ ~(ToSet(K.members[c]) \subseteq x.has)
=============================================================================
