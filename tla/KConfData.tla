----------------------------- MODULE KConfData -----------------------------
(***************************************************************************)
(* support/kconfig/confdata.c: reading and writing a .config.              *)
(*                                                                         *)
(* A file is a sequence of lines [name, value] in the order of the text;   *)
(* "# CONFIG_X is not set" is the line of X with value n, which says        *)
(* nothing of a number or a string.  The value of a string is the string   *)
(* itself, its quotes and escapes removed.                                 *)
(***************************************************************************)
EXTENDS KSymbol

Line(s, v) == [name |-> s, value |-> v]

\* "setsym" of conf_read_simple: what a line for a value of a choice does to the choice.
NoteChoice(s, p) ==
    LET c == K.choiceOf[s]
        old == p.x.utri[c]
        new == p.x.utri[s]
        x1 == CASE new = Mod /\ old = Yes -> [p.x EXCEPT !.has = @ \ {c}]
                [] new = Yes -> [p.x EXCEPT !.uval[c] = s]
                [] OTHER -> p.x
    IN [x |-> [x1 EXCEPT !.utri[c] = AtLeast(old, new)],
        warned |-> p.warned \/ (new = Mod /\ old = Yes) \/ (new = Yes /\ old # No)]

\* Plausible bug: a line "is not set" is taken for no line at all.
ReadLineSkipsUnset(p, line) ==
    IF line.value = "n" \/ line.name \notin K.syms THEN p
    ELSE [p EXCEPT !.x.has = @ \cup {line.name},
                   !.x.utri[line.name] = IF IsTri(line.name) THEN Tri(line.value) ELSE @,
                   !.x.uval[line.name] = IF IsTri(line.name) THEN @ ELSE line.value]

\* conf_read_simple and conf_set_sym_val: one line.
ReadLine(p, line) ==
    LET s == line.name
        v == line.value
        q == [p EXCEPT !.warned = @ \/ s \in p.x.has]
        set == [q EXCEPT !.x.has = @ \cup {s},
                         !.x.utri[s] = IF IsTri(s) THEN Tri(v) ELSE @,
                         !.x.uval[s] = IF IsTri(s) THEN @ ELSE v]
    IN IF s \notin K.syms THEN [p EXCEPT !.x.dirty = TRUE]
       ELSE IF ~IsTri(s) /\ v = "n" THEN q
       ELSE IF ~Settable(s, v) THEN [q EXCEPT !.warned = TRUE]
       ELSE IF IsChoiceValue(s) THEN NoteChoice(s, set)
       ELSE set

\* conf_read_simple for S_DEF_USER of a file that exists: the new state and whether it warned.
ReadSimple(file, x) ==
    LET none(v) == [s \in K.syms |-> v]
        clean == [x EXCEPT !.has = K.choices, !.valid = {}, !.utri = none(No), !.uval = none("none")]
    IN FoldLeft(ReadLine, [x |-> clean, warned |-> FALSE], file)

\* conf_read, first loop: is the symbol's value other than what the file says?
Unsaved(s, x) ==
    LET agrees == IF IsTri(s) THEN x.utri[s] = TriVal(s, x) ELSE x.uval[s] = x.cur[s]
    IN /\ ~IsChoice(s)
       /\ CASE s \in x.has /\ s \in x.write -> ~agrees
            [] s \in x.has /\ s \notin x.write -> TRUE
            [] s \notin x.has -> s \in x.write

\* conf_read, second loop: values of hidden symbols become new, those out of range are dropped.
ForgetHidden(p, s) ==
    LET hidden == [p EXCEPT !.x.has = IF p.x.vis[s] = No /\ ~p.warned THEN @ \ {s} ELSE @]
    IN IF s \notin p.x.has \/ IsChoiceValue(s) THEN p
       ELSE IF IsTri(s) \/ StringWithinRange(s, p.x.uval[s], hidden.x) THEN hidden
       ELSE [x |-> [hidden.x EXCEPT !.valid = @ \ {s}, !.has = @ \ {s}], warned |-> TRUE]

Compared(x)       == FoldLeft(ForgetHidden, [x |-> x, warned |-> \E s \in K.syms : Unsaved(s, x)], K.order)
Changed(p, before) == [p.x EXCEPT !.dirty = @ \/ p.warned \/ before]
AfterFile(read)   == Changed(Compared(CalcAll(<<Modules>> \o K.order, read.x)), read.warned)
ConfRead(file, x) == AfterFile(ReadSimple(file, [x EXCEPT !.dirty = FALSE]))

\* conf_read(NULL) without a .config.
ConfReadNothing(x) == CalcValue(Modules, [x EXCEPT !.dirty = TRUE])
-----------------------------------------------------------------------------
\* The symbols of the menu in the order conf_write and conf_write_defconfig come to them.
Written == LET ms == SelectSeq(Tail(Entries(K.menu)), LAMBDA m : m.name # "" /\ m.kind # "choice")
           IN [i \in DOMAIN ms |-> ms[i].name]

\* One symbol of conf_write; p is the lines so far and the state.
WriteValue(lines, s, x) ==
    IF s \in x.write THEN [lines |-> Append(lines, Line(s, Str(s, x))), x |-> [x EXCEPT !.write = @ \ {s}]]
    ELSE [lines |-> lines, x |-> x]
WriteSymbol(p, s) == WriteValue(p.lines, s, CalcValue(s, p.x))

\* conf_write up to the renames: the lines of the temporary file and the state.
Dump(x) == FoldLeft(WriteSymbol, [lines |-> <<>>, x |-> IF x.dirty THEN x ELSE ClearAllValid(x)], Written)

\* Plausible bug: the value a choice has is left out whether or not it is the default one.
PickedAnywayIfYes(s, x) == IsChoiceValue(s) /\ x.cur[s] = "y"

\* One symbol of conf_write_defconfig: what has its default is left out, d, and so is the value
\* of a choice that would be picked anyway.
PickedAnyway(s, x) ==
    LET c == K.choiceOf[s]
    IN /\ IsChoiceValue(s) /\ ~K.optional[c]
       /\ Type[s] = "bool" /\ x.cur[s] = "y"
       /\ ChoiceDefault(c, 1, x)[1] = s
WriteUnlessDefault(lines, s, x, d) ==
    [lines |-> IF Str(s, x) = d[1] \/ PickedAnyway(s, d[2]) THEN lines
               ELSE Append(lines, Line(s, Str(s, x))),
     x     |-> d[2]]
WriteChangable(lines, s, x) ==
    IF IsChangable(s, x) THEN WriteUnlessDefault(lines, s, x, StringDefault(s, x))
    ELSE [lines |-> lines, x |-> x]
MinimalValue(lines, s, x) ==
    IF s \in x.write THEN WriteChangable(lines, s, [x EXCEPT !.write = @ \ {s}])
    ELSE [lines |-> lines, x |-> x]
WriteMinimal(p, s) == MinimalValue(p.lines, s, CalcValue(s, p.x))

DumpMinimal(x) == FoldLeft(WriteMinimal, [lines |-> <<>>, x |-> ClearAllValid(x)], Written)
-----------------------------------------------------------------------------
(* conf_set_all_new_symbols; random is what rand() makes of each symbol    *)
(* and choice.  The result is has_changed and the new state.               *)
NewValue(s, mode, random) ==
    CASE mode = "yes" -> Yes [] mode = "mod" -> Mod [] mode = "no" -> No
      [] mode = "random" -> IF Type[s] = "tristate" \/ random[s] # Mod THEN random[s] ELSE Yes

AllNew(mode, random, x) ==
    LET new == {s \in K.syms : s \notin x.has /\ s \notin x.valid /\ IsTri(s)}
    IN [changed |-> new # {},
        x |-> ClearAllValid(
            [x EXCEPT !.utri = [s \in DOMAIN @ |-> IF s \in new /\ mode # "default"
                                                   THEN NewValue(s, mode, random) ELSE @[s]],
                      !.has = @ \cup (IF mode = "default" THEN {}
                                      ELSE IF mode = "random" THEN new \ K.choices ELSE new)])]

RandomizeChoice(c, pick, x) ==
    LET vs == ToSet(K.members[c])
    IN IF x.cur[c] # "y" THEN [changed |-> FALSE, x |-> x]
       ELSE [changed |-> TRUE,
             x |-> [x EXCEPT !.utri = [s \in DOMAIN @ |-> IF s = pick THEN Yes ELSE IF s \in vs THEN No ELSE @[s]],
                             !.uval[c] = pick, !.has = @ \cup vs \cup {c}, !.valid = @ \ (vs \cup {c})]]

\* Each choice the user has not set, after its new value is calculated.
NewChoice(mode, pick, c, x) ==
    IF mode = "random" THEN RandomizeChoice(c, pick[c], x)
    ELSE [changed |-> TRUE, x |-> SetAllChoiceValues(c, x)]
NewChoices(mode, pick, p) ==
    FoldLeft(LAMBDA q, c : IF c \notin K.choices \/ c \in q.x.has THEN q
                           ELSE NewChoice(mode, pick, c, CalcValue(c, q.x)), p, K.order)
MarkChoices(mode, p) ==
    IF mode = "random" THEN p
    ELSE [p EXCEPT !.x.need = @ \cup {s \in K.syms : (IsChoice(s) /\ s \notin p.x.has) \/ IsChoiceValue(s)}]
SetAllNewSymbols(mode, random, pick, x) == NewChoices(mode, pick, MarkChoices(mode, AllNew(mode, random, x)))
=============================================================================
