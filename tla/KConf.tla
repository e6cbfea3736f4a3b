------------------------------- MODULE KConf -------------------------------
(***************************************************************************)
(* support/kconfig/conf.c: the program behind "make oldconfig" and the     *)
(* other configuration targets.  One run reads the .config, asks or fills  *)
(* in what is new, and writes it; runs follow one another on the same      *)
(* files.  The program is single-threaded and waits only for answers, so a *)
(* step here goes from one question to the next.                           *)
(***************************************************************************)
EXTENDS KMenuView

VARIABLES
    disk,       \* .config, a saved defconfig and auto.conf, Absent if there is none, and the symbols
                \* whose files in include/config are newer than auto.conf
    run         \* the run of conf: mode, work still to do, rootEntry, conf_cnt # 0

Absent == <<Line("absent", "")>>
NoRun  == [mode |-> "none", todo |-> <<>>, root |-> <<>>, again |-> FALSE]
confVars == <<K, st, disk, run>>

Do(what, at) == [do |-> what, at |-> at, new |-> FALSE]
DoAll(what, ats) == [i \in DOMAIN ats |-> Do(what, ats[i])]

\* The lines of a file, and the values of the symbols that would be written to one.
FileOf(lines) ==
    LET names == {l.name : l \in ToSet(lines)} \cap K.syms
    IN [s \in names |-> (CHOOSE l \in ToSet(lines) : l.name = s).value]
WrittenBy(x) == [s \in {s \in x.write : ~IsChoice(s)} |-> Str(s, x)]

\* How a sync tells kbuild.
Sync == INSTANCE AutoConf WITH
    config <- FileOf(disk.config), auto <- FileOf(disk.auto), touched <- disk.touched,
    stage <- IF run.mode \in {"split", "auto"} THEN run.mode ELSE "none"
-----------------------------------------------------------------------------
(* check_conf, conf and conf_choice, as a list of things to do.  c is the   *)
(* run with the state x; each operator does the first thing on the list.   *)
Then(c, x, now) == [c EXCEPT !.x = x, !.todo = now \o Tail(@)]

\* Of a visible entry.
CheckConf(c, at, x) ==
    LET s == EntryAt(at).name
        isNew == /\ s # "" /\ s \notin x.has
                 /\ IsChangable(s, x) \/ (IsChoice(s) /\ TriVal(s, x) = Yes)
        checks == DoAll("check", Below(at))
    IN IF ~isNew \/ c.mode = "listnewconfig" THEN Then(c, x, checks)
       ELSE [Then(c, x, <<Do("conf", ParentMenu(at))>> \o checks)
                EXCEPT !.root = ParentMenu(at), !.again = TRUE]

Conf(c, at, x) ==
    LET m == EntryAt(at)
        choose == [Do("choose", at) EXCEPT !.new = m.name \notin x.has]
    IN Then(c, x,
        IF IsMenu(m) /\ c.mode # "oldaskconfig" /\ c.root # at THEN <<Do("check", at)>>
        ELSE IF m.name = "" THEN DoAll("conf", Below(at))
        ELSE IF ~IsChoice(m.name) THEN <<Do("ask", at)>> \o DoAll("conf", Below(at))
        ELSE (IF IsChangable(m.name, x) THEN <<Do("ask", at)>> ELSE <<>>) \o <<choose>>)

\* check_conf and conf ask first whether the entry is visible: the answer and the state v.
Visit(c, f, v) ==
    IF ~v[1] THEN Then(c, v[2], <<>>)
    ELSE IF f.do = "check" THEN CheckConf(c, f.at, v[2]) ELSE Conf(c, f.at, v[2])

\* conf_choice takes the at-th entry for the value of choice s.
Choose(c, f, x, child) ==
    Then(c, SetTristate(EntryAt(child).name, Yes, x)[2],
         DoAll("conf", Below(child)) \o <<Do("chosen", f.at)>>)

\* The values conf_choice lists of the visible ones: their entries.
Listed(ats) == SelectSeq(ats, LAMBDA at : EntryAt(at).name # "")

RECURSIVE Advance(_)
\* conf_choice of a choice that is y, with the values v: asks, or takes the only or the default one.
ConfChoiceOf(c, f, v) ==
    LET ats == Listed(v[1])
        def == SelectSeq(ats, LAMBDA at : EntryAt(at).name = v[2].sel[EntryAt(f.at).name])
    IN IF Len(ats) # 1 /\ (c.mode = "oldaskconfig" \/ f.new) THEN [c EXCEPT !.x = v[2]]
       ELSE Advance(Choose(c, f, v[2], IF Len(ats) = 1 THEN ats[1] ELSE def[1]))

ConfChoice(c, f, x) ==
    IF TriVal(EntryAt(f.at).name, x) = Yes THEN ConfChoiceOf(c, f, VisibleOf(Below(f.at), x))
    ELSE Advance(Then(c, x, IF TriVal(EntryAt(f.at).name, x) = Mod THEN DoAll("conf", Below(f.at)) ELSE <<>>))

\* conf_askvalue: must the user answer?
Asks(c, s) == IsChangable(s, c.x) /\ (c.mode = "oldaskconfig" \/ s \notin c.x.has)

\* As far as the next question or the end.
AdvanceBy(c, f) ==
    CASE f.do \in {"check", "conf"} -> Advance(Visit(c, f, MenuIsVisible(f.at, c.x)))
      [] f.do = "ask"    -> IF Asks(c, EntryAt(f.at).name) THEN c ELSE Advance(Then(c, c.x, <<>>))
      [] f.do = "choose" -> ConfChoice(c, f, CalcValue(EntryAt(f.at).name, c.x))
      [] f.do = "chosen" -> Advance(Then(c, c.x, IF c.x.cur[EntryAt(f.at).name] = "m"
                                                 THEN DoAll("conf", Below(f.at)) ELSE <<>>))
Advance(c) ==
    CASE c.todo # <<>> -> AdvanceBy(c, Head(c.todo))
      [] c.todo = <<>> /\ c.mode = "oldaskconfig" ->
           Advance([c EXCEPT !.mode = "oldconfig", !.todo = <<Do("check", <<>>)>>])
      [] c.todo = <<>> /\ c.mode # "oldaskconfig" /\ c.again ->
           Advance([c EXCEPT !.again = FALSE, !.todo = <<Do("check", <<>>)>>])
      [] OTHER -> c
-----------------------------------------------------------------------------
(* The runs *)
ReadConfig == IF disk.config = Absent THEN ConfReadNothing(Blank(K)) ELSE ConfRead(disk.config, Blank(K))

\* What conf_write of the text lines leaves for a .config: that, or none if it ends between its renames.
Saved(lines) == {lines, Absent}

\* conf_write and the end of the program.
Finish(x) ==
    /\ \E file \in Saved(Dump(x).lines) : disk' = [disk EXCEPT !.config = file]
    /\ st' = Blank(K)
    /\ run' = NoRun
    /\ UNCHANGED K

\* conf_write_autoconf: the symbols come in their own order.
AutoLines(x) ==
    LET written == SelectSeq(K.order, LAMBDA s : Sync!HasLine(s, WrittenBy(x)))
    IN [i \in DOMAIN written |-> Line(written[i], Str(written[i], x))]

\* syncconfig rewrites .config only when something changed, and goes on to conf_write_autoconf.
FinishSync(x) ==
    \/ /\ \E d \in {IF x.dirty THEN Dump(x) ELSE [lines |-> disk.config, x |-> x]} :
             /\ disk' = [disk EXCEPT !.config = d.lines]
             /\ st' = CalcAll(<<Modules>> \o K.order, ClearAllValid(d.x))
       /\ run' = [NoRun EXCEPT !.mode = "split"]
       /\ UNCHANGED K
    \/ /\ x.dirty
       /\ disk' = [disk EXCEPT !.config = Absent]
       /\ st' = Blank(K)
       /\ run' = NoRun
       /\ UNCHANGED K

\* conf_split_config: the files of the symbols that are due are touched one by one.
\* The first n are touched; all of them, or the run ends there.
Split(n) ==
    LET all == SelectSeq(K.order, LAMBDA s : ~IsChoice(s) /\ Sync!Touches(s, FileOf(disk.auto), WrittenBy(st)))
    IN /\ run.mode = "split" /\ n \in 0..Len(all)
       /\ disk' = [disk EXCEPT !.touched = @ \cup ToSet(SubSeq(all, 1, n))]
       /\ \/ n = Len(all) /\ run' = [NoRun EXCEPT !.mode = "auto"] /\ UNCHANGED st
          \/ n < Len(all) /\ run' = NoRun /\ st' = Blank(K)
       /\ UNCHANGED K

\* The rest of conf_write_autoconf: auto.conf is renamed last.
WriteAuto ==
    /\ run.mode = "auto"
    /\ disk' = [disk EXCEPT !.auto = AutoLines(st), !.touched = {}]
    /\ st' = Blank(K)
    /\ run' = NoRun
    /\ UNCHANGED K

\* The program is killed, or a file cannot be written.
Interrupt ==
    /\ run # NoRun
    /\ st' = Blank(K)
    /\ run' = NoRun
    /\ UNCHANGED <<K, disk>>

\* Where a run stands that asks questions: at the next one, or done.
Dialogue(c) ==
    \E d \in {Advance(c)} :
       IF d.todo # <<>>
       THEN /\ st' = d.x
            /\ run' = [mode |-> d.mode, todo |-> d.todo, root |-> d.root, again |-> d.again]
            /\ UNCHANGED <<K, disk>>
       ELSE IF d.mode = "syncconfig" THEN FinishSync(d.x) ELSE Finish(d.x)

Idle == run = NoRun
Resume(x) == [x |-> x, mode |-> run.mode, todo |-> run.todo, root |-> run.root, again |-> run.again]

\* main() for oldaskconfig, oldconfig and syncconfig.
Start(mode) ==
    /\ Idle
    /\ mode = "syncconfig" => disk.config # Absent
    /\ Dialogue([x |-> ReadConfig, mode |-> mode, root |-> <<>>, again |-> FALSE,
                 todo |-> <<Do(IF mode = "oldaskconfig" THEN "conf" ELSE "check", <<>>)>>])

\* conf_sym and conf_string: an answer that is accepted (after another one they ask again);
\* "" is a bare newline.
Answer(v) ==
    LET s == EntryAt(Head(run.todo).at).name
    IN /\ ~Idle
       /\ Head(run.todo).do = "ask"
       /\ \E r \in {SetString(s, IF v = "" THEN Str(s, st) ELSE v, st)} :
             /\ r[1]
             /\ Dialogue(Then(Resume(r[2]), r[2], <<>>))

\* conf_choice: the number of a value.
AnswerChoice(i) ==
    LET f == Head(run.todo)
    IN /\ ~Idle
       /\ f.do = "choose"
       /\ \E v \in {VisibleOf(Below(f.at), st)} :
             /\ i \in DOMAIN Listed(v[1])
             /\ Dialogue(Choose(Resume(st), f, v[2], Listed(v[1])[i]))

OldDefConfig == Idle /\ Finish(ReadConfig)

\* defconfig: values of the file given, defaults for the rest.
DefConfig(file) ==
    /\ Idle
    /\ file # Absent
    /\ Finish(SetAllNewSymbols("default", <<>>, <<>>, ConfRead(file, Blank(K))).x)

\* What the runs from scratch start with: KCONFIG_ALLCONFIG may name a file of values that are set.
Seeded(seed) == IF seed = Absent THEN Blank(K) ELSE ReadSimple(seed, Blank(K)).x

\* allnoconfig, allyesconfig, allmodconfig and alldefconfig.
AllConfig(mode, seed) == Idle /\ Finish(SetAllNewSymbols(mode, <<>>, <<>>, Seeded(seed)).x)

SaveDefConfig ==
    /\ Idle
    /\ disk' = [disk EXCEPT !.minimal = DumpMinimal(ReadConfig).lines]
    /\ UNCHANGED <<K, st, run>>

\* randconfig repeats conf_set_all_new_symbols until it reports no change.
Random(random, pick, seed) ==
    /\ Idle \/ run.mode = "randconfig"
    /\ \E new \in {SetAllNewSymbols("random", random, pick, IF Idle THEN Seeded(seed) ELSE st)} :
          IF new.changed
          THEN /\ st' = new.x
               /\ run' = [NoRun EXCEPT !.mode = "randconfig"]
               /\ UNCHANGED <<K, disk>>
          ELSE Finish(new.x)
=============================================================================
