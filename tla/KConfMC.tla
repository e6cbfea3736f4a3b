------------------------------ MODULE KConfMC ------------------------------
(***************************************************************************)
(* Small Config.in trees, every .config somebody may have written for      *)
(* them, and the runs of conf on both.                                     *)
(***************************************************************************)
EXTENDS KConf, KTrees, FiniteSets

CONSTANTS
    TreeNames,      \* the trees to try
    MaxLines        \* lines of the .config to start with, for each tree

\* The files for a tree: for every symbol a line or none, in the order of the tree.
Files(t) ==
    LET ms == SelectSeq(Entries(Trees[t]), LAMBDA m : m.name # "" /\ m.kind # "choice")
        lines(i) == {<<>>} \cup {<<Line(ms[i].name, v)>> : v \in Values(ms[i].name)}
        f[i \in 0..Len(ms)] == IF i = 0 THEN {<<>>}
                               ELSE {a \o b : a \in f[i - 1], b \in lines(i)}
    IN {file \in f[Len(ms)] : Len(file) <= MaxLines[t]}

MCMaxLines == [t \in TreeNames |-> CASE t = "select" -> 1 [] t = "stale" -> 3 [] OTHER -> 2]

Init == \E t \in TreeNames :
    /\ K = Finalize(Trees[t])
    /\ ~LoopReported
    /\ disk \in {[config |-> f, minimal |-> Absent, auto |-> Absent, touched |-> {}] : f \in Files(t)}
    /\ st = Blank(K)
    /\ run = NoRun

\* The rand() of every symbol, for trees small enough to try them all.
Randoms == IF K.choices # {} /\ Cardinality(K.syms) <= 4
           THEN {f \in [K.syms -> 0..2] : \A s \in K.syms : f[s] = Mod => Type[s] = "tristate"}
           ELSE {}
Picks   == {f \in [K.choices -> K.syms] : \A c \in K.choices : f[c] \in ToSet(K.members[c])}

\* What the runs that do not read .config write is the same whatever it was: one is enough.  The
\* others start from what is in the files.
Seeds == IF disk.config = <<>> THEN {Absent, disk.minimal} ELSE {disk.config, disk.minimal} \ {Absent}

AnswerAny ==
    /\ ~Idle
    /\ run.todo # <<>>
    /\ \/ \E v \in {""} \cup Values(EntryAt(Head(run.todo).at).name) : Answer(v)
       \/ \E i \in 1..3 : AnswerChoice(i)

\* Runs are broken off in the trees without tristates, which are small enough for it.
MayBreak == "MODULES" \notin K.syms

RandomAny == \E random \in Randoms, pick \in Picks, seed \in Seeds : Random(random, pick, seed)

\* No run reads both auto.conf and the saved defconfig: a behaviour has one of them.
Step ==
    \/ \E mode \in {"oldaskconfig", "oldconfig"} : Start(mode)
    \/ disk.minimal = Absent /\ Start("syncconfig")
    \/ AnswerAny
    \/ \E n \in 0..Cardinality(K.syms) : Split(n) /\ (MayBreak \/ run'.mode = "auto")
    \/ WriteAuto
    \/ MayBreak /\ Interrupt
    \/ RandomAny
    \/ OldDefConfig
    \/ DefConfig(disk.minimal)
    \/ disk.auto = Absent /\ SaveDefConfig
    \/ \E mode \in {"no", "yes", "mod", "default"}, seed \in Seeds : AllConfig(mode, seed)

Next == Step /\ (MayBreak \/ disk'.config # Absent)
Spec == Init /\ [][Next]_confVars
-----------------------------------------------------------------------------
\* What conf has written it reads back as it is: nothing to save, and the same file if saved again.
ReadsBack == [][disk'.config \notin {disk.config, Absent} =>
    \A x \in {ConfRead(disk'.config, Blank(K))} :
        ~x.dirty /\ Dump(x).lines = disk'.config]_confVars

\* savedefconfig leaves out only what defconfig puts back, for a complete .config.
MinimalRestores == [][disk'.minimal # disk.minimal /\ ~ReadConfig.dirty =>
    Dump(SetAllNewSymbols("default", <<>>, <<>>, ConfRead(disk'.minimal, Blank(K))).x).lines
        = disk.config]_confVars

\* A sync tells kbuild as AutoConf does, of which TouchedInTime is proved; so auto.conf and .config
\* never tell different things.  On the files themselves: whatever a new auto.conf says of a symbol
\* that the last one did not has touched the symbol's file since, also if other syncs broke off.
ImplementsAutoConf == Sync!Spec
SyncTogether ==
    /\ ImplementsAutoConf
    /\ [][disk'.auto # disk.auto =>
          /\ ToSet(disk'.auto) = {l \in ToSet(disk'.config) : l.value # "n"}
          /\ \A s \in K.syms : Sync!Says(FileOf(disk'.auto), s) # Sync!Says(FileOf(disk.auto), s)
                                   => s \in disk.touched]_confVars

\* A value with SYMBOL_VALID is what a calculation from scratch would give, in whatever order.
CacheUpToDate ==
    (~Idle /\ ~LeftBehind(st)) =>
        \A x \in {All(st)} : /\ x.cur = All(Reset(x)).cur
                             /\ x.cur = CalcAll(Reverse(K.order), Reset(x)).cur

\* "The SYMBOL_VALID bit is set in 'flags' when this is up to date" (expr.h), for every symbol.
NoStaleCache == ~Idle => All(st).cur = All(Reset(st)).cur

\* An answer that is accepted is the value from then on.
AnswerHonoured ==
    (~Idle /\ ~LeftBehind(st) /\ run.todo # <<>>) =>
        LET s == EntryAt(Head(run.todo).at).name
        IN \A v \in Values(s) : \A r \in {SetString(s, v, st)} :
              (Head(run.todo).do = "ask" /\ r[1]) => Str(s, CalcValue(s, r[2])) = v

\* In what conf writes a choice that is y has one value, a select is obeyed, and nothing is
\* above its dependencies unless it is selected.
Justified(x) ==
    LET selected(s) == IF K.rev[s] = Null THEN No ELSE ValueOf(K.rev[s], x)
        round(s, t) == IF t = Mod /\ GetType(s, x) = "bool" THEN Yes ELSE t
    IN /\ \A c \in K.choices : x.cur[c] = "y" =>
            Cardinality({v \in ToSet(K.members[c]) : x.cur[v] = "y"}) = 1
       /\ \A s \in K.syms : (IsTri(s) /\ ~IsChoiceValue(s)) =>
            /\ TriVal(s, x) >= selected(s)
            /\ TriVal(s, x) <= AtLeast(round(s, ValueOf(K.dir[s], x)), round(s, selected(s)))
ValuesJustified == [][disk'.config \notin {disk.config, Absent} =>
    \A x \in {All(ConfRead(disk'.config, Blank(K)))} : Justified(x)]_confVars

\* Answering leads to the end: every answer of oldconfig leaves fewer symbols new (a choice is
\* asked again only after one of its values was new), and oldaskconfig goes through the menu once.
Precedes(a, b) == \/ a # b /\ IsPrefix(a, b)
                  \/ \E i \in DOMAIN a \cap DOMAIN b : a[i] < b[i] /\ SubSeq(a, 1, i - 1) = SubSeq(b, 1, i - 1)
Known(x) == x.has \ K.choices
QuestionsEnd == [][(~Idle /\ run'.mode = run.mode /\ run.todo # <<>>) =>
    LET now == Head(run.todo)
        next == Head(run'.todo)
    IN IF now.at = next.at /\ now.do = "ask" THEN next.do = "choose"
       ELSE IF run.mode = "oldaskconfig" THEN Precedes(now.at, next.at)
       ELSE \/ Known(st) \subseteq Known(st') /\ Known(st) # Known(st')
            \/ Known(st) = Known(st') /\ Cardinality(st.has) < Cardinality(st'.has)]_confVars
=============================================================================
