------------------------------ MODULE KFrontMC ------------------------------
(***************************************************************************)
(* Sessions of the interactive programs on small Config.in trees.          *)
(***************************************************************************)
EXTENDS GConf, KTrees

CONSTANTS
    TreeNames,      \* the trees to try
    RowTrees        \* those of them to try with gconf

MCActs == [mconf |-> 3, nconf |-> 3, gconf |-> 2]

\* The .config to start with.
Given(t) == IF t = "panel" THEN <<Line("D", "y")>> ELSE <<>>

Init ==
    \E t \in TreeNames :
       /\ K = Finalize(Trees[t])
       /\ files = [n \in FileNames |-> [now |-> IF n = ".config" THEN Given(t) ELSE Absent, old |-> Absent]]
       /\ MBegin(FALSE) \/ (t = "menus" /\ MBegin(TRUE)) \/ NBegin(FALSE) \/ (t \in RowTrees /\ GBegin)

Next == MNext \/ NNext \/ GNext
Spec == Init /\ [][Next]_frontVars
-----------------------------------------------------------------------------
\* The box a call shows.
BoxOf(call) == LET w == [win EXCEPT !.trail = <<call>>]
               IN IF prog = "mconf" THEN MShown(w, st).items ELSE NShown(w, st).items

RECURSIVE Reached(_)
ReachedMore(calls, boxes, more) == IF more = {} THEN {i.at : i \in boxes} ELSE Reached(calls \cup more)
ReachedBy(calls, boxes) ==
    ReachedMore(calls, boxes, UNION {ToSet(Leads(i, st)) : i \in boxes} \ calls)
Reached(calls) == ReachedBy(calls, UNION {ToSet(BoxOf(c)) : c \in calls})

\* Whatever may be asked can be reached from the main menu by way of <Select>.
EveryQuestionReachable ==
    (prog # "gconf" /\ phase = "run" /\ ~win.all /\ ~win.single) =>
        \A reached \in {Reached({Call("conf", <<>>)})} :
            \A at \in Paths : MenuIsVisible(at, st)[1] => at \in reached

\* What is on the screen are the values that would be saved; nconf is late if it shows everything.
ShownIsCurrent ==
    (prog # "gconf" /\ phase = "run" /\ ~LeftBehind(st) /\ (prog = "nconf" => ~win.all)) =>
        \A now \in {All(Reset(st))} :
            \A i \in ToSet(win.box) :
                IF Innermost(win).kind = "conf" THEN i.shows = InText(EntryAt(i.at).name, now)
                ELSE i.shows = "X" <=> EntryAt(i.at).name = now.sel[EntryAt(Innermost(win).at).name]
=============================================================================
