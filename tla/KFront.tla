------------------------------- MODULE KFront -------------------------------
(***************************************************************************)
(* What the interactive programs mconf, nconf and gconf have in common:    *)
(* one session reads the .config, edits symbols, loads and saves files,    *)
(* and asks at the end whether to save what has changed.                   *)
(***************************************************************************)
EXTENDS KMenuView

CONSTANTS
    FileNames,  \* the file names the user gives, among them ".config"
    Strings,    \* the values the user types
    MaxActs     \* bound: edits, loads and saves of one session, for each program

VARIABLES
    prog,       \* the program
    files,      \* under each name the file and its backup; Absent if there is none
    filename,   \* the name under which the program saves
    phase,      \* "start", "draw", "run", "asked" for the last question, or how the session ended
    win,        \* what is on the screen
    lost,       \* history: "load" if changes not saved fell to a load that failed, "save" if a save
                \* broke off and has taken symbols off the list of those to write, until it is made up for
    left        \* bound: acts left

Absent == <<Line("absent", "")>>
frontVars == <<K, st, prog, files, filename, phase, win, lost, left>>

\* The paths of all entries below the root.
Paths ==
    LET RECURSIVE under(_)
        under(at) == {at} \cup UNION {under(b) : b \in ToSet(Below(at))}
    IN under(<<>>) \ {<<>>}

Spend == left > 0 /\ left' = left - 1

\* main() when conf_parse is done.
Begin ==
    /\ filename = ".config"
    /\ phase = "start"
    /\ lost = "no"
    /\ left = MaxActs[prog]
    /\ st = Blank(K)

\* conf_read(NULL)
ReadConfig == IF files[".config"].now = Absent THEN ConfReadNothing(st) ELSE ConfRead(files[".config"].now, st)

\* conf_read of a name: a file that does not exist has reset the change count all the same.
Load(n, x) ==
    IF files[n].now = Absent
    THEN [ok |-> FALSE, x |-> CalcValue(Modules, [x EXCEPT !.dirty = FALSE])]
    ELSE [ok |-> TRUE, x |-> ConfRead(files[n].now, x)]

\* Once all symbols are to be calculated anew they are all written anew, and the change count is raised.
MadeUpFor == lost' = IF st.valid \subseteq st'.valid THEN lost ELSE "no"

\* A load makes up for what was lost, or adds to it.
LostByLoad(r) == lost' = CASE r.ok -> "no" [] ~r.ok /\ st.dirty -> "load" [] OTHER -> lost

\* So does a save: with changes to write it writes the symbols that are on the list.
LostBySave(w) == lost' = CASE w.ok -> (IF lost = "save" /\ st.dirty THEN "save" ELSE "no")
                           [] w.broken -> "save"
                           [] OTHER -> lost

\* Plausible bug: the change count is reset before it is known whether the file could be created.
SavesDirtyFirst(fs, n, x, d) ==
    { [ok |-> TRUE, broken |-> FALSE, x |-> [d.x EXCEPT !.dirty = FALSE],
       files |-> [fs EXCEPT ![n] = [now |-> d.lines, old |-> @.now]]],
      [ok |-> FALSE, broken |-> FALSE, x |-> [x EXCEPT !.dirty = FALSE], files |-> fs] }

\* The first rename of conf_write.
MovedAway(fs, n) == [fs EXCEPT ![n] = [now |-> Absent, old |-> IF @.now = Absent THEN @.old ELSE @.now]]

\* The outcomes of conf_write with the text d: done, not opened, and the second rename failed.
Outcomes(fs, n, x, d) ==
    { [ok |-> TRUE, broken |-> FALSE, x |-> [d.x EXCEPT !.dirty = FALSE],
       files |-> [MovedAway(fs, n) EXCEPT ![n].now = d.lines]],
      [ok |-> FALSE, broken |-> FALSE, x |-> x, files |-> fs],
      [ok |-> FALSE, broken |-> TRUE, x |-> d.x, files |-> MovedAway(fs, n)] }
Saves(n, x) == Outcomes(files, n, x, Dump(x))

\* The end of a session, asked for: a question only if something has changed.
Leave == phase' = IF st.dirty THEN "asked" ELSE "kept"

\* The answer "yes" to it.
SaveAndLeave ==
    \E w \in Saves(filename, st) :
        /\ files' = w.files
        /\ st' = w.x
        /\ phase' = IF w.ok THEN "saved" ELSE "failed"
        /\ LostBySave(w)
        /\ UNCHANGED <<K, prog, filename, win, left>>

Discard ==
    /\ phase' = "discarded"
    /\ UNCHANGED <<K, st, prog, files, filename, win, lost, left>>
-----------------------------------------------------------------------------
\* Some file brings back what the user has set.
InSomeFile ==
    \E n \in FileNames :
        /\ files[n].now # Absent
        /\ All(ConfRead(files[n].now, Blank(K))).cur = All(st).cur

\* A session that ends without a warning has left what the user has set in a file.  Left out are
\* the two ways in which the code loses it, which the next two properties show, and only until a
\* later act makes up for them, and values that were left behind.
QuitKeeps == (phase \in {"kept", "saved"} /\ lost = "no" /\ ~LeftBehind(st)) => InSomeFile

\* What the help says of Save: it lets you save the current configuration.  Not if an earlier save
\* broke off, or this one was cut short (see the findings).
SavedIsThere == (phase = "saved" /\ ~LeftBehind(st)) => InSomeFile

\* With nothing to ask about at the end nothing is lost.  Not after a load that failed (see the findings).
KeptIsThere == (phase = "kept" /\ ~LeftBehind(st)) => InSomeFile
=============================================================================
