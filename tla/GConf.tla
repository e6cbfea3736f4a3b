------------------------------- MODULE GConf -------------------------------
(***************************************************************************)
(* support/kconfig/gconf.c, "make gconfig": the menu as rows of a GTK      *)
(* tree.  The tree is kept: a change patches the rows of the symbols with  *)
(* SYMBOL_CHANGED and inserts and removes those whose visibility changed.  *)
(*                                                                         *)
(* win is [view, opt, current, browsed, back, rows, list, changed, cut,    *)
(* mixed, due, x]: view_mode, opt_mode, the menus current and browsed,     *)
(* whether the Back button is sensitive, tree2, tree1, the symbols with    *)
(* that flag; of history whether update_tree ended early (cut) or rows of  *)
(* other menus were added (mixed); the calls that are still to draw.  The  *)
(* operators work on p, which is win with the symbols for x.               *)
(***************************************************************************)
EXTENDS NConf

\* Plausible bug: only a new value is a change.
ChangesOfValue(p, y) == {s \in K.syms : p.x.cur[s] # y.cur[s] \/ p.x.sel[s] # y.sel[s]}

\* sym_set_changed: the symbols it marks when the state becomes y, those of a changed choice included.
Changes(p, y) ==
    LET differs(s) == \/ p.x.cur[s] # y.cur[s] \/ p.x.sel[s] # y.sel[s] \/ p.x.vis[s] # y.vis[s]
                      \/ p.x.dir[s] # y.dir[s] \/ p.x.rev[s] # y.rev[s] \/ p.x.imp[s] # y.imp[s]
        own == IF Modules \in K.syms /\ p.x.cur[Modules] # y.cur[Modules] THEN K.syms
               ELSE {s \in K.syms : differs(s)}
        calculated == {c \in K.choices \cap y.valid : c \in own \/ c \notin p.x.valid}
    IN own \cup UNION {ToSet(K.members[c]) : c \in calculated \cap (own \cup p.changed)}

To(p, y)      == [p EXCEPT !.changed = @ \cup Changes(p, y), !.x = y]
Marked(p, ss) == [p EXCEPT !.changed = @ \cup ss]
Clean(p, s)   == [p EXCEPT !.changed = @ \ {s}]

\* MENU_ROOT, as fixup_rootmenu sets it.
RECURSIVE IsRoot(_)
IsRoot(at) ==
    at = <<>> \/ (/\ IsRoot(Front(at))
                  /\ IsMenu(EntryAt(at)) \/ \A n \in 1..Len(at) - 1 : ~IsMenu(EntryAt(SubSeq(at, 1, n))))

\* Does the option mode give the entry a row?
Asked(v, p) == <<v[1], To(p, v[2])>>
Placed(at, p) ==
    LET m == EntryAt(at)
    IN CASE p.opt = "normal" -> Asked(MenuIsVisible(at, p.x), p)
         [] p.opt = "prompt" -> <<Prompted(m), p>>
         [] p.opt = "all"    -> <<Prompted(m) \/ (m.name # "" /\ m.kind # "choice"), p>>

(* fill_row: the row and the state *)
Row(at, shows, can) == [at |-> at, shows |-> shows, can |-> can, list |-> <<>>]
ValueRow(at, s, p) ==
    <<Row(at, p.x.cur[s], {t \in 0..2 : IsTri(s) /\ t # Tri(p.x.cur[s]) /\ WithinRange(s, t, p.x)}), p>>
ChoiceRow(at, s, picked, values, p) ==
    IF GetType(s, values[2]) = "tristate" THEN ValueRow(at, s, To(p, values[2]))
    ELSE <<Row(at, IF \E b \in ToSet(values[1]) : EntryAt(b).name = picked THEN picked ELSE "", {}), To(p, values[2])>>
SymbolRow(at, s, p) ==
    IF IsChoice(s) THEN ChoiceRow(at, s, p.x.sel[s], VisibleOf(Below(at), p.x), p) ELSE ValueRow(at, s, p)
FillColoured(at, s, p) ==
    IF s = "" THEN <<Row(at, "", {}), p>> ELSE SymbolRow(at, s, Clean(To(p, CalcValue(s, p.x)), s))
FillRow(at, p) ==
    FillColoured(at, EntryAt(at).name,
        IF p.opt = "all" \/ (p.opt = "prompt" /\ Prompted(EntryAt(at))) THEN To(p, MenuIsVisible(at, p.x)[2]) ELSE p)

(* display_tree of what is below at, in the left frame (inList) or the right one, after the rows *)
(* of p.  What is below an entry without a row comes under the row before it.                    *)
RECURSIVE Display(_, _, _)
Goes(at, b, inList, p) ==
    /\ inList \/ p.view = "full" \/ ~IsMenu(EntryAt(b))
    /\ p.view # "single" \/ IsRoot(at)
Nested(rows, below) ==
    [below EXCEPT !.rows = IF rows = <<>> THEN <<>> ELSE [rows EXCEPT ![Len(rows)].list = @ \o below.rows]]
Within(at, b, inList, p) ==
    IF Goes(at, b, inList, p) THEN Nested(p.rows, Display(b, inList, [p EXCEPT !.rows = <<>>])) ELSE p
PlaceNode(r) == [r[2] EXCEPT !.rows = Append(@, r[1])]
DisplayRow(at, b, inList, placed) ==
    Within(at, b, inList, IF placed[1] THEN PlaceNode(FillRow(b, placed[2])) ELSE placed[2])
DisplayOne(at, b, inList, p) ==
    IF p.view = "split" /\ inList # IsRoot(b) THEN p ELSE DisplayRow(at, b, inList, Placed(b, p))
Display(at, inList, p) ==
    FoldLeft(LAMBDA q, b : DisplayOne(at, b, inList, Clean(q, EntryAt(b).name)), p, Below(at))

\* gtktree_iter_find_node
RECURSIVE HasRow(_, _)
HasRow(rows, at) == \E i \in DOMAIN rows : rows[i].at = at \/ HasRow(rows[i].list, at)

(* update_tree: the entries ats, of which the first is compared with row k; when a row is removed *)
(* and no row follows it, the rest of the entries is left out.                                    *)
RECURSIVE Update(_, _, _)
SetNode(k, there, r) ==
    [r[2] EXCEPT !.rows = IF there THEN [@ EXCEPT ![k] = [r[1] EXCEPT !.list = r[2].rows[k].list]]
                          ELSE SubSeq(@, 1, k - 1) \o <<r[1]>> \o SubSeq(@, k, Len(@))]
UpdateRest(ats, k, rows, below) ==
    Update(Tail(ats), k + 1, [below EXCEPT !.rows = [rows EXCEPT ![k].list = below.rows]])
UpdateWithin(ats, k, p) ==
    UpdateRest(ats, k, p.rows, Update(Below(Head(ats)), 1, [p EXCEPT !.rows = p.rows[k].list]))
UpdateWanted(ats, k, wanted, p) ==
    LET at == Head(ats)
        there == k <= Len(p.rows) /\ p.rows[k].at = at
        found == HasRow(p.rows, at)
    IN IF ~wanted /\ ~found THEN Update(Tail(ats), k, p)
       ELSE IF found /\ ~(wanted /\ there)
            THEN IF k < Len(p.rows) THEN Update(ats, k, [p EXCEPT !.rows = SubSeq(@, 1, k - 1) \o SubSeq(@, k + 1, Len(@))])
                 ELSE [p EXCEPT !.rows = SubSeq(@, 1, k - 1), !.cut = TRUE]
       ELSE UpdateWithin(ats, k, IF there /\ EntryAt(at).name \notin p.changed THEN p
                                 ELSE SetNode(k, there, FillRow(at, p)))
UpdatePlaced(ats, k, placed) == UpdateWanted(ats, k, placed[1], placed[2])
Update(ats, k, p) == IF ats = <<>> THEN p ELSE UpdatePlaced(ats, k, Placed(Head(ats), p))

\* gtk_tree_store_clear(tree2)
Cleared(p) == [p EXCEPT !.rows = <<>>, !.cut = FALSE, !.mixed = FALSE]

\* A handler ends with calls that draw, kept in p.due: display_tree in the right frame,
\* display_list, update_tree, and display_tree_part of the split view for a new current.
Tree(at)  == [call |-> "tree", at |-> at]
List      == [call |-> "list", at |-> <<>>]
Part(at)  == [call |-> "part", at |-> at]
Patch(at) == [call |-> "patch", at |-> at]
Due(p, calls) == [p EXCEPT !.due = @ \o calls]

\* display_tree sets current at the root; display_list clears the left frame and fills that one.
Framed(inList, atRoot, rows, q) ==
    [q EXCEPT !.list = IF inList THEN q.rows ELSE @,
              !.rows = IF inList THEN rows ELSE @,
              !.current = IF atRoot THEN <<>> ELSE @]
DrawnFrom(at, inList, p) ==
    Framed(inList, at = <<>>, p.rows, Display(at, inList, IF inList THEN [p EXCEPT !.rows = <<>>] ELSE p))
Drawn(p, call) ==
    IF call.call = "patch" THEN Update(Below(call.at), 1, p)
    ELSE IF call.call = "part" THEN DrawnFrom(p.browsed, FALSE, Cleared([p EXCEPT !.current = call.at]))
    ELSE DrawnFrom(call.at, call.call = "list", p)

\* display_tree_part
DisplayPart(p) ==
    Due(Cleared(p), CASE p.view = "single" -> <<Tree(p.current)>>
                      [] p.view = "split"  -> <<Tree(p.browsed)>>
                      [] p.view = "full"   -> <<>>)

\* change_sym_value, toggle_sym_value: after a change.
Redisplay(p) ==
    CASE p.view = "full"   -> Due(p, <<Patch(<<>>)>>)
      [] p.view = "split"  -> Due(p, <<Patch(p.browsed), List>>)
      [] p.view = "single" -> DisplayPart(p)
-----------------------------------------------------------------------------
GBegin ==
    /\ prog = "gconf"
    /\ Begin
    /\ win = [view |-> "full", opt |-> "normal", current |-> <<>>, browsed |-> <<>>, back |-> FALSE,
              rows |-> <<>>, list |-> <<>>, changed |-> {}, cut |-> FALSE, mixed |-> FALSE, due |-> <<>>, x |-> "st"]

Now == [win EXCEPT !.x = st]

\* A number that is no string: sym_validate_range follows the null pointer.
NoNumber(x) == \E s \in K.syms : x.cur[s] = "none" /\ Type[s] = "int" /\ K.ranges[s] # <<>>

Becomes(p) ==
    \E q \in {p} :
        /\ win' = [q EXCEPT !.x = "st"]
        /\ st' = q.x
        /\ phase' = CASE NoNumber(q.x) -> "crashed"
                     [] ~NoNumber(q.x) /\ q.due # <<>> -> "draw"
                     [] OTHER -> "run"

RECURSIVE RowsOf(_)
RowsOf(rows) == ToSet(rows) \cup UNION {RowsOf(r.list) : r \in ToSet(rows)}

GRunning == prog = "gconf" /\ phase = "run"
KeepFiles == MadeUpFor /\ UNCHANGED <<K, prog, files, filename>>

\* main()
GStart ==
    /\ prog = "gconf" /\ phase = "start"
    /\ Becomes(Due(To(Marked(Now, IF files[".config"].now = Absent THEN {} ELSE K.syms), ReadConfig), <<Tree(<<>>)>>))
    /\ KeepFiles /\ UNCHANGED left

\* The calls that draw, made before the handler returns.
GDraw ==
    /\ prog = "gconf" /\ phase = "draw"
    /\ Becomes(FoldLeft(Drawn, [Now EXCEPT !.due = <<>>], win.due))
    /\ KeepFiles /\ UNCHANGED left

\* A value set for s, which makes the state y.
SetTo(s, y, p) == To(Marked(p, y.has \cap ({s} \ p.x.has)), y)

\* sym_toggle_tristate_value; a number or string it only marks as set, with no value if it had none.
Toggled(s, p) == SetTo(s, IF IsTri(s) THEN ToggleTristate(s, p.x) ELSE [p.x EXCEPT !.has = @ \cup {s}], p)

\* A click on the value of a row, or a double click on its name.
GToggle(at) ==
    /\ GRunning /\ EntryAt(at).name # ""
    /\ Spend
    /\ Becomes(Redisplay(Toggled(EntryAt(at).name, Now)))
    /\ KeepFiles

\* change_sym_value: a click on a column or a key; what cannot be n or m becomes y.
GChange(at, t) ==
    LET s == EntryAt(at).name
    IN /\ GRunning /\ s # "" /\ IsTri(s)
       /\ Spend
       /\ Becomes(Redisplay(SetTo(s, SetTristate(s, IF WithinRange(s, t, st) THEN t ELSE Yes, st)[2], Now)))
       /\ KeepFiles

\* renderer_edited brings the rows of the main menu up to date, whatever menu they are of.
GEdit(at, v) ==
    LET s == EntryAt(at).name
    IN /\ GRunning /\ s # "" /\ ~IsTri(s)
       /\ Spend
       /\ Becomes(Due(SetTo(s, SetString(s, v, st)[2], [Now EXCEPT !.mixed = @ \/ win.view # "full"]), <<Patch(<<>>)>>))
       /\ KeepFiles

\* A double click on a menu goes down into it, Back goes up again.
GDown(at) ==
    /\ GRunning /\ win.view # "full" /\ IsMenu(EntryAt(at))
    /\ Becomes(DisplayPart([Now EXCEPT !.current = at, !.back = TRUE]))
    /\ KeepFiles /\ UNCHANGED left

GBack ==
    LET parent == Front(win.current)
        up == IF IsMenu(EntryAt(parent)) THEN parent ELSE Front(parent)
    IN /\ GRunning /\ win.back
       /\ IF win.current = <<>> THEN phase' = "crashed" /\ UNCHANGED <<st, win>>
          ELSE Becomes(DisplayPart([Now EXCEPT !.current = up, !.back = up # <<>>]))
       /\ KeepFiles /\ UNCHANGED left

GSingle ==
    /\ GRunning
    /\ Becomes(DisplayPart([Now EXCEPT !.view = "single", !.current = <<>>]))
    /\ KeepFiles /\ UNCHANGED left

GSplit ==
    /\ GRunning
    /\ Becomes(Due(Cleared([Now EXCEPT !.view = "split", !.back = FALSE]), <<List>>))
    /\ KeepFiles /\ UNCHANGED left

GFull ==
    /\ GRunning
    /\ Becomes(Due(Cleared([Now EXCEPT !.view = "full", !.back = FALSE]), <<Tree(<<>>)>>))
    /\ KeepFiles /\ UNCHANGED left

\* "Show normal options", "Show all options" and "Show prompt options"
GOption(mode) ==
    /\ GRunning
    /\ Becomes(Due(Cleared([Now EXCEPT !.opt = mode]), <<Tree(<<>>)>>))
    /\ KeepFiles /\ UNCHANGED left

\* The left frame of the split view: a click shows what is in a menu, the second click of a double
\* click changes its symbol.
GBrowse(at) ==
    /\ GRunning /\ win.view = "split"
    /\ Becomes(DisplayPart([Now EXCEPT !.browsed = at]))
    /\ KeepFiles /\ UNCHANGED left

GBrowseToggle(at) ==
    LET s == EntryAt(at).name
    IN /\ GRunning /\ win.view = "split" /\ win.browsed = at
       /\ Spend
       /\ Becomes(Due(IF s = "" THEN Now ELSE Redisplay(Toggled(s, Now)), <<Part(at)>>))
       /\ KeepFiles

\* load_filename: the rows are added to those that are there.
GLoad(n) ==
    /\ GRunning
    /\ Spend
    /\ \E r \in {Load(n, st)} :
          /\ Becomes(IF r.ok THEN Due(To(Marked([Now EXCEPT !.mixed = TRUE], K.syms), r.x), <<Tree(<<>>)>>)
                     ELSE To(Now, r.x))
          /\ LostByLoad(r)
    /\ UNCHANGED <<K, prog, files, filename>>

\* A string that is none cannot be written.
NoString(x) == \E s \in K.syms : ~IsTri(s) /\ All(x).cur[s] = "none"

\* store_filename; on_save_activate is the same with .config.
GSave(n) ==
    /\ GRunning
    /\ Spend
    /\ IF NoString(st) THEN phase' = "crashed" /\ UNCHANGED <<st, files, lost, win>>
       ELSE \E w \in Saves(n, st) :
              /\ Becomes(To(Now, w.x))
              /\ files' = w.files
              /\ LostBySave(w)
    /\ UNCHANGED <<K, prog, filename>>

\* on_window1_delete_event: Cancel goes on, the other answers close the window, saved or not.
GClose ==
    /\ GRunning
    /\ Leave
    /\ UNCHANGED <<K, st, prog, files, filename, win, lost, left>>

GStay ==
    /\ prog = "gconf" /\ phase = "asked"
    /\ phase' = "run"
    /\ UNCHANGED <<K, st, prog, files, filename, win, lost, left>>

GAnswer ==
    /\ prog = "gconf" /\ phase = "asked"
    /\ \/ ~NoString(st) /\ SaveAndLeave
       \/ NoString(st) /\ phase' = "crashed" /\ UNCHANGED <<K, st, prog, files, filename, win, lost, left>>
       \/ Discard

GNext ==
    /\ prog = "gconf"
    /\ \/ GStart \/ GDraw \/ GBack \/ GSingle \/ GSplit \/ GFull \/ GClose \/ GStay \/ GAnswer
       \/ \E r \in RowsOf(win.rows) :
             \/ GToggle(r.at) \/ GDown(r.at)
             \/ \E t \in 0..2 : GChange(r.at, t)
             \/ \E v \in Strings : GEdit(r.at, v)
       \/ \E r \in RowsOf(win.list) : GBrowse(r.at) \/ GBrowseToggle(r.at)
       \/ \E mode \in {"normal", "all", "prompt"} : GOption(mode)
       \/ \E n \in FileNames : GLoad(n) \/ GSave(n)
-----------------------------------------------------------------------------
\* A number or string set by a click on its row, which gives it no value.
SetToNothing(x) == \E s \in x.has : ~IsTri(s) /\ x.uval[s] = "none"

\* Whatever has been changed, the rows of the full view are those a fresh tree would have, as long
\* as update_tree came to its end, no file was loaded and the symbols themselves are up to date
\* (see the findings).
TreeUpToDate ==
    (/\ prog = "gconf" /\ phase = "run"
     /\ win.view = "full" /\ win.opt = "normal" /\ ~win.cut /\ ~win.mixed
     /\ ~SetToNothing(st) /\ All(st).cur = All(Reset(st)).cur) =>
        win.rows = Display(<<>>, FALSE, [Now EXCEPT !.rows = <<>>, !.x = Reset(st)]).rows
=============================================================================
