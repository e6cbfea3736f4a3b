------------------------------ MODULE TextBox ------------------------------
(***************************************************************************)
(* lxdialog/textbox.c: the box for help texts and for the results of a     *)
(* search.  text is the state of a call of dialog_textbox, or Nothing.     *)
(*   lines, ended   the lines of the buffer, and whether the last one ends *)
(*         with a newline (then an empty line follows it)                  *)
(*   page           the line the pointer page stands at; lines: the end    *)
(*   begin_reached, end_reached, page_length   as in the code              *)
(*   height         boxh, the rows of the text window                      *)
(*   search, jumps  whether the text is the result of a search, which      *)
(*         update_text marks, and its lines with a place to jump to        *)
(*   top            history: the line in the first row                     *)
(*   keys           the keys update_text offers, with their lines          *)
(* _vscroll outlives the call for a search.                                *)
(***************************************************************************)
EXTENDS Curses, FiniteSets

CONSTANTS MaxLines, BoxHeights,     \* bounds
          JumpNb                    \* JUMP_NB

ASSUME TextBoxAssumption ==
    /\ MaxLines \in Nat
    /\ BoxHeights \subseteq Nat \ {0}
    /\ JumpNb \in Nat \ {0}

VARIABLES text, vscroll

textVars == <<text, vscroll>>

\* get_line: the pointer goes to the next line and stops at the end of the buffer.
GetLine(t) ==
    IF t.page = t.lines THEN [t EXCEPT !.end_reached = TRUE]
    ELSE [t EXCEPT !.page = @ + 1, !.end_reached = ~t.ended /\ t.page = t.lines - 1]

\* The same n > 0 times.
GetLines(t, n) ==
    [t EXCEPT !.page = MinOf(@ + n, t.lines),
              !.end_reached = t.page + n > t.lines - (IF t.ended THEN 0 ELSE 1)]

\* Plausible bug: the empty line behind the text is forgotten.
BackLinesNoSkip(t, n) ==
    [t EXCEPT !.page = MaxOf(@ - MaxOf(n, 0), 0), !.begin_reached = n > 0 /\ t.page <= n]

\* back_lines: at the end of the text the first of the n lines only leaves the end.
BackLines(t, n) ==
    LET skip == IF n > 0 /\ t.page = t.lines /\ t.end_reached THEN 1 ELSE 0
    IN [t EXCEPT !.page = MaxOf(@ - MaxOf(n - skip, 0), 0),
                 !.begin_reached = n > skip /\ t.page <= n - skip,
                 !.end_reached = @ /\ skip = 0]

\* The line that ends the text on the screen, for a page that starts at line top.
LastLine(t, top) == IF t.ended \/ top = t.lines THEN t.lines ELSE t.lines - 1

\* update_text: the jumps from start to end get the next keys, up to JUMP_NB of
\* them; a key is the jump's number modulo JUMP_NB.
Number(t, line) == Cardinality({l \in t.jumps : l < line})

Offered(t, start, end) ==
    LET on == {l \in t.jumps : start <= l /\ l < end}
        taken == {l \in on : Cardinality({k \in on : k < l}) < JumpNb}
    IN {<<Number(t, l) % JumpNb, l>> : l \in taken}

\* Plausible bug: the keys are given out for the page as it was asked for.
PreparedLate(t) ==
    IF ~t.search THEN t
    ELSE LET far == GetLines(t, t.height)
             back == BackLines(far, t.height)
         IN [back EXCEPT !.keys = Offered(t, t.page, far.page)]

\* The part of print_page before the rows are printed.  A page that reaches the
\* end of the text goes back until it fills the box.
Prepared(t) ==
    IF ~t.search THEN t
    ELSE LET far == GetLines(t, t.height)
             back == BackLines(far, t.height)
         IN [back EXCEPT !.keys = Offered(t, back.page, far.page)]

\* Plausible bug: page_length counts the rows behind the end of the text as well.
PrintPageCountsRows(t) ==
    LET p == Prepared(t)
        end == p.page + p.height - 1 >= LastLine(p, p.page)
    IN [p EXCEPT !.top = p.page,
                 !.page = IF end THEN p.lines ELSE p.page + p.height,
                 !.end_reached = end,
                 !.page_length = p.height]

\* print_page: height lines are read; page_length counts up to the last line of the text.
PrintPage(t) ==
    LET p == Prepared(t)
        last == LastLine(p, p.page)
        end == p.page + p.height - 1 >= last
    IN [p EXCEPT !.top = p.page,
                 !.page = IF end THEN p.lines ELSE p.page + p.height,
                 !.end_reached = end,
                 !.page_length = IF end THEN last - p.page + 1 ELSE p.height]

TextOpen(lines, ended, height, search, jumps) ==
    /\ text = Nothing
    /\ LET from == IF search THEN vscroll ELSE 0
           new == [lines |-> lines, ended |-> ended, height |-> height, search |-> search,
                   jumps |-> jumps, page |-> MinOf(from, lines), begin_reached |-> from = 0, end_reached |-> FALSE,
                   page_length |-> 0, top |-> 0, keys |-> {}]
       IN text' = PrintPage(new)
    /\ UNCHANGED vscroll

Turn(t) == text' = PrintPage(t) /\ UNCHANGED vscroll

FirstPage ==
    /\ text # Nothing /\ ~text.begin_reached
    /\ Turn([text EXCEPT !.begin_reached = TRUE, !.page = 0])

LastPage ==
    /\ text # Nothing
    /\ Turn(BackLines([text EXCEPT !.end_reached = TRUE, !.page = text.lines], text.height))

PreviousLine ==
    /\ text # Nothing /\ ~text.begin_reached
    /\ Turn(BackLines(text, text.page_length + 1))

PreviousPage ==
    /\ text # Nothing /\ ~text.begin_reached
    /\ Turn(BackLines(text, text.page_length + text.height))

NextLine ==
    /\ text # Nothing /\ ~text.end_reached
    /\ Turn(BackLines(text, text.page_length - 1))

NextPage ==
    /\ text # Nothing /\ ~text.end_reached
    /\ Turn([text EXCEPT !.begin_reached = FALSE])

\* Scrolling sideways reprints the page.
Reprint(t) == BackLines(t, t.page_length)

Sideways == text # Nothing /\ Turn(Reprint(text))

\* The box leaves; a search keeps the line its page started at.
TextClose ==
    /\ text # Nothing
    /\ text' = Nothing
    /\ vscroll' = IF text.search THEN Reprint(text).page ELSE vscroll

\* A new search starts at the top.
NewSearch == text = Nothing /\ vscroll' = 0 /\ UNCHANGED text

\* The terminal has another size: the page goes back by the height of the whole box.
TextResize(height) ==
    /\ text # Nothing
    /\ Turn([BackLines(text, text.height + 4) EXCEPT !.height = height])

TextNext ==
    \/ \E lines \in 1..MaxLines, height \in BoxHeights :
          \/ \E ended \in BOOLEAN : TextOpen(lines, ended, height, FALSE, {})
          \/ \E jumps \in SUBSET (0..(lines - 1)) : TextOpen(lines, TRUE, height, TRUE, jumps)
    \/ FirstPage \/ LastPage \/ PreviousLine \/ PreviousPage \/ NextLine \/ NextPage
    \/ Sideways \/ TextClose \/ NewSearch
    \/ \E height \in BoxHeights : TextResize(height)

TextInit == text = Nothing /\ vscroll = 0
=============================================================================
