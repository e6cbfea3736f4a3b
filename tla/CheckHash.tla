----------------------------- MODULE CheckHash -----------------------------
(***************************************************************************)
(* support/download/check-hash: what a downloaded file is worth, given the *)
(* .hash files of its package.  A hash situation is a record: whether any  *)
(* .hash file exists, the lines that name the file, in order, and whether  *)
(* BR_NO_CHECK_HASH_FOR exempts it.  A line has a hash type, known to the  *)
(* script or not, and stands for the content that has that hash.           *)
(***************************************************************************)
EXTENDS Naturals, Sequences

Whole   == {"good", "bad"}          \* complete contents a file may have
Absent  == "absent"
Partial == "partial"                \* a file that is only half written
Files   == Whole \cup {Absent, Partial}

Lines == [known : BOOLEAN, value : Whole]

Situations == [files : BOOLEAN, exempt : BOOLEAN, lines : Seq(Lines)]

\* check_one_hash: its exit code, 0 when the loop goes on.
CheckLine(line, f) ==
    CASE ~line.known                    -> 4
      [] line.known /\ line.value # f   -> 2
      [] line.known /\ line.value = f   -> 0

\* Plausible bug: the loop goes on after a failure and the last line decides.
CheckLinesLast(lines, f) ==
    IF lines = <<>> THEN 0 ELSE CheckLine(lines[Len(lines)], f)

\* The loop over the lines: the first check that fails ends the script.
CheckLines(lines, f) ==
    LET failing == {i \in DOMAIN lines : CheckLine(lines[i], f) # 0}
    IN  IF failing = {} THEN 0
        ELSE CheckLine(lines[CHOOSE i \in failing : \A j \in failing : i <= j], f)

\* The exit code for a file with content f.
CheckHash(h, f) ==
    CASE ~h.files                                    -> 0
      [] h.files /\ h.lines # <<>>                   -> CheckLines(h.lines, f)
      [] h.files /\ h.lines = <<>> /\ h.exempt       -> 0
      [] h.files /\ h.lines = <<>> /\ ~h.exempt      -> 3
=============================================================================
