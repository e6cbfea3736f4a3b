----------------------------- MODULE LxdialogMC -----------------------------
(* Values for the model checker: items with three kinds of letters, one of them a command. *)
EXTENDS Lxdialog

MCLetters == {"a", "s"}
MCHot(i) == IF i % 3 = 0 THEN "a" ELSE IF i % 3 = 1 THEN "s" ELSE "b"
MCChars == {1, 2}
MCInits == {<<>>, <<1>>, <<1, 2, 1, 1>>}
=============================================================================
