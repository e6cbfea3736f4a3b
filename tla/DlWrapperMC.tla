---------------------------- MODULE DlWrapperMC ----------------------------
(* Values for the model checker: one hash situation of each kind. *)
EXTENDS DlWrapper

Good(known) == [known |-> known, value |-> "good"]

Case(files, exempt, lines) == [files |-> files, exempt |-> exempt, lines |-> lines]

MCHashes ==
    { Case(FALSE, FALSE, <<>>),                         \* no .hash file
      Case(TRUE, FALSE, <<>>),                          \* no line for the file
      Case(TRUE, TRUE, <<>>),                           \* ... but exempted
      Case(TRUE, FALSE, <<Good(TRUE)>>),                \* one hash
      Case(TRUE, FALSE, <<[known |-> TRUE, value |-> "bad"], Good(TRUE)>>),
      Case(TRUE, FALSE, <<Good(TRUE), Good(FALSE)>>) }  \* a type it does not know

\* One that ends each way the wrapper tells apart: 0, 3, and 0 or 2.
MCFewHashes ==
    { Case(FALSE, FALSE, <<>>), Case(TRUE, FALSE, <<>>),
      Case(TRUE, FALSE, <<Good(TRUE)>>) }
=============================================================================
