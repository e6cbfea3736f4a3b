-------------------------- MODULE OneShotCapture --------------------------
(***************************************************************************)
(* What the Capture button promises (main.cpp, the OVERVIEW and the        *)
(* comment of one_shot_probe): a press is answered with one file, named    *)
(* after that press, before the next press; a failed write ends it all.    *)
(***************************************************************************)
EXTENDS Naturals

CONSTANT MaxRequests

VARIABLES shots, busy, saved, broken

vars == <<shots, busy, saved, broken>>

Init == shots = 0 /\ busy = FALSE /\ saved = {} /\ broken = FALSE

Press ==
    /\ ~busy /\ ~broken /\ shots < MaxRequests
    /\ shots' = shots + 1
    /\ busy' = TRUE
    /\ UNCHANGED <<saved, broken>>

Save ==
    /\ busy
    /\ saved' = saved \cup {shots}
    /\ busy' = FALSE
    /\ UNCHANGED <<shots, broken>>

Break ==
    /\ busy
    /\ busy' = FALSE
    /\ broken' = TRUE
    /\ UNCHANGED <<shots, saved>>

Next == Press \/ Save \/ Break

Spec == Init /\ [][Next]_vars
=============================================================================
