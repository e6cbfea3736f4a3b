---------------------------- MODULE AtomicStore ----------------------------
(***************************************************************************)
(* What the download directory promises to the builds that share it (the   *)
(* comments at the head of support/download/dl-wrapper): at any time a     *)
(* file is absent or whole; it is taken away only by a build whose hashes  *)
(* it fails; and a build succeeds only with a file that passes its hashes. *)
(***************************************************************************)
EXTENDS CheckHash

CONSTANTS Builds

VARIABLES
    store,      \* the file under its final name
    hash,       \* the hash situation of each build
    verdict     \* what became of each build's last request

vars == <<store, hash, verdict>>

Init ==
    /\ store \in Whole \cup {Absent}
    /\ verdict = [b \in Builds |-> "idle"]

Request(b) ==
    /\ verdict[b] # "busy"
    /\ verdict' = [verdict EXCEPT ![b] = "busy"]
    /\ UNCHANGED <<store, hash>>

\* A file in the directory's old layout is given its new name.
Import(b) ==
    /\ verdict[b] = "busy"
    /\ store = Absent
    /\ store' \in Whole
    /\ UNCHANGED <<hash, verdict>>

\* A new file, in one step; without a hash to check it, the build still fails.
Deliver(b) ==
    /\ verdict[b] = "busy"
    /\ store = Absent
    /\ store' \in Whole
    /\ CheckHash(hash[b], store') \in {0, 3}
    /\ verdict' = [verdict EXCEPT ![b] =
                      IF CheckHash(hash[b], store') = 0 THEN "ok" ELSE "failed"]
    /\ UNCHANGED hash

Serve(b) ==
    /\ verdict[b] = "busy"
    /\ store \in Whole
    /\ CheckHash(hash[b], store) = 0
    /\ verdict' = [verdict EXCEPT ![b] = "ok"]
    /\ UNCHANGED <<store, hash>>

Evict(b) ==
    /\ verdict[b] = "busy"
    /\ store \in Whole
    /\ CheckHash(hash[b], store) = 2
    /\ store' = Absent
    /\ UNCHANGED <<hash, verdict>>

GiveUp(b) ==
    /\ verdict[b] = "busy"
    /\ \E end \in {"failed", "killed"} : verdict' = [verdict EXCEPT ![b] = end]
    /\ UNCHANGED <<store, hash>>

Next ==
    \E b \in Builds :
        Request(b) \/ Import(b) \/ Deliver(b) \/ Serve(b) \/ Evict(b) \/ GiveUp(b)

Spec == Init /\ [][Next]_vars
=============================================================================
