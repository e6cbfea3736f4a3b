----------------------------- MODULE DlWrapper -----------------------------
(***************************************************************************)
(* support/download/dl-wrapper as DOWNLOAD of package/pkg-download.mk runs *)
(* it: several builds that share one download directory fetch the same     *)
(* file, each under the flock of the package's directory.  A build may be  *)
(* killed at any point, and run again.  The steps are the script's file    *)
(* operations; the backends and the network behind them are external.      *)
(***************************************************************************)
EXTENDS CheckHash

CONSTANTS
    Builds,         \* the builds that share the download directory
    NoOne,          \* the owner of a free lock
    Hashes,         \* the hash situations the builds may have
    Linkable,       \* the legacy file can be hard-linked
    Uris,           \* the number of URIs tried
    MaxRuns         \* bound: runs of one build

ASSUME DlAssumption ==
    /\ NoOne \notin Builds
    /\ Hashes \subseteq Situations
    /\ Linkable \in BOOLEAN
    /\ Uris \in Nat
    /\ MaxRuns \in Nat

VARIABLES
    output,         \* the file under its final name
    legacy,         \* the file in the old, flat layout
    hash,           \* the hash situation of each build
    owner,          \* who holds the flock
    pc,             \* where each build is in the script
    uri,            \* the URI being tried
    scratch,        \* tmpf, in the build's own directory
    tmp,            \* tmp_output, beside output
    rc,             \* the return code the script will end with
    runs            \* runs started

locals == <<uri, scratch, tmp, rc, runs>>
fixed  == <<legacy, hash>>
vars   == <<output, fixed, owner, pc, locals>>

Rest   == {"idle", "ok", "failed", "killed"}
Inside == {"legacy", "copy", "check", "remove", "fetch", "verify", "temp",
           "append", "publish"}

TypeOK ==
    /\ output \in Files
    /\ legacy \in Whole \cup {Absent}
    /\ hash \in [Builds -> Hashes]
    /\ owner \in Builds \cup {NoOne}
    /\ pc \in [Builds -> Rest \cup {"wait"} \cup Inside]
    /\ uri \in [Builds -> 1..(Uris + 1)]
    /\ scratch \in [Builds -> Whole \cup {Absent}]
    /\ tmp \in [Builds -> Files]
    /\ rc \in [Builds -> {0, 1}]
    /\ runs \in [Builds -> Nat]

Init ==
    /\ output \in Whole \cup {Absent}
    /\ legacy \in Whole \cup {Absent}
    /\ hash \in [Builds -> Hashes]
    /\ owner = NoOne
    /\ pc = [b \in Builds |-> "idle"]
    /\ uri = [b \in Builds |-> 1]
    /\ scratch = [b \in Builds |-> Absent]
    /\ tmp = [b \in Builds |-> Absent]
    /\ rc = [b \in Builds |-> 1]
    /\ runs = [b \in Builds |-> 0]

Goto(b, label) == pc' = [pc EXCEPT ![b] = label]

\* The script exits, and with it goes the lock.
Exit(b, code) ==
    /\ Goto(b, IF code = 0 THEN "ok" ELSE "failed")
    /\ owner' = NoOne

-----------------------------------------------------------------------------
(* Plausible bugs, one per property; the specification does not use them.  *)

\* The wrapper is called without flock.
LockShared(b) ==
    /\ pc[b] = "wait"
    /\ owner' = b
    /\ Goto(b, "legacy")
    /\ UNCHANGED <<output, fixed, locals>>

\* The content is appended to the final name, not to a temporary.
MakeTempInPlace(b) ==
    /\ pc[b] = "temp"
    /\ tmp' = [tmp EXCEPT ![b] = Partial]
    /\ output' = Partial
    /\ Goto(b, "append")
    /\ UNCHANGED <<fixed, owner, uri, scratch, rc, runs>>

\* A file with a wrong hash is fetched again from the same URI.
VerifyFailsAgain(b) ==
    /\ pc[b] = "verify"
    /\ CheckHash(hash[b], scratch[b]) \notin {0, 3}
    /\ scratch' = [scratch EXCEPT ![b] = Absent]
    /\ Goto(b, "fetch")
    /\ UNCHANGED <<output, fixed, owner, uri, tmp, rc, runs>>

-----------------------------------------------------------------------------
(* make and flock *)

\* make runs the DOWNLOAD macro; the temporaries of an earlier run keep lying
\* where they are, under names that no later run uses.
Start(b) ==
    /\ pc[b] \in Rest
    /\ runs[b] < MaxRuns
    /\ runs' = [runs EXCEPT ![b] = @ + 1]
    /\ uri' = [uri EXCEPT ![b] = 1]
    /\ scratch' = [scratch EXCEPT ![b] = Absent]
    /\ tmp' = [tmp EXCEPT ![b] = Absent]
    /\ rc' = [rc EXCEPT ![b] = 1]
    /\ Goto(b, "wait")
    /\ UNCHANGED <<output, fixed, owner>>

Lock(b) ==
    /\ pc[b] = "wait"
    /\ owner = NoOne
    /\ owner' = b
    /\ Goto(b, "legacy")
    /\ UNCHANGED <<output, fixed, locals>>

\* The build is interrupted: nothing is cleaned up, the kernel frees the lock.
Kill(b) ==
    /\ pc[b] \in Inside \cup {"wait"}
    /\ owner' = IF owner = b THEN NoOne ELSE owner
    /\ Goto(b, "killed")
    /\ UNCHANGED <<output, fixed, locals>>

-----------------------------------------------------------------------------
(* The legacy location and the file that is already there *)

\* Nothing to take, or neither ln nor cp can create the file.
NoLegacy(b) ==
    /\ pc[b] = "legacy"
    /\ output # Absent \/ legacy = Absent \/ ~Linkable
    /\ Goto(b, "check")
    /\ UNCHANGED <<output, fixed, owner, locals>>

LinkLegacy(b) ==
    /\ pc[b] = "legacy"
    /\ output = Absent /\ legacy # Absent
    /\ Linkable
    /\ output' = legacy
    /\ Goto(b, "check")
    /\ UNCHANGED <<fixed, owner, locals>>

\* ln has failed: cp creates the file and starts to fill it.
CopyLegacy(b) ==
    /\ pc[b] = "legacy"
    /\ output = Absent /\ legacy # Absent
    /\ ~Linkable
    /\ output' = Partial
    /\ Goto(b, "copy")
    /\ UNCHANGED <<fixed, owner, locals>>

\* cp ends, or fails half-way: "|| true" goes on in either case.
EndCopy(b) ==
    /\ pc[b] = "copy"
    /\ output' \in {legacy, Partial}
    /\ Goto(b, "check")
    /\ UNCHANGED <<fixed, owner, locals>>

\* A file that is there is used, refused, or found wrong.
CheckExisting(b) ==
    /\ pc[b] = "check"
    /\ output # Absent
    /\ LET code == CheckHash(hash[b], output)
       IN  \/ code # 2 /\ Exit(b, code)
           \/ code = 2 /\ Goto(b, "remove") /\ UNCHANGED owner
    /\ UNCHANGED <<output, fixed, locals>>

Missing(b) ==
    /\ pc[b] = "check"
    /\ output = Absent
    /\ Goto(b, "fetch")
    /\ UNCHANGED <<output, fixed, owner, locals>>

RemoveWrong(b) ==
    /\ pc[b] = "remove"
    /\ output' = Absent
    /\ Goto(b, "fetch")
    /\ UNCHANGED <<fixed, owner, locals>>

\* rm fails: "set -e" ends the script and the wrong file stays.
RemoveFails(b) ==
    /\ pc[b] = "remove"
    /\ Exit(b, 1)
    /\ UNCHANGED <<output, fixed, locals>>

-----------------------------------------------------------------------------
(* The loop over the URIs *)

\* No temporary directory can be made, or that of the last URI not be removed.
MakeDirFails(b) ==
    /\ pc[b] = "fetch"
    /\ uri[b] <= Uris
    /\ Exit(b, 1)
    /\ UNCHANGED <<output, fixed, locals>>

\* The backend, and the post-processing if any, leave a file in tmpd.
Fetch(b) ==
    /\ pc[b] = "fetch"
    /\ uri[b] <= Uris
    /\ \E f \in Whole : scratch' = [scratch EXCEPT ![b] = f]
    /\ Goto(b, "verify")
    /\ UNCHANGED <<output, fixed, owner, uri, tmp, rc, runs>>

FetchFails(b) ==
    /\ pc[b] = "fetch"
    /\ uri[b] <= Uris
    /\ uri' = [uri EXCEPT ![b] = @ + 1]
    /\ UNCHANGED <<output, fixed, owner, pc, scratch, tmp, rc, runs>>

NoUriLeft(b) ==
    /\ pc[b] = "fetch"
    /\ uri[b] > Uris
    /\ Exit(b, 1)
    /\ UNCHANGED <<output, fixed, locals>>

\* A file without a hash is kept, but the script will report a failure.
Verify(b) ==
    /\ pc[b] = "verify"
    /\ LET code == CheckHash(hash[b], scratch[b])
       IN  /\ code \in {0, 3}
           /\ rc' = [rc EXCEPT ![b] = IF code = 0 THEN 0 ELSE 1]
    /\ Goto(b, "temp")
    /\ UNCHANGED <<output, fixed, owner, uri, scratch, tmp, runs>>

VerifyFails(b) ==
    /\ pc[b] = "verify"
    /\ CheckHash(hash[b], scratch[b]) \notin {0, 3}
    /\ scratch' = [scratch EXCEPT ![b] = Absent]
    /\ uri' = [uri EXCEPT ![b] = @ + 1]
    /\ Goto(b, "fetch")
    /\ UNCHANGED <<output, fixed, owner, tmp, rc, runs>>

-----------------------------------------------------------------------------
(* Saving the file *)

MakeTemp(b) ==
    /\ pc[b] = "temp"
    /\ tmp' = [tmp EXCEPT ![b] = Partial]
    /\ Goto(b, "append")
    /\ UNCHANGED <<output, fixed, owner, uri, scratch, rc, runs>>

\* mktemp or chmod fails: "set -e" ends the script there and then.
MakeTempFails(b) ==
    /\ pc[b] = "temp"
    /\ \E f \in {Absent, Partial} : tmp' = [tmp EXCEPT ![b] = f]
    /\ Exit(b, 1)
    /\ UNCHANGED <<output, fixed, uri, scratch, rc, runs>>

Append_(b) ==
    /\ pc[b] = "append"
    /\ tmp' = [tmp EXCEPT ![b] = scratch[b]]
    /\ scratch' = [scratch EXCEPT ![b] = Absent]
    /\ Goto(b, "publish")
    /\ UNCHANGED <<output, fixed, owner, uri, rc, runs>>

\* The content is saved but the temporary directory cannot be removed.
RemoveDirFails(b) ==
    /\ pc[b] = "append"
    /\ tmp' = [tmp EXCEPT ![b] = scratch[b]]
    /\ Exit(b, 1)
    /\ UNCHANGED <<output, fixed, uri, scratch, rc, runs>>

\* The directory is full (cat) or the rename is refused (mv): clean up.
SaveFails(b) ==
    /\ pc[b] \in {"append", "publish"}
    /\ scratch' = [scratch EXCEPT ![b] = Absent]
    /\ tmp' = [tmp EXCEPT ![b] = Absent]
    /\ Exit(b, 1)
    /\ UNCHANGED <<output, fixed, uri, rc, runs>>

Rename(b) ==
    /\ pc[b] = "publish"
    /\ output' = tmp[b]
    /\ tmp' = [tmp EXCEPT ![b] = Absent]
    /\ Exit(b, rc[b])
    /\ UNCHANGED <<fixed, uri, scratch, rc, runs>>

-----------------------------------------------------------------------------
Step(b) ==
    \/ Lock(b)
    \/ NoLegacy(b) \/ LinkLegacy(b) \/ CopyLegacy(b) \/ EndCopy(b)
    \/ CheckExisting(b) \/ Missing(b) \/ RemoveWrong(b) \/ RemoveFails(b)
    \/ MakeDirFails(b)
    \/ Fetch(b) \/ FetchFails(b) \/ NoUriLeft(b) \/ Verify(b) \/ VerifyFails(b)
    \/ MakeTemp(b) \/ MakeTempFails(b)
    \/ Append_(b) \/ RemoveDirFails(b) \/ SaveFails(b) \/ Rename(b)

Next == \E b \in Builds : Start(b) \/ Kill(b) \/ Step(b)

Spec == Init /\ [][Next]_vars

\* A running script is scheduled, and a waiting one gets a lock that stays free.
LiveSpec == Spec /\ \A b \in Builds : WF_vars(Step(b))

-----------------------------------------------------------------------------
(* Properties *)

\* Where the legacy file can be linked, the directory is the atomic store that
\* its users rely on, whatever is killed (dl-wrapper, the whole script).
Store ==
    INSTANCE AtomicStore WITH
        store   <- output,
        verdict <- [b \in Builds |-> IF pc[b] \in Rest THEN pc[b] ELSE "busy"]

ImplementsAtomicStore == Store!Spec

\* A build that was told it has its file keeps it, and it passes the hashes,
\* as long as the builds that share the directory agree on them (the check of
\* the existing file, rm, mv).
AcceptedStays ==
    (\A b, c \in Builds : hash[b] = hash[c]) =>
        \A b \in Builds :
            pc[b] = "ok" => output # Absent /\ CheckHash(hash[b], output) = 0

\* The exit codes of check-hash tell the file's situation and the situation the code:
\* 0 exactly for a file that has all of its hashes, or needs none; 3 exactly for one
\* whose hash is missing, unless BR_NO_CHECK_HASH_FOR exempts it (which the head of
\* the script leaves out); 2 and 4 only with a line that is wrong in that way.
CodesDocumented ==
    \A b \in Builds : \A f \in Whole :
        LET h     == hash[b]
            code  == CheckHash(h, f)
            named == {h.lines[i] : i \in DOMAIN h.lines}
        IN  /\ code \in {0, 2, 3, 4}
            /\ code = 0 <=> \/ ~h.files
                            \/ named = {} /\ h.exempt
                            \/ named # {} /\ \A l \in named : l.known /\ l.value = f
            /\ code = 3 <=> h.files /\ named = {} /\ ~h.exempt
            /\ code = 2 => \E l \in named : l.known /\ l.value # f
            /\ code = 4 => \E l \in named : ~l.known

\* A run of the script comes to its end: the lock is never held for ever.
RunEnds == \A b \in Builds : pc[b] = "wait" ~> pc[b] \in Rest

\* "ensure atomicity when saving downloaded files": no build is given a part.
NoPartialAccepted == \A b \in Builds : pc[b] = "ok" => output # Partial
=============================================================================
