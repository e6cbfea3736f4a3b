-------------------------- MODULE DlWrapperProofs --------------------------
(***************************************************************************)
(* Theorems about DlWrapper, for any builds, hash situations and numbers   *)
(* of URIs and runs.  The store is shown where the legacy file can be      *)
(* linked, and without looking into what check-hash returns; what it       *)
(* returns means what its head says.                                       *)
(***************************************************************************)
EXTENDS DlWrapper, WellFoundedInduction, TLAPS

\* The file was found good (0) or without a hash (3), and the script's return
\* code says which.
Passed(b, f) ==
    /\ CheckHash(hash[b], f) \in {0, 3}
    /\ rc[b] = IF CheckHash(hash[b], f) = 0 THEN 0 ELSE 1

\* The lock is held by exactly the build that is inside the script.
Held == \A b \in Builds : pc[b] \in Inside <=> owner = b

\* What the build that is inside knows, at each place, of the files: the output
\* still is what it found there, and the temporary is what it has checked.
Known(b) ==
    /\ pc[b] # "copy"
    /\ pc[b] = "remove" => output # Absent /\ CheckHash(hash[b], output) = 2
    /\ pc[b] \in {"fetch", "verify", "temp", "append", "publish"} => output = Absent
    /\ pc[b] = "verify" => uri[b] <= Uris
    /\ pc[b] \in {"verify", "temp", "append"} => scratch[b] \in Whole
    /\ pc[b] \in {"temp", "append"} => Passed(b, scratch[b])
    /\ pc[b] = "publish" => tmp[b] \in Whole /\ Passed(b, tmp[b])

DlInv ==
    /\ TypeOK
    /\ output # Partial
    /\ Held
    /\ \A b \in Builds : Known(b)
    /\ AcceptedStays

\* The initial states satisfy the inductive invariant.
LEMMA DlInit == Init => DlInv
<1> SUFFICES ASSUME Init PROVE DlInv
    OBVIOUS
<1>1. TypeOK
    BY DlAssumption DEF Init, TypeOK, Rest, Inside, Files, Whole, Absent
<1>2. Held /\ (\A b \in Builds : Known(b)) /\ AcceptedStays /\ output # Partial
    BY DlAssumption DEF Init, Held, Known, AcceptedStays, Inside, Whole, Absent, Partial
<1> QED
    BY <1>1, <1>2 DEF DlInv

\* make and the interruption of a build preserve it.
LEMMA StartStep ==
    ASSUME DlInv, NEW b \in Builds, Start(b) \/ Lock(b) \/ Kill(b)
    PROVE  DlInv'
<1> USE DlAssumption DEF DlInv, TypeOK, Held, Known, Passed, AcceptedStays, Inside, Rest,
        Files, Whole, Absent, Partial, Goto, fixed, locals
<1>1. CASE Start(b)
    BY <1>1 DEF Start
<1>2. CASE Lock(b)
    BY <1>2 DEF Lock
<1>3. CASE Kill(b)
    BY <1>3 DEF Kill
<1> QED
    BY <1>1, <1>2, <1>3

\* So do the steps that look at the legacy and the existing file.
LEMMA ExistingStep ==
    ASSUME DlInv, Linkable, NEW b \in Builds,
           \/ NoLegacy(b) \/ LinkLegacy(b) \/ CopyLegacy(b) \/ EndCopy(b)
           \/ CheckExisting(b) \/ Missing(b) \/ RemoveWrong(b) \/ RemoveFails(b)
    PROVE  DlInv'
<1> USE DlAssumption DEF DlInv, TypeOK, Held, Known, Passed, AcceptedStays, Inside, Rest,
        Files, Whole, Absent, Partial, Goto, Exit, fixed, locals
<1>1. CASE NoLegacy(b)
    BY <1>1 DEF NoLegacy
<1>2. CASE LinkLegacy(b)
    BY <1>2 DEF LinkLegacy
<1>3. CASE CopyLegacy(b) \/ EndCopy(b)
    BY <1>3 DEF CopyLegacy, EndCopy
<1>4. CASE CheckExisting(b)
    BY <1>4 DEF CheckExisting
<1>5. CASE Missing(b)
    BY <1>5 DEF Missing
<1>6. CASE RemoveWrong(b) \/ RemoveFails(b)
    BY <1>6 DEF RemoveWrong, RemoveFails
<1> QED
    BY <1>1, <1>2, <1>3, <1>4, <1>5, <1>6

\* So do the steps of the loop over the URIs.
LEMMA LoopStep ==
    ASSUME DlInv, NEW b \in Builds,
           \/ MakeDirFails(b) \/ Fetch(b) \/ FetchFails(b) \/ NoUriLeft(b)
           \/ Verify(b) \/ VerifyFails(b)
    PROVE  DlInv'
<1> USE DlAssumption DEF DlInv, TypeOK, Held, Known, Passed, AcceptedStays, Inside, Rest,
        Files, Whole, Absent, Partial, Goto, Exit, fixed, locals
<1>1. CASE Fetch(b)
    BY <1>1 DEF Fetch
<1>2. CASE FetchFails(b)
    BY <1>2 DEF FetchFails
<1>3. CASE NoUriLeft(b) \/ MakeDirFails(b)
    BY <1>3 DEF NoUriLeft, MakeDirFails
<1>4. CASE Verify(b)
    BY <1>4 DEF Verify
<1>5. CASE VerifyFails(b)
    BY <1>5 DEF VerifyFails
<1> QED
    BY <1>1, <1>2, <1>3, <1>4, <1>5

\* So do the steps that save the file.
LEMMA SaveStep ==
    ASSUME DlInv, NEW b \in Builds,
           \/ MakeTemp(b) \/ MakeTempFails(b) \/ Append_(b)
           \/ RemoveDirFails(b) \/ SaveFails(b) \/ Rename(b)
    PROVE  DlInv'
<1> USE DlAssumption DEF DlInv, TypeOK, Held, Known, Passed, AcceptedStays, Inside, Rest,
        Files, Whole, Absent, Partial, Goto, Exit, fixed, locals
<1>1. CASE MakeTemp(b)
    BY <1>1 DEF MakeTemp
<1>2. CASE MakeTempFails(b)
    BY <1>2 DEF MakeTempFails
<1>3. CASE Append_(b)
    BY <1>3 DEF Append_
<1>4. CASE RemoveDirFails(b) \/ SaveFails(b)
    BY <1>4 DEF RemoveDirFails, SaveFails
<1>5. CASE Rename(b)
    BY <1>5 DEF Rename
<1> QED
    BY <1>1, <1>2, <1>3, <1>4, <1>5

\* Every step of every build preserves the inductive invariant.
LEMMA DlStep == ASSUME Linkable PROVE DlInv /\ [Next]_vars => DlInv'
<1> SUFFICES ASSUME DlInv, [Next]_vars PROVE DlInv'
    OBVIOUS
<1>1. CASE UNCHANGED vars
    BY <1>1 DEF DlInv, TypeOK, Held, Known, Passed, AcceptedStays, vars, fixed, locals
<1>2. CASE Next
    BY <1>2, StartStep, ExistingStep, LoopStep, SaveStep DEF Next, Step
<1> QED
    BY <1>1, <1>2

\* The inductive invariant holds of every behaviour.
LEMMA DlInvariant == ASSUME Linkable PROVE Spec => []DlInv
<1>1. Init => DlInv
    BY DlInit
<1>2. DlInv /\ [Next]_vars => DlInv'
    BY DlStep
<1> QED
    BY <1>1, <1>2, PTL DEF Spec

\* Every variable keeps its type; in particular no URI is tried beyond the last.
THEOREM DlTypes == ASSUME Linkable PROVE Spec => []TypeOK
<1>1. DlInv => TypeOK
    BY DEF DlInv
<1> QED
    BY <1>1, DlInvariant, PTL

\* A build keeps the file it was given, while all builds agree on the hashes.
THEOREM AcceptedFileStays == ASSUME Linkable PROVE Spec => []AcceptedStays
<1>1. DlInv => AcceptedStays
    BY DEF DlInv
<1> QED
    BY <1>1, DlInvariant, PTL

-----------------------------------------------------------------------------
(* The download directory is an AtomicStore.                               *)

Verdict == [b \in Builds |-> IF pc[b] \in Rest THEN pc[b] ELSE "busy"]

\* AtomicStore means the same by check-hash as the wrapper does.
LEMMA SameCheck ==
    /\ Store!Whole = Whole /\ Store!Absent = Absent
    /\ \A h, f : Store!CheckHash(h, f) = CheckHash(h, f)
<1>1. Store!Whole = Whole /\ Store!Absent = Absent
    BY DEF Store!Whole, Whole, Store!Absent, Absent
<1>2. ASSUME NEW l, NEW f PROVE Store!CheckLine(l, f) = CheckLine(l, f)
    BY DEF Store!CheckLine, CheckLine
<1>3. ASSUME NEW l, NEW f PROVE Store!CheckLines(l, f) = CheckLines(l, f)
    BY <1>2 DEF Store!CheckLines, CheckLines, Store!CheckLine, CheckLine
<1>4. ASSUME NEW h, NEW f PROVE Store!CheckHash(h, f) = CheckHash(h, f)
    BY <1>3 DEF Store!CheckHash, CheckHash
<1> QED
    BY <1>1, <1>4

\* The abstract directory, before any build.
LEMMA StoreInit == Init => Store!Init
BY SameCheck DEF Init, Store!Init, Rest

\* A step that leaves output alone and moves a build within the script is
\* invisible.
LEMMA Invisible ==
    ASSUME TypeOK, NEW b \in Builds, NEW label,
           pc[b] \notin Rest, label \notin Rest,
           pc' = [pc EXCEPT ![b] = label]
    PROVE  Verdict' = Verdict
BY DEF Verdict, TypeOK

\* A step that ends the script moves the verdict from "busy" to its end.
LEMMA Ends ==
    ASSUME TypeOK, NEW b \in Builds, NEW end \in Rest,
           pc[b] \notin Rest, pc' = [pc EXCEPT ![b] = end]
    PROVE  Verdict[b] = "busy" /\ Verdict' = [Verdict EXCEPT ![b] = end]
BY DEF Verdict, TypeOK

\* Every step is a step of the abstract directory, or invisible.
LEMMA StoreStep == ASSUME Linkable PROVE DlInv /\ [Next]_vars => [Store!Next]_(Store!vars)
<1> SUFFICES ASSUME DlInv, [Next]_vars PROVE [Store!Next]_(Store!vars)
    OBVIOUS
<1> DEFINE Hidden == output' = output /\ hash' = hash /\ Verdict' = Verdict
<1>0. Hidden => UNCHANGED Store!vars
    BY DEF Store!vars, Verdict
<1>1. CASE UNCHANGED vars
    BY <1>0, <1>1 DEF vars, fixed, locals, Verdict
<1>2. ASSUME NEW b \in Builds, Start(b) PROVE Store!Next
  <2>1. Verdict[b] # "busy" /\ Verdict' = [Verdict EXCEPT ![b] = "busy"]
      BY <1>2 DEF Start, Goto, Verdict, Rest, DlInv, TypeOK
  <2>2. Store!Request(b)
      BY <1>2, <2>1 DEF Start, fixed, Store!Request, Verdict
  <2> QED
      BY <2>2 DEF Store!Next
<1>3. ASSUME NEW b \in Builds, Kill(b) PROVE Store!Next
  <2>1. Verdict[b] = "busy" /\ Verdict' = [Verdict EXCEPT ![b] = "killed"]
      BY <1>3, Ends DEF Kill, Goto, Rest, Inside, DlInv
  <2>2. Store!GiveUp(b)
      BY <1>3, <2>1 DEF Kill, fixed, Store!GiveUp, Verdict
  <2> QED
      BY <2>2 DEF Store!Next
<1>4. ASSUME NEW b \in Builds, Step(b) PROVE Store!Next \/ Hidden
  <2> USE DEF fixed, Goto, Exit
  <2>1. CASE LinkLegacy(b)
    <3>1. Verdict[b] = "busy" /\ Verdict' = Verdict
        BY <2>1, Invisible DEF LinkLegacy, Rest, DlInv, Verdict
    <3>2. Store!Import(b)
        BY <2>1, <3>1, SameCheck DEF LinkLegacy, Store!Import, Verdict, DlInv, TypeOK
    <3> QED
        BY <3>2 DEF Store!Next
  <2>2. CASE CheckExisting(b)
    <3>1. CASE CheckHash(hash[b], output) = 2
        BY <2>2, <3>1, Invisible DEF CheckExisting, Rest, DlInv
    <3>2. CASE CheckHash(hash[b], output) = 0
      <4>1. Verdict[b] = "busy" /\ Verdict' = [Verdict EXCEPT ![b] = "ok"]
          BY <2>2, <3>2, Ends DEF CheckExisting, Rest, DlInv
      <4>2. Store!Serve(b)
          BY <2>2, <3>2, <4>1, SameCheck DEF CheckExisting, Store!Serve, Verdict, DlInv, TypeOK, Files
      <4> QED
          BY <4>2 DEF Store!Next
    <3>3. CASE CheckHash(hash[b], output) \notin {0, 2}
      <4>1. Verdict[b] = "busy" /\ Verdict' = [Verdict EXCEPT ![b] = "failed"]
          BY <2>2, <3>3, Ends DEF CheckExisting, Rest, DlInv
      <4>2. Store!GiveUp(b)
          BY <2>2, <3>3, <4>1 DEF CheckExisting, Store!GiveUp, Verdict
      <4> QED
          BY <4>2 DEF Store!Next
    <3> QED
        BY <3>1, <3>2, <3>3
  <2>3. CASE RemoveWrong(b)
    <3>1. Verdict[b] = "busy" /\ Verdict' = Verdict
        BY <2>3, Invisible DEF RemoveWrong, Rest, DlInv, Verdict
    <3>2. Store!Evict(b)
        BY <2>3, <3>1, SameCheck DEF RemoveWrong, Store!Evict, Verdict, DlInv, TypeOK, Known, Files
    <3> QED
        BY <3>2 DEF Store!Next
  <2>4. CASE \/ NoUriLeft(b) \/ MakeDirFails(b) \/ RemoveFails(b)
             \/ MakeTempFails(b) \/ RemoveDirFails(b) \/ SaveFails(b)
    <3>1. Verdict[b] = "busy" /\ Verdict' = [Verdict EXCEPT ![b] = "failed"]
        BY <2>4, Ends DEF NoUriLeft, MakeDirFails, RemoveFails, MakeTempFails,
                          RemoveDirFails, SaveFails, Rest, DlInv
    <3>2. Store!GiveUp(b)
        BY <2>4, <3>1 DEF NoUriLeft, MakeDirFails, RemoveFails, MakeTempFails,
                          RemoveDirFails, SaveFails, Store!GiveUp, Verdict
    <3> QED
        BY <3>2 DEF Store!Next
  <2>5. CASE Rename(b)
    <3>1. Verdict[b] = "busy"
          /\ Verdict' = [Verdict EXCEPT ![b] = IF rc[b] = 0 THEN "ok" ELSE "failed"]
        BY <2>5, Ends DEF Rename, Rest, DlInv
    <3>2. /\ output = Absent /\ output' \in Whole /\ hash' = hash
          /\ CheckHash(hash[b], output') \in {0, 3}
          /\ rc[b] = 0 <=> CheckHash(hash[b], output') = 0
        BY <2>5 DEF Rename, DlInv, Known, Passed
    <3>3. Store!Deliver(b)
        BY <3>1, <3>2, SameCheck DEF Store!Deliver, Verdict
    <3> QED
        BY <3>3 DEF Store!Next
  <2>6. CASE \/ Lock(b) \/ NoLegacy(b) \/ Missing(b) \/ Fetch(b) \/ FetchFails(b)
             \/ Verify(b) \/ VerifyFails(b) \/ MakeTemp(b) \/ Append_(b)
    <3>1. output' = output /\ hash' = hash
        BY <2>6 DEF Lock, NoLegacy, Missing, Fetch, FetchFails, Verify, VerifyFails,
                    MakeTemp, Append_
    <3>2. Verdict' = Verdict
      <4>1. CASE FetchFails(b)
          BY <4>1 DEF FetchFails, Verdict
      <4>2. CASE ~FetchFails(b)
          BY <2>6, <4>2, Invisible DEF Lock, NoLegacy, Missing, Fetch, Verify, VerifyFails,
                    MakeTemp, Append_, Rest, DlInv
      <4> QED
          BY <4>1, <4>2
    <3> QED
        BY <3>1, <3>2
  <2>7. CASE CopyLegacy(b) \/ EndCopy(b)
      BY <2>7 DEF CopyLegacy, EndCopy, DlInv, Known
  <2> QED
      BY <1>4, <2>1, <2>2, <2>3, <2>4, <2>5, <2>6, <2>7 DEF Step
<1> QED
    BY <1>0, <1>1, <1>2, <1>3, <1>4 DEF Next

\* Where the legacy file can be linked, dl-wrapper implements the atomic store.
THEOREM DownloadsAreAtomic == ASSUME Linkable PROVE Spec => ImplementsAtomicStore
<1>1. Init => Store!Init
    BY StoreInit
<1>2. DlInv /\ [Next]_vars => [Store!Next]_(Store!vars)
    BY StoreStep
<1> QED
    BY <1>1, <1>2, DlInvariant, PTL DEF Spec, ImplementsAtomicStore, Store!Spec
-----------------------------------------------------------------------------
(* The exit codes of check-hash *)

\* A set of line numbers that is not empty has a least one.
LEMMA LeastLine ==
    ASSUME NEW S, S \subseteq Nat, S # {}
    PROVE  \E i \in S : \A j \in S : i <= j
<1> DEFINE Before == OpToRel(<, Nat)
<1>1. IsWellFoundedOn(Before, Nat)
    BY NatLessThanWellFounded
<1>2. \A i, j \in Nat : i < j => <<i, j>> \in Before
    BY DEF OpToRel
<1> HIDE DEF Before
<1>3. PICK i \in S : \A j \in S : <<j, i>> \notin Before
    BY <1>1, WFMin
<1>4. ASSUME NEW j \in S PROVE i <= j
  <2>1. i \in Nat /\ j \in Nat /\ ~(j < i)
      BY <1>2, <1>3
  <2> QED
      BY <2>1
<1> QED
    BY <1>4

\* The loop answers with the first line that fails, whatever lines follow it.
LEMMA FirstFailure ==
    ASSUME NEW lines \in Seq(Lines), NEW f \in Whole
    PROVE  \/ CheckLines(lines, f) = 0 /\ \A i \in DOMAIN lines : CheckLine(lines[i], f) = 0
           \/ \E i \in DOMAIN lines : /\ CheckLine(lines[i], f) # 0
                                      /\ CheckLines(lines, f) = CheckLine(lines[i], f)
<1> DEFINE failing == {i \in DOMAIN lines : CheckLine(lines[i], f) # 0}
<1>1. CASE failing = {}
    BY <1>1 DEF CheckLines
<1>2. CASE failing # {}
  <2>1. failing \in SUBSET Nat
      OBVIOUS
  <2>2. \E i \in failing : \A j \in failing : i <= j
    <3> HIDE DEF failing
    <3> QED
        BY <1>2, <2>1, LeastLine
  <2> DEFINE first == CHOOSE i \in failing : \A j \in failing : i <= j
  <2>3. first \in failing
      BY <2>2
  <2>4. CheckLines(lines, f) = CheckLine(lines[first], f)
      BY <1>2 DEF CheckLines
  <2> QED
      BY <2>3, <2>4
<1> QED
    BY <1>1, <1>2

\* The codes of one line, and what each of them says of it.
LEMMA LineCodes ==
    ASSUME NEW line \in Lines, NEW f \in Whole
    PROVE  /\ CheckLine(line, f) \in {0, 2, 4}
           /\ CheckLine(line, f) = 0 <=> line.known /\ line.value = f
           /\ CheckLine(line, f) = 2 => line.known /\ line.value # f
           /\ CheckLine(line, f) = 4 => ~line.known
<1>1. line.known \in BOOLEAN
    BY DEF Lines
<1>2. CASE ~line.known
    BY <1>2 DEF CheckLine
<1>3. CASE line.known /\ line.value # f
    BY <1>3 DEF CheckLine
<1>4. CASE line.known /\ line.value = f
    BY <1>4 DEF CheckLine
<1> QED
    BY <1>1, <1>2, <1>3, <1>4

\* Each exit code means, for any number of lines in any order, what the head of check-hash says.
LEMMA CodeMeaning ==
    ASSUME NEW h \in Situations, NEW f \in Whole
    PROVE  LET code  == CheckHash(h, f)
               named == {h.lines[i] : i \in DOMAIN h.lines}
           IN  /\ code \in {0, 2, 3, 4}
               /\ code = 0 <=> \/ ~h.files
                               \/ named = {} /\ h.exempt
                               \/ named # {} /\ \A l \in named : l.known /\ l.value = f
               /\ code = 3 <=> h.files /\ named = {} /\ ~h.exempt
               /\ code = 2 => \E l \in named : l.known /\ l.value # f
               /\ code = 4 => \E l \in named : ~l.known
<1> DEFINE code  == CheckHash(h, f)
           named == {h.lines[i] : i \in DOMAIN h.lines}
<1> SUFFICES /\ code \in {0, 2, 3, 4}
             /\ code = 0 <=> \/ ~h.files
                             \/ named = {} /\ h.exempt
                             \/ named # {} /\ \A l \in named : l.known /\ l.value = f
             /\ code = 3 <=> h.files /\ named = {} /\ ~h.exempt
             /\ code = 2 => \E l \in named : l.known /\ l.value # f
             /\ code = 4 => \E l \in named : ~l.known
    OBVIOUS
<1>1. h.files \in BOOLEAN /\ h.exempt \in BOOLEAN /\ h.lines \in Seq(Lines)
    BY DEF Situations
<1>2. CASE ~h.files
    BY <1>2 DEF CheckHash
<1>3. CASE h.files /\ h.lines = <<>>
  <2>1. named = {}
      BY <1>3
  <2>2. code = IF h.exempt THEN 0 ELSE 3
      BY <1>1, <1>3 DEF CheckHash
  <2> QED
      BY <1>3, <2>1, <2>2
<1>4. CASE h.files /\ h.lines # <<>>
  <2>0. named # {}
    <3>1. 1 \in DOMAIN h.lines
        BY <1>1, <1>4
    <3> QED
        BY <3>1
  <2>1. code = CheckLines(h.lines, f)
      BY <1>4 DEF CheckHash
  <2>2. \A i \in DOMAIN h.lines : h.lines[i] \in Lines /\ h.lines[i] \in named
      BY <1>1
  <2>3. CASE code = 0 /\ \A i \in DOMAIN h.lines : CheckLine(h.lines[i], f) = 0
    <3>1. \A l \in named : l.known /\ l.value = f
        BY <2>2, <2>3, LineCodes
    <3> HIDE DEF code, named
    <3> QED
        BY <1>4, <2>0, <2>3, <3>1
  <2>4. ASSUME NEW i \in DOMAIN h.lines, CheckLine(h.lines[i], f) # 0,
               code = CheckLine(h.lines[i], f)
        PROVE  /\ code \in {2, 4}
               /\ code = 2 => h.lines[i].known /\ h.lines[i].value # f
               /\ code = 4 => ~h.lines[i].known
      BY <2>2, <2>4, LineCodes
  <2>5. \/ code = 0 /\ (\A i \in DOMAIN h.lines : CheckLine(h.lines[i], f) = 0)
        \/ \E i \in DOMAIN h.lines : /\ CheckLine(h.lines[i], f) # 0
                                     /\ code = CheckLine(h.lines[i], f)
      BY <1>1, <2>1, FirstFailure
  <2> HIDE DEF code, named
  <2>6. CASE \E i \in DOMAIN h.lines : /\ CheckLine(h.lines[i], f) # 0
                                       /\ code = CheckLine(h.lines[i], f)
    <3>1. PICK i \in DOMAIN h.lines : /\ code \in {2, 4}
                                      /\ code = 2 => h.lines[i].known /\ h.lines[i].value # f
                                      /\ code = 4 => ~h.lines[i].known
        BY <2>4, <2>6
    <3>2. h.lines[i] \in named
        BY <2>2
    <3>3. CASE code = 2
        BY <1>4, <2>0, <3>1, <3>2, <3>3
    <3>4. CASE code = 4
        BY <1>4, <2>0, <3>1, <3>2, <3>4
    <3> QED
        BY <3>1, <3>3, <3>4
  <2> QED
      BY <2>3, <2>5, <2>6
<1> QED
    BY <1>1, <1>2, <1>3, <1>4

\* A build keeps the hash situation it was started with.
LEMMA SituationStep == hash \in [Builds -> Situations] /\ [Next]_vars => (hash \in [Builds -> Situations])'
<1> SUFFICES ASSUME hash \in [Builds -> Situations], [Next]_vars
             PROVE  hash' = hash
    OBVIOUS
<1>1. ASSUME NEW b \in Builds, Start(b) \/ Kill(b) \/ Step(b) PROVE hash' = hash
    BY <1>1 DEF Start, Kill, Step, Lock, NoLegacy, LinkLegacy, CopyLegacy, EndCopy,
        CheckExisting, Missing, RemoveWrong, RemoveFails, MakeDirFails, Fetch,
        FetchFails, NoUriLeft, Verify, VerifyFails, MakeTemp, MakeTempFails, Append_,
        RemoveDirFails, SaveFails, Rename, fixed
<1>2. CASE UNCHANGED vars
    BY <1>2 DEF vars, fixed
<1> QED
    BY <1>1, <1>2 DEF Next

\* What the script's caller learns from an exit code is true of the file and of the .hash files,
\* for any .hash files: check-hash, "exit codes".
THEOREM CodesTrue == Spec => []CodesDocumented
<1>1. Init => hash \in [Builds -> Situations]
    BY DlAssumption DEF Init
<1>2. hash \in [Builds -> Situations] => CodesDocumented
  <2>1. ASSUME hash \in [Builds -> Situations], NEW b \in Builds PROVE hash[b] \in Situations
      BY <2>1
  <2> QED
      BY <2>1, CodeMeaning DEF CodesDocumented
<1> QED
    BY <1>1, <1>2, SituationStep, PTL DEF Spec

=============================================================================
