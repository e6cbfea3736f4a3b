------------------------- MODULE CaptureGateProofs -------------------------
(***************************************************************************)
(* Theorems about CaptureGate, for every bound on requests and files.      *)
(***************************************************************************)
EXTENDS CaptureGate, TLAPS

-----------------------------------------------------------------------------
(* The inductive invariant.  TypeOK alone is not inductive: LeaveProbe     *)
(* needs a probe to take away.  OneFramePerRequest needs to know, for each *)
(* point the UI thread may be at, what the valve, the probe and the        *)
(* streaming thread look like when no request has overlapped another.      *)

CallbackHasProbe == stream = "callback" => probes > 0

OneAtATime ==
    ~overlapped =>
        /\ probes \in {0, 1}
        /\ ~drop => probes = 1 /\ arming # "probed"
        /\ arming = "probed" =>
              probes = 1 /\ drop /\ stream \notin {"admitted", "callback"}
        /\ stream = "admitted" => ~drop
        /\ stream = "callback" => drop

GateInv ==
    TypeOK /\ CallbackHasProbe /\ NoOrphanProbe /\ OneAtATime /\ OneFramePerRequest

\* The initial states satisfy the inductive invariant.
LEMMA GateInit == Init => GateInv
<1> SUFFICES ASSUME Init PROVE GateInv
    OBVIOUS
<1>1. TypeOK
  <2>1. drop \in BOOLEAN /\ overlapped \in BOOLEAN
      BY Zenon DEF Init
  <2>2. bus \in Seq(Messages) /\ files \subseteq [stamp : Nat, index : Nat]
      BY DEF Init
  <2>3. /\ probes \in Nat /\ location \in Nat /\ accepted \in Nat /\ index \in Nat
        /\ arming = "idle" /\ stream = "idle"
      BY DEF Init
  <2> QED
      BY <2>1, <2>2, <2>3 DEF TypeOK
<1>2. CallbackHasProbe /\ NoOrphanProbe /\ OneAtATime
    BY DEF Init, CallbackHasProbe, NoOrphanProbe, OneAtATime
<1>3. OneFramePerRequest
    BY DEF Init, OneFramePerRequest, BeingArmed, BeingWritten
<1> QED
    BY <1>1, <1>2, <1>3 DEF GateInv

\* Every step of either thread preserves it.
LEMMA GateStep == GateInv /\ [Next]_vars => GateInv'
<1> SUFFICES ASSUME GateInv, [Next]_vars
             PROVE  GateInv'
    OBVIOUS
<1> USE DEF GateInv, TypeOK, CallbackHasProbe, NoOrphanProbe, OneAtATime,
            OneFramePerRequest, BeingArmed, BeingWritten, uiVars, streamVars
<1>1. CASE SetLocation
    BY <1>1 DEF SetLocation
<1>2. CASE AddProbe
  <2>1. overlapped' \in BOOLEAN /\ (~overlapped' => ~overlapped /\ ~(probes > 0) /\ drop)
      BY <1>2 DEF AddProbe, Armed
  <2>2. TypeOK' /\ CallbackHasProbe' /\ NoOrphanProbe'
      BY <1>2, <2>1 DEF AddProbe
  <2>3. OneAtATime' /\ OneFramePerRequest'
      BY <1>2, <2>1 DEF AddProbe
  <2> QED
      BY <2>2, <2>3
<1>3. CASE OpenValve
    BY <1>3 DEF OpenValve
<1>4. CASE PopMessage
    BY <1>4 DEF PopMessage
<1>5. CASE Discard
    BY <1>5 DEF Discard, vars
<1>6. CASE Admit
    BY <1>6 DEF Admit
<1>7. CASE EnterProbe
    BY <1>7 DEF EnterProbe
<1>8. CASE LeaveProbe
    BY <1>8 DEF LeaveProbe
<1>9. CASE PassUnprobed
    BY <1>9 DEF PassUnprobed
<1>10. CASE WriteFile
    BY <1>10 DEF WriteFile, Messages
<1>11. CASE FailWrite
    BY <1>11 DEF FailWrite, Messages
<1>12. CASE UNCHANGED vars
    BY <1>12 DEF vars
<1> QED
    BY <1>1, <1>2, <1>3, <1>4, <1>5, <1>6, <1>7, <1>8, <1>9, <1>10, <1>11, <1>12
    DEF Next, Ui, Stream

\* The inductive invariant holds of every behaviour, overlapping or not.
LEMMA GateInvariant == Spec => []GateInv
<1>1. Init => GateInv
    BY GateInit
<1>2. GateInv /\ [Next]_vars => GateInv'
    BY GateStep
<1> QED
    BY <1>1, <1>2, PTL DEF Spec

\* Every variable keeps its type; in particular no probe is removed twice.
THEOREM TypeCorrect == Spec => []TypeOK
<1>1. GateInv => TypeOK
    BY DEF GateInv
<1> QED
    BY <1>1, GateInvariant, PTL

\* An installed probe is never left on a closed valve, whatever the presses.
THEOREM ProbesNeverOrphaned == Spec => []NoOrphanProbe
<1>1. GateInv => NoOrphanProbe
    BY DEF GateInv
<1> QED
    BY <1>1, GateInvariant, PTL

\* While no press overlaps another, an open valve has exactly its one probe.
THEOREM OpenValveIsProbed == Spec => []OpenHasProbe
<1>1. GateInv => OpenHasProbe
    BY DEF GateInv, OneAtATime, OpenHasProbe
<1> QED
    BY <1>1, GateInvariant, PTL

\* While no press overlaps another, each one is being armed, waits for its
\* buffer, is being written or is a file: exactly one frame for each press.
THEOREM ExactlyOneFrame == Spec => []OneFramePerRequest
<1>1. GateInv => OneFramePerRequest
    BY DEF GateInv
<1> QED
    BY <1>1, GateInvariant, PTL

-----------------------------------------------------------------------------
(* In a serial environment the gate implements OneShotCapture.             *)

\* No request overlaps another or outruns the files by more than one, and the
\* location is the last request's.
SerialInv ==
    /\ GateInv
    /\ ~overlapped
    /\ location = accepted /\ accepted <= index + 1
    /\ arming = "located" => drop /\ probes = 0

\* The initial states satisfy it.
LEMMA SerialInit == Init => SerialInv
<1> SUFFICES ASSUME Init PROVE SerialInv
    OBVIOUS
<1>1. GateInv
    BY GateInit
<1>2. ~overlapped
    BY Zenon DEF Init
<1> QED
    BY <1>1, <1>2 DEF Init, SerialInv

\* Every step of the serial environment preserves it.
LEMMA SerialStep == SerialInv /\ [SerialNext]_vars => SerialInv'
<1> SUFFICES ASSUME SerialInv, [SerialNext]_vars
             PROVE  SerialInv'
    OBVIOUS
<1>1. GateInv'
    BY GateStep DEF SerialInv, SerialNext, Next
<1>2. CASE SetLocation /\ Quiet
    BY <1>1, <1>2 DEF SerialInv, GateInv, TypeOK, SetLocation, Quiet, Armed,
                      streamVars, OneFramePerRequest, BeingArmed, BeingWritten
<1>3. CASE AddProbe
  <2>1. ~overlapped'
      BY <1>3 DEF SerialInv, GateInv, TypeOK, AddProbe, Armed
  <2> QED
      BY <1>1, <1>3, <2>1 DEF SerialInv, AddProbe, streamVars
<1>4. CASE OpenValve
    BY <1>1, <1>4 DEF SerialInv, OpenValve, streamVars
<1>5. CASE PopMessage
    BY <1>1, <1>5 DEF SerialInv, PopMessage, uiVars, streamVars
<1>6. CASE Discard \/ UNCHANGED vars
    BY <1>1, <1>6 DEF SerialInv, Discard, vars, uiVars, streamVars
<1>7. CASE Admit
    BY <1>1, <1>7 DEF SerialInv, Admit, uiVars
<1>8. CASE Stream
  <2>1. (index' = index \/ index' = index + 1) /\ UNCHANGED uiVars
      BY <1>8 DEF Stream, EnterProbe, LeaveProbe, PassUnprobed, WriteFile, FailWrite
  <2>2. ASSUME arming = "located" PROVE UNCHANGED <<drop, probes>>
    <3>1. probes = 0 /\ stream # "callback"
        BY <2>2 DEF SerialInv, GateInv, CallbackHasProbe
    <3>2. ~EnterProbe /\ ~LeaveProbe
        BY <3>1 DEF EnterProbe, LeaveProbe
    <3> QED
        BY <1>8, <3>2 DEF Stream, PassUnprobed, WriteFile, FailWrite
  <2>3. accepted <= index' + 1
    <3>1. accepted \in Nat /\ index \in Nat /\ accepted <= index + 1
        BY DEF SerialInv, GateInv, TypeOK
    <3> QED
        BY <2>1, <3>1
  <2> QED
      BY <1>1, <2>1, <2>2, <2>3 DEF SerialInv, uiVars
<1> QED
    BY <1>2, <1>3, <1>4, <1>5, <1>6, <1>7, <1>8 DEF SerialNext, Ui

\* The abstract state before any press.
LEMMA OneShotInit == Init => OneShot!Init
BY DEF Init, OneShot!Init

\* Every step of the gate is a press, a save, a break, or invisible.
LEMMA OneShotStep ==
    SerialInv /\ [SerialNext]_vars => [OneShot!Next]_(OneShot!vars)
<1> SUFFICES ASSUME SerialInv, [SerialNext]_vars
             PROVE  [OneShot!Next]_(OneShot!vars)
    OBVIOUS
<1> DEFINE busy == index < accepted /\ stream # "dead"
           saved == {f.stamp : f \in files}
<1>1. CASE SetLocation /\ Quiet
  <2>1. index = accepted /\ stream = "idle"
      BY <1>1 DEF SerialInv, GateInv, TypeOK, OneFramePerRequest, BeingArmed,
                  BeingWritten, SetLocation, Quiet, Armed
  <2>2. accepted < MaxRequests /\ accepted' = accepted + 1
      BY <1>1 DEF SetLocation
  <2>3. index' = index /\ stream' = stream /\ files' = files
      BY <1>1 DEF SetLocation, streamVars
  <2>4. OneShot!Press
      BY <2>1, <2>2, <2>3 DEF OneShot!Press, SerialInv, GateInv, TypeOK
  <2> QED
      BY <2>4 DEF OneShot!Next
<1>2. CASE WriteFile
  <2>1. index < accepted /\ stream = "encoding" /\ location = accepted
      BY <1>2 DEF WriteFile, SerialInv, GateInv, TypeOK, OneFramePerRequest,
                  BeingArmed, BeingWritten
  <2>2. /\ index' = index + 1 /\ stream' = "idle" /\ accepted' = accepted
        /\ files' = files \cup {[stamp |-> location, index |-> index]}
      BY <1>2 DEF WriteFile, uiVars
  <2>3. saved' = saved \cup {accepted}
    <3> DEFINE file == [stamp |-> location, index |-> index]
    <3>1. file.stamp = accepted /\ files' = files \cup {file}
        BY <2>1, <2>2
    <3> HIDE DEF file
    <3> QED
        BY <3>1, Zenon
  <2>4. accepted' = index'
      BY <2>1, <2>2 DEF SerialInv, GateInv, TypeOK
  <2>5. OneShot!Save
      BY <2>1, <2>2, <2>3, <2>4 DEF OneShot!Save, SerialInv, GateInv, TypeOK
  <2> QED
      BY <2>5 DEF OneShot!Next
<1>3. CASE FailWrite
  <2>1. index < accepted /\ stream = "encoding"
      BY <1>3 DEF FailWrite, SerialInv, GateInv, TypeOK, OneFramePerRequest,
                  BeingArmed, BeingWritten
  <2>2. index' = index /\ stream' = "dead" /\ accepted' = accepted /\ files' = files
      BY <1>3 DEF FailWrite, uiVars
  <2>3. OneShot!Break
      BY <2>1, <2>2 DEF OneShot!Break
  <2> QED
      BY <2>3 DEF OneShot!Next
<1>4. CASE AddProbe \/ OpenValve \/ PopMessage \/ Discard \/ UNCHANGED vars
    BY <1>4 DEF AddProbe, OpenValve, PopMessage, Discard, vars, uiVars, streamVars,
                OneShot!vars
<1>5. CASE Admit \/ EnterProbe \/ LeaveProbe \/ PassUnprobed
  <2>1. index' = index /\ accepted' = accepted /\ files' = files
      BY <1>5 DEF Admit, EnterProbe, LeaveProbe, PassUnprobed, uiVars
  <2>2. stream # "dead" /\ stream' # "dead"
      BY <1>5 DEF Admit, EnterProbe, LeaveProbe, PassUnprobed
  <2> QED
      BY <2>1, <2>2 DEF OneShot!vars
<1> QED
    BY <1>1, <1>2, <1>3, <1>4, <1>5 DEF SerialNext, Ui, Stream

\* Pressed no faster than files are written, the gate is a one-shot camera:
\* one file for each press, stamped with that press.
THEOREM SerialGateIsOneShot == SerialSpec => ImplementsOneShot
<1>1. Init => SerialInv
    BY SerialInit
<1>2. SerialInv /\ [SerialNext]_vars => SerialInv'
    BY SerialStep
<1>3. Init => OneShot!Init
    BY OneShotInit
<1>4. SerialInv /\ [SerialNext]_vars => [OneShot!Next]_(OneShot!vars)
    BY OneShotStep
<1> QED
    BY <1>1, <1>2, <1>3, <1>4, PTL DEF SerialSpec, ImplementsOneShot, OneShot!Spec
=============================================================================
