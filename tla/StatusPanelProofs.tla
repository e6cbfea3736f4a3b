------------------------- MODULE StatusPanelProofs -------------------------
(***************************************************************************)
(* Theorems about StatusPanel, for every length of the windows, as long as *)
(* the tick counter does not wrap.                                         *)
(***************************************************************************)
EXTENDS StatusPanel, TLAPS

\* The callback of the pump is on its way from the head to the sensor label.
BeforeClear ==
    ui \in {"sensor", "pull"} \/ (ui \in {"guard", "arming"} /\ caller = "pump")

\* SensorArmed, with the deadline's place known at every step of a callback: a
\* button's do_capture returns to the loop and must keep it ahead.
SensorDeadline ==
    /\ sensorLabel <=> sensorRevert # 0
    /\ sensorLabel => sensorRevert <= tick + SensorTicks
    /\ sensorLabel /\ ~BeforeClear => tick < sensorRevert

PanelInv == TypeOK /\ tick <= MaxTick /\ RevertArmed /\ SensorDeadline

\* Before the wrap, Plus is addition.
LEMMA PlusExact ==
    ASSUME NoWrap, PanelInv
    PROVE  /\ tick \in Nat
           /\ tick < MaxTick => Plus(tick, 1) = tick + 1 /\ tick + 1 \in Ticks
           /\ Plus(tick, StatusTicks) = tick + StatusTicks
           /\ Plus(tick, SensorTicks) = tick + SensorTicks
           /\ tick + StatusTicks \in Ticks /\ tick < tick + StatusTicks
           /\ tick + SensorTicks \in Ticks /\ tick < tick + SensorTicks
           /\ StatusTicks \in Nat /\ SensorTicks \in Nat /\ MaxTick \in Nat
           /\ 0 \in Ticks /\ Ticks \subseteq Nat
<1>1. tick \in Nat /\ tick <= MaxTick /\ tick < TickMod /\ tick >= 0
    BY TicksAssumption DEF PanelInv, TypeOK, Ticks
<1> QED
    BY <1>1, TicksAssumption DEF NoWrap, Ticks, Plus

\* The initial states satisfy the inductive invariant.
LEMMA PanelInit == Init => PanelInv
<1> SUFFICES ASSUME Init PROVE PanelInv
    OBVIOUS
<1>1. TypeOK
  <2>1. valve \in BOOLEAN /\ sensorLabel \in BOOLEAN /\ blitted \in BOOLEAN
      BY Zenon DEF Init
  <2>2. tick \in Ticks /\ revert \in Ticks /\ sensorRevert \in Ticks /\ lastFrame \in Ticks
      BY TicksAssumption DEF Init, Ticks
  <2> QED
      BY <2>1, <2>2 DEF Init, TypeOK, Texts
<1> QED
    BY <1>1, TicksAssumption DEF Init, PanelInv, RevertArmed, SensorDeadline

\* The steps of do_capture preserve it.
LEMMA DoCaptureStep == NoWrap /\ PanelInv /\ DoCapture => PanelInv'
<1> SUFFICES ASSUME NoWrap, PanelInv, DoCapture
             PROVE  PanelInv'
    OBVIOUS
<1>0. /\ tick \in Nat
      /\ tick < MaxTick => Plus(tick, 1) = tick + 1 /\ tick + 1 \in Ticks
      /\ Plus(tick, StatusTicks) = tick + StatusTicks
      /\ Plus(tick, SensorTicks) = tick + SensorTicks
      /\ tick + StatusTicks \in Ticks /\ tick < tick + StatusTicks
      /\ tick + SensorTicks \in Ticks /\ tick < tick + SensorTicks
      /\ StatusTicks \in Nat /\ SensorTicks \in Nat /\ MaxTick \in Nat
      /\ 0 \in Ticks /\ Ticks \subseteq Nat
    BY PlusExact
<1> USE <1>0
    DEF PanelInv, TypeOK, Texts, RevertArmed, SensorDeadline, BeforeClear,
        Return, labels, feed
<1>1. CASE RefuseUnavailable
    BY <1>1 DEF RefuseUnavailable
<1>2. CASE RefuseNoFeed
    BY <1>2 DEF RefuseNoFeed
<1>3. CASE RefuseNotWritable
    BY <1>3 DEF RefuseNotWritable
<1>4. CASE Accept
    BY <1>4 DEF Accept
<1>5. CASE GateOpened
    BY <1>5 DEF GateOpened
<1> QED
    BY <1>1, <1>2, <1>3, <1>4, <1>5 DEF DoCapture

\* The steps of the pump's callback preserve it.
LEMMA PumpStep == NoWrap /\ PanelInv /\ Pump => PanelInv'
<1> SUFFICES ASSUME NoWrap, PanelInv, Pump
             PROVE  PanelInv'
    OBVIOUS
<1>0. /\ tick \in Nat
      /\ tick < MaxTick => Plus(tick, 1) = tick + 1 /\ tick + 1 \in Ticks
      /\ Plus(tick, StatusTicks) = tick + StatusTicks
      /\ Plus(tick, SensorTicks) = tick + SensorTicks
      /\ tick + StatusTicks \in Ticks /\ tick < tick + StatusTicks
      /\ tick + SensorTicks \in Ticks /\ tick < tick + SensorTicks
      /\ StatusTicks \in Nat /\ SensorTicks \in Nat /\ MaxTick \in Nat
      /\ 0 \in Ticks /\ Ticks \subseteq Nat
    BY PlusExact
<1> USE <1>0
    DEF PanelInv, TypeOK, Texts, RevertArmed, SensorDeadline, BeforeClear,
        Due, labels, feed
<1>1. CASE PumpStart
    BY <1>1 DEF PumpStart
<1>2. ASSUME NEW hit \in BOOLEAN, SensorPoll(hit) PROVE PanelInv'
  <2>1. CASE hit
    <3>1. sensorLabel' /\ sensorLabel' \in BOOLEAN
        BY <1>2, <2>1, Zenon DEF SensorPoll
    <3>2. sensorRevert' = tick + SensorTicks /\ ui' = "guard" /\ caller' = "pump"
        BY <1>2, <2>1 DEF SensorPoll
    <3> QED
        BY <1>2, <3>1, <3>2 DEF SensorPoll
  <2>2. CASE ~hit
      BY <1>2, <2>2 DEF SensorPoll
  <2> QED
      BY <2>1, <2>2
<1>3. ASSUME NEW got \in BOOLEAN, PullSample(got) PROVE PanelInv'
  <2>1. blitted' \in BOOLEAN /\ lastFrame' \in Ticks
      BY <1>3 DEF PullSample
  <2>2. CASE Due(sensorRevert)
    <3>1. ~sensorLabel' /\ sensorLabel' \in BOOLEAN /\ sensorRevert' = 0
        BY <1>3, <2>2, Zenon DEF PullSample
    <3> QED
        BY <1>3, <2>1, <3>1 DEF PullSample
  <2>3. CASE ~Due(sensorRevert)
    <3>1. UNCHANGED <<sensorLabel, sensorRevert>>
        BY <1>3, <2>3 DEF PullSample
    <3> QED
        BY <1>3, <2>1, <2>3, <3>1 DEF PullSample
  <2> QED
      BY <2>2, <2>3
<1>4. CASE BusSaved
    BY <1>4 DEF BusSaved
<1>5. CASE BusError
    BY <1>5 DEF BusError
<1>6. CASE BusEmpty
    BY <1>6 DEF BusEmpty
<1> QED
    BY <1>1, <1>2, <1>3, <1>4, <1>5, <1>6 DEF Pump

\* Every step preserves it.
LEMMA PanelStep == NoWrap /\ PanelInv /\ [Next]_vars => PanelInv'
<1> SUFFICES ASSUME NoWrap, PanelInv, [Next]_vars
             PROVE  PanelInv'
    OBVIOUS
<1>1. CASE Click
    BY <1>1 DEF Click, PanelInv, TypeOK, RevertArmed, SensorDeadline, BeforeClear,
                labels, feed
<1>2. CASE DoCapture
    BY <1>2, DoCaptureStep
<1>3. CASE Pump
    BY <1>3, PumpStep
<1>4. CASE UNCHANGED vars
    BY <1>4 DEF vars, PanelInv, TypeOK, RevertArmed, SensorDeadline, BeforeClear,
                labels, feed
<1> QED
    BY <1>1, <1>2, <1>3, <1>4 DEF Next

\* The inductive invariant holds of every behaviour that does not wrap.
LEMMA PanelInvariant == ASSUME NoWrap PROVE Spec => []PanelInv
<1>1. Init => PanelInv
    BY PanelInit
<1>2. PanelInv /\ [Next]_vars => PanelInv'
    BY PanelStep
<1> QED
    BY <1>1, <1>2, PTL DEF Spec

\* Every transient notice has its deadline ahead, within the window.
THEOREM StatusReverts == ASSUME NoWrap PROVE Spec => []RevertArmed
<1>1. PanelInv => RevertArmed
    BY DEF PanelInv
<1> QED
    BY <1>1, PanelInvariant, PTL

\* "Sensor Detected" is shown exactly while its deadline is armed and ahead.
THEOREM SensorLabelReverts == ASSUME NoWrap PROVE Spec => []SensorArmed
<1>1. PanelInv => SensorArmed
    BY DEF PanelInv, SensorDeadline, SensorArmed, BeforeClear
<1> QED
    BY <1>1, PanelInvariant, PTL
=============================================================================
