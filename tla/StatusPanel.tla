---------------------------- MODULE StatusPanel ----------------------------
(***************************************************************************)
(* The UI thread of camera-gui: the event loop, the body of do_capture and *)
(* the pump timer's callback, with the labels and deadlines they share.    *)
(*                                                                         *)
(* Each callback runs to its end before the loop takes the next event.  It *)
(* is cut into one step for each point where it looks at what another      *)
(* thread may change: the sensor flag, the capture directory, the capture  *)
(* branch, the appsink and the bus.  What it finds there is an input of    *)
(* the step, chosen freely here and tied to the other components in        *)
(* CameraGui.  Ticks are unsigned longs: they wrap at TickMod (2^32).      *)
(***************************************************************************)
EXTENDS Naturals

CONSTANTS
    StatusTicks,    \* kStatusRevertTicks
    SensorTicks,    \* kSensorRevertTicks
    StaleTicks,     \* kFeedStaleTicks
    TickMod,        \* the modulus of unsigned long
    MaxTick         \* bound: the last tick modelled (no bound from TickMod on)

ASSUME TicksAssumption ==
    /\ StatusTicks \in 1..(TickMod - 1)
    /\ SensorTicks \in 1..(TickMod - 1)
    /\ StaleTicks \in Nat
    /\ TickMod \in Nat
    /\ MaxTick \in Nat

VARIABLES
    valve,          \* the capture branch was built (multifilesink exists)
    ui,             \* where the UI thread is
    caller,         \* who called do_capture
    tick,           \* *tick_count
    revert,         \* *revert_tick, 0 is "nothing pending"
    sensorRevert,   \* *sensor_revert_tick
    status,         \* the text of the status label
    sensorLabel,    \* "Sensor Detected" is shown
    blitted,        \* *frame_count > 0
    lastFrame       \* *last_frame_tick

labels == <<revert, sensorRevert, status, sensorLabel>>
feed   == <<blitted, lastFrame>>
vars   == <<valve, ui, caller, tick, labels, feed>>

Texts == {"Live", "Capturing", "Saved", "NoFeed",
          "Unavailable", "NotWritable", "StreamError"}

Ticks == 0..(TickMod - 1)

TypeOK ==
    /\ valve \in BOOLEAN
    /\ ui \in {"loop", "sensor", "guard", "arming", "pull", "bus"}
    /\ caller \in {"button", "pump"}
    /\ tick \in Ticks /\ revert \in Ticks /\ sensorRevert \in Ticks
    /\ status \in Texts
    /\ sensorLabel \in BOOLEAN
    /\ blitted \in BOOLEAN
    /\ lastFrame \in Ticks

Init ==
    /\ valve \in BOOLEAN
    /\ ui = "loop"
    /\ caller = "button"
    /\ tick = 0 /\ revert = 0 /\ sensorRevert = 0
    /\ status = "Live"
    /\ sensorLabel = FALSE
    /\ blitted = FALSE
    /\ lastFrame = 0

\* Unsigned addition and subtraction, for operands below TickMod.
Plus(a, b)  == IF a + b >= TickMod THEN a + b - TickMod ELSE a + b
Minus(a, b) == IF a >= b THEN a - b ELSE a + TickMod - b

Due(deadline) == deadline # 0 /\ tick >= deadline

Return == IF caller = "button" THEN "loop" ELSE "pull"

-----------------------------------------------------------------------------
(* Plausible bugs, one per property; the specification does not use them.  *)

\* The label's deadline is armed only when the "file written" message arrives.
GateOpenedUnarmed ==
    /\ ui = "arming"
    /\ status' = "Capturing"
    /\ ui' = Return
    /\ UNCHANGED <<valve, caller, tick, revert, sensorRevert, sensorLabel, feed>>

\* The guard does not ask for a first frame: tick 0 counts as one.
FeedAliveFromStart == Minus(tick, lastFrame) <= StaleTicks

\* The sensor label is cleared only in a tick in which a frame was pulled.
PullSampleLazyClear(got) ==
    /\ ui = "pull"
    /\ IF got /\ Due(sensorRevert)
       THEN sensorLabel' = FALSE /\ sensorRevert' = 0
       ELSE UNCHANGED <<sensorLabel, sensorRevert>>
    /\ IF got
       THEN blitted' = TRUE /\ lastFrame' = tick
       ELSE UNCHANGED feed
    /\ ui' = "bus"
    /\ UNCHANGED <<valve, caller, tick, revert, status>>

-----------------------------------------------------------------------------
(* The event loop *)

\* capture.on_click
Click ==
    /\ ui = "loop"
    /\ ui' = "guard"
    /\ caller' = "button"
    /\ UNCHANGED <<valve, tick, labels, feed>>

\* pump.on_timeout up to the sensor flag: count the tick, revert the status.
PumpStart ==
    /\ ui = "loop"
    /\ tick < MaxTick
    /\ tick' = Plus(tick, 1)
    /\ IF revert # 0 /\ tick' >= revert
       THEN status' = "Live" /\ revert' = 0
       ELSE UNCHANGED <<status, revert>>
    /\ ui' = "sensor"
    /\ UNCHANGED <<valve, caller, sensorRevert, sensorLabel, feed>>

\* sensor_detected.exchange(false): a detection calls do_capture("sensor").
SensorPoll(hit) ==
    /\ ui = "sensor"
    /\ IF hit
       THEN /\ sensorLabel' = TRUE
            /\ sensorRevert' = Plus(tick, SensorTicks)
            /\ ui' = "guard"
            /\ caller' = "pump"
       ELSE /\ ui' = "pull"
            /\ UNCHANGED <<sensorLabel, sensorRevert, caller>>
    /\ UNCHANGED <<valve, tick, revert, status, feed>>

\* Clear the sensor label when its window is over, then blit the sample, if any.
PullSample(got) ==
    /\ ui = "pull"
    /\ IF Due(sensorRevert)
       THEN sensorLabel' = FALSE /\ sensorRevert' = 0
       ELSE UNCHANGED <<sensorLabel, sensorRevert>>
    /\ IF got
       THEN blitted' = TRUE /\ lastFrame' = tick
       ELSE UNCHANGED feed
    /\ ui' = "bus"
    /\ UNCHANGED <<valve, caller, tick, revert, status>>

\* An element message that carries a file name: multifilesink wrote a file.
BusSaved ==
    /\ ui = "bus"
    /\ status' = "Saved"
    /\ revert' = Plus(tick, StatusTicks)
    /\ UNCHANGED <<valve, ui, caller, tick, sensorRevert, sensorLabel, feed>>

BusError ==
    /\ ui = "bus"
    /\ status' = "StreamError"
    /\ UNCHANGED <<valve, ui, caller, tick, revert, sensorRevert, sensorLabel, feed>>

\* The bus is drained: the callback returns to the loop.
BusEmpty ==
    /\ ui = "bus"
    /\ ui' = "loop"
    /\ UNCHANGED <<valve, caller, tick, labels, feed>>

-----------------------------------------------------------------------------
(* do_capture *)

\* A frame was blitted, and recently (the last kFeedStaleTicks ticks).
FeedAlive == blitted /\ Minus(tick, lastFrame) <= StaleTicks

RefuseUnavailable ==
    /\ ui = "guard"
    /\ ~valve
    /\ status' = "Unavailable"
    /\ ui' = Return
    /\ UNCHANGED <<valve, caller, tick, revert, sensorRevert, sensorLabel, feed>>

RefuseNoFeed ==
    /\ ui = "guard"
    /\ valve /\ ~FeedAlive
    /\ status' = "NoFeed"
    /\ revert' = Plus(tick, StatusTicks)
    /\ ui' = Return
    /\ UNCHANGED <<valve, caller, tick, sensorRevert, sensorLabel, feed>>

RefuseNotWritable ==
    /\ ui = "guard"
    /\ valve /\ FeedAlive
    /\ status' = "NotWritable"
    /\ ui' = Return
    /\ UNCHANGED <<valve, caller, tick, revert, sensorRevert, sensorLabel, feed>>

\* The guards are passed: the gate is armed next (CaptureGate).
Accept ==
    /\ ui = "guard"
    /\ valve /\ FeedAlive
    /\ ui' = "arming"
    /\ UNCHANGED <<valve, caller, tick, labels, feed>>

\* The valve has been opened.
GateOpened ==
    /\ ui = "arming"
    /\ status' = "Capturing"
    /\ revert' = Plus(tick, StatusTicks)
    /\ ui' = Return
    /\ UNCHANGED <<valve, caller, tick, sensorRevert, sensorLabel, feed>>

-----------------------------------------------------------------------------
DoCapture ==
    RefuseUnavailable \/ RefuseNoFeed \/ RefuseNotWritable \/ Accept \/ GateOpened

Pump ==
    \/ PumpStart
    \/ \E hit \in BOOLEAN : SensorPoll(hit)
    \/ \E got \in BOOLEAN : PullSample(got)
    \/ BusSaved \/ BusError \/ BusEmpty

Next == Click \/ DoCapture \/ Pump

Spec == Init /\ [][Next]_vars

-----------------------------------------------------------------------------
(* Properties *)

\* No tick that is modelled, nor a deadline armed in it, reaches the modulus.
NoWrap == MaxTick + StatusTicks < TickMod /\ MaxTick + SensorTicks < TickMod

\* A notice that promises to go away is on its way out: its deadline lies ahead
\* and no further than the window, whatever callbacks armed or disarmed it, so
\* the coming ticks revert the label ("Guaranteed revert": *revert_tick, armed
\* in do_capture and at "Saved", consumed at the head of the pump).
RevertArmed ==
    status \in {"Capturing", "Saved", "NoFeed"} =>
        tick < revert /\ revert <= tick + StatusTicks

\* "Sensor Detected" is shown exactly while its deadline is armed, and between
\* callbacks the deadline lies ahead, no further than the window.
SensorArmed ==
    /\ sensorLabel <=> sensorRevert # 0
    /\ sensorLabel => sensorRevert <= tick + SensorTicks
    /\ sensorLabel /\ ui \in {"loop", "bus"} => tick < sensorRevert

\* The deadline of the status label survives any wrap of the tick counter: a
\* transient notice always has one (*revert_tick uses 0 for "none").
DeadlineKept ==
    status \in {"Capturing", "Saved", "NoFeed"} => revert # 0
=============================================================================
