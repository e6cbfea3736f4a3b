-------------------------- MODULE CameraGuiProofs --------------------------
(***************************************************************************)
(* Theorems about the camera-gui process: what the steps of its parts,     *)
(* taken together, keep true between the threads.                          *)
(***************************************************************************)
EXTENDS CameraGui, TLAPS

-----------------------------------------------------------------------------
(* "Capturing" over a gate that a running stream will answer *)

CapturingInv == CapturingIsTrue /\ bus \in Seq(Gate!Messages)

\* The label changes, the valve closes, the frame moves or the bus is popped:
\* one step per action of the composition that touches any of them.
LEMMA CapturingStep == CapturingInv /\ [Next]_vars => CapturingInv'
<1> SUFFICES ASSUME CapturingInv, [Next]_vars PROVE CapturingInv'
    OBVIOUS
<1> USE DEF CapturingInv, CapturingIsTrue, Gate!Messages
<1>1. CASE Click
    BY <1>1 DEF Click, Panel!Click, gateVars, Panel!labels, Panel!feed
<1>2. CASE PumpStart
    BY <1>2 DEF PumpStart, Panel!PumpStart, gateVars
<1>3. CASE TakeFlag
    BY <1>3 DEF TakeFlag, Panel!SensorPoll, gateVars
<1>4. CASE Refuse
    BY <1>4 DEF Refuse, Panel!RefuseUnavailable, Panel!RefuseNoFeed,
                Panel!RefuseNotWritable, gateVars
<1>5. CASE AcceptRequest
    BY <1>5 DEF AcceptRequest, Panel!Accept, Gate!SetLocation, Panel!labels,
                Gate!streamVars
<1>6. CASE InstallProbe
    BY <1>6 DEF InstallProbe, Gate!AddProbe, Gate!streamVars, panelVars
<1>7. CASE OpenGate
    BY <1>7 DEF OpenGate, Gate!OpenValve
<1>8. CASE PullFrame
    BY <1>8 DEF PullFrame, Panel!PullSample, gateVars
<1>9. CASE ShowSaved
    BY <1>9 DEF ShowSaved, Panel!BusSaved, Gate!PopMessage
<1>10. CASE ShowError
    BY <1>10 DEF ShowError, Panel!BusError, Gate!PopMessage
<1>11. CASE BusDrained
    BY <1>11 DEF BusDrained, Panel!BusEmpty, Panel!labels, gateVars
<1>12. CASE DisplayFrame
    BY <1>12 DEF DisplayFrame, gateVars, panelVars
<1>13. CASE CaptureFrame
    BY <1>13 DEF CaptureFrame, Gate!Admit, panelVars
<1>14. CASE CaptureStream
  <2> USE <1>14 DEF CaptureStream, panelVars
  <2>1. CASE Gate!EnterProbe
      BY <2>1 DEF Gate!EnterProbe
  <2>2. CASE Gate!LeaveProbe
      BY <2>2 DEF Gate!LeaveProbe
  <2>3. CASE Gate!PassUnprobed
      BY <2>3 DEF Gate!PassUnprobed
  <2>4. CASE Gate!WriteFile
      BY <2>4 DEF Gate!WriteFile
  <2>5. CASE Gate!FailWrite
      BY <2>5 DEF Gate!FailWrite
  <2> QED
      BY <2>1, <2>2, <2>3, <2>4, <2>5 DEF Gate!Stream
<1>15. CASE Datagram \/ Listener \/ Quit \/ JoinListener \/ StopPipeline
    BY <1>15 DEF Datagram, Listener, Quit, JoinListener, StopPipeline,
                 gateVars, panelVars
<1>16. CASE UNCHANGED vars
    BY <1>16 DEF vars, gateVars, panelVars
<1> QED
    BY <1>1, <1>2, <1>3, <1>4, <1>5, <1>6, <1>7, <1>8, <1>9, <1>10, <1>11,
       <1>12, <1>13, <1>14, <1>15, <1>16 DEF Next, Callback

\* While the stream runs, the panel never says "Capturing" over a gate that nothing
\* will answer: the valve is open, a frame is on its way, or a message waits on the
\* bus (do_capture, one_shot_probe, the pump's bus loop).
THEOREM CapturingTrueAlways == Spec => []CapturingIsTrue
<1>1. Init => CapturingInv
    BY DEF Init, Panel!Init, Gate!Init, CapturingInv, CapturingIsTrue, Gate!Messages
<1>2. CapturingInv => CapturingIsTrue
    BY DEF CapturingInv
<1> QED
    BY <1>1, <1>2, CapturingStep, PTL DEF Spec

-----------------------------------------------------------------------------
(* The gate opens only on a live feed *)

\* No tick that is modelled reaches the modulus of the counter.
ClockExact == MaxTick < TickMod

\* The counters the guard reads and the ticks themselves agree: the guard asks
\* when the last frame was blitted, silent counts from it.  A callback holds the
\* loop, so that no tick passes between the guard and the opening of the valve.
FeedInv ==
    /\ tick \in Nat /\ tick <= MaxTick
    /\ lastFrame \in Nat /\ lastFrame <= tick
    /\ silent \in 0..Horizon
    /\ blitted \in BOOLEAN
    /\ blitted => silent <= tick - lastFrame
    /\ blitted /\ silent <= StaleTicks => silent = tick - lastFrame
    /\ ui = "arming" => silent <= StaleTicks

\* Steps outside the UI thread leave the feed's counters alone.
LEMMA FeedUntouched ==
    ASSUME FeedInv, UNCHANGED <<panelVars, silent>>
    PROVE  FeedInv'
BY DEF FeedInv, panelVars

LEMMA FeedStep == ClockExact /\ FeedInv /\ [Next]_vars => FeedInv'
<1> SUFFICES ASSUME ClockExact, FeedInv, [Next]_vars PROVE FeedInv'
    OBVIOUS
<1> USE ClockAssumption DEF ClockExact, FeedInv, Horizon
<1>1. CASE Click
    BY <1>1 DEF Click, Panel!Click, Panel!labels, Panel!feed, ownVars
<1>2. CASE PumpStart
  <2>1. tick' = tick + 1 /\ tick < MaxTick /\ ui' = "sensor"
      BY <1>2 DEF PumpStart, Panel!PumpStart, Panel!Plus
  <2>2. lastFrame' = lastFrame /\ blitted' = blitted
      BY <1>2 DEF PumpStart, Panel!PumpStart, Panel!feed
  <2>3. silent' = IF silent < Horizon THEN silent + 1 ELSE silent
      BY <1>2 DEF PumpStart, Saturate
  <2> QED
      BY <2>1, <2>2, <2>3
<1>3. CASE TakeFlag
    BY <1>3 DEF TakeFlag, Panel!SensorPoll, Panel!feed, ownVars
<1>4. CASE Refuse
  <2>1. UNCHANGED <<tick, blitted, lastFrame, silent>> /\ ui' # "arming"
      BY <1>4 DEF Refuse, Panel!RefuseUnavailable, Panel!RefuseNoFeed,
                  Panel!RefuseNotWritable, Panel!Return, Panel!feed, ownVars
  <2> QED
      BY <2>1
<1>5. CASE AcceptRequest
  <2>1. UNCHANGED <<tick, blitted, lastFrame, silent>>
      BY <1>5 DEF AcceptRequest, Panel!Accept, Panel!labels, Panel!feed, ownVars
  <2>2. blitted /\ tick - lastFrame <= StaleTicks
      BY <1>5 DEF AcceptRequest, Panel!Accept, Panel!FeedAlive, Panel!Minus
  <2> QED
      BY <2>1, <2>2
<1>6. CASE InstallProbe
    BY <1>6, FeedUntouched DEF InstallProbe, ownVars
<1>7. CASE OpenGate
  <2>1. UNCHANGED <<tick, blitted, lastFrame, silent>> /\ ui' # "arming"
      BY <1>7 DEF OpenGate, Panel!GateOpened, Panel!Return, Panel!feed, ownVars
  <2> QED
      BY <2>1
<1>8. CASE PullFrame
  <2>1. PICK ok \in BOOLEAN :
            /\ Panel!PullSample(sample /\ ok)
            /\ silent' = IF sample /\ ok THEN 0 ELSE silent
      BY <1>8 DEF PullFrame
  <2>2. tick' = tick /\ ui' = "bus"
      BY <2>1 DEF Panel!PullSample
  <2>3. CASE sample /\ ok
    <3>1. blitted' = TRUE /\ lastFrame' = tick /\ silent' = 0
        BY <2>1, <2>3 DEF Panel!PullSample
    <3> QED
        BY <2>2, <3>1
  <2>4. CASE ~(sample /\ ok)
    <3>1. UNCHANGED <<blitted, lastFrame, silent>>
        BY <2>1, <2>4 DEF Panel!PullSample, Panel!feed
    <3> QED
        BY <2>2, <3>1
  <2> QED
      BY <2>3, <2>4
<1>9. CASE ShowSaved
    BY <1>9 DEF ShowSaved, Panel!BusSaved, Panel!feed, ownVars
<1>10. CASE ShowError
    BY <1>10 DEF ShowError, Panel!BusError, Panel!feed, ownVars
<1>11. CASE BusDrained
    BY <1>11 DEF BusDrained, Panel!BusEmpty, Panel!labels, Panel!feed, ownVars
<1>12. CASE DisplayFrame \/ CaptureFrame \/ CaptureStream
    BY <1>12, FeedUntouched DEF DisplayFrame, CaptureFrame, CaptureStream, ownVars
<1>13. CASE Datagram \/ Listener \/ Quit \/ JoinListener \/ StopPipeline
    BY <1>13, FeedUntouched
       DEF Datagram, Listener, Quit, JoinListener, StopPipeline, ownVars
<1>14. CASE UNCHANGED vars
    BY <1>14, FeedUntouched DEF vars, ownVars
<1> QED
    BY <1>1, <1>2, <1>3, <1>4, <1>5, <1>6, <1>7, <1>8, <1>9, <1>10, <1>11,
       <1>12, <1>13, <1>14 DEF Next, Callback

\* The valve is opened by do_capture alone, in the callback that found the feed
\* alive.
LEMMA OpenedInCallback == [Next]_vars /\ drop /\ ~drop' => OpenGate
<1> SUFFICES ASSUME [Next]_vars, drop, ~drop' PROVE OpenGate
    OBVIOUS
<1>1. ~(UNCHANGED drop)
    BY Zenon
<1>2. drop' # TRUE
    BY Zenon
<1>3. CASE UNCHANGED gateVars
    BY <1>1, <1>3 DEF gateVars
<1>4. CASE AcceptRequest \/ InstallProbe \/ ShowSaved \/ ShowError \/ CaptureFrame
    BY <1>1, <1>4 DEF AcceptRequest, InstallProbe, ShowSaved, ShowError, CaptureFrame,
       Gate!SetLocation, Gate!AddProbe, Gate!PopMessage, Gate!Admit
<1>5. CASE CaptureStream
    BY <1>1, <1>2, <1>5 DEF CaptureStream, Gate!Stream, Gate!EnterProbe,
       Gate!LeaveProbe, Gate!PassUnprobed, Gate!WriteFile, Gate!FailWrite
<1>6. CASE Click \/ PumpStart \/ TakeFlag \/ Refuse \/ PullFrame \/ BusDrained
    BY <1>3, <1>6 DEF Click, PumpStart, TakeFlag, Refuse, PullFrame, BusDrained
<1>7. CASE DisplayFrame \/ Datagram \/ Listener \/ Quit \/ JoinListener \/ StopPipeline
    BY <1>3, <1>7 DEF DisplayFrame, Datagram, Listener, Quit, JoinListener, StopPipeline
<1>8. CASE UNCHANGED vars
    BY <1>3, <1>8 DEF vars
<1> QED
    BY <1>4, <1>5, <1>6, <1>7, <1>8 DEF Next, Callback

\* The initial states satisfy the feed's invariant.
LEMMA FeedInit == Init => FeedInv
<1> SUFFICES ASSUME Init PROVE FeedInv
    OBVIOUS
<1>1. blitted \in BOOLEAN /\ ~blitted
    BY Zenon DEF Init, Panel!Init
<1>2. tick = 0 /\ lastFrame = 0 /\ ui = "loop" /\ silent = Horizon
    BY DEF Init, Panel!Init
<1> QED
    BY <1>1, <1>2, ClockAssumption DEF FeedInv, Horizon

\* A request opens the gate only while frames are shown, for every window length
\* and every interleaving of clicks, ticks and detections, as long as the tick
\* counter does not wrap (the guard of do_capture).
THEOREM OpenedLive == ASSUME ClockExact PROVE Spec => OpenedOnlyWhileLive
<1>1. Init => FeedInv
    BY FeedInit
<1>2. FeedInv /\ [Next]_vars => [drop /\ ~drop' => silent <= StaleTicks]_vars
    BY OpenedInCallback DEF FeedInv, OpenGate, Panel!GateOpened
<1>3. ClockExact
    OBVIOUS
<1> QED
    BY <1>1, <1>2, <1>3, FeedStep, PTL DEF Spec, OpenedOnlyWhileLive

-----------------------------------------------------------------------------
(* "Capturing" ends *)

\* No deadline of the status label reaches the modulus either.
DeadlinesExact == MaxTick + StatusTicks < TickMod

\* The silence and what is left until the deadline add up to less than the horizon:
\* a tick takes from one what it gives to the other, a frame ends the silence, and
\* the gate is opened after no more silence than the guard lets pass.
EndsInv ==
    /\ FeedInv
    /\ revert \in Nat
    /\ status = "Capturing" => tick < revert /\ silent + (revert - tick) <= Horizon

\* How the sum changes when a tick passes, or when the silence is cut short.
LEMMA TickPasses ==
    ASSUME NEW s \in Nat, NEW s2 \in Nat, NEW r \in Nat, NEW t \in Nat,
           s2 <= s + 1, s + (r - t) <= Horizon
    PROVE  s2 + (r - (t + 1)) <= Horizon
BY ClockAssumption DEF Horizon

LEMMA SilenceCut ==
    ASSUME NEW s \in Nat, NEW s2 \in Nat, NEW r \in Nat, NEW t \in Nat,
           s2 <= s, s + (r - t) <= Horizon
    PROVE  s2 + (r - t) <= Horizon
BY ClockAssumption DEF Horizon

LEMMA EndsStep == DeadlinesExact /\ EndsInv /\ [Next]_vars => EndsInv'
<1> SUFFICES ASSUME DeadlinesExact, EndsInv, [Next]_vars PROVE EndsInv'
    OBVIOUS
<1>a. FeedInv'
    BY FeedStep, ClockAssumption DEF DeadlinesExact, ClockExact, EndsInv
<1>b. /\ tick \in Nat /\ revert \in Nat /\ tick' \in Nat
      /\ silent \in Nat /\ silent' \in Nat /\ Horizon \in Nat
      /\ StaleTicks \in Nat /\ StatusTicks \in Nat
    BY <1>a, ClockAssumption DEF EndsInv, FeedInv, Horizon
<1> USE <1>a, <1>b DEF EndsInv
<1>1. CASE UNCHANGED <<status, tick, revert, silent>>
    BY <1>1
<1>2. CASE PumpStart
  <2>1. tick' = tick + 1
      BY <1>2, ClockAssumption
      DEF PumpStart, Panel!PumpStart, Panel!Plus, DeadlinesExact, FeedInv
  <2>2. \/ status' = "Live" /\ revert' = 0
        \/ status' = status /\ revert' = revert /\ (revert = 0 \/ tick' < revert)
      BY <1>2, <2>1 DEF PumpStart, Panel!PumpStart
  <2>3. silent' <= silent + 1
      BY <1>2 DEF PumpStart, Saturate
  <2>4. CASE status' = "Live" /\ revert' = 0
      BY <2>4
  <2>5. CASE status' = status /\ revert' = revert /\ (revert = 0 \/ tick' < revert)
    <3>1. ASSUME status = "Capturing"
          PROVE  tick' < revert /\ silent' + (revert - tick') <= Horizon
      <4>1. silent + (revert - tick) <= Horizon /\ tick' < revert
          BY <2>5, <3>1
      <4>2. silent' + (revert - (tick + 1)) <= Horizon
          BY <2>3, <4>1, TickPasses, Zenon
      <4> QED
          BY <2>1, <4>1, <4>2
    <3> QED
        BY <2>5, <3>1
  <2> QED
      BY <2>2, <2>4, <2>5
<1>3. CASE Refuse
  <2>1. tick' = tick /\ status' # "Capturing"
      BY <1>3 DEF Refuse, Panel!RefuseUnavailable, Panel!RefuseNoFeed,
                  Panel!RefuseNotWritable
  <2>2. revert' \in {revert, tick + StatusTicks}
      BY <1>3, ClockAssumption DEF Refuse, Panel!RefuseUnavailable, Panel!RefuseNoFeed,
                  Panel!RefuseNotWritable, Panel!Plus, DeadlinesExact, FeedInv
  <2>3. tick + StatusTicks \in Nat
      OBVIOUS
  <2>4. revert' \in Nat
      BY <2>2, <2>3
  <2> QED
      BY <2>1, <2>4
<1>4. CASE OpenGate
  <2>1. /\ revert' = tick + StatusTicks /\ tick' = tick /\ silent' = silent
        /\ silent <= StaleTicks
      BY <1>4, ClockAssumption
      DEF OpenGate, Panel!GateOpened, Panel!Plus, ownVars, DeadlinesExact, FeedInv
  <2>2. tick < tick + StatusTicks /\ silent + ((tick + StatusTicks) - tick) <= Horizon
      BY <2>1, ClockAssumption DEF Horizon
  <2>3. tick' < revert' /\ silent' + (revert' - tick') <= Horizon
      BY <2>1, <2>2, Zenon
  <2> QED
      BY <2>1, <2>3
<1>5. CASE PullFrame
  <2>1. PICK ok \in BOOLEAN :
            /\ Panel!PullSample(sample /\ ok)
            /\ silent' = IF sample /\ ok THEN 0 ELSE silent
      BY <1>5 DEF PullFrame
  <2>2. UNCHANGED <<status, tick, revert>> /\ silent' <= silent
      BY <2>1 DEF Panel!PullSample
  <2> QED
      BY <2>2, SilenceCut
<1>6. CASE ShowSaved
  <2>1. tick' = tick /\ revert' = tick + StatusTicks /\ status' = "Saved"
      BY <1>6, ClockAssumption
      DEF ShowSaved, Panel!BusSaved, Panel!Plus, DeadlinesExact, FeedInv
  <2> QED
      BY <2>1
<1>7. CASE ShowError
  <2>1. tick' = tick /\ revert' = revert /\ status' = "StreamError"
      BY <1>7 DEF ShowError, Panel!BusError
  <2> QED
      BY <2>1
<1>8. CASE Click \/ TakeFlag \/ AcceptRequest \/ InstallProbe \/ BusDrained
    BY <1>1, <1>8
    DEF Click, TakeFlag, AcceptRequest, InstallProbe, BusDrained, Panel!Click,
        Panel!SensorPoll, Panel!Accept, Panel!BusEmpty, Panel!labels, Panel!feed,
        panelVars, ownVars
<1>9. CASE DisplayFrame \/ CaptureFrame \/ CaptureStream \/ Datagram \/ Listener
    BY <1>1, <1>9 DEF DisplayFrame, CaptureFrame, CaptureStream, Datagram, Listener,
                      panelVars, ownVars
<1>10. CASE Quit \/ JoinListener \/ StopPipeline \/ UNCHANGED vars
    BY <1>1, <1>10 DEF Quit, JoinListener, StopPipeline, panelVars, ownVars, vars
<1> QED
    BY <1>2, <1>3, <1>4, <1>5, <1>6, <1>7, <1>8, <1>9, <1>10 DEF Next, Callback

\* "Capturing" is gone once the feed was silent for the guard's window and the
\* label's own, also over a pipeline that died and will never answer, for every
\* length of the two windows and any clicks, detections and messages between, as
\* long as no deadline wraps (do_capture, the head of the pump).
THEOREM CapturingEndsAlways == ASSUME DeadlinesExact PROVE Spec => []CapturingEnds
<1>1. Init => EndsInv
  <2> SUFFICES ASSUME Init PROVE EndsInv
      OBVIOUS
  <2>1. revert = 0 /\ status = "Live"
      BY DEF Init, Panel!Init
  <2> QED
      BY <2>1, FeedInit DEF EndsInv
<1>2. EndsInv => CapturingEnds
    BY ClockAssumption DEF EndsInv, FeedInv, CapturingEnds, Horizon
<1>3. DeadlinesExact
    OBVIOUS
<1> QED
    BY <1>1, <1>2, <1>3, EndsStep, PTL DEF Spec

-----------------------------------------------------------------------------
(* The parts inside the process *)

\* Each action of the process is an action of the gate or invisible to it ...
LEMMA GateStep == [Next]_vars => [Gate!Next]_(Gate!vars)
<1> SUFFICES ASSUME [Next]_vars PROVE [Gate!Next]_(Gate!vars)
    OBVIOUS
<1>1. CASE UNCHANGED gateVars
    BY <1>1 DEF gateVars, Gate!vars, Gate!uiVars, Gate!streamVars
<1>2. CASE AcceptRequest \/ InstallProbe \/ OpenGate \/ ShowSaved \/ ShowError
    BY <1>2 DEF AcceptRequest, InstallProbe, OpenGate, ShowSaved, ShowError,
                Gate!Next, Gate!Ui
<1>3. CASE CaptureFrame \/ CaptureStream
    BY <1>3 DEF CaptureFrame, CaptureStream, Gate!Next
<1>4. CASE Click \/ PumpStart \/ TakeFlag \/ Refuse \/ PullFrame \/ BusDrained
    BY <1>1, <1>4 DEF Click, PumpStart, TakeFlag, Refuse, PullFrame, BusDrained
<1>5. CASE DisplayFrame \/ Datagram \/ Listener \/ Quit \/ JoinListener \/ StopPipeline
    BY <1>1, <1>5 DEF DisplayFrame, Datagram, Listener, Quit, JoinListener, StopPipeline
<1>6. CASE UNCHANGED vars
    BY <1>1, <1>6 DEF vars
<1> QED
    BY <1>2, <1>3, <1>4, <1>5, <1>6 DEF Next, Callback

\* What the panel takes from the other threads is a detection or none, a frame or none.
FlagsInv == detected \in BOOLEAN /\ sample \in BOOLEAN

LEMMA FlagsStep == FlagsInv /\ [Next]_vars => FlagsInv'
<1> SUFFICES ASSUME FlagsInv, [Next]_vars PROVE FlagsInv'
    OBVIOUS
<1>1. sample' \in {sample, TRUE, FALSE}
    BY DEF Next, Callback, Click, PumpStart, TakeFlag, Refuse, AcceptRequest,
           InstallProbe, OpenGate, PullFrame, ShowSaved, ShowError, BusDrained,
           DisplayFrame, CaptureFrame, CaptureStream, Datagram, Listener, Quit,
           JoinListener, StopPipeline, ownVars, vars
<1>2. detected' \in {detected, TRUE, FALSE}
  <2>1. CASE UNCHANGED sensorVars
      BY <2>1 DEF sensorVars
  <2>2. CASE TakeFlag \/ Datagram \/ Listener \/ Quit \/ JoinListener
      BY <2>2 DEF TakeFlag, Datagram, Listener, Quit, JoinListener,
         Sensor!Poll, Sensor!Arrive, Sensor!Thread, Sensor!Start,
         Sensor!StartFails, Sensor!Check, Sensor!Receive, Sensor!Store,
         Sensor!Timeout, Sensor!Stop, Sensor!Join, Sensor!threadVars
  <2> QED
      BY <2>1, <2>2 DEF Next, Callback, Click, PumpStart, Refuse, AcceptRequest,
         InstallProbe, OpenGate, PullFrame, ShowSaved, ShowError, BusDrained,
         DisplayFrame, CaptureFrame, CaptureStream, StopPipeline, vars
<1> QED
    BY <1>1, <1>2, Zenon DEF FlagsInv

\* ... likewise of the panel, whose inputs are now what the others left there ...
LEMMA PanelStep ==
    ASSUME FlagsInv, [Next]_vars
    PROVE  [Panel!Next]_(Panel!vars)
<1>1. CASE UNCHANGED panelVars
    BY <1>1 DEF panelVars, Panel!vars, Panel!labels, Panel!feed
<1>2. CASE TakeFlag
  <2> QED
      BY <1>2 DEF TakeFlag, FlagsInv, Panel!Next, Panel!Pump
<1>3. CASE PullFrame
  <2>1. PICK ok \in BOOLEAN : Panel!PullSample(sample /\ ok)
      BY <1>3 DEF PullFrame
  <2>2. (sample /\ ok) \in BOOLEAN
      BY Zenon
  <2> QED
      BY <2>1, <2>2 DEF Panel!Next, Panel!Pump
<1>4. CASE Click \/ PumpStart \/ ShowSaved \/ ShowError \/ BusDrained
    BY <1>4 DEF Click, PumpStart, ShowSaved, ShowError, BusDrained,
                Panel!Next, Panel!Pump
<1>5. CASE Refuse \/ AcceptRequest \/ OpenGate
    BY <1>5 DEF Refuse, AcceptRequest, OpenGate, Panel!Next, Panel!DoCapture
<1>6. CASE InstallProbe \/ DisplayFrame \/ CaptureFrame \/ CaptureStream
    BY <1>1, <1>6 DEF InstallProbe, DisplayFrame, CaptureFrame, CaptureStream
<1>7. CASE Datagram \/ Listener \/ Quit \/ JoinListener \/ StopPipeline
    BY <1>1, <1>7 DEF Datagram, Listener, Quit, JoinListener, StopPipeline
<1>8. CASE UNCHANGED vars
    BY <1>1, <1>8 DEF vars
<1> QED
    BY <1>2, <1>3, <1>4, <1>5, <1>6, <1>7, <1>8 DEF Next, Callback

\* ... and of the listener.
LEMMA SensorStep == [Next]_vars => [Sensor!Next]_(Sensor!vars)
<1> SUFFICES ASSUME [Next]_vars PROVE [Sensor!Next]_(Sensor!vars)
    OBVIOUS
<1>1. CASE UNCHANGED sensorVars
    BY <1>1 DEF sensorVars, Sensor!vars, Sensor!threadVars
<1>2. CASE TakeFlag \/ Datagram \/ Listener \/ Quit \/ JoinListener
    BY <1>2 DEF TakeFlag, Datagram, Listener, Quit, JoinListener, Sensor!Next
<1>3. CASE Click \/ PumpStart \/ Refuse \/ AcceptRequest \/ InstallProbe \/ OpenGate
    BY <1>1, <1>3 DEF Click, PumpStart, Refuse, AcceptRequest, InstallProbe, OpenGate
<1>4. CASE PullFrame \/ ShowSaved \/ ShowError \/ BusDrained
    BY <1>1, <1>4 DEF PullFrame, ShowSaved, ShowError, BusDrained
<1>5. CASE DisplayFrame \/ CaptureFrame \/ CaptureStream \/ StopPipeline
    BY <1>1, <1>5 DEF DisplayFrame, CaptureFrame, CaptureStream, StopPipeline
<1>6. CASE UNCHANGED vars
    BY <1>1, <1>6 DEF vars
<1> QED
    BY <1>2, <1>3, <1>4, <1>5, <1>6 DEF Next, Callback

\* In the process each part behaves as its own specification allows: what is
\* proved of the gate, the panel and the listener holds when main() runs them
\* together.
THEOREM PartsBehave == Spec => Gate!Spec /\ Panel!Spec /\ Sensor!Spec
<1>1. Init => Gate!Init /\ Panel!Init /\ Sensor!Init
    BY DEF Init
<1>2. Init => FlagsInv
    BY DEF Init, Sensor!Init, FlagsInv
<1>3. FlagsInv /\ [Next]_vars => [Panel!Next]_(Panel!vars)
    BY PanelStep
<1> QED
    BY <1>1, <1>2, <1>3, FlagsStep, GateStep, SensorStep, PTL
       DEF Spec, Gate!Spec, Panel!Spec, Sensor!Spec
=============================================================================
