----------------------------- MODULE CameraGui -----------------------------
(***************************************************************************)
(* The whole camera-gui process: the UI thread (StatusPanel), the capture  *)
(* branch and its streaming thread (CaptureGate) and the sensor listener   *)
(* (SensorListener), tied together where the code ties them.               *)
(*                                                                         *)
(*   - the pump takes the sensor flag and, on a detection, calls the same  *)
(*     do_capture as the button;                                           *)
(*   - do_capture, past its guards, arms the gate and shows "Capturing";   *)
(*   - the pump pulls the frames of the display branch and pops the bus;   *)
(*   - main() stops the listener, joins it, then stops the pipeline.       *)
(***************************************************************************)
EXTENDS Naturals, Sequences

CONSTANTS MaxRequests, MaxFiles,                            \* CaptureGate
          StatusTicks, SensorTicks, StaleTicks,
          TickMod, MaxTick,                                 \* StatusPanel
          QueueSize, MaxDatagrams                           \* SensorListener

ASSUME ClockAssumption ==
    /\ StatusTicks \in Nat \ {0}
    /\ StaleTicks \in Nat /\ TickMod \in Nat /\ MaxTick \in Nat

\* As far as the silence of the feed is counted.
Horizon == StaleTicks + StatusTicks

VARIABLES
    drop, probes, arming, location, accepted,
    stream, index, files, bus, overlapped,                  \* CaptureGate
    valve, ui, caller, tick, revert, sensorRevert,
    status, sensorLabel, blitted, lastFrame,                \* StatusPanel
    queue, thread, running, detected, main,
    sent, received, noticed,                                \* SensorListener
    sample,         \* the appsink holds a frame (max-buffers=1 drop=true)
    playing,        \* the pipeline is not in GST_STATE_NULL
    silent          \* history: ticks since a frame was blitted, saturating

Gate   == INSTANCE CaptureGate
Panel  == INSTANCE StatusPanel
Sensor == INSTANCE SensorListener

gateVars   == <<drop, probes, arming, location, accepted,
                stream, index, files, bus, overlapped>>
panelVars  == <<valve, ui, caller, tick, revert, sensorRevert,
                status, sensorLabel, blitted, lastFrame>>
sensorVars == <<queue, thread, running, detected, main,
                sent, received, noticed>>
ownVars    == <<sample, playing, silent>>
vars       == <<gateVars, panelVars, sensorVars, ownVars>>

Init ==
    /\ Gate!Init /\ Panel!Init /\ Sensor!Init
    /\ sample = FALSE
    /\ playing = TRUE
    /\ silent = Horizon

Saturate(n) == IF n < Horizon THEN n + 1 ELSE n

-----------------------------------------------------------------------------
(* Plausible bugs, one per property; the specification does not use them.  *)

\* The error case only logs.
ShowErrorSilently ==
    /\ ui = "bus" /\ bus # <<>> /\ Head(bus) = "error"
    /\ Gate!PopMessage
    /\ UNCHANGED <<panelVars, sensorVars, ownVars>>

\* The callback shows "Capturing" before it knows that the valve opens.
OpenGateClosed ==
    /\ Panel!GateOpened
    /\ arming = "probed" /\ arming' = "idle"
    /\ UNCHANGED <<drop, probes, location, accepted, stream, index, files, bus,
                   overlapped, sensorVars, ownVars>>

\* The flag is cleared without a look at it.
TakeFlagBlind ==
    /\ Panel!SensorPoll(FALSE)
    /\ Sensor!Poll
    /\ UNCHANGED <<gateVars, ownVars>>

-----------------------------------------------------------------------------
(* The UI thread, while app.run() runs the event loop *)

Click ==
    /\ main = "run"
    /\ Panel!Click
    /\ UNCHANGED <<gateVars, sensorVars, ownVars>>

PumpStart ==
    /\ main = "run"
    /\ Panel!PumpStart
    /\ silent' = Saturate(silent)
    /\ UNCHANGED <<gateVars, sensorVars, sample, playing>>

\* sensor_detected.exchange(false)
TakeFlag ==
    /\ Panel!SensorPoll(detected)
    /\ Sensor!Poll
    /\ UNCHANGED <<gateVars, ownVars>>

Refuse ==
    /\ Panel!RefuseUnavailable \/ Panel!RefuseNoFeed \/ Panel!RefuseNotWritable
    /\ UNCHANGED <<gateVars, sensorVars, ownVars>>

AcceptRequest ==
    /\ Panel!Accept
    /\ Gate!SetLocation
    /\ UNCHANGED <<sensorVars, ownVars>>

InstallProbe ==
    /\ Gate!AddProbe
    /\ UNCHANGED <<panelVars, sensorVars, ownVars>>

OpenGate ==
    /\ Panel!GateOpened
    /\ Gate!OpenValve
    /\ UNCHANGED <<sensorVars, ownVars>>

\* A sample that cannot be parsed or mapped is released without a blit.
PullFrame ==
    /\ \E ok \in BOOLEAN :
          /\ Panel!PullSample(sample /\ ok)
          /\ silent' = IF sample /\ ok THEN 0 ELSE silent
    /\ sample' = FALSE
    /\ UNCHANGED <<gateVars, sensorVars, playing>>

ShowSaved ==
    /\ bus # <<>> /\ Head(bus) = "saved"
    /\ Panel!BusSaved
    /\ Gate!PopMessage
    /\ UNCHANGED <<sensorVars, ownVars>>

ShowError ==
    /\ bus # <<>> /\ Head(bus) = "error"
    /\ Panel!BusError
    /\ Gate!PopMessage
    /\ UNCHANGED <<sensorVars, ownVars>>

BusDrained ==
    /\ bus = <<>>
    /\ Panel!BusEmpty
    /\ UNCHANGED <<gateVars, sensorVars, ownVars>>

-----------------------------------------------------------------------------
(* The streaming threads.  A fatal error in the capture branch is returned *)
(* through the tee to the source, so that no branch gets another frame.    *)

DisplayFrame ==
    /\ playing /\ stream # "dead"
    /\ sample' = TRUE
    /\ UNCHANGED <<gateVars, panelVars, sensorVars, playing, silent>>

CaptureFrame ==
    /\ playing
    /\ Gate!Admit
    /\ UNCHANGED <<panelVars, sensorVars, ownVars>>

CaptureStream ==
    /\ playing
    /\ Gate!Stream
    /\ UNCHANGED <<panelVars, sensorVars, ownVars>>

-----------------------------------------------------------------------------
(* The listener thread and the network *)

Datagram ==
    /\ Sensor!Arrive
    /\ UNCHANGED <<gateVars, panelVars, ownVars>>

Listener ==
    /\ Sensor!Thread
    /\ UNCHANGED <<gateVars, panelVars, ownVars>>

-----------------------------------------------------------------------------
(* main() after app.run() *)

\* The application is closed between two callbacks.
Quit ==
    /\ ui = "loop"
    /\ Sensor!Stop
    /\ UNCHANGED <<gateVars, panelVars, ownVars>>

JoinListener ==
    /\ Sensor!Join
    /\ UNCHANGED <<gateVars, panelVars, ownVars>>

\* gst_element_set_state(NULL) waits for the streaming threads to come to rest.
StopPipeline ==
    /\ main = "done"
    /\ playing /\ stream \in {"idle", "dead"}
    /\ playing' = FALSE
    /\ UNCHANGED <<gateVars, panelVars, sensorVars, sample, silent>>

-----------------------------------------------------------------------------
Callback ==
    \/ TakeFlag \/ Refuse \/ AcceptRequest \/ InstallProbe \/ OpenGate
    \/ PullFrame \/ ShowSaved \/ ShowError \/ BusDrained

Next ==
    \/ Click \/ PumpStart \/ Callback
    \/ DisplayFrame \/ CaptureFrame \/ CaptureStream
    \/ Datagram \/ Listener
    \/ Quit \/ JoinListener \/ StopPipeline

Spec == Init /\ [][Next]_vars

\* A callback runs to its end, the timer keeps firing between callbacks (a
\* flood of clicks does not starve it for ever), the threads are scheduled.
Fairness ==
    /\ WF_vars(Callback)
    /\ SF_vars(PumpStart)
    /\ WF_vars(CaptureStream)
    /\ WF_vars(Listener)
    /\ WF_vars(JoinListener)
    /\ WF_vars(StopPipeline)

LiveSpec == Spec /\ Fairness

-----------------------------------------------------------------------------
(* Properties *)

\* While the stream runs, "Capturing..." is never shown over nothing: the valve is
\* open, or a frame is on its way to the card, or the message that will replace the
\* label is on the bus (do_capture, the probe, the bus messages).
CapturingIsTrue ==
    status = "Capturing" /\ stream # "dead" =>
        ~drop \/ stream \in {"admitted", "callback", "encoding"} \/ bus # <<>>

\* Over a stream that has stopped, after a write error whose message is taken from
\* the bus already or with a feed that went silent, nothing may be left to answer a
\* request that the guard still let through.  The label does not outlive that for
\* long: it is gone once no frame was blitted for the guard's window and its own
\* (kFeedStaleTicks, kStatusRevertTicks), whatever was clicked or detected meanwhile.
CapturingEnds == status = "Capturing" => silent < Horizon

\* The gate is only ever opened while the feed is alive: a frame was blitted no
\* more than kFeedStaleTicks ticks ago, counted by the ticks themselves and not
\* by the counters the guard reads ("No camera feed guard").
OpenedOnlyWhileLive == [][drop /\ ~drop' => silent <= StaleTicks]_vars

\* A detection is shown on the panel and calls do_capture, or the application
\* is closing (store, exchange, the pump).
DetectionShown ==
    thread = "store" ~> (caller = "pump" /\ ui = "guard") \/ main # "run"

\* A write that kills the pipeline is reported on the panel, or the application
\* is closing (FailWrite, the bus, the pump's error case).
FailureShown ==
    (\E i \in DOMAIN bus : bus[i] = "error") ~> status = "StreamError" \/ main # "run"

\* Closing the application ends it, whatever the threads were doing.
CloseCompletes == main = "join" ~> ~playing
=============================================================================
