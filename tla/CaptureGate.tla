---------------------------- MODULE CaptureGate ----------------------------
(***************************************************************************)
(* The still-frame capture path of camera-gui (package/camera-gui).        *)
(*                                                                         *)
(* Two threads meet at one GStreamer valve.  The UI thread runs            *)
(* do_capture: it names the next file, installs a one-shot probe on the    *)
(* valve's src pad and opens the valve.  The streaming thread of the       *)
(* capture branch pushes buffers at the valve: a closed valve discards the *)
(* buffer, an open one lets it through to the pad, where every installed   *)
(* probe is called (each closes the valve and removes itself), and then to *)
(* the JPEG encoder and multifilesink, which writes the file and posts a   *)
(* message on the bus.  Nothing orders the two threads but GStreamer's own *)
(* locks, so the three UI steps and the streaming steps interleave freely. *)
(***************************************************************************)
EXTENDS Naturals, Sequences

CONSTANTS
    MaxRequests,    \* bound: captures accepted in one behaviour
    MaxFiles        \* bound: buffers let through to the encoder

ASSUME BoundsAssumption == MaxRequests \in Nat /\ MaxFiles \in Nat

VARIABLES
    drop,           \* the valve's "drop" property: TRUE is closed
    probes,         \* one_shot_probe instances installed on the src pad
    arming,         \* how far the UI thread is inside do_capture
    location,       \* the request whose time stamp is in capsink's location
    accepted,       \* captures accepted by do_capture so far
    stream,         \* where the capture branch's streaming thread is
    index,          \* multifilesink's running %05d index
    files,          \* the files written: request stamp and index
    bus,            \* messages posted and not yet popped
    overlapped      \* history: a probe was added while another was pending

uiVars     == <<arming, location, accepted, overlapped>>
streamVars == <<stream, index, files>>
vars       == <<drop, probes, uiVars, streamVars, bus>>

Messages == {"saved", "error"}

TypeOK ==
    /\ drop \in BOOLEAN
    /\ probes \in Nat
    /\ arming \in {"idle", "located", "probed"}
    /\ location \in Nat
    /\ accepted \in Nat
    /\ stream \in {"idle", "admitted", "callback", "encoding", "dead"}
    /\ index \in Nat
    /\ files \subseteq [stamp : Nat, index : Nat]
    /\ bus \in Seq(Messages)
    /\ overlapped \in BOOLEAN

Init ==
    /\ drop = TRUE
    /\ probes = 0
    /\ arming = "idle"
    /\ location = 0
    /\ accepted = 0
    /\ stream = "idle"
    /\ index = 0
    /\ files = {}
    /\ bus = <<>>
    /\ overlapped = FALSE

-----------------------------------------------------------------------------
(* Plausible bugs, one per property; no specification below uses them.     *)

\* The callback returns GST_PAD_PROBE_OK and stays installed.
LeaveProbeInstalled ==
    /\ stream = "callback"
    /\ stream' = "encoding"
    /\ UNCHANGED <<drop, probes, uiVars, index, files, bus>>

\* The callback returns a value that also drops the buffer.
LeaveProbeDropping ==
    /\ stream = "callback"
    /\ probes' = probes - 1
    /\ stream' = "idle"
    /\ UNCHANGED <<drop, uiVars, index, files, bus>>

\* The callback forgets to close the valve.
EnterProbeOpen ==
    /\ stream = "admitted"
    /\ probes > 0
    /\ stream' = "callback"
    /\ UNCHANGED <<drop, probes, uiVars, index, files, bus>>

\* The location is not set again: the file carries an older time stamp.
SetLocationOnce ==
    /\ arming = "idle"
    /\ accepted < MaxRequests
    /\ accepted' = accepted + 1
    /\ location' = IF location = 0 THEN accepted' ELSE location
    /\ arming' = "located"
    /\ UNCHANGED <<drop, probes, streamVars, bus, overlapped>>

-----------------------------------------------------------------------------
(* The UI thread: do_capture, once its guards have let the request through *)

\* A capture is armed when the next buffer may still be taken on its behalf.
Armed == probes > 0 \/ ~drop

SetLocation ==
    /\ arming = "idle"
    /\ accepted < MaxRequests
    /\ accepted' = accepted + 1
    /\ location' = accepted'
    /\ arming' = "located"
    /\ UNCHANGED <<drop, probes, streamVars, bus, overlapped>>

AddProbe ==
    /\ arming = "located"
    /\ probes' = probes + 1
    /\ overlapped' = (overlapped \/ Armed)
    /\ arming' = "probed"
    /\ UNCHANGED <<drop, location, accepted, streamVars, bus>>

OpenValve ==
    /\ arming = "probed"
    /\ drop' = FALSE
    /\ arming' = "idle"
    /\ UNCHANGED <<probes, location, accepted, streamVars, bus, overlapped>>

\* The pump pops one bus message (it pops only between do_capture calls).
PopMessage ==
    /\ arming = "idle"
    /\ bus # <<>>
    /\ bus' = Tail(bus)
    /\ UNCHANGED <<drop, probes, uiVars, streamVars>>

-----------------------------------------------------------------------------
(* The capture branch's streaming thread *)

\* A buffer meets a closed valve and is discarded.
Discard ==
    /\ stream = "idle"
    /\ drop
    /\ UNCHANGED vars

\* A buffer meets an open valve: the valve has read "drop" and pushes it on.
Admit ==
    /\ stream = "idle"
    /\ ~drop
    /\ index < MaxFiles
    /\ stream' = "admitted"
    /\ UNCHANGED <<drop, probes, uiVars, index, files, bus>>

\* The pad calls the next probe, without its lock: the callback closes the valve.
EnterProbe ==
    /\ stream = "admitted"
    /\ probes > 0
    /\ drop' = TRUE
    /\ stream' = "callback"
    /\ UNCHANGED <<probes, uiVars, index, files, bus>>

\* GST_PAD_PROBE_REMOVE.  A probe added meanwhile is called for this buffer too.
LeaveProbe ==
    /\ stream = "callback"
    /\ probes' = probes - 1
    /\ stream' = IF probes' > 0 THEN "admitted" ELSE "encoding"
    /\ UNCHANGED <<drop, uiVars, index, files, bus>>

\* No probe is installed: the buffer passes and the valve stays as it is.
PassUnprobed ==
    /\ stream = "admitted"
    /\ probes = 0
    /\ stream' = "encoding"
    /\ UNCHANGED <<drop, probes, uiVars, index, files, bus>>

\* multifilesink writes the file under the location it finds, then reports it.
WriteFile ==
    /\ stream = "encoding"
    /\ files' = files \cup {[stamp |-> location, index |-> index]}
    /\ index' = index + 1
    /\ bus' = Append(bus, "saved")
    /\ stream' = "idle"
    /\ UNCHANGED <<drop, probes, uiVars>>

\* The write fails (card full or gone): a fatal error stops the whole pipeline.
FailWrite ==
    /\ stream = "encoding"
    /\ bus' = Append(bus, "error")
    /\ stream' = "dead"
    /\ UNCHANGED <<drop, probes, uiVars, index, files>>

-----------------------------------------------------------------------------
Ui     == AddProbe \/ OpenValve \/ PopMessage
Stream == EnterProbe \/ LeaveProbe \/ PassUnprobed \/ WriteFile \/ FailWrite

Next == SetLocation \/ Ui \/ Discard \/ Admit \/ Stream

Spec == Init /\ [][Next]_vars

\* The thread of each side keeps running; nothing forces a press or a frame.
ThreadFairness == WF_vars(AddProbe) /\ WF_vars(OpenValve) /\ WF_vars(PopMessage)
                  /\ WF_vars(Stream)

-----------------------------------------------------------------------------
(* The environment in which the comments of the code hold: a capture is    *)
(* requested only when the file of the previous one has been written.      *)

Quiet == ~Armed /\ stream = "idle"

SerialNext == (SetLocation /\ Quiet) \/ Ui \/ Discard \/ Admit \/ Stream

SerialSpec == Init /\ [][SerialNext]_vars

\* FeedAssumption is about the sender: while the valve is open a frame comes.
FeedAssumption == WF_vars(Admit)

SerialLiveSpec == SerialSpec /\ ThreadFairness /\ FeedAssumption

-----------------------------------------------------------------------------
(* Properties *)

\* An installed probe never waits on a closed valve while both threads are out
\* of the critical steps: a request that installed one is never forgotten.
NoOrphanProbe ==
    probes > 0 /\ arming # "probed" /\ stream \notin {"admitted", "callback"}
        => ~drop

\* As long as no request overlapped another, an open valve has its probe, so
\* that the buffer it lets through also closes it (one_shot_probe).
OpenHasProbe == ~overlapped /\ ~drop => probes = 1

\* Requests that do_capture is still arming, and frames on their way to a file.
BeingArmed   == IF arming = "located" THEN 1 ELSE 0
BeingWritten == IF stream \in {"encoding", "dead"} THEN 1 ELSE 0

\* As long as no request overlapped another, every accepted request is in
\* exactly one place: being armed, waiting for a buffer, being written, or a
\* file: "exactly one frame reaches the JPEG encoder per button press".
OneFramePerRequest ==
    ~overlapped => accepted = BeingArmed + probes + BeingWritten + index

\* What the comment of one_shot_probe says of every behaviour: no press is
\* answered with more than one frame ...
AtMostOneFrame == index <= accepted

\* ... and none is left unanswered once both threads are at rest.
AtLeastOneFrame ==
    arming = "idle" /\ stream = "idle" /\ ~Armed => index >= accepted

\* In a serial environment the gate is the one-shot camera it promises to be:
\* each press is answered with one file, stamped with that press.
OneShot ==
    INSTANCE OneShotCapture WITH
        shots  <- accepted,
        busy   <- index < accepted /\ stream # "dead",
        saved  <- {f.stamp : f \in files},
        broken <- stream = "dead"

ImplementsOneShot == OneShot!Spec

\* In a serial environment a request is answered while the feed is up, unless
\* writing fails (one_shot_probe, WriteFile).
RequestAnswered ==
    \A n \in 1..MaxRequests : accepted = n ~> index = n \/ stream = "dead"
=============================================================================
