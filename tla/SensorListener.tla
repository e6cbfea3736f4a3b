-------------------------- MODULE SensorListener --------------------------
(***************************************************************************)
(* The UDP :5001 "sensor" listener of camera-gui: the thread that runs     *)
(* sensor_thread_main, the two atomic flags it shares with the UI thread   *)
(* (running and detected), the socket's receive queue in the kernel, and   *)
(* the main thread's stop and join at shutdown.                            *)
(***************************************************************************)
EXTENDS Naturals, Sequences

CONSTANTS
    QueueSize,      \* datagrams the socket's receive buffer holds
    MaxDatagrams    \* bound: datagrams sent to the port

ASSUME SizesAssumption == QueueSize \in Nat \ {0} /\ MaxDatagrams \in Nat

VARIABLES
    queue,          \* payload sizes of the datagrams in the receive buffer
    thread,         \* where the listener thread is
    running,        \* sensor_running
    detected,       \* sensor_detected
    main,           \* main(): in app.run, joining the thread, or past the join
    sent,           \* datagrams sent so far
    received,       \* history: datagrams the thread received with a payload
    noticed         \* history: how many of them the UI thread has noticed

threadVars == <<queue, thread, detected, received>>
vars       == <<threadVars, running, main, sent, noticed>>

Sizes == {0, 1}     \* a datagram may be empty: UDP allows it

TypeOK ==
    /\ queue \in Seq(Sizes) /\ Len(queue) <= QueueSize
    /\ thread \in {"start", "check", "receive", "store", "exited"}
    /\ running \in BOOLEAN
    /\ detected \in BOOLEAN
    /\ main \in {"run", "join", "done"}
    /\ sent \in Nat
    /\ received \in Nat
    /\ noticed \in Nat

Init ==
    /\ queue = <<>>
    /\ thread = "start"
    /\ running = TRUE
    /\ detected = FALSE
    /\ main = "run"
    /\ sent = 0
    /\ received = 0
    /\ noticed = 0

-----------------------------------------------------------------------------
(* Plausible bugs, one per property; no specification below uses them.     *)

\* The flag is tested and cleared in two accesses: a store may fall in between.
PollTestThenClear ==
    /\ main = "run"
    /\ detected' = FALSE
    /\ noticed' = IF detected
                  THEN received - (IF thread = "store" THEN 1 ELSE 0)
                  ELSE noticed
    /\ thread' \in {thread} \cup (IF thread = "store" THEN {"check"} ELSE {})
    /\ UNCHANGED <<queue, received, running, main, sent>>

\* The loop does not look at the running flag again.
CheckOnce ==
    /\ thread = "check"
    /\ thread' = "receive"
    /\ UNCHANGED <<queue, detected, received, running, main, sent, noticed>>

\* The flag is cleared by the thread when its receive times out.
TimeoutClearing ==
    /\ thread = "receive"
    /\ queue = <<>>
    /\ thread' = "check"
    /\ detected' = FALSE
    /\ UNCHANGED <<queue, received, running, main, sent, noticed>>

-----------------------------------------------------------------------------
(* The network and the kernel *)

\* A datagram reaches the bound port; a full receive buffer drops it.
Arrive ==
    /\ thread \in {"check", "receive", "store"}
    /\ sent < MaxDatagrams
    /\ \E n \in Sizes :
          queue' = IF Len(queue) < QueueSize THEN Append(queue, n) ELSE queue
    /\ sent' = sent + 1
    /\ UNCHANGED <<thread, detected, received, running, main, noticed>>

-----------------------------------------------------------------------------
(* The listener thread *)

Start ==
    /\ thread = "start"
    /\ thread' = "check"
    /\ UNCHANGED <<queue, detected, received, running, main, sent, noticed>>

\* socket() or bind() failed: the thread ends, the application goes on.
StartFails ==
    /\ thread = "start"
    /\ thread' = "exited"
    /\ UNCHANGED <<queue, detected, received, running, main, sent, noticed>>

\* while (running->load()); the socket is closed on the way out.
Check ==
    /\ thread = "check"
    /\ thread' = IF running THEN "receive" ELSE "exited"
    /\ queue' = IF running THEN queue ELSE <<>>
    /\ UNCHANGED <<detected, received, running, main, sent, noticed>>

\* recvfrom returns the next datagram; only n > 0 is a detection.
Receive ==
    /\ thread = "receive"
    /\ queue # <<>>
    /\ queue' = Tail(queue)
    /\ IF Head(queue) > 0
       THEN thread' = "store" /\ received' = received + 1
       ELSE thread' = "check" /\ UNCHANGED received
    /\ UNCHANGED <<detected, running, main, sent, noticed>>

\* detected->store(true)
Store ==
    /\ thread = "store"
    /\ detected' = TRUE
    /\ thread' = "check"
    /\ UNCHANGED <<queue, received, running, main, sent, noticed>>

\* Nothing came for a second (SO_RCVTIMEO), or a signal interrupted the wait.
Timeout ==
    /\ thread = "receive"
    /\ queue = <<>>
    /\ thread' = "check"
    /\ UNCHANGED <<queue, detected, received, running, main, sent, noticed>>

-----------------------------------------------------------------------------
(* The main thread *)

\* The pump's sensor_detected.exchange(false).
Poll ==
    /\ main = "run"
    /\ detected' = FALSE
    /\ noticed' = IF detected
                  THEN received - (IF thread = "store" THEN 1 ELSE 0)
                  ELSE noticed
    /\ UNCHANGED <<queue, thread, received, running, main, sent>>

\* app.run() has returned.
Stop ==
    /\ main = "run"
    /\ running' = FALSE
    /\ main' = "join"
    /\ UNCHANGED <<threadVars, sent, noticed>>

Join ==
    /\ main = "join"
    /\ thread = "exited"
    /\ main' = "done"
    /\ UNCHANGED <<threadVars, running, sent, noticed>>

-----------------------------------------------------------------------------
Thread == Start \/ StartFails \/ Check \/ Receive \/ Store \/ Timeout

Next == Arrive \/ Thread \/ Poll \/ Stop \/ Join

Spec == Init /\ [][Next]_vars

\* The scheduler runs the thread (recvfrom itself ends within its timeout),
\* the pump's timer keeps firing, and a join that can return does.
Fairness == WF_vars(Thread) /\ WF_vars(Poll) /\ WF_vars(Join)

LiveSpec == Spec /\ Fairness

-----------------------------------------------------------------------------
(* Properties *)

\* A detection is never lost between the two threads: what the pump has not
\* noticed is still in the flag, or about to be stored in it (exchange, store).
NothingLost ==
    received # noticed => detected \/ thread = "store"

\* A detection reaches the screen unless the application is shutting down.
DetectionNoticed ==
    \A n \in 1..MaxDatagrams :
        received >= n ~> noticed >= n \/ main # "run"
=============================================================================
