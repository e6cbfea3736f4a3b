----------------------- MODULE SensorListenerProofs -----------------------
(***************************************************************************)
(* Theorems about SensorListener, for every queue and any number of        *)
(* datagrams.                                                              *)
(***************************************************************************)
EXTENDS SensorListener, TLAPS, SequenceTheorems

\* A store that is due stands for a datagram that was received.
StoreHasCause == thread = "store" => received > 0

ListenerInv == TypeOK /\ StoreHasCause /\ NothingLost

\* The initial states satisfy the inductive invariant.
LEMMA ListenerInit == Init => ListenerInv
<1> SUFFICES ASSUME Init PROVE ListenerInv
    OBVIOUS
<1>1. running \in BOOLEAN /\ detected \in BOOLEAN
    BY Zenon DEF Init
<1>2. queue \in Seq(Sizes) /\ Len(queue) <= QueueSize
    BY SizesAssumption DEF Init
<1> QED
    BY <1>1, <1>2 DEF Init, ListenerInv, TypeOK, StoreHasCause, NothingLost

\* The receive buffer keeps its type and its limit as datagrams come and go.
LEMMA QueueStep == ListenerInv /\ [Next]_vars => queue' \in Seq(Sizes) /\ Len(queue') <= QueueSize
<1> SUFFICES ASSUME ListenerInv, [Next]_vars
             PROVE  queue' \in Seq(Sizes) /\ Len(queue') <= QueueSize
    OBVIOUS
<1>0. queue \in Seq(Sizes) /\ Len(queue) <= QueueSize /\ QueueSize \in Nat
    BY SizesAssumption DEF ListenerInv, TypeOK
<1>1. CASE Arrive
  <2>1. PICK n \in Sizes :
            queue' = IF Len(queue) < QueueSize THEN Append(queue, n) ELSE queue
      BY <1>1 DEF Arrive
  <2> QED
      BY <1>0, <2>1
<1>2. CASE Receive
  <2>1. Tail(queue) \in Seq(Sizes) /\ Len(Tail(queue)) = Len(queue) - 1
      BY <1>0, <1>2 DEF Receive
  <2> QED
      BY <1>0, <1>2, <2>1 DEF Receive
<1>3. CASE Check
    BY <1>0, <1>3, SizesAssumption DEF Check
<1>4. CASE UNCHANGED queue
    BY <1>0, <1>4
<1> QED
    BY <1>1, <1>2, <1>3, <1>4
    DEF Next, Thread, Start, StartFails, Store, Timeout, Poll, Stop, Join, vars,
        threadVars

\* Every step of the network, the listener or the main thread preserves it.
LEMMA ListenerStep == ListenerInv /\ [Next]_vars => ListenerInv'
<1> SUFFICES ASSUME ListenerInv, [Next]_vars
             PROVE  ListenerInv'
    OBVIOUS
<1>0. queue' \in Seq(Sizes) /\ Len(queue') <= QueueSize
    BY QueueStep
<1> USE <1>0 DEF ListenerInv, TypeOK, StoreHasCause, NothingLost,
                 threadVars
<1>1. CASE Arrive
    BY <1>1 DEF Arrive
<1>2. CASE Start
    BY <1>2 DEF Start
<1>3. CASE StartFails
    BY <1>3 DEF StartFails
<1>4. CASE Check
    BY <1>4 DEF Check
<1>5. CASE Receive
    BY <1>5 DEF Receive
<1>6. CASE Store
    BY <1>6 DEF Store
<1>7. CASE Timeout
    BY <1>7 DEF Timeout
<1>8. CASE Poll
  <2>1. ~detected' /\ detected' \in BOOLEAN /\ main' = "run"
      BY <1>8, Zenon DEF Poll
  <2>2. UNCHANGED <<queue, thread, received, running, main, sent>>
      BY <1>8 DEF Poll
  <2>3. noticed' \in Nat /\ (received # noticed' => thread = "store")
    <3>1. CASE detected /\ thread = "store"
      <4>1. noticed' = received - 1
          BY <1>8, <3>1 DEF Poll
      <4> QED
          BY <3>1, <4>1
    <3>2. CASE detected /\ thread # "store"
      <4>1. noticed' = received
          BY <1>8, <3>2 DEF Poll
      <4> QED
          BY <4>1
    <3>3. CASE ~detected
      <4>1. noticed' = noticed
          BY <1>8, <3>3 DEF Poll
      <4> QED
          BY <3>3, <4>1
    <3> QED
        BY <3>1, <3>2, <3>3
  <2> QED
      BY <2>1, <2>2, <2>3
<1>9. CASE Stop
    BY <1>9 DEF Stop
<1>10. CASE Join
    BY <1>10 DEF Join
<1>11. CASE UNCHANGED vars
    BY <1>11 DEF vars
<1> QED
    BY <1>1, <1>2, <1>3, <1>4, <1>5, <1>6, <1>7, <1>8, <1>9, <1>10, <1>11
    DEF Next, Thread

\* The inductive invariant holds of every behaviour.
LEMMA ListenerInvariant == Spec => []ListenerInv
<1>1. Init => ListenerInv
    BY ListenerInit
<1>2. ListenerInv /\ [Next]_vars => ListenerInv'
    BY ListenerStep
<1> QED
    BY <1>1, <1>2, PTL DEF Spec

\* Every variable keeps its type; in particular the receive buffer its limit.
THEOREM ListenerTypes == Spec => []TypeOK
<1>1. ListenerInv => TypeOK
    BY DEF ListenerInv
<1> QED
    BY <1>1, ListenerInvariant, PTL

\* What the pump has not noticed is still in the flag or about to be stored.
THEOREM DetectionsKept == Spec => []NothingLost
<1>1. ListenerInv => NothingLost
    BY DEF ListenerInv
<1> QED
    BY <1>1, ListenerInvariant, PTL
=============================================================================
