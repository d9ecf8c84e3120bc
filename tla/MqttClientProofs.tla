-------------------------- MODULE MqttClientProofs --------------------------
(***************************************************************************)
(* Proofs about MqttClient for any number of LEDs and any delays.  The      *)
(* invariant ties the connection task's place to what it owns (Owned), and  *)
(* shows that a handler or a client thread exists only while that task is   *)
(* waiting for it (Borrowed): the session is lent for exactly as long as    *)
(* somebody can use it.                                                    *)
(***************************************************************************)
EXTENDS MqttClient, TLAPS

Waiting == {"suspend", "suspended"}

\* What the connection task owns at each of its places.
Owned ==
  /\ conn \in {"start", "resolve", "tls", "attempt", "delay"} => socket = "closed" /\ ssl = "freed"
  /\ conn = "socket" => socket = "closed"
  /\ conn \in {"spawn", "suspend", "suspended", "release"} =>
       socket = "connected" /\ ssl = "ready"
  /\ conn = "handshake" => socket = "connected"
  /\ conn = "free" => socket = "closed"
  /\ args <=> conn \in {"suspend", "suspended", "release"}

\* Who uses the session the connection task lent.
Borrowed ==
  /\ handler # "none" => conn \in Waiting
  /\ thread # "none" => handler \in {"connect", "subscribe", "poll", "cleanup"}

\* The LEDs of a session that has not subscribed.
Dark ==
  handler \in {"connect", "subscribe"} =>
    val = {} /\ port = {} /\ thread # "deliver" /\ ~client.subscribed

IInv == TypeOK /\ Owned /\ Borrowed /\ Dark

\* The initial states satisfy the invariant.
LEMMA InitInv == Init => IInv
<1>1. NoClient \in [connected : BOOLEAN, subscribed : BOOLEAN]
  BY DEF NoClient
<1>2. Init => TypeOK
  BY <1>1, DelayAssumption DEF Init, TypeOK, HandlerUsing
<1>3. Init => Owned /\ Borrowed /\ Dark
  BY DEF Init, Owned, Borrowed, Dark
<1> QED
  BY <1>2, <1>3 DEF IInv

\* A step of the connection task keeps the invariant.
LEMMA ConnectKeeps == IInv /\ mqtt_demo_connect => IInv'
<1> SUFFICES ASSUME IInv, mqtt_demo_connect PROVE IInv'
  OBVIOUS
<1> USE DelayAssumption DEF IInv, TypeOK, Owned, Borrowed, Dark, HandlerUsing, Waiting,
        ConnGoes, session, handlerVars, lights
<1>1. CASE WaitNetwork \/ WaitAddress \/ WaitCredentials
  BY <1>1 DEF WaitNetwork, WaitAddress, WaitCredentials
<1>2. CASE InitSsl
  BY <1>2 DEF InitSsl
<1>3. CASE OpenSocket
  BY <1>3 DEF OpenSocket
<1>4. CASE TcpConnect
  <2>1. LongerDelay \in Nat
    BY DEF LongerDelay
  <2> QED
    BY <1>4, <2>1 DEF TcpConnect
<1>5. CASE Handshake
  BY <1>5 DEF Handshake
<1>6. CASE SpawnHandler
  BY <1>6 DEF SpawnHandler
<1>7. CASE SuspendSelf
  BY <1>7 DEF SuspendSelf
<1>8. CASE FreeArgs
  BY <1>8 DEF FreeArgs
<1>8a. CASE CloseNotify
  BY <1>8a DEF CloseNotify
<1>9. CASE ShutdownSocket \/ DrainSocket
  BY <1>9 DEF ShutdownSocket, DrainSocket
<1>10. CASE CloseSocket \/ FreeSsl \/ DelayAttempt
  BY <1>10 DEF CloseSocket, FreeSsl, DelayAttempt
<1> QED
  BY <1>1, <1>2, <1>3, <1>4, <1>5, <1>6, <1>7, <1>8, <1>8a, <1>9, <1>10 DEF mqtt_demo_connect

\* A step of the handler task keeps the invariant.
LEMMA HandlerKeeps == IInv /\ mqtt_handler => IInv'
<1> SUFFICES ASSUME IInv, mqtt_handler PROVE IInv'
  OBVIOUS
<1> USE DEF IInv, TypeOK, Owned, Borrowed, Dark, HandlerUsing, Waiting, HandlerGoes, connVars, session, lights
<1>1. CASE StartClient
  BY <1>1 DEF StartClient, NoClient
<1>2. CASE MQTTConnect
  BY <1>2 DEF MQTTConnect
<1>3. CASE MQTTSubscribe
  BY <1>3 DEF MQTTSubscribe
<1>4. CASE Poll
  BY <1>4 DEF Poll
<1>5. CASE DeleteThread
  BY <1>5 DEF DeleteThread
<1>6. CASE ResumeCaller
  BY <1>6 DEF ResumeCaller
<1> QED
  BY <1>1, <1>2, <1>3, <1>4, <1>5, <1>6 DEF mqtt_handler

\* A step of the client's thread keeps the invariant.
LEMMA ThreadKeeps == IInv /\ (LoseConnection \/ messageArrived \/ ShowLeds) => IInv'
<1> SUFFICES ASSUME IInv, LoseConnection \/ messageArrived \/ ShowLeds PROVE IInv'
  OBVIOUS
<1> USE DEF IInv, TypeOK, Owned, Borrowed, Dark, HandlerUsing, Waiting, connVars, session, lights
<1>1. CASE LoseConnection
  BY <1>1 DEF LoseConnection
<1>2. CASE messageArrived
  <2>1. val' \in SUBSET LedNumbers
    BY <1>2 DEF messageArrived, LedAfter
  <2>2. handler \notin {"connect", "subscribe"}
    BY <1>2 DEF messageArrived
  <2> QED
    BY <1>2, <2>1, <2>2 DEF messageArrived
<1>3. CASE ShowLeds
  BY <1>3 DEF ShowLeds
<1> QED
  BY <1>1, <1>2, <1>3

\* Every step keeps the invariant.
LEMMA NextKeeps == IInv /\ [Next]_vars => IInv'
<1> SUFFICES ASSUME IInv, [Next]_vars PROVE IInv'
  OBVIOUS
<1>1. CASE NetworkChanges
  BY <1>1 DEF NetworkChanges, IInv, TypeOK, Owned, Borrowed, Dark, HandlerUsing, Waiting,
              connVars, session, handlerVars, lights
<1>2. CASE UNCHANGED vars
  BY <1>2 DEF vars, IInv, TypeOK, Owned, Borrowed, Dark, HandlerUsing, Waiting
<1> QED
  BY <1>1, <1>2, ConnectKeeps, HandlerKeeps, ThreadKeeps DEF Next

\* The invariant holds in every reachable state.
THEOREM MqttInvariance == Spec => []IInv
  BY InitInv, NextKeeps, PTL DEF Spec

\* Type correctness for any set of LEDs and any delays.
THEOREM MqttTypeCorrect == Spec => []TypeOK
<1>1. IInv => TypeOK
  BY DEF IInv
<1> QED
  BY <1>1, MqttInvariance, PTL

\* Neither the handler nor the client's thread ever runs on a socket or a TLS context that
\* mqtt_demo_connect has closed or freed.
THEOREM SessionSafe == Spec => []SessionHeldWhileUsed
<1>1. IInv => SessionHeldWhileUsed
  BY DEF IInv, Owned, Borrowed, SessionHeldWhileUsed, HandlerUsing, Waiting
<1> QED
  BY <1>1, MqttInvariance, PTL

\* Every attempt of mqtt_demo_connect starts with nothing left of the one before.
THEOREM AttemptsClean == Spec => []CleanSlate
<1>1. IInv => CleanSlate
  BY DEF IInv, Owned, Borrowed, CleanSlate, Waiting
<1> QED
  BY <1>1, MqttInvariance, PTL

\* A new session shows none of the LEDs an older one lit.
THEOREM SessionsDark == Spec => []DarkUntilSubscribed
<1>1. IInv => DarkUntilSubscribed
  BY DEF IInv, Dark, DarkUntilSubscribed
<1> QED
  BY <1>1, MqttInvariance, PTL

\* The retry delay shortens only after a handshake or from beyond the maximum.
THEOREM BackoffSafe == Spec => BackoffKept
<1> DEFINE Kept == mqtt_timeout' < mqtt_timeout => ssl' = "ready" \/ mqtt_timeout > DelayMax
<1>1. ASSUME TypeOK, [Next]_vars PROVE Kept
  <2> USE DelayAssumption, <1>1 DEF TypeOK
  <2>1. CASE TcpConnect
    BY <2>1 DEF TcpConnect, LongerDelay
  <2>2. CASE Handshake
    BY <2>2 DEF Handshake
  <2>3. CASE UNCHANGED mqtt_timeout
    BY <2>3
  <2>4. TcpConnect \/ Handshake \/ UNCHANGED mqtt_timeout
    BY DEF Next, vars, mqtt_demo_connect, mqtt_handler, connVars, WaitNetwork, WaitAddress,
           WaitCredentials, InitSsl, OpenSocket, SpawnHandler, SuspendSelf, FreeArgs,
           CloseNotify, ShutdownSocket, DrainSocket, CloseSocket, FreeSsl, DelayAttempt,
           StartClient, MQTTConnect, MQTTSubscribe, Poll, DeleteThread, ResumeCaller,
           LoseConnection, messageArrived, ShowLeds, NetworkChanges
  <2> QED
    BY <2>1, <2>2, <2>3, <2>4
<1>2. TypeOK /\ [Next]_vars => [Kept]_vars
  BY <1>1
<1> QED
  BY <1>2, MqttTypeCorrect, PTL DEF Spec, BackoffKept
=============================================================================
