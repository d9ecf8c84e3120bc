----------------------------- MODULE MqttClient -----------------------------
(***************************************************************************)
(* The MQTT demo client of examples/freertos/iot                           *)
(* (src/mqtt_demo/mqtt_demo_client.c).  A connection task sets up a socket  *)
(* and a TLS context, lends them to a handler task it creates, suspends     *)
(* itself, and closes them when the handler resumes it; the handler runs    *)
(* the MQTT client, whose own thread delivers messages to the LED callback.  *)
(* FreeRTOS runs the three on several cores (configNUM_CORES), so their     *)
(* steps interleave freely.  The network, TLS, MQTT and kernel libraries    *)
(* are outside src/: a call of theirs succeeds or fails.                    *)
(***************************************************************************)
EXTENDS Integers

CONSTANTS
  LedNumbers,       \* the LEDs of the port, 0..3
  Delay,      \* MQTT_RECONNECT_DELAY_MS
  Step,       \* MQTT_RECONNECT_DELAY_STEP_MS
  DelayMax,   \* MQTT_RECONNECT_DELAY_MAX_MS
  DelayBound  \* bound: no handshake fails once the delay is this long

ASSUME DelayAssumption ==
  /\ Delay \in Nat /\ Step \in Nat /\ DelayMax \in Nat /\ DelayBound \in Nat
  /\ Delay <= DelayMax

VARIABLES
  conn,          \* where the connection task is
  socket,        \* "closed", "open", "connected" or "shutdown"
  ssl,           \* ssl_ctx: "freed", "init", "ready" (handshaken) or "notified"
  args,          \* is handler_args allocated?
  mqtt_timeout,  \* the delay before the next attempt
  handler,       \* where the handler task is, "none" when there is none
  client,        \* the handler's MQTTClient
  thread,        \* the MQTT client's thread
  val, port,     \* the LED word and what the port shows
  netUp          \* FreeRTOS_IsNetworkUp()

vars == <<conn, socket, ssl, args, mqtt_timeout, handler, client, thread, val, port, netUp>>
session == <<socket, ssl>>
lights == <<val, port>>
handlerVars == <<handler, client, thread>>

NoClient == [connected |-> FALSE, subscribed |-> FALSE]

Init ==
  /\ conn = "start" /\ socket = "closed" /\ ssl = "freed" /\ args = FALSE
  /\ mqtt_timeout = Delay
  /\ handler = "none" /\ client = NoClient /\ thread = "none"
  /\ val = {} /\ port = {}
  /\ netUp = FALSE

-----------------------------------------------------------------------------
(* mqtt_demo_connect: the connection task                                   *)

ConnGoes(from, to) == conn = from /\ conn' = to

\* Wait for the network, for the broker's address, for credentials and the time.
WaitNetwork == /\ netUp /\ ConnGoes("start", "resolve")
               /\ UNCHANGED <<session, args, mqtt_timeout, handlerVars, lights, netUp>>
WaitAddress == /\ ConnGoes("resolve", "tls")
               /\ UNCHANGED <<session, args, mqtt_timeout, handlerVars, lights, netUp>>
WaitCredentials == /\ ConnGoes("tls", "attempt")
                   /\ UNCHANGED <<session, args, mqtt_timeout, handlerVars, lights, netUp>>

InitSsl == /\ ConnGoes("attempt", "socket") /\ ssl' = "init"
           /\ UNCHANGED <<socket, args, mqtt_timeout, handlerVars, lights, netUp>>

OpenSocket == /\ netUp /\ ConnGoes("socket", "connect") /\ socket' = "open"
              /\ UNCHANGED <<ssl, args, mqtt_timeout, handlerVars, lights, netUp>>

\* (Faulty variant: every failed connection starts the delay over.)
LongerDelayFromStart == Delay

\* The delay after a TCP connection that could not be made.
LongerDelay == IF mqtt_timeout + Step > DelayMax THEN DelayMax ELSE mqtt_timeout + Step

TcpConnect ==
  /\ \/ /\ ConnGoes("connect", "handshake")
        /\ socket' = "connected" /\ UNCHANGED mqtt_timeout
     \/ /\ ConnGoes("connect", "close")
        /\ mqtt_timeout' = LongerDelay /\ UNCHANGED socket
  /\ UNCHANGED <<ssl, args, handlerVars, lights, netUp>>

\* mbedtls_ssl_handshake, again while it wants more data, and the peer's certificate.
Handshake ==
  /\ \/ /\ ConnGoes("handshake", "spawn") \/ ConnGoes("handshake", "notify")
        /\ ssl' = "ready" /\ mqtt_timeout' = Delay
     \/ /\ ConnGoes("handshake", "shutdown")
        /\ mqtt_timeout < DelayBound
        /\ mqtt_timeout' = mqtt_timeout + Step /\ UNCHANGED ssl
  /\ UNCHANGED <<socket, args, handlerVars, lights, netUp>>

\* xTaskCreate, whose result is ignored: the handler may not have been created.
SpawnHandler ==
  /\ ConnGoes("spawn", "suspend") /\ args' = TRUE
  /\ handler' \in {"start", "none"}
  /\ UNCHANGED <<session, mqtt_timeout, client, thread, lights, netUp>>

\* (Faulty variant: the connection task goes on without waiting for the handler.)
SuspendNotAtAll ==
  /\ ConnGoes("suspend", "release")
  /\ UNCHANGED <<session, args, mqtt_timeout, handlerVars, lights, netUp>>

SuspendSelf == /\ ConnGoes("suspend", "suspended")
               /\ UNCHANGED <<session, args, mqtt_timeout, handlerVars, lights, netUp>>

FreeArgs == /\ ConnGoes("release", "notify") /\ args' = FALSE
            /\ UNCHANGED <<session, mqtt_timeout, handlerVars, lights, netUp>>

CloseNotify == /\ ConnGoes("notify", "shutdown") /\ ssl' = "notified"
               /\ UNCHANGED <<socket, args, mqtt_timeout, handlerVars, lights, netUp>>

\* FreeRTOS_shutdown, then recv until the peer has gone or 1000 tries are over.
ShutdownSocket == /\ ConnGoes("shutdown", "drain") /\ socket' = "shutdown"
                  /\ UNCHANGED <<ssl, args, mqtt_timeout, handlerVars, lights, netUp>>
DrainSocket == /\ ConnGoes("drain", "close")
               /\ UNCHANGED <<session, args, mqtt_timeout, handlerVars, lights, netUp>>

CloseSocket == /\ ConnGoes("close", "free") /\ socket' = "closed"
               /\ UNCHANGED <<ssl, args, mqtt_timeout, handlerVars, lights, netUp>>

\* (Faulty variant: an attempt starts again without mbedtls_ssl_free.)
FreeSslNot == /\ ConnGoes("free", "delay")
              /\ UNCHANGED <<session, args, mqtt_timeout, handlerVars, lights, netUp>>

FreeSsl == /\ ConnGoes("free", "delay") /\ ssl' = "freed"
           /\ UNCHANGED <<socket, args, mqtt_timeout, handlerVars, lights, netUp>>

DelayAttempt == /\ ConnGoes("delay", "attempt")
                /\ UNCHANGED <<session, args, mqtt_timeout, handlerVars, lights, netUp>>

mqtt_demo_connect ==
  \/ WaitNetwork \/ WaitAddress \/ WaitCredentials \/ InitSsl \/ OpenSocket
  \/ TcpConnect \/ Handshake \/ SpawnHandler \/ SuspendSelf \/ FreeArgs \/ CloseNotify
  \/ ShutdownSocket \/ DrainSocket \/ CloseSocket \/ FreeSsl \/ DelayAttempt

-----------------------------------------------------------------------------
(* mqtt_handler: the handler task                                           *)

HandlerGoes(from, to) == handler = from /\ handler' = to
connVars == <<session, args, mqtt_timeout>>

\* (Faulty variant: the LEDs of the last session stay lit.)
StartClientLit ==
  /\ HandlerGoes("start", "connect")
  /\ client' = NoClient /\ thread' = "running"
  /\ UNCHANGED <<conn, connVars, lights, netUp>>

\* The LEDs go dark, the client is initialised and its thread started.
StartClient ==
  /\ HandlerGoes("start", "connect")
  /\ val' = {} /\ port' = {}
  /\ client' = NoClient /\ thread' = "running"
  /\ UNCHANGED <<conn, connVars, netUp>>

MQTTConnect ==
  /\ \/ HandlerGoes("connect", "subscribe") /\ client' = [client EXCEPT !.connected = TRUE]
     \/ HandlerGoes("connect", "cleanup") /\ UNCHANGED client
  /\ UNCHANGED <<conn, connVars, thread, lights, netUp>>

\* A subscription that fails is followed by another MQTTConnect.
MQTTSubscribe ==
  /\ \/ HandlerGoes("subscribe", "poll") /\ client' = [client EXCEPT !.subscribed = TRUE]
     \/ HandlerGoes("subscribe", "connect") /\ UNCHANGED client
  /\ UNCHANGED <<conn, connVars, thread, lights, netUp>>

\* MQTTIsConnected, once a second.
Poll == /\ ~client.connected /\ HandlerGoes("poll", "cleanup")
        /\ UNCHANGED <<conn, connVars, client, thread, lights, netUp>>

\* vTaskDelete(client.thread.task), wherever the thread is.
DeleteThread ==
  /\ HandlerGoes("cleanup", "resume") /\ thread' = "none"
  /\ UNCHANGED <<conn, connVars, client, lights, netUp>>

\* (Faulty variant: the handler forgets its caller.)
ResumeNobody ==
  /\ HandlerGoes("resume", "none")
  /\ UNCHANGED <<conn, connVars, client, thread, lights, netUp>>

\* vTaskResume(caller) has no effect on a task that has not suspended itself yet.
\* The handler then deletes itself.
ResumeCaller ==
  /\ HandlerGoes("resume", "none")
  /\ conn' = IF conn = "suspended" THEN "release" ELSE conn
  /\ UNCHANGED <<connVars, client, thread, lights, netUp>>

mqtt_handler == \/ StartClient \/ MQTTConnect \/ MQTTSubscribe \/ Poll
                \/ DeleteThread \/ ResumeCaller

-----------------------------------------------------------------------------
(* The MQTT client's thread and the callback it makes                       *)

LoseConnection ==
  /\ thread = "running" /\ client.connected
  /\ client' = [client EXCEPT !.connected = FALSE]
  /\ UNCHANGED <<conn, connVars, handler, thread, lights, netUp>>

\* What becomes of the LED named.
LedAfter(led, words) == CASE "on" \in words -> val \union {led}
                          [] words = {"off"} -> val \ {led}
                          [] OTHER -> val

\* The lowest digit found names the LED.  strstr is given no length, so it also finds
\* what an earlier message, or nobody, left in readbuf behind the payload.
messageArrived ==
  /\ thread = "running" /\ client.connected /\ client.subscribed
  /\ \E digits \in SUBSET LedNumbers, words \in SUBSET {"on", "off"} :
       \/ \E led \in digits : /\ \A d \in digits : led <= d
                              /\ val' = LedAfter(led, words)
       \/ digits = {} /\ UNCHANGED val
  /\ thread' = "deliver"
  /\ UNCHANGED <<conn, connVars, handler, client, port, netUp>>

\* rtos_gpio_port_out at the end of messageArrived.
ShowLeds ==
  /\ thread = "deliver" /\ port' = val /\ thread' = "running"
  /\ UNCHANGED <<conn, connVars, handler, client, val, netUp>>

NetworkChanges ==
  /\ netUp' = ~netUp
  /\ UNCHANGED <<conn, connVars, handlerVars, lights>>

Next == \/ mqtt_demo_connect \/ mqtt_handler
        \/ LoseConnection \/ messageArrived \/ ShowLeds \/ NetworkChanges

\* Every task that can run does run sooner or later: the scheduler is preemptive
\* and each task blocks between its calls.  Calls into the network return, as
\* sockets have time-outs and the drain counts its tries; messages, the loss of
\* a connection and the network owe nothing.
Spec == Init /\ [][Next]_vars
FairSpec == /\ Spec /\ WF_vars(mqtt_demo_connect) /\ WF_vars(mqtt_handler)
            /\ WF_vars(ShowLeds)

-----------------------------------------------------------------------------
(* Properties                                                               *)

HandlerUsing == {"start", "connect", "subscribe", "poll", "cleanup"}

\* Type invariant.
TypeOK ==
  /\ conn \in {"start", "resolve", "tls", "attempt", "socket", "connect", "handshake",
               "spawn", "suspend", "suspended", "release", "notify", "shutdown",
               "drain", "close", "free", "delay"}
  /\ socket \in {"closed", "open", "connected", "shutdown"}
  /\ ssl \in {"freed", "init", "ready", "notified"}
  /\ args \in BOOLEAN
  /\ mqtt_timeout \in Nat
  /\ handler \in HandlerUsing \union {"resume", "none"}
  /\ client \in [connected : BOOLEAN, subscribed : BOOLEAN]
  /\ thread \in {"none", "running", "deliver"}
  /\ val \in SUBSET LedNumbers /\ port \in SUBSET LedNumbers
  /\ netUp \in BOOLEAN

\* The socket and the TLS context the connection task lent stay up, and the argument
\* block allocated, as long as the handler or the client's thread can use them.
SessionHeldWhileUsed ==
  handler \in HandlerUsing \/ thread # "none" =>
    socket = "connected" /\ ssl = "ready" /\ args

\* An attempt begins with nothing of the last one: no handler or thread of its
\* session runs, its socket is closed, its TLS context and argument block freed.
CleanSlate ==
  conn = "attempt" =>
    /\ socket = "closed" /\ ssl = "freed" /\ ~args
    /\ thread = "none" /\ handler = "none"

\* Until a new session has subscribed, the LEDs show nothing of an older one.
DarkUntilSubscribed ==
  handler \in {"connect", "subscribe"} => val = {} /\ port = {}

\* The delay shortens only because a handshake succeeded or because handshakes that
\* failed had taken it beyond the maximum.
BackoffKept ==
  [][mqtt_timeout' < mqtt_timeout => ssl' = "ready" \/ mqtt_timeout > DelayMax]_vars

\* A connection lost while the connection task sleeps is closed and backed off from.
LostSessionClosed ==
  handler = "poll" /\ conn = "suspended" /\ ~client.connected ~> conn = "delay"

\* The demo reconnects after a delay whenever a handler is through (the purpose of
\* MQTT_RECONNECT_DELAY_MS and the endless loop of mqtt_demo_connect).
Reconnects == handler = "resume" ~> conn = "delay"
=============================================================================
