---------------------------- MODULE UartLoopback ----------------------------
(***************************************************************************)
(* The UART demo of examples/freertos/explorer_board (src/uart/uart_demo.c): *)
(* one task sends a test vector on a wire that leads back to the board and    *)
(* then puts a copy into a queue; the other takes the copy, reads as many     *)
(* bytes and compares.  The UART drivers are outside src/: they send byte by   *)
(* byte, buffer as many bytes as the vector has, and lose what finds the       *)
(* buffer full.  Every packet is the same vector, so an entry of the queue     *)
(* is only counted.                                                         *)
(***************************************************************************)
EXTENDS Integers, Sequences

CONSTANTS
  MAX_TEST_VECT_SIZE,
  MaxLost            \* bound: bytes lost on the wire

ASSUME UartAssumption == MAX_TEST_VECT_SIZE \in Nat \ {0} /\ MaxLost \in Nat

QueueLength == 2     \* of loopback_queue

VARIABLES
  txAt, txSent,      \* uart_tx_demo: "delay" or "write"; the bytes it has sent
  uartBuffer,        \* the receiver's buffer: numbers of bytes of the vector
  loopback_queue,    \* entries in it
  rxAt, rx_buf,      \* uart_rx_demo: "start", "wait" or "read"; the bytes read
  printed_once,
  lostBytes

uartVars == <<txAt, txSent, uartBuffer, loopback_queue, rxAt, rx_buf, printed_once, lostBytes>>

UartInit ==
  /\ txAt = "delay" /\ txSent = 0 /\ uartBuffer = << >> /\ loopback_queue = 0
  /\ rxAt = "start" /\ rx_buf = << >> /\ printed_once = FALSE /\ lostBytes = 0

tx_buff == [i \in 1 .. MAX_TEST_VECT_SIZE |-> i]   \* no byte of it is there twice

-----------------------------------------------------------------------------
(* uart_tx_demo                                                             *)

\* The end of vTaskDelay.  The first one, of 1000 ms, lasts until the receiver is started.
Delay500 ==
  /\ txAt = "delay" /\ rxAt # "start"
  /\ txAt' = "write" /\ txSent' = 0
  /\ UNCHANGED <<uartBuffer, loopback_queue, rxAt, rx_buf, printed_once, lostBytes>>

\* rtos_uart_tx_write: a byte arrives, or is lost on the wire or at a full buffer.
SendByte ==
  /\ txAt = "write" /\ txSent < MAX_TEST_VECT_SIZE
  /\ txSent' = txSent + 1
  /\ \/ /\ uartBuffer' = IF Len(uartBuffer) < MAX_TEST_VECT_SIZE
                         THEN Append(uartBuffer, tx_buff[txSent + 1]) ELSE uartBuffer
        /\ UNCHANGED lostBytes
     \/ lostBytes < MaxLost /\ lostBytes' = lostBytes + 1 /\ UNCHANGED uartBuffer
  /\ UNCHANGED <<txAt, loopback_queue, rxAt, rx_buf, printed_once>>

\* xQueueSend without waiting: when the queue is full, the entry is left out.
QueueVector ==
  /\ txAt = "write" /\ txSent = MAX_TEST_VECT_SIZE
  /\ loopback_queue' = IF loopback_queue < QueueLength THEN loopback_queue + 1 ELSE loopback_queue
  /\ txAt' = "delay"
  /\ UNCHANGED <<txSent, uartBuffer, rxAt, rx_buf, printed_once, lostBytes>>

uart_tx_demo == Delay500 \/ SendByte \/ QueueVector

-----------------------------------------------------------------------------
(* uart_rx_demo                                                             *)

StartReceiver ==
  /\ rxAt = "start" /\ rxAt' = "wait"
  /\ UNCHANGED <<txAt, txSent, uartBuffer, loopback_queue, rx_buf, printed_once, lostBytes>>

TakeVector ==
  /\ rxAt = "wait" /\ loopback_queue > 0
  /\ loopback_queue' = loopback_queue - 1
  /\ rxAt' = "read" /\ rx_buf' = << >>
  /\ UNCHANGED <<txAt, txSent, uartBuffer, printed_once, lostBytes>>

\* rtos_uart_rx_read takes what is in the buffer until it has the whole vector.
ReadByte ==
  /\ rxAt = "read" /\ Len(rx_buf) < MAX_TEST_VECT_SIZE /\ uartBuffer # << >>
  /\ rx_buf' = Append(rx_buf, Head(uartBuffer)) /\ uartBuffer' = Tail(uartBuffer)
  /\ UNCHANGED <<txAt, txSent, loopback_queue, rxAt, printed_once, lostBytes>>

\* The read has its bytes, or no more have come within twice the time between packets.
\* An error empties the buffer, whatever the sender is doing.
ReadEnds ==
  /\ rxAt = "read"
  /\ Len(rx_buf) = MAX_TEST_VECT_SIZE \/ (uartBuffer = << >> /\ txAt = "delay")
  /\ printed_once' = (rx_buf = tx_buff)
  /\ uartBuffer' = IF rx_buf = tx_buff THEN uartBuffer ELSE << >>
  /\ rxAt' = "wait" /\ rx_buf' = << >>
  /\ UNCHANGED <<txAt, txSent, loopback_queue, lostBytes>>

uart_rx_demo == StartReceiver \/ TakeVector \/ ReadByte \/ ReadEnds

UartNext == uart_tx_demo \/ uart_rx_demo

UartSpec == UartInit /\ [][UartNext]_uartVars

-----------------------------------------------------------------------------
(* Properties                                                               *)

\* Type invariant.
UartTypeOK ==
  /\ txAt \in {"delay", "write"} /\ txSent \in 0 .. MAX_TEST_VECT_SIZE
  /\ \A bytes \in {uartBuffer, rx_buf} :
       /\ Len(bytes) <= MAX_TEST_VECT_SIZE
       /\ \A i \in DOMAIN bytes : bytes[i] \in 1 .. MAX_TEST_VECT_SIZE
  /\ loopback_queue \in 0 .. QueueLength
  /\ rxAt \in {"start", "wait", "read"} /\ printed_once \in BOOLEAN
  /\ lostBytes \in 0 .. MaxLost
=============================================================================
