------------------------------ MODULE UsbtmcApp ------------------------------
(***************************************************************************)
(* examples/freertos/usb/tinyusb_demos/usbtmc: an instrument that echoes a   *)
(* message or answers *idn?.  The callbacks run in the USB task; an          *)
(* application task lets delays pass and transmits.  Outside src/ is         *)
(* TinyUSB: it takes a message or a request only after                       *)
(* tud_usbtmc_start_bus_read and carries one transmission at a time.  The    *)
(* host sends a message, reads its answer to the end, and may clear instead. *)
(***************************************************************************)
EXTENDS Integers, Sequences, SequencesExt

CONSTANTS
  BufferSize,    \* sizeof(buffer), in units of data
  PacketSize,    \* units in a packet
  IdnLength,     \* units of the answer to *idn?
  MaxMessages,   \* bound: messages the host sends
  MaxClears,     \* bound: times the host clears the device or aborts a transfer
  MaxTriggers    \* bound: triggers and status reads

ASSUME TmcAssumption ==
  /\ BufferSize \in Nat \ {0} /\ PacketSize \in 1 .. BufferSize /\ IdnLength \in Nat
  /\ MaxMessages \in Nat /\ MaxClears \in Nat /\ MaxTriggers \in Nat

VARIABLES
  queryState,    \* 0 none, 1 queried, 2 and 3 delays, 4 ready
  bulkInStarted, idnQuery, status,
  buffer, buffer_tx_ix, msgReqLen,
  tmcTask,       \* where the application task is
  busRead,       \* the endpoint for messages is armed
  bulkIn,        \* the transmission under way
  tmcHost,       \* "ready", "sending", "waiting" for an answer, "reading" it, "clearing", ...
                 \* "halted" when the endpoint for messages is
  message,       \* the host's last message: number, kind, length
  rest,          \* units of it still to be sent
  got,           \* what was received of the answer
  polite,        \* so far the host has not cleared, nor asked for an answer unprompted
  messages, clears, triggers

tmcVars == <<queryState, bulkInStarted, idnQuery, status, buffer, buffer_tx_ix, msgReqLen,
             tmcTask, busRead, bulkIn, tmcHost, message, rest, got, polite, messages, clears,
             triggers>>
query == <<queryState, bulkInStarted, idnQuery>>
stored == <<buffer, buffer_tx_ix>>
host == <<tmcHost, message, rest, got, polite, messages, clears, triggers>>

tud_usbtmc_app_capabilities ==
  [listenOnly |-> FALSE, talkOnly |-> FALSE, supportsIndicatorPulse |-> TRUE,
   canEndBulkInOnTermChar |-> FALSE, supportsTrigger |-> TRUE, supportsREN_GTL_LLO |-> FALSE,
   is488_2 |-> TRUE, SCPI |-> TRUE, SR1 |-> FALSE, RL1 |-> FALSE, DT1 |-> FALSE]
\* What a host is told; it sends nothing else.
tud_usbtmc_get_capabilities_cb == tud_usbtmc_app_capabilities

NoData == [data |-> << >>, eom |-> FALSE]
idn == [i \in 1 .. IdnLength |-> <<0, i>>]
Kinds == {"echo", "idn", "delay"}
\* The units of a message: its number and their place in it.
Text(m) == [i \in 1 .. m.length |-> <<m.number, i>>]

TmcInit ==
  /\ queryState = 0 /\ bulkInStarted = FALSE /\ idnQuery = FALSE /\ status = {}
  /\ buffer = << >> /\ buffer_tx_ix = 0 /\ msgReqLen = 0
  /\ tmcTask = "loop"
  /\ busRead = TRUE   \* tud_usbtmc_open_cb
  /\ bulkIn = NoData
  /\ tmcHost = "ready" /\ message = [number |-> 0, kind |-> "delay", length |-> 0]
  /\ rest = 0 /\ got = << >> /\ polite = TRUE
  /\ messages = 0 /\ clears = 0 /\ triggers = 0

-----------------------------------------------------------------------------
(* Messages                                                                 *)

\* (Faulty variant: the buffer may be filled to its end.)
BufferFitsFull(kept, len) == len + Len(kept) <= BufferSize

BufferFits(kept, len) == len + Len(kept) < BufferSize

\* The whole of what the data callback does with a packet of message m that leaves
\* `left` units: the stored part grows, and the last packet tells what is asked.
tud_usbtmc_msg_data_cb(m, start, len) ==
  LET kept == IF start = 0 THEN << >> ELSE buffer
      left == m.length - start - len
  IN IF BufferFits(kept, len)
     THEN /\ buffer' = kept \o SubSeq(Text(m), start + 1, start + len)
          /\ queryState' = IF left = 0 /\ m.kind # "delay" THEN 1 ELSE 0
          /\ idnQuery' = (left = 0 /\ m.kind = "idn")
          /\ busRead' = TRUE
          /\ rest' = left
          /\ tmcHost' = IF left # 0 THEN "sending"
                        ELSE IF m.kind = "delay" THEN "ready" ELSE "waiting"
     ELSE \* stalled, until the host clears the halt
          /\ buffer' = kept /\ busRead' = FALSE
          /\ rest' = 0 /\ tmcHost' = "halted"
          /\ UNCHANGED <<queryState, idnQuery>>

\* tud_usbtmc_msgBulkOut_start_cb: a message that is too long is refused as well.
tud_usbtmc_msgBulkOut_start_cb(m) ==
  IF m.length > BufferSize
  THEN /\ buffer' = << >> /\ busRead' = FALSE /\ tmcHost' = "halted"
       /\ UNCHANGED <<queryState, idnQuery, rest>>
  ELSE tud_usbtmc_msg_data_cb(m, 0, Min({m.length, PacketSize}))

\* The first packet.  A host that was told so leaves instruments that only talk alone.
SendMessage ==
  /\ tmcHost = "ready" /\ busRead /\ messages < MaxMessages
  /\ ~ tud_usbtmc_get_capabilities_cb.talkOnly
  /\ \E k \in Kinds, n \in 1 .. BufferSize + 1 :
       LET m == [number |-> messages + 1, kind |-> k, length |-> n]
       IN /\ message' = m
          /\ tud_usbtmc_msgBulkOut_start_cb(m)
  /\ messages' = messages + 1 /\ got' = << >>
  /\ UNCHANGED <<bulkInStarted, status, buffer_tx_ix, msgReqLen, tmcTask, bulkIn, polite,
                 clears, triggers>>

SendPacket ==
  /\ tmcHost = "sending" /\ busRead
  /\ tud_usbtmc_msg_data_cb(message, message.length - rest, Min({rest, PacketSize}))
  /\ UNCHANGED <<bulkInStarted, status, buffer_tx_ix, msgReqLen, tmcTask, bulkIn, message,
                 got, polite, messages, clears, triggers>>

-----------------------------------------------------------------------------
(* Answers                                                                  *)

\* (Faulty variant: the last part is not marked, or a full part is.)
PartSkewed(from, len) ==
  [data |-> SubSeq(buffer, from + 1, from + len), eom |-> from + len >= Len(buffer) - 1]

\* What tud_usbtmc_transmit_dev_msg_data sends of the buffer.
Part(from, len) ==
  [data |-> SubSeq(buffer, from + 1, from + len), eom |-> from + len = Len(buffer)]

\* A request for up to n units: noted, unless a started answer goes on at once.  One that
\* comes while another is noted fails an assertion and is not answered: bulkInStarted is
\* TRUE already, and no bus read is started.
tud_usbtmc_msgBulkIn_request_cb ==
  /\ tmcHost \in {"ready", "waiting"} /\ busRead
  /\ \E n \in 1 .. BufferSize :
       /\ msgReqLen' = n
       /\ IF queryState = 0 \/ buffer_tx_ix = 0
          THEN bulkInStarted' = TRUE /\ UNCHANGED <<bulkIn, buffer_tx_ix>>
          ELSE LET len == Min({Len(buffer) - buffer_tx_ix, n})
               IN /\ bulkIn' = Part(buffer_tx_ix, len)
                  /\ buffer_tx_ix' = buffer_tx_ix + len
                  /\ UNCHANGED bulkInStarted
  /\ busRead' = FALSE
  /\ tmcHost' = IF tmcHost = "waiting" THEN "reading" ELSE "asking"
  /\ polite' = (polite /\ tmcHost = "waiting")
  /\ UNCHANGED <<queryState, idnQuery, status, buffer, tmcTask, message, rest, got, messages,
                 clears, triggers>>

\* (Faulty variant: the next request is awaited only behind the end of an answer.)
CompleteReadAtEnd ==
  /\ bulkIn # NoData
  /\ IF buffer_tx_ix = Len(buffer) \/ idnQuery
     THEN /\ status' = status \ {"MAV"} /\ busRead' = TRUE
          /\ queryState' = 0 /\ bulkInStarted' = FALSE /\ buffer_tx_ix' = 0
     ELSE UNCHANGED <<status, busRead, queryState, bulkInStarted, buffer_tx_ix>>
  /\ got' = got \o bulkIn.data
  /\ tmcHost' = IF bulkIn.eom THEN "ready" ELSE "waiting"
  /\ bulkIn' = NoData
  /\ UNCHANGED <<idnQuery, buffer, msgReqLen, tmcTask, message, rest, polite, messages,
                 clears, triggers>>

\* The host has a part of the answer.
tud_usbtmc_msgBulkIn_complete_cb ==
  /\ bulkIn # NoData
  /\ IF buffer_tx_ix = Len(buffer) \/ idnQuery
     THEN /\ status' = status \ {"MAV"}
          /\ queryState' = 0 /\ bulkInStarted' = FALSE /\ buffer_tx_ix' = 0
     ELSE UNCHANGED <<status, queryState, bulkInStarted, buffer_tx_ix>>
  /\ busRead' = TRUE
  /\ got' = got \o bulkIn.data
  /\ tmcHost' = IF bulkIn.eom THEN "ready" ELSE "waiting"
  /\ bulkIn' = NoData
  /\ UNCHANGED <<idnQuery, buffer, msgReqLen, tmcTask, message, rest, polite, messages,
                 clears, triggers>>

-----------------------------------------------------------------------------
(* usbtmc_app_task_iter.  Its two updates of status set both bits, so what they *)
(* may overwrite of the USB task's updates is what they set.                    *)

Answerable == queryState' = 3 /\ status' = status \cup {"MAV", "SRQ"} /\ tmcTask' = "delay 3"

StartIteration ==
  /\ tmcTask = "loop" /\ queryState # 0
  /\ \/ queryState = 1 /\ queryState' = 2 /\ tmcTask' = "delay 1" /\ UNCHANGED status
     \/ queryState = 2 /\ Answerable
     \/ queryState = 3 /\ tmcTask' = "delay 3" /\ UNCHANGED <<queryState, status>>
     \/ queryState = 4 /\ tmcTask' = "transmit" /\ UNCHANGED <<queryState, status>>
  /\ UNCHANGED <<bulkInStarted, idnQuery, stored, msgReqLen, busRead, bulkIn, host>>

\* The delays fall through whatever became of queryState meanwhile.
FirstDelay ==
  /\ tmcTask = "delay 1" /\ Answerable
  /\ UNCHANGED <<bulkInStarted, idnQuery, stored, msgReqLen, busRead, bulkIn, host>>

SecondDelay ==
  /\ tmcTask = "delay 3"
  /\ queryState' = 4 /\ tmcTask' = "transmit"
  /\ UNCHANGED <<bulkInStarted, idnQuery, status, stored, msgReqLen, busRead, bulkIn, host>>

\* Of the answer to *idn? no more than one request asks for is ever sent.
Transmit ==
  /\ tmcTask = "transmit"
  /\ IF bulkInStarted /\ buffer_tx_ix = 0
     THEN IF idnQuery
          THEN /\ bulkIn' = [data |-> SubSeq(idn, 1, Min({Len(idn), msgReqLen})), eom |-> TRUE]
               /\ tmcTask' = "sent idn" /\ UNCHANGED buffer_tx_ix
          ELSE /\ buffer_tx_ix' = Min({Len(buffer), msgReqLen})
               /\ bulkIn' = Part(0, buffer_tx_ix')
               /\ tmcTask' = "loop"
     ELSE tmcTask' = "loop" /\ UNCHANGED <<bulkIn, buffer_tx_ix>>
  /\ UNCHANGED <<query, status, buffer, msgReqLen, busRead, host>>

\* After *idn? the task ends the query itself, in two assignments.
EndIdnQuery ==
  /\ \/ /\ tmcTask = "sent idn" /\ tmcTask' = "idn ended"
        /\ queryState' = 0 /\ UNCHANGED bulkInStarted
     \/ /\ tmcTask = "idn ended" /\ tmcTask' = "loop"
        /\ bulkInStarted' = FALSE /\ UNCHANGED queryState
  /\ UNCHANGED <<idnQuery, status, stored, msgReqLen, busRead, bulkIn, host>>

usbtmc_app_task_iter ==
  StartIteration \/ FirstDelay \/ SecondDelay \/ Transmit \/ EndIdnQuery

-----------------------------------------------------------------------------
(* Control requests                                                         *)

\* The device drops what is under way; the host then asks whether that is done.
tud_usbtmc_initiate_clear_cb ==
  /\ tmcHost \notin {"clearing", "aborting", "halted"} /\ clears < MaxClears
  /\ queryState' = 0 /\ bulkInStarted' = FALSE /\ status' = {}
  /\ bulkIn' = NoData /\ busRead' = FALSE
  /\ tmcHost' = "clearing" /\ rest' = 0 /\ got' = << >>
  /\ clears' = clears + 1 /\ polite' = FALSE
  /\ UNCHANGED <<idnQuery, stored, msgReqLen, tmcTask, message, messages, triggers>>

\* The host then clears the halt of the endpoint.
tud_usbtmc_check_clear_cb ==
  /\ tmcHost = "clearing"
  /\ queryState' = 0 /\ bulkInStarted' = FALSE /\ status' = {}
  /\ buffer' = << >> /\ buffer_tx_ix' = 0
  /\ bulkIn' = NoData
  /\ tmcHost' = "halted"
  /\ UNCHANGED <<busRead, idnQuery, msgReqLen, tmcTask, message, rest, got, polite, messages, clears,
                 triggers>>

\* A halt is cleared; the callback arms the endpoint again.
tud_usbtmc_bulkOut_clearFeature_cb ==
  /\ tmcHost = "halted"
  /\ busRead' = TRUE /\ tmcHost' = "ready"
  /\ UNCHANGED <<query, status, stored, msgReqLen, tmcTask, bulkIn, message, rest, got,
                 polite, messages, clears, triggers>>

\* The host gives up an answer or the rest of a message, and asks whether that is done.
tud_usbtmc_initiate_abort_bulk_in_cb ==
  /\ tmcHost \in {"asking", "reading"} /\ clears < MaxClears
  /\ bulkInStarted' = FALSE
  /\ bulkIn' = NoData /\ tmcHost' = "aborting"
  /\ clears' = clears + 1 /\ polite' = FALSE
  /\ UNCHANGED <<queryState, idnQuery, status, stored, msgReqLen, tmcTask, busRead, message,
                 rest, got, messages, triggers>>

tud_usbtmc_initiate_abort_bulk_out_cb ==
  /\ tmcHost = "sending" /\ clears < MaxClears
  /\ tmcHost' = "aborting" /\ rest' = 0
  /\ clears' = clears + 1 /\ polite' = FALSE
  /\ UNCHANGED <<query, status, stored, msgReqLen, tmcTask, busRead, bulkIn, message, got,
                 messages, triggers>>

\* tud_usbtmc_check_abort_bulk_in_cb and tud_usbtmc_check_abort_bulk_out_cb
CheckAbort ==
  /\ tmcHost = "aborting"
  /\ busRead' = TRUE /\ tmcHost' = "ready"
  /\ UNCHANGED <<query, status, stored, msgReqLen, tmcTask, bulkIn, message, rest, got,
                 polite, messages, clears, triggers>>

tud_usbtmc_msg_trigger_cb ==
  /\ triggers < MaxTriggers /\ triggers' = triggers + 1
  /\ tud_usbtmc_get_capabilities_cb.supportsTrigger
  /\ tmcHost = "ready" /\ busRead
  /\ status' = status \cup {"SRQ"}
  /\ UNCHANGED <<query, stored, msgReqLen, tmcTask, busRead, bulkIn, tmcHost, message, rest,
                 got, polite, messages, clears>>

tud_usbtmc_get_stb_cb ==
  /\ triggers < MaxTriggers /\ triggers' = triggers + 1
  /\ status' = status \ {"SRQ"}
  /\ UNCHANGED <<query, stored, msgReqLen, tmcTask, busRead, bulkIn, tmcHost, message, rest,
                 got, polite, messages, clears>>

TmcNext ==
  \/ SendMessage \/ SendPacket
  \/ tud_usbtmc_msgBulkIn_request_cb \/ tud_usbtmc_msgBulkIn_complete_cb
  \/ usbtmc_app_task_iter
  \/ tud_usbtmc_initiate_clear_cb \/ tud_usbtmc_check_clear_cb
  \/ tud_usbtmc_bulkOut_clearFeature_cb
  \/ tud_usbtmc_initiate_abort_bulk_in_cb \/ tud_usbtmc_initiate_abort_bulk_out_cb \/ CheckAbort
  \/ tud_usbtmc_msg_trigger_cb \/ tud_usbtmc_get_stb_cb

\* The task runs, transfers complete, and the host finishes its message and reads on.
TmcFairness ==
  /\ WF_tmcVars(usbtmc_app_task_iter)
  /\ WF_tmcVars(SendPacket)
  /\ WF_tmcVars(tmcHost = "waiting" /\ tud_usbtmc_msgBulkIn_request_cb)
  /\ WF_tmcVars(tud_usbtmc_msgBulkIn_complete_cb)

TmcSpec == TmcInit /\ [][TmcNext]_tmcVars /\ TmcFairness

-----------------------------------------------------------------------------
(* Properties                                                               *)

TmcTypeOK ==
  /\ queryState \in 0 .. 4 /\ bulkInStarted \in BOOLEAN /\ idnQuery \in BOOLEAN
  /\ status \subseteq {"MAV", "SRQ"}
  /\ Len(buffer) < BufferSize /\ buffer_tx_ix \in 0 .. BufferSize
  /\ msgReqLen \in 0 .. BufferSize
  /\ tmcTask \in {"loop", "delay 1", "delay 3", "transmit", "sent idn", "idn ended"}
  /\ busRead \in BOOLEAN /\ bulkIn.eom \in BOOLEAN
  /\ tmcHost \in {"ready", "sending", "waiting", "asking", "reading", "clearing", "aborting",
                  "halted"}
  /\ message.kind \in Kinds /\ message.length \in 0 .. BufferSize + 1
  /\ rest \in 0 .. BufferSize /\ polite \in BOOLEAN
  /\ messages \in 0 .. MaxMessages /\ clears \in 0 .. MaxClears /\ triggers \in 0 .. MaxTriggers

\* The answer expected to the host's last message.
Expected == IF message.kind = "idn" THEN idn ELSE Text(message)

\* While the host is polite: what it has received and what is under way is the beginning
\* of the answer to its last message, in order and without a gap.  The end is marked when the
\* answer is complete and never before, but for *idn?: asked for less, the host is told
\* that this was all.
AnswerWhole ==
  polite /\ bulkIn # NoData =>
    LET received == got \o bulkIn.data
    IN /\ tmcHost = "reading"
       /\ IsPrefix(received, Expected)
       /\ received = Expected => bulkIn.eom
       /\ bulkIn.eom => received = Expected \/ (message.kind = "idn" /\ Len(received) = msgReqLen)

\* While the host is polite and nobody asks *idn?, every question is answered to its end.
EchoAnswered ==
  [](message.kind # "idn" /\ polite) => (tmcHost = "waiting" ~> tmcHost = "ready")
=============================================================================
