------------------------------ MODULE SerialEcho ------------------------------
(***************************************************************************)
(* The serial demos of examples/freertos/usb/tinyusb_demos.  webusb_serial   *)
(* has a task for its CDC port and one for its web port, and each echoes     *)
(* what it reads to both; the one task of cdc_dual_ports echoes either port  *)
(* to both, in lower and in upper case; the task of cdc_msc echoes its port  *)
(* to itself.  The FIFOs of the ports are TinyUSB's: what is written to a    *)
(* full one is lost.                                                         *)
(***************************************************************************)
EXTENDS Integers, Sequences

CONSTANTS
  EchoDemos,   \* the demos that may be flashed
  Chars,       \* characters typed: "A", "a" and "CR"
  Chunk,       \* sizeof(buf), characters read at a time
  FifoSize,    \* CFG_TUD_CDC_TX_BUFSIZE and CFG_TUD_VENDOR_TX_BUFSIZE
  MaxTyped,    \* bound: characters typed
  MaxConnects  \* bound: times a terminal connects or disconnects

ASSUME EchoAssumption ==
  /\ EchoDemos \subseteq {"web", "dual", "single"} /\ Chars \subseteq {"A", "a", "CR"}
  /\ Chunk \in Nat \ {0} /\ FifoSize \in Nat \ {0} /\ MaxTyped \in Nat
  /\ MaxConnects \in Nat

VARIABLES
  echoDemo,
  web_serial_connected,
  cdc_connected, \* tud_cdc_connected: a terminal holds the CDC port's DTR line
  typed,        \* for each port, how many characters were typed there
  input,        \* for each port, the characters to be read
  echo,         \* for each task, what it still has to write to each port of what it read
  output,       \* for each port, what is to be sent to the host
  shown,        \* the characters of either port that each port showed
  patient,      \* the host listened all along and never typed more than the echo of which fits
  connects

echoVars == <<echoDemo, web_serial_connected, cdc_connected, typed, input, echo, output,
              shown, patient, connects>>

Ports == {"first", "second"}   \* of webusb_serial: the CDC port and the web port
Char(port, n, c) == [from |-> port, n |-> n, char |-> c]
Banner == Char("device", 0, "banner")
NoChars == [p \in Ports |-> << >>]

EchoInit ==
  /\ echoDemo \in EchoDemos
  /\ web_serial_connected = FALSE /\ cdc_connected = FALSE /\ connects = 0
  /\ typed = [p \in Ports |-> 0] /\ input = NoChars
  /\ echo = [p \in Ports |-> NoChars]
  /\ output = NoChars
  /\ shown = [p \in Ports |-> {}]
  /\ patient = TRUE

-----------------------------------------------------------------------------
(* What is written for a chunk                                              *)

isupper(c) == c.char = "A"
islower(c) == c.char = "a"

\* echo_serial_port: lower case at the first port, upper case at the second
InCase(c, port) ==
  IF isupper(c) /\ port = "first" THEN [c EXCEPT !.char = "a"]
  ELSE IF islower(c) /\ port = "second" THEN [c EXCEPT !.char = "A"]
  ELSE c

\* echo_all of webusb_serial: to the web port, then to the CDC port.  Whether a terminal is
\* connected there is looked at when the web port was written to.
echo_all(chars) ==
  [p \in Ports |-> IF web_serial_connected \/ (p = "first" /\ cdc_connected) THEN chars ELSE << >>]

echo_serial_port(port, chars) == [i \in DOMAIN chars |-> InCase(chars[i], port)]

\* What is to be written to each port of some characters read.
Writes(chars) ==
  CASE echoDemo = "web" -> echo_all(chars)
    [] echoDemo = "dual" -> [p \in Ports |-> echo_serial_port(p, chars)]
    [] echoDemo = "single" -> [p \in Ports |-> IF p = "first" THEN chars ELSE << >>]

-----------------------------------------------------------------------------
(* The tasks                                                                *)

\* The task that reads a port: webusb_serial has one for each.
TaskOf(port) == IF echoDemo = "web" THEN port ELSE "first"

\* The port the task writes to next: webusb_serial begins with its web port.
Turn(task) ==
  LET begins == IF echoDemo = "web" THEN "second" ELSE "first"
  IN IF echo[task][begins] # << >> THEN begins ELSE CHOOSE p \in Ports : p # begins

\* What there is is read, up to the size of the buffer.
Count(port) == IF Len(input[port]) <= Chunk THEN Len(input[port]) ELSE Chunk
ReadInto(port) ==
  /\ input[port] # << >>
  /\ echoDemo = "web" /\ port = "second" => web_serial_connected
  /\ input' = [input EXCEPT ![port] = SubSeq(@, Count(port) + 1, Len(@))]
  /\ echo' = [echo EXCEPT ![TaskOf(port)] = Writes(SubSeq(input[port], 1, Count(port)))]
  /\ UNCHANGED <<echoDemo, web_serial_connected, cdc_connected, typed, output, shown, patient, connects>>

\* (Faulty variant: the buffer is read into again while it is echoed.)
ReadOn(port) == ReadInto(port)

\* A task reads a chunk when it has echoed the last one.
ReadChunk(port) == echo[TaskOf(port)] = NoChars /\ ReadInto(port)

\* A write takes what fits, the rest is lost.
Put(port, chars) ==
  LET room == FifoSize - Len(output[port])
  IN output' = [output EXCEPT ![port] = @ \o SubSeq(chars, 1, IF Len(chars) <= room
                                                            THEN Len(chars) ELSE room)]

\* The chunk at once: to the web port, and then to the CDC port if that is connected; or by cdc_msc.
WriteChunk(task) ==
  LET port == Turn(task)
      next == IF echoDemo = "web" /\ cdc_connected THEN echo[task]["first"] ELSE << >>
  IN /\ echo[task][port] # << >>
     /\ (echoDemo = "web" /\ port = "second") \/ echoDemo = "single"
     /\ Put(port, echo[task][port])
     /\ echo' = [echo EXCEPT ![task] = [NoChars EXCEPT !["first"] = next]]
  /\ UNCHANGED <<echoDemo, web_serial_connected, cdc_connected, typed, input, shown, patient, connects>>

\* A character; webusb_serial writes a line feed behind a return.
WriteChar(task) ==
  LET port == Turn(task)
      chars == echo[task][port]
  IN /\ chars # << >>
     /\ (echoDemo = "web" /\ port = "first") \/ echoDemo = "dual"
     /\ Put(port, <<chars[1]>>)
     /\ echo' = [echo EXCEPT ![task] = [@ EXCEPT ![port] =
                   IF echoDemo = "web" /\ chars[1].char = "CR"
                   THEN [chars EXCEPT ![1] = [@ EXCEPT !.char = "LF"]] ELSE Tail(chars)]]
  /\ UNCHANGED <<echoDemo, web_serial_connected, cdc_connected, typed, input, shown, patient, connects>>

-----------------------------------------------------------------------------
(* The host                                                                 *)

\* The ports that everything typed is echoed to.
Echoing == IF echoDemo = "dual" THEN Ports ELSE {"first"}

\* The places that what was typed may still need at a port, a return counted as two.
Pending(port) ==
  2 * (Len(input["first"]) + Len(input["second"])
         + Len(echo["first"][port]) + Len(echo["second"][port])) + Len(output[port])

Type(port, c) ==
  /\ echoDemo = "single" => port = "first"
  /\ typed["first"] + typed["second"] < MaxTyped
  /\ typed' = [typed EXCEPT ![port] = @ + 1]
  /\ input' = [input EXCEPT ![port] = Append(@, Char(port, typed[port] + 1, c))]
  /\ patient' = (/\ patient /\ (echoDemo = "web" => cdc_connected)
                 /\ \A p \in Echoing : Pending(p) + 2 <= FifoSize)
  /\ UNCHANGED <<echoDemo, web_serial_connected, cdc_connected, echo, output, shown, connects>>

\* The host takes what the FIFO holds.
Show(port) ==
  /\ output[port] # << >>
  /\ shown' = [shown EXCEPT ![port] =
       @ \cup { output[port][i] : i \in { j \in DOMAIN output[port] : output[port][j].from \in Ports } }]
  /\ output' = [output EXCEPT ![port] = << >>]
  /\ UNCHANGED <<echoDemo, web_serial_connected, cdc_connected, typed, input, echo, patient, connects>>

\* tud_vendor_control_xfer_cb: a terminal page connects to the web port, with a banner,
\* or disconnects; it may say so again.  (What it does to the LED: ConnectPage of UsbEnumeration.)
tud_vendor_control_xfer_cb ==
  /\ echoDemo = "web" /\ connects < MaxConnects /\ connects' = connects + 1
  /\ web_serial_connected' \in BOOLEAN
  /\ IF web_serial_connected' THEN Put("second", <<Banner>>) ELSE UNCHANGED output
  /\ UNCHANGED <<echoDemo, cdc_connected, typed, input, echo, shown, patient>>

\* tud_cdc_line_state_cb: a terminal sets the lines of the CDC port; with both it gets a
\* banner.  A patient one connects once, and changes nothing more.
tud_cdc_line_state_cb(dtr, rts) ==
  /\ echoDemo = "web" /\ connects < MaxConnects /\ connects' = connects + 1
  /\ cdc_connected' = dtr
  /\ IF dtr /\ rts THEN Put("first", <<Banner>>) ELSE UNCHANGED output
  /\ patient' = (patient /\ dtr /\ ~ cdc_connected)
  /\ UNCHANGED <<echoDemo, web_serial_connected, typed, input, echo, shown>>

EchoNext ==
  \/ \E p \in Ports : ReadChunk(p) \/ WriteChunk(p) \/ WriteChar(p) \/ Show(p)
  \/ \E p \in Ports, c \in Chars : Type(p, c)
  \/ tud_vendor_control_xfer_cb \/ \E dtr, rts \in BOOLEAN : tud_cdc_line_state_cb(dtr, rts)

EchoSpec == EchoInit /\ [][EchoNext]_echoVars

-----------------------------------------------------------------------------
(* Properties                                                               *)

Characters ==
  [from : Ports \cup {"device"}, n : 0 .. MaxTyped, char : {"A", "a", "CR", "LF", "banner"}]

EchoTypeOK ==
  /\ echoDemo \in EchoDemos /\ web_serial_connected \in BOOLEAN /\ cdc_connected \in BOOLEAN
  /\ typed \in [Ports -> 0 .. MaxTyped] /\ connects \in 0 .. MaxConnects
  /\ input \in [Ports -> Seq(Characters)] /\ echo \in [Ports -> [Ports -> Seq(Characters)]]
  /\ output \in [Ports -> Seq(Characters)] /\ \A p \in Ports : Len(output[p]) <= FifoSize
  /\ shown \in [Ports -> SUBSET Characters]
  /\ patient \in BOOLEAN

\* One character has to come before another of the same port.
Precedes(x, y) ==
  x.from = y.from /\ x.from \in Ports =>
    x.n < y.n \/ (x.n = y.n /\ x.char = "CR" /\ y.char = "LF")

\* However the two tasks write between one another, a port shows what was typed at a port
\* in the order it was typed, nothing twice, and a line feed only behind its return.
EchoInOrder ==
  \A p \in Ports : \A i \in DOMAIN output[p] :
    /\ \A x \in shown[p] : Precedes(x, output[p][i])
    /\ \A j \in DOMAIN output[p] : i < j => Precedes(output[p][i], output[p][j])

\* What a patient host typed is all shown at the first port once nothing is under way, and
\* by cdc_dual_ports at the second too.
EchoComplete ==
  patient /\ input = NoChars /\ echo = [p \in Ports |-> NoChars] /\ output = NoChars =>
    \A p \in Echoing, q \in Ports : \A n \in 1 .. typed[q] :
      \E x \in shown[p] : x.from = q /\ x.n = n /\ x.char # "LF"

\* Two tasks that share two ports still echo faithfully: nothing doubled or out of order,
\* and nothing lost as long as the host does not type more than the FIFOs hold.
EchoFaithful == EchoInOrder /\ EchoComplete
=============================================================================
