---------------------------- MODULE DeviceControl ----------------------------
(***************************************************************************)
(* examples/freertos/device_control: the host program (host/) sends one      *)
(* command with its values as bytes; on the device a servicer per tile,      *)
(* registered by that tile's start-up task, answers the commands for its     *)
(* resource.  The control library and the USB stack are outside src/: a      *)
(* command for a resource nobody has registered fails.                       *)
(***************************************************************************)
EXTENDS Integers, Sequences

CONSTANTS
  ByteBase,    \* the values of a byte
  WideBytes,   \* bytes of the widest type, which the arguments are read in
  commands,    \* the commands the program knows, by name
  Args,        \* the numbers given as arguments
  MaxPrograms  \* bound: times the host program is run

Tiles == {0, 1}
USB_TILE_NO == 0
ResourceOf(tile) == IF tile = 0 THEN 3 ELSE 51   \* 0x3 and 0x33

\* A command: its resource and number, its type (bytes, and if they are signed), which of
\* CMD_RO, CMD_WO and CMD_RW it is, and the number of its values.
ASSUME ControlAssumption ==
  /\ ByteBase \in Nat \ {0, 1} /\ WideBytes \in Nat \ {0} /\ Args \subseteq Int /\ MaxPrograms \in Nat
  /\ {"none", "unknown"} \cap DOMAIN commands = {}
  /\ \A n \in DOMAIN commands : LET c == commands[n] IN
       /\ c.resid \in Nat /\ c.cmd \in 0 .. 127 /\ c.bytes \in 1 .. WideBytes /\ c.signed \in BOOLEAN
       /\ c.rw \in {"CMD_RO", "CMD_WO", "CMD_RW"} /\ c.num_values \in Nat

VARIABLES
  tileAt,      \* where each tile's start-up task is
  usbUp, sync, \* the USB manager runs; the message to the other tile is sent
  program,     \* where the host program is, and how it was called
  request,     \* the request on its way: command, direction, bytes; or none
  shown,       \* the values the program has printed
  ret,         \* its result
  noted,       \* the bytes the servicer has put out or taken in last
  programs

controlVars == <<tileAt, usbUp, sync, program, request, shown, ret, noted, programs>>
device == <<tileAt, usbUp, sync>>

NoRequest == [dir |-> "none", resid |-> 0, cmd |-> 0, data |-> << >>]
Called(get, set, args) == [get |-> get, set |-> set, args |-> args]

ControlInit ==
  /\ tileAt = [t \in Tiles |-> "init"] /\ usbUp = FALSE /\ sync = FALSE
  /\ program = [at |-> "ended", call |-> Called("none", "none", << >>)]
  /\ request = NoRequest /\ shown = << >> /\ ret = "CONTROL_ERROR" /\ noted = << >>
  /\ programs = 0

-----------------------------------------------------------------------------
(* Values and bytes, the low one first                                      *)

\* The weights of a value's bytes.
Power[k \in Nat] == IF k = 0 THEN 1 ELSE ByteBase * Power[k - 1]

Lowest(c) == IF c.signed THEN -(Power[c.bytes] \div 2) ELSE 0
Highest(c) == IF c.signed THEN (Power[c.bytes] \div 2) - 1 ELSE Power[c.bytes] - 1

\* (Faulty variant: an argument out of range keeps its low bytes.)
ArgWrapped(c, arg) == ((arg - Lowest(c)) % Power[c.bytes]) + Lowest(c)

IsUint64(c) == c.bytes = WideBytes /\ ~ c.signed

\* The others are read as signed numbers of the widest type and clamped; an unsigned number of
\* that width is read as such, which counts a negative one from the other end.
strtoull(c, arg) == IF arg \in -Highest(c) .. Highest(c) THEN arg % Power[c.bytes] ELSE Highest(c)

command_arg_string_to_value(c, arg) ==
  IF IsUint64(c) THEN strtoull(c, arg)
  ELSE IF arg < Lowest(c) THEN Lowest(c) ELSE IF arg > Highest(c) THEN Highest(c) ELSE arg

\* The bytes of some values, value after value.
command_bytes_from_value(c, values) ==
  [i \in 1 .. c.bytes * Len(values) |->
     LET v == values[((i - 1) \div c.bytes) + 1]
     IN (v \div Power[(i - 1) % c.bytes]) % ByteBase]

command_bytes_to_value(c, data, index) ==
  LET digit[i \in 0 .. c.bytes] ==
        IF i = 0 THEN 0 ELSE digit[i - 1] + data[(index - 1) * c.bytes + i] * Power[i - 1]
      v == digit[c.bytes]
  IN IF v > Highest(c) THEN v - Power[c.bytes] ELSE v

-----------------------------------------------------------------------------
(* The device                                                               *)

\* The control library is initialised and then started for USB, the one transport built
\* in, on the tile with USB as its host and on the other as a client.  When either fails,
\* an assertion stops the tile before anything else is started on it.
app_control_init(t) ==
  /\ tileAt[t] = "init"
  /\ \E at \in {"start", "asserted"} : tileAt' = [tileAt EXCEPT ![t] = at]
  /\ UNCHANGED <<usbUp, sync, program, request, shown, ret, noted, programs>>

app_control_servicer_register(t) ==
  tileAt[t] = "register" /\ tileAt' = [tileAt EXCEPT ![t] = "serve"] /\ UNCHANGED <<usbUp, sync>>

\* startup_task up to its loop: the tile with USB starts it and tells the other one.
startup_task(t) ==
  /\ \/ tileAt[t] = "start" /\ t = USB_TILE_NO /\ usbUp' = TRUE
        /\ tileAt' = [tileAt EXCEPT ![t] = "send"] /\ UNCHANGED sync
     \/ tileAt[t] = "send" /\ sync' = TRUE
        /\ tileAt' = [tileAt EXCEPT ![t] = "register"] /\ UNCHANGED usbUp
     \/ tileAt[t] = "start" /\ t # USB_TILE_NO /\ sync
        /\ tileAt' = [tileAt EXCEPT ![t] = "register"] /\ UNCHANGED <<usbUp, sync>>
     \/ app_control_servicer_register(t)
  /\ UNCHANGED <<program, request, shown, ret, noted, programs>>

Answer(result, data) ==
  /\ request' = [NoRequest EXCEPT !.data = data]
  /\ program' = [program EXCEPT !.at = "answered"]
  /\ ret' = result
  /\ UNCHANGED <<device, shown, programs>>

\* A servicer's read_cmd fills the bytes asked for, write_cmd prints the bytes.
read_cmd(t) ==
  /\ request.dir = "read" /\ tileAt[t] = "serve" /\ request.resid = ResourceOf(t)
  /\ noted' = [i \in DOMAIN request.data |-> ((request.cmd % 128) + i - 1) % ByteBase]
  /\ Answer("CONTROL_SUCCESS", noted')

write_cmd(t) ==
  /\ request.dir = "write" /\ tileAt[t] = "serve" /\ request.resid = ResourceOf(t)
  /\ noted' = request.data
  /\ Answer("CONTROL_SUCCESS", << >>)

Refuse ==
  /\ request.dir # "none"
  /\ ~ \E t \in Tiles : tileAt[t] = "serve" /\ request.resid = ResourceOf(t)
  /\ UNCHANGED noted
  /\ Answer("CONTROL_ERROR", << >>)

-----------------------------------------------------------------------------
(* The host program                                                         *)

\* A call: the commands named by -g and -s, "unknown" among them, and the arguments.
Names == DOMAIN commands \cup {"none", "unknown"}

Call ==
  /\ program.at = "ended" /\ programs < MaxPrograms /\ programs' = programs + 1
  /\ \E get, set \in Names, n \in 0 .. 2 : \E args \in [1 .. n -> Args] :
       program' = [at |-> "connect", call |-> Called(get, set, args)]
  /\ ret' = "CONTROL_ERROR" /\ shown' = << >> /\ noted' = << >>
  /\ UNCHANGED <<device, request>>

\* A read-only command is not written, a write-only one not read.
command_xfer(dir, c, data) ==
  IF (dir = "read" /\ c.rw # "CMD_WO") \/ (dir = "write" /\ c.rw # "CMD_RO")
  THEN /\ request' = [dir |-> dir, resid |-> c.resid, cmd |-> c.cmd, data |-> data]
       /\ program' = [program EXCEPT !.at = "sent"] /\ UNCHANGED ret
  ELSE /\ ret' = "CONTROL_BAD_COMMAND" /\ program' = [program EXCEPT !.at = "answered"]
       /\ UNCHANGED request

\* main: either option, with a command that is known and the arguments it needs.
Gets(n) == program.call.get = n /\ program.call.set = "none" /\ program.call.args = << >>
Sets(n) ==
  /\ program.call.set = n /\ program.call.get = "none"
  /\ commands[n].num_values = Len(program.call.args)

SendCommand ==
  /\ program.at = "connect"
  /\ \/ \E n \in DOMAIN commands :
          LET c == commands[n]
              values == [i \in DOMAIN program.call.args |->
                           command_arg_string_to_value(c, program.call.args[i])]
          IN usbUp /\ \/ Gets(n) /\ command_xfer("read", c, [i \in 1 .. c.bytes * c.num_values |-> 0])
                      \/ Sets(n) /\ command_xfer("write", c, command_bytes_from_value(c, values))
     \/ /\ ~ usbUp \/ ~ \E n \in DOMAIN commands : Gets(n) \/ Sets(n)
        /\ program' = [program EXCEPT !.at = "ended"] /\ UNCHANGED <<request, ret>>
  /\ UNCHANGED <<device, shown, noted, programs>>

\* The rest of command_get and of main: values are printed, zeros if none came.
PrintValues ==
  /\ program.at = "answered"
  /\ \E n \in DOMAIN commands :
       \/ /\ Gets(n)
          /\ shown' = [i \in 1 .. commands[n].num_values |->
                         IF ret = "CONTROL_SUCCESS"
                         THEN command_bytes_to_value(commands[n], request.data, i) ELSE 0]
       \/ Sets(n) /\ UNCHANGED shown
  /\ program' = [program EXCEPT !.at = "ended"] /\ request' = NoRequest
  /\ UNCHANGED <<device, ret, noted, programs>>

ControlNext ==
  \/ \E t \in Tiles : app_control_init(t) \/ startup_task(t) \/ read_cmd(t) \/ write_cmd(t)
  \/ Refuse
  \/ Call \/ SendCommand \/ PrintValues

ControlSpec == ControlInit /\ [][ControlNext]_controlVars

-----------------------------------------------------------------------------
(* Properties                                                               *)

ControlTypeOK ==
  /\ tileAt \in [Tiles -> {"init", "asserted", "start", "send", "register", "serve"}]
  /\ usbUp \in BOOLEAN /\ sync \in BOOLEAN
  /\ program.at \in {"ended", "connect", "sent", "answered"}
  /\ request.dir \in {"none", "read", "write"}
  /\ ret \in {"CONTROL_SUCCESS", "CONTROL_ERROR", "CONTROL_BAD_COMMAND"}
  /\ \A bytes \in {request.data, noted} : \A i \in DOMAIN bytes : bytes[i] \in 0 .. ByteBase - 1
  /\ programs \in 0 .. MaxPrograms

Nearest(c, arg, v) ==
  /\ v \in Lowest(c) .. Highest(c)
  /\ \A w \in Lowest(c) .. Highest(c) : (arg - v) * (arg - v) <= (arg - w) * (arg - w)

\* What arrives for an argument: the nearest value of the type; for a negative one of the widest
\* unsigned type, its complement, or the highest value if it has none.
Arrived(c, arg, v) ==
  IF IsUint64(c) /\ arg < 0
  THEN v = (IF arg < -Highest(c) THEN Highest(c) ELSE Power[c.bytes] + arg)
  ELSE Nearest(c, arg, v)

\* A program that ends well has carried every value from one side to the other: what it
\* prints are the bytes the device gave, and the bytes the device got are the arguments
\* or, where one is out of its type's range, the nearest value of the type; but a negative
\* one becomes a large one where the type is 64 bits wide and unsigned.
ValuesArrive ==
  program.at = "ended" /\ ret = "CONTROL_SUCCESS" =>
    \A n \in DOMAIN commands :
      LET c == commands[n]
      IN /\ Gets(n) => noted = command_bytes_from_value(c, shown)
         /\ Sets(n) => /\ Len(noted) = c.bytes * c.num_values
                       /\ \A i \in 1 .. c.num_values :
                            Arrived(c, program.call.args[i], command_bytes_to_value(c, noted, i))
=============================================================================
