---------------------------- MODULE UsbEnumeration ----------------------------
(***************************************************************************)
(* A host enumerates boards that run the USB firmwares, one at a time: it    *)
(* reads the descriptors in the order every host does, keeps a driver for a  *)
(* vendor and product id, sets the configuration, and suspends and resumes   *)
(* the bus.  The USB task is started before the demo's timer and tasks are   *)
(* made, one by one, so that the first bus event may come first.             *)
(***************************************************************************)
EXTENDS UsbDescriptors, FiniteSets
LOCAL INSTANCE SequencesExt

CONSTANTS Plugged,      \* the firmwares that may be plugged in
          MaxPlugs, MaxSuspends

ASSUME EnumAssumption ==
  Plugged \subseteq DOMAIN firmware /\ MaxPlugs \in Nat /\ MaxSuspends \in Nat

VARIABLES
  board,       \* the firmware plugged in, "none" when there is none
  speed,       \* of the link: tud_speed_get()
  stage,       \* what the host asks for next
  unread,      \* the strings the host has yet to read
  drivers,     \* the host's saved drivers: vendor and product id -> classes
  suspended,
  made,        \* how far the start-up task has come
  stopped,     \* an assertion stopped the firmware
  early,       \* a bus event came before the LED's timer or task
  led_val,
  blink_interval_ms,
  timer,       \* the period of the LED's timer, where the demo has one
  using,       \* what the host uses the function for, where that changes the LED's pattern
  renewed,     \* the bus was configured or resumed since
  plugs, suspends

enumVars == <<board, speed, stage, unread, drivers, suspended, made, stopped, early, led_val, blink_interval_ms, timer, using, renewed, plugs, suspends>>
busVars == <<suspended, made, stopped, early, led_val, blink_interval_ms, timer, using, renewed, plugs, suspends>>

Stages == {"device", "qualifier", "configuration", "strings", "set", "configured", "refused"}
NOT_MOUNTED == 250
MOUNTED == 1000
SUSPENDED == 2500
PULSE == 750
STREAMING == 25
\* UINT32_MAX milliseconds, whose ticks are counted modulo 2^32: more than an hour.
ALWAYS_ON == 4294966
\* No interval: the task that would wait for one stops the firmware (vTaskDelayUntil).
NO_BLINK == 0
\* The patterns of what a host may use a function for.
Pattern == [streaming |-> STREAMING, connected |-> ALWAYS_ON, capslock |-> NO_BLINK, pulse |-> PULSE]
Periods == {NOT_MOUNTED, MOUNTED, SUSPENDED, PULSE, STREAMING, ALWAYS_ON, NO_BLINK}

dev == firmware[board]
\* (Faulty variant: the configuration for full speed is not given.)
FunctionsHigh == dev.configuration["high"]

\* The configuration a device gives, by the speed of the link.
functions == dev.configuration[speed]
\* The endpoints its class drivers open.
opened == [i \in DOMAIN functions |-> functions[i].endpoints]
Id(b) == <<firmware[b].vid, firmware[b].pid>>
Classes(b) == [i \in DOMAIN firmware[b].configuration["high"] |->
                 firmware[b].configuration["high"][i].class]

EnumInit ==
  /\ board = "none" /\ speed = "high" /\ stage = "device"
  /\ unread = {} /\ drivers = <<>>
  /\ suspended = FALSE /\ made = 0 /\ stopped = FALSE /\ early = FALSE /\ led_val = 0
  /\ blink_interval_ms = NOT_MOUNTED /\ timer = NOT_MOUNTED /\ using = "nothing" /\ renewed = FALSE
  /\ plugs = 0 /\ suspends = 0

Plug(b, s) ==
  /\ board = "none" /\ plugs < MaxPlugs
  /\ board' = b /\ speed' = s /\ stage' = "device" /\ unread' = {}
  /\ suspended' = FALSE /\ made' = 0 /\ stopped' = FALSE /\ early' = FALSE /\ led_val' = 0
  /\ blink_interval_ms' = NOT_MOUNTED /\ timer' = NOT_MOUNTED /\ using' = "nothing" /\ renewed' = FALSE
  /\ plugs' = plugs + 1 /\ suspends' = 0
  /\ UNCHANGED drivers

Unplug ==
  /\ board # "none"
  /\ board' = "none" /\ stage' = "device" /\ unread' = {}
  /\ UNCHANGED <<speed, drivers, busVars>>

-----------------------------------------------------------------------------
(* Start-up: the USB task first, then what the demo is made of, in its order. *)

Making == <<"usb">> \o dev.makes
Has(object) == \E i \in 1 .. made : Making[i] = object
HasLed == Has("timer") \/ Has("blinker")
Running == board # "none" /\ ~stopped /\ Has("usb")

\* The interval of an LED task is set once more before it is made; the timer gets what the
\* variable holds.
startup_task ==
  /\ board # "none" /\ ~stopped /\ made < Len(Making)
  /\ made' = made + 1
  /\ blink_interval_ms' = IF Making[made'] = "blinker" THEN NOT_MOUNTED ELSE blink_interval_ms
  /\ timer' = IF Making[made'] = "timer" THEN blink_interval_ms ELSE timer
  /\ UNCHANGED <<board, speed, stage, unread, drivers, suspended, stopped, early, led_val, using,
                 renewed, plugs, suspends>>

-----------------------------------------------------------------------------
(* The descriptors.                                                         *)

Asked(s) == Running /\ ~suspended /\ stage = s

tud_descriptor_device_cb ==
  /\ Asked("device")
  /\ unread' = {1, 2, 3} /\ stage' = "qualifier"
  /\ UNCHANGED <<board, speed, drivers, busVars>>

\* Only a device with a configuration for the other speed has one; the host goes on either way.
tud_descriptor_device_qualifier_cb ==
  /\ Asked("qualifier") /\ stage' = "configuration"
  /\ UNCHANGED <<board, speed, unread, drivers, busVars>>

tud_descriptor_configuration_cb ==
  /\ Asked("configuration")
  /\ unread' = unread \cup UNION { functions[i].strings : i \in DOMAIN functions }
  /\ stage' = "strings"
  /\ UNCHANGED <<board, speed, drivers, busVars>>

\* (Faulty variant: the last string of the table is taken to be beyond it.)
AnsweredBelow(index) == index < dev.strings

\* An index beyond the table is refused.
Answered(index) == index <= dev.strings

tud_descriptor_string_cb ==
  /\ Asked("strings")
  /\ IF unread = {} THEN stage' = "set" /\ UNCHANGED unread
     ELSE \E index \in unread :
            /\ \A i \in unread : index <= i
            /\ unread' = unread \ {index}
            /\ stage' = IF Answered(index) THEN stage ELSE "refused"
  /\ UNCHANGED <<board, speed, drivers, busVars>>

\* The host loads the driver it saved for this id, or one for the classes it has just read.
LoadDriver ==
  drivers' = IF Id(board) \in DOMAIN drivers THEN drivers
             ELSE [id \in DOMAIN drivers \cup {Id(board)} |->
                     IF id \in DOMAIN drivers THEN drivers[id] ELSE Classes(board)]

-----------------------------------------------------------------------------
(* The LED follows the bus.                                                 *)

\* (Faulty variant: the callback sets the interval and leaves the timer as it is.)
BlinkVariable(p) ==
  /\ early' = (early \/ ~HasLed)
  /\ UNCHANGED <<stopped, timer>>
  /\ blink_interval_ms' = p

\* A callback that sets the pattern; it may come before the timer is there.
Blink(p) ==
  /\ early' = (early \/ ~HasLed)
  /\ stopped' = (dev.blinks = "timer" /\ ~Has("timer"))
  /\ timer' = IF dev.blinks \in {"timer", "guarded"} /\ Has("timer") THEN p ELSE timer
  /\ blink_interval_ms' = IF dev.blinks \in {"task", "unread"} THEN p ELSE blink_interval_ms

\* What the LED shows.
Period == IF dev.blinks = "task" THEN blink_interval_ms ELSE timer

\* The timer or the task of the LED toggles it, through a GPIO handle that must be there; the
\* task then waits for its interval, and an assertion refuses to wait for none.
led_blinky_cb ==
  /\ Running /\ HasLed
  /\ stopped' = (~Has("led") \/ Period = NO_BLINK) /\ led_val' = 1 - led_val
  /\ UNCHANGED <<board, speed, stage, unread, drivers, suspended, made, early,
                 blink_interval_ms, timer, using, renewed, plugs, suspends>>

\* Is there a class driver with an instance left for function i?
Served(i) ==
  LET same == { j \in 1..i : functions[j].class = functions[i].class } IN
  Cardinality(same) <= Instances(dev.classes, functions[i].class)

\* SET_CONFIGURATION: TinyUSB asserts that each interface finds its driver, which opens the
\* endpoints; then the device is mounted.
mount_cb ==
  /\ Asked("set")
  /\ LoadDriver
  /\ IF \A i \in DOMAIN functions : Served(i)
     THEN /\ stage' = "configured" /\ renewed' = TRUE
          /\ Blink(MOUNTED)
     ELSE stage' = "refused" /\ UNCHANGED <<stopped, early, blink_interval_ms, timer, renewed>>
  /\ UNCHANGED <<board, speed, unread, suspended, made, led_val, using, plugs, suspends>>

\* The cable is pulled while the board has power of its own, and plugged in again; the class
\* driver closes a stream.
umount_cb ==
  /\ Running /\ suspends < MaxSuspends
  /\ stage # "device" /\ stage' = "device" /\ unread' = {} /\ suspended' = FALSE
  /\ suspends' = suspends + 1
  /\ using' = IF using = "streaming" THEN "nothing" ELSE using
  /\ Blink(NOT_MOUNTED)
  /\ \E s \in Speeds : speed' = s
  /\ UNCHANGED <<board, drivers, made, led_val, renewed, plugs>>

suspend_cb ==
  /\ Running /\ ~suspended /\ suspends < MaxSuspends
  /\ suspended' = TRUE /\ suspends' = suspends + 1
  /\ Blink(SUSPENDED)
  /\ UNCHANGED <<board, speed, stage, unread, drivers, made, led_val, using, renewed, plugs>>

resume_cb ==
  /\ Running /\ suspended
  /\ suspended' = FALSE /\ renewed' = TRUE
  /\ Blink(MOUNTED)
  /\ UNCHANGED <<board, speed, stage, unread, drivers, made, led_val, using, plugs, suspends>>

-----------------------------------------------------------------------------
(* What a host asks of a configured function changes the pattern of some.    *)

\* xTimerChangePeriod, of a timer that must be there.
ChangePeriod(p) == stopped' = ~Has("timer") /\ timer' = p /\ UNCHANGED blink_interval_ms

Uses(what) == using' = what /\ renewed' = FALSE
notAsked == <<board, speed, stage, unread, drivers, suspended, made, early, plugs, suspends>>

\* The LED is forced on and its timer told to go on at another pace.
led_indicator_pulse ==
  /\ ChangePeriod(PULSE) /\ led_val' = 1

\* A host that finds an instrument asks it to show itself; the answer is always a success.
tud_usbtmc_indicator_pulse_cb ==
  /\ Asked("configured") /\ board = "usbtmc"
  /\ led_indicator_pulse /\ Uses("pulse")
  /\ UNCHANGED notAsked

\* A host selects an alternate setting of the loudspeaker's interface.  That of an open stream
\* is closed first, which is all that setting 0 does.
SelectSpeaker(alt) ==
  /\ Asked("configured") /\ board = "uac2_headset"
  /\ alt = 0 => using = "streaming"
  /\ ChangePeriod(IF alt = 0 THEN MOUNTED ELSE STREAMING)
  /\ Uses(IF alt = 0 THEN "nothing" ELSE "streaming")
  /\ UNCHANGED <<led_val, notAsked>>

\* A terminal page connects or disconnects; the LED's level stays what it is.
ConnectPage(connect) ==
  /\ Asked("configured") /\ board = "webusb_serial"
  /\ ChangePeriod(IF connect THEN ALWAYS_ON ELSE MOUNTED)
  /\ Uses(IF connect THEN "connected" ELSE "nothing")
  /\ UNCHANGED <<led_val, notAsked>>

\* A host sets the LEDs of a keyboard.  The board's LED is driven, until it is next toggled, and
\* the interval is set: that of the task of hid_composite, while the timer of
\* hid_boot_interface reads it when it is made only.
SetKeyboardLeds(capslock) ==
  /\ Asked("configured") /\ board \in {"hid_composite", "hid_boot_interface"}
  /\ blink_interval_ms' = IF capslock THEN NO_BLINK ELSE MOUNTED
  /\ stopped' = ~Has("led")
  /\ Uses(IF capslock THEN "capslock" ELSE "nothing")
  /\ UNCHANGED <<timer, led_val, notAsked>>

EnumNext ==
  \/ \E b \in Plugged, s \in Speeds : Plug(b, s)
  \/ Unplug
  \/ tud_descriptor_device_cb \/ tud_descriptor_device_qualifier_cb
  \/ tud_descriptor_configuration_cb \/ tud_descriptor_string_cb
  \/ startup_task \/ led_blinky_cb
  \/ mount_cb \/ umount_cb \/ suspend_cb \/ resume_cb
  \/ tud_usbtmc_indicator_pulse_cb \/ \E alt \in {0, 1} : SelectSpeaker(alt)
  \/ \E on \in BOOLEAN : ConnectPage(on) \/ SetKeyboardLeds(on)

\* The firmware starts up; the host asks on and wakes a bus it suspended.
EnumFairness == WF_enumVars(startup_task) /\
  WF_enumVars(\/ tud_descriptor_device_cb \/ tud_descriptor_device_qualifier_cb
              \/ tud_descriptor_configuration_cb \/ tud_descriptor_string_cb
              \/ mount_cb \/ resume_cb)

EnumSpec == EnumInit /\ [][EnumNext]_enumVars /\ EnumFairness

-----------------------------------------------------------------------------
(* Properties                                                               *)

EnumTypeOK ==
  /\ board \in Plugged \cup {"none"} /\ speed \in Speeds /\ stage \in Stages
  /\ unread \subseteq 1..6 /\ {suspended, stopped, early} \subseteq BOOLEAN
  /\ made \in 0..6 /\ led_val \in {0, 1}
  /\ {blink_interval_ms, timer} \subseteq Periods
  /\ using \in DOMAIN Pattern \cup {"nothing"} /\ renewed \in BOOLEAN
  /\ plugs \in 0..MaxPlugs /\ suspends \in 0..MaxSuspends

\* A board that stays plugged in is configured at last, at either speed, whatever the bus did
\* on the way: no string it names is missing from its table, and every function finds a class
\* driver with an instance left (usb_descriptors.c against tusb_config.h).
EnumerationEnds ==
  (board # "none") ~> (board = "none" \/ stopped \/ stage = "configured")

\* No two functions open the same endpoint, the interfaces a configuration has are those it
\* counts, and the packets of one that has a configuration for each speed are the link's
\* (usb_descriptors.c, desc_fs_configuration and desc_hs_configuration).
ConfigurationSound == stage = "configured" =>
  /\ \A i, j \in DOMAIN opened : i # j =>
       \A e \in opened[i], f \in opened[j] : <<e.dir, e.number>> # <<f.dir, f.number>>
  /\ FoldSeq(LAMBDA fn, n : n + fn.interfaces, 0, functions) = dev.interfaces
  /\ \A i \in DOMAIN opened : \A e \in opened[i] :
       e.kind = "bulk" /\ dev.configuration["full"] # dev.configuration["high"]
         => e.size = (IF speed = "high" THEN 512 ELSE 64)

\* What the host uses the function for, when that is what set the pattern last: the timer of
\* hid_boot_interface does not read the interval its request sets.
Shown == IF renewed \/ (using = "capslock" /\ dev.blinks # "task") THEN "nothing" ELSE using

\* The LED's pattern is the one the comment above it promises, for every firmware whose LED
\* follows the bus and whose timer or task was there before the first bus event: suspended, or
\* mounted, or that of the use the host makes of the function now, never of one that is over.  A
\* resume or a new configuration puts the mounted pattern in the place of a use that goes on
\* (tud_mount_cb to tud_resume_cb of demo_main.c; tud_audio_set_itf_cb and its close callback,
\* tud_vendor_control_xfer_cb, tud_hid_set_report_cb, led_indicator_pulse).  Nothing stops a
\* firmware but such an early event, which meets a handle that is not there, and the task of
\* hid_composite, which waits for no time with the caps lock on.
BlinkTellsBus ==
  /\ board # "none" /\ stopped => early \/ Period = NO_BLINK
  /\ board # "none" /\ ~early /\ dev.blinks \notin {"unread", "never"} =>
    /\ suspended => Period = SUSPENDED
    /\ stage = "configured" /\ ~suspended =>
         Period = IF Shown = "nothing" THEN MOUNTED ELSE Pattern[Shown]

\* The driver the host uses is one for the classes the device has: "A combination of
\* interfaces must have a unique product id, since PC will save device driver after the first
\* plug" (usb_descriptors.c of the demos).
DriverFits == stage = "configured" => drivers[Id(board)] = Classes(board)
=============================================================================
