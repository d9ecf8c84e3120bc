----------------------------- MODULE HidReports -----------------------------
(***************************************************************************)
(* The HID demos of examples/freertos/usb/tinyusb_demos: hid_composite,     *)
(* hid_boot_interface and hid_multiple_interface.  A task polls the button  *)
(* and queues reports; the USB task completes transfers and, in the         *)
(* composite demo, sends the next report of the chain from its callback.    *)
(* TinyUSB is outside src/: an endpoint holds one report, a report queued   *)
(* to a busy endpoint is refused, and readiness is a check of its own.      *)
(***************************************************************************)
EXTENDS Integers

CONSTANTS
  HidDemos,      \* the demos that may be flashed
  MaxPresses,    \* bound: changes of the button
  MaxBusEvents   \* bound: mounts, suspends, caps lock changes, ... by the host

ASSUME HidAssumption ==
  /\ HidDemos \subseteq {"composite", "boot", "multiple"}
  /\ MaxPresses \in Nat /\ MaxBusEvents \in Nat

VARIABLES
  hidDemo,       \* the demo that runs
  button, presses,   \* the button and how often it changed
  bus, busEvents,    \* "unmounted", "mounted" or "suspended"; events so far
  has_key,       \* has_keyboard_key, has_consumer_key, has_gamepad_key
  hid_task,      \* where hid_task is: "delay", or checking or sending a report
  hid_btn,       \* the button as hid_task read it
  usb_task,      \* where the USB task is, with the report and the button it read
  endpoint,      \* the report each IN endpoint holds
  hostKeys,      \* the reports whose key the host takes to be pressed
  blink,         \* the period of the LED: blink_interval_ms or the timer's
  halted         \* an assertion stopped the device

hidVars == <<hidDemo, button, presses, bus, busEvents, has_key, hid_task, hid_btn, usb_task,
             endpoint, hostKeys, blink, halted>>

Chain == <<"keyboard", "mouse", "consumer", "gamepad">>   \* the report ids, in order
Reports == {Chain[i] : i \in 1 .. 4}
Empty == [report |-> "none", pressed |-> FALSE]
Endpoints == {"first", "second"}
EndpointOf(r) == IF hidDemo = "composite" \/ r = "keyboard" THEN "first" ELSE "second"
At(place, r, btn) == [place |-> place, report |-> r, btn |-> btn]
Idle == At("idle", "none", FALSE)

HidInit ==
  /\ hidDemo \in HidDemos
  /\ button = FALSE /\ presses = 0
  /\ bus = "unmounted" /\ busEvents = 0
  /\ has_key = {}
  /\ hid_task = At("delay", "none", FALSE) /\ hid_btn = FALSE
  /\ usb_task = Idle
  /\ endpoint = [e \in Endpoints |-> Empty]
  /\ hostKeys = {}
  /\ blink = "NOT_MOUNTED"
  /\ halted = FALSE

-----------------------------------------------------------------------------
(* Reports                                                                  *)

\* tud_hid_ready
Ready(r) == bus = "mounted" /\ endpoint[EndpointOf(r)] = Empty

\* A report to its endpoint, refused when the endpoint is claimed or closed.
Queue(r, pressed) ==
  LET e == EndpointOf(r)
  IN endpoint' = IF endpoint[e] = Empty /\ bus # "unmounted"
                 THEN [endpoint EXCEPT ![e] = [report |-> r, pressed |-> pressed]]
                 ELSE endpoint

\* (Faulty variant: the empty report is left out.)
SendOnlyPressed(r, btn) ==
  /\ IF btn THEN Queue(r, TRUE) ELSE UNCHANGED endpoint
  /\ has_key' = IF btn THEN has_key \cup {r} ELSE has_key \ {r}

\* The rest of send_hid_report, after its check: a key report while the button is
\* pressed, then one empty report.
SendKeyReport(r, btn) ==
  /\ IF btn \/ r \in has_key THEN Queue(r, btn) ELSE UNCHANGED endpoint
  /\ has_key' = IF btn THEN has_key \cup {r} ELSE has_key \ {r}

\* The mouse moves with every chain of the composite demo, else while the button is pressed.
SendMouseReport(btn) ==
  /\ IF hidDemo = "composite" \/ btn THEN Queue("mouse", TRUE) ELSE UNCHANGED endpoint
  /\ UNCHANGED has_key

Send(r, btn) == IF r = "mouse" THEN SendMouseReport(btn) ELSE SendKeyReport(r, btn)

-----------------------------------------------------------------------------
(* hid_task                                                                 *)

\* What hid_task does after a report.
AfterReport(r) ==
  IF hidDemo # "composite" /\ r = "keyboard" THEN At("check", "mouse", FALSE)
                                             ELSE At("delay", "none", FALSE)

\* The button is read; a pressed button wakes a suspended host that allows it.
PollButton ==
  /\ hid_task.place = "delay"
  /\ hid_btn' = button
  /\ IF bus = "suspended" /\ button
     THEN /\ hid_task' = IF hidDemo = "multiple" THEN At("check", "keyboard", FALSE)
                                                ELSE hid_task
          /\ \/ UNCHANGED <<bus, blink>>
             \/ usb_task = Idle /\ bus' = "mounted" /\ blink' = "MOUNTED"
     ELSE /\ hid_task' = At("check", "keyboard", FALSE)
          /\ UNCHANGED <<bus, blink>>
  /\ UNCHANGED <<hidDemo, button, presses, busEvents, has_key, usb_task, endpoint, hostKeys>>

CheckReady ==
  /\ hid_task.place = "check"
  /\ hid_task' = IF Ready(hid_task.report) THEN [hid_task EXCEPT !.place = "send"]
                                           ELSE AfterReport(hid_task.report)
  /\ UNCHANGED <<hidDemo, button, presses, bus, busEvents, has_key, hid_btn, usb_task,
                 endpoint, hostKeys, blink>>

SendFromTask ==
  /\ hid_task.place = "send"
  /\ Send(hid_task.report, hid_btn)
  /\ hid_task' = AfterReport(hid_task.report)
  /\ UNCHANGED <<hidDemo, button, presses, bus, busEvents, hid_btn, usb_task, hostKeys, blink>>

HidTask == PollButton \/ CheckReady \/ SendFromTask

-----------------------------------------------------------------------------
(* The USB task                                                             *)

\* The host takes the report of an endpoint, which is free again.
Transfer(e) ==
  /\ usb_task = Idle /\ bus = "mounted" /\ endpoint[e] # Empty
  /\ LET sent == endpoint[e]
     IN /\ hostKeys' = IF sent.report = "mouse" THEN hostKeys
                       ELSE IF sent.pressed THEN hostKeys \cup {sent.report}
                                            ELSE hostKeys \ {sent.report}
        /\ usb_task' = At("complete", sent.report, FALSE)
  /\ endpoint' = [endpoint EXCEPT ![e] = Empty]
  /\ UNCHANGED <<hidDemo, button, presses, bus, busEvents, has_key, hid_task, hid_btn, blink>>

\* tud_hid_report_complete_cb: the composite demo goes on with the next report, if there
\* is one and the endpoint is still free; the others do nothing.
ReportComplete ==
  /\ usb_task.place = "complete"
  /\ \/ \E i \in 1 .. 3 :
          /\ hidDemo = "composite" /\ usb_task.report = Chain[i] /\ Ready(Chain[i + 1])
          /\ usb_task' = At("send", Chain[i + 1], button)
     \/ /\ \A i \in 1 .. 3 : ~ (/\ hidDemo = "composite" /\ usb_task.report = Chain[i]
                                /\ Ready(Chain[i + 1]))
        /\ usb_task' = Idle
  /\ UNCHANGED <<hidDemo, button, presses, bus, busEvents, has_key, hid_task, hid_btn,
                 endpoint, hostKeys, blink>>

SendFromCallback ==
  /\ usb_task.place = "send"
  /\ Send(usb_task.report, usb_task.btn)
  /\ usb_task' = Idle
  /\ UNCHANGED <<hidDemo, button, presses, bus, busEvents, hid_task, hid_btn, hostKeys, blink>>

\* Mount, unmount, suspend and resume, with their callbacks.  An unmount closes the
\* endpoints, and the host forgets the device.
BusEvent(from, to, pattern) ==
  /\ usb_task = Idle /\ busEvents < MaxBusEvents
  /\ bus = from /\ bus' = to /\ blink' = pattern
  /\ busEvents' = busEvents + 1
  /\ IF to = "unmounted" THEN endpoint' = [e \in Endpoints |-> Empty] /\ hostKeys' = {}
                         ELSE UNCHANGED <<endpoint, hostKeys>>
  /\ UNCHANGED <<hidDemo, button, presses, has_key, hid_task, hid_btn, usb_task>>

tud_mount_cb == BusEvent("unmounted", "mounted", "MOUNTED")
tud_umount_cb == \E from \in {"mounted", "suspended"} : BusEvent(from, "unmounted", "NOT_MOUNTED")
tud_suspend_cb == BusEvent("mounted", "suspended", "SUSPENDED")
tud_resume_cb == BusEvent("suspended", "mounted", "MOUNTED")

\* Caps lock on the host's keyboard: the composite demo stops blinking or starts again;
\* what the boot demo assigns, its timer never reads, and the third demo ignores it.
tud_hid_set_report_cb ==
  /\ usb_task = Idle /\ bus = "mounted" /\ busEvents < MaxBusEvents
  /\ busEvents' = busEvents + 1
  /\ blink' \in (IF hidDemo = "composite" THEN {"zero", "MOUNTED"} ELSE {blink})
  /\ UNCHANGED <<hidDemo, button, presses, bus, has_key, hid_task, hid_btn, usb_task,
                 endpoint, hostKeys>>

UsbTask ==
  \/ \E e \in Endpoints : Transfer(e)
  \/ ReportComplete \/ SendFromCallback
Host ==
  \/ tud_mount_cb \/ tud_umount_cb \/ tud_suspend_cb \/ tud_resume_cb
  \/ tud_hid_set_report_cb

\* led_blinky_task of the composite demo: a delay of zero ticks fails an assertion.
led_blinky_task ==
  /\ hidDemo = "composite" /\ blink = "zero"
  /\ halted' = TRUE
  /\ UNCHANGED <<hidDemo, button, presses, bus, busEvents, has_key, hid_task, hid_btn,
                 usb_task, endpoint, hostKeys, blink>>

PressOrRelease ==
  /\ presses < MaxPresses
  /\ presses' = presses + 1 /\ button' = ~ button
  /\ UNCHANGED <<hidDemo, bus, busEvents, has_key, hid_task, hid_btn, usb_task, endpoint,
                 hostKeys, blink>>

HidNext ==
  /\ ~ halted
  /\ \/ (HidTask \/ UsbTask \/ Host \/ PressOrRelease) /\ UNCHANGED halted
     \/ led_blinky_task

\* The scheduler runs the task, and the USB task is served by a host that polls.
HidFairness ==
  /\ WF_hidVars(~ halted /\ HidTask /\ UNCHANGED halted)
  /\ WF_hidVars(~ halted /\ (ReportComplete \/ SendFromCallback) /\ UNCHANGED halted)
  /\ \A e \in Endpoints : WF_hidVars(~ halted /\ Transfer(e) /\ UNCHANGED halted)

HidSpec == HidInit /\ [][HidNext]_hidVars /\ HidFairness

-----------------------------------------------------------------------------
(* Properties                                                               *)

HidTypeOK ==
  /\ hidDemo \in HidDemos
  /\ button \in BOOLEAN /\ presses \in 0 .. MaxPresses
  /\ bus \in {"unmounted", "mounted", "suspended"} /\ busEvents \in 0 .. MaxBusEvents
  /\ has_key \subseteq Reports \ {"mouse"}
  /\ hid_task \in [place : {"delay", "check", "send"}, report : Reports \cup {"none"},
                   btn : BOOLEAN]
  /\ hid_btn \in BOOLEAN
  /\ usb_task \in [place : {"idle", "complete", "send"}, report : Reports \cup {"none"},
                   btn : BOOLEAN]
  /\ endpoint \in [Endpoints -> [report : Reports \cup {"none"}, pressed : BOOLEAN]]
  /\ hostKeys \subseteq Reports \ {"mouse"}
  /\ blink \in {"NOT_MOUNTED", "MOUNTED", "SUSPENDED", "zero"}
  /\ halted \in BOOLEAN

\* Once the button stays released on a mounted bus the host sees every key released.
KeyReleased ==
  <>[](~ button /\ bus = "mounted" /\ ~ halted) => <>[](hostKeys = {})

\* The same where one task sends, in the demos with an interface per function.
KeyReleasedByOneTask == hidDemo # "composite" => KeyReleased
=============================================================================
