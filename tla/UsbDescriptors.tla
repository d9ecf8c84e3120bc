---------------------------- MODULE UsbDescriptors ----------------------------
(***************************************************************************)
(* What the firmwares with a USB port tell a host about themselves: for each *)
(* one its usb_descriptors.c, with the class drivers its tusb_config.h       *)
(* compiles in, and what its demo_main.c makes at start and how it blinks.   *)
(* A configuration is a sequence of functions; a function takes one instance *)
(* of its class driver and one or more interfaces, names strings and owns    *)
(* endpoints.                                                                *)
(***************************************************************************)
EXTENDS Integers, Sequences

Speeds == {"full", "high"}

Endpoint(dir, number, kind, size) == [dir |-> dir, number |-> number, kind |-> kind, size |-> size]
Pair(number, kind, size) == {Endpoint("in", number, kind, size), Endpoint("out", number, kind, size)}

\* A bulk endpoint's packet at the speed of the link.
Bulk(speed) == IF speed = "high" THEN 512 ELSE 64
\* (TUD_OPT_HIGH_SPEED ? 512 : 64): a constant of the build, which is for high speed.
BulkOfBuild == 512

\* The descriptors TinyUSB's macros write for a function of one of its classes.
Function(class, interfaces, strings, endpoints) ==
  [class |-> class, interfaces |-> interfaces, strings |-> strings, endpoints |-> endpoints]
TUD_CDC_DESCRIPTOR(str, notif, data, size) ==
  Function("CDC", 2, {str}, {Endpoint("in", notif, "interrupt", 8)} \cup Pair(data, "bulk", size))
TUD_MSC_DESCRIPTOR(strings, ep, size) == Function("MSC", 1, strings, Pair(ep, "bulk", size))
TUD_HID_DESCRIPTOR(strings, ep, size) ==
  Function("HID", 1, strings, {Endpoint("in", ep, "interrupt", size)})
TUD_DFU_DESCRIPTOR(strings) == Function("DFU", 1, strings, {})

\* _PID_MAP: where each demo's product id keeps the number of a class's instances.
CommonMap == [CDC |-> 0, MSC |-> 1, HID |-> 2, MIDI |-> 3, VENDOR |-> 4]
AudioMap == [CDC |-> 0, MSC |-> 1, HID |-> 2, MIDI |-> 3, AUDIO |-> 4, VENDOR |-> 5]
VideoMap == [CDC |-> 0, MSC |-> 1, HID |-> 2, MIDI |-> 3, AUDIO |-> 4, VIDEO |-> 5, VENDOR |-> 6]
Instances(classes, c) == IF c \in DOMAIN classes THEN classes[c] ELSE 0
\* A product id is the set of its bits: 0x4000 and each number shifted to its place.
Bits(n) == { k \in 0..3 : (n \div 2^k) % 2 = 1 }
UsbPid(map, classes) ==
  {14} \cup UNION { { k + map[c] : k \in Bits(Instances(classes, c)) } : c \in DOMAIN map }

cVid == "0xCafe"
xVid == "0x20B1"

\* How a demo's LED follows the bus: tud_mount_cb, tud_umount_cb, tud_suspend_cb and
\* tud_resume_cb change the period of a timer, also when there is none yet ("timer") or not
\* ("guarded"), the interval at which a task toggles the LED ("task"), or a variable that a
\* timer of a fixed period never reads ("unread"); a firmware may have none of them ("never").
Blinks == {"timer", "guarded", "task", "unread", "never"}

\* What create_tinyusb_demo makes, in its order: the handles of the LED's and the buttons'
\* ports, the timer or the task that toggles the LED, the table of images, a stream buffer,
\* the tasks of the application.
LedOnly == <<"led", "timer">>
TimerAndTask == <<"led", "button", "timer", "task">>
BlinkerAndTask == <<"led", "button", "blinker", "task">>

\* One firmware: class drivers, product id, number of strings, the configuration at each
\* speed, the interfaces it says to have, how its LED follows the bus and what it makes.
Device(vid, pid, classes, strings, interfaces, configuration, blinks, makes) ==
  [vid |-> vid, pid |-> pid, classes |-> classes, strings |-> strings,
   interfaces |-> interfaces, configuration |-> configuration, blinks |-> blinks, makes |-> makes]
\* One that gives the same configuration at either speed.
Same(functions) == [full |-> functions, high |-> functions]
\* One whose bulk packets are those of the speed.
AtSpeed(functions(_)) == [full |-> functions("full"), high |-> functions("high")]

cdc_msc_classes == [CDC |-> 1, MSC |-> 1]
cdc_msc_blinks == "timer"
cdc_msc_makes == TimerAndTask
cdc_msc == Device(cVid, UsbPid(CommonMap, cdc_msc_classes), cdc_msc_classes, 5, 3,
  AtSpeed(LAMBDA s : <<TUD_CDC_DESCRIPTOR(4, 1, 2, Bulk(s)), TUD_MSC_DESCRIPTOR({5}, 3, Bulk(s))>>),
  cdc_msc_blinks, cdc_msc_makes)

cdc_dual_ports_classes == [CDC |-> 2]
cdc_dual_ports_makes == <<"task">>
cdc_dual_ports == Device(cVid, UsbPid(CommonMap, cdc_dual_ports_classes), cdc_dual_ports_classes, 4, 4,
  AtSpeed(LAMBDA s : <<TUD_CDC_DESCRIPTOR(4, 1, 2, Bulk(s)), TUD_CDC_DESCRIPTOR(4, 3, 4, Bulk(s))>>),
  "never", cdc_dual_ports_makes)

webusb_serial_classes == [CDC |-> 1, VENDOR |-> 1]
webusb_serial_blinks == "timer"
webusb_serial_makes == Append(TimerAndTask, "task")
webusb_serial == Device(cVid, UsbPid(CommonMap, webusb_serial_classes), webusb_serial_classes, 5, 3,
  Same(<<TUD_CDC_DESCRIPTOR(4, 1, 2, BulkOfBuild),
         Function("VENDOR", 1, {5}, Pair(3, "bulk", BulkOfBuild))>>), webusb_serial_blinks, webusb_serial_makes)

hid_composite_classes == [HID |-> 1]
hid_composite_blinks == "task"
hid_composite_makes == BlinkerAndTask
hid_composite == Device(cVid, UsbPid(CommonMap, hid_composite_classes), hid_composite_classes, 3, 1,
  Same(<<TUD_HID_DESCRIPTOR({}, 1, 16)>>), hid_composite_blinks, hid_composite_makes)

hid_boot_interface_classes == [HID |-> 2]
hid_boot_interface_blinks == "timer"
hid_boot_interface_makes == TimerAndTask
hid_boot_interface == Device(cVid, UsbPid(CommonMap, hid_boot_interface_classes),
  hid_boot_interface_classes, 3, 2,
  Same(<<TUD_HID_DESCRIPTOR({}, 1, 8), TUD_HID_DESCRIPTOR({}, 2, 8)>>), hid_boot_interface_blinks, hid_boot_interface_makes)

hid_multiple_interface_classes == [HID |-> 2]
hid_multiple_interface_blinks == "timer"
hid_multiple_interface_makes == TimerAndTask
hid_multiple_interface == Device(cVid, UsbPid(CommonMap, hid_multiple_interface_classes),
  hid_multiple_interface_classes, 5, 2,
  Same(<<TUD_HID_DESCRIPTOR({4}, 1, 8), TUD_HID_DESCRIPTOR({5}, 2, 8)>>), hid_multiple_interface_blinks, hid_multiple_interface_makes)

hid_generic_inout_classes == [HID |-> 1]
hid_generic_inout_blinks == "unread"
hid_generic_inout_makes == LedOnly
hid_generic_inout == Device(cVid, UsbPid(CommonMap, hid_generic_inout_classes),
  hid_generic_inout_classes, 3, 1, Same(<<Function("HID", 1, {}, Pair(1, "interrupt", 64))>>), hid_generic_inout_blinks, hid_generic_inout_makes)

midi_test_classes == [MIDI |-> 1]
midi_test_blinks == "timer"
midi_test_makes == TimerAndTask
midi_test == Device(cVid, UsbPid(CommonMap, midi_test_classes), midi_test_classes, 3, 2,
  AtSpeed(LAMBDA s : <<Function("MIDI", 2, {}, Pair(1, "bulk", Bulk(s)))>>), midi_test_blinks, midi_test_makes)

msc_dual_lun_classes == [MSC |-> 1]
msc_dual_lun_blinks == "timer"
msc_dual_lun_makes == LedOnly
msc_dual_lun == Device(cVid, UsbPid(CommonMap, msc_dual_lun_classes), msc_dual_lun_classes, 3, 1,
  AtSpeed(LAMBDA s : <<TUD_MSC_DESCRIPTOR({}, 1, Bulk(s))>>), msc_dual_lun_blinks, msc_dual_lun_makes)

\* The names of the interfaces: of the control interface 2, of the streams 5 and 4.
uac2_headset_classes == [AUDIO |-> 1]
uac2_headset_blinks == "timer"
headset_function ==
  Function("AUDIO", 3, {2, 4, 5}, Pair(1, "isochronous", 776))
uac2_headset_makes == TimerAndTask
uac2_headset == Device(cVid, UsbPid(AudioMap, uac2_headset_classes), uac2_headset_classes, 5, 3,
  Same(<<headset_function>>), uac2_headset_blinks, uac2_headset_makes)

audio_test_classes == [AUDIO |-> 1]
audio_test_blinks == "timer"
audio_test_makes == <<"led", "button", "timer", "buffer", "task">>
audio_test == Device(cVid, UsbPid(AudioMap, audio_test_classes), audio_test_classes, 4, 2,
  Same(<<Function("AUDIO", 2, {}, {Endpoint("in", 1, "isochronous", 32)})>>), audio_test_blinks, audio_test_makes)

video_capture_classes == [VIDEO |-> 1]
video_capture_blinks == "task"
video_function == Function("VIDEO", 2, {4}, {Endpoint("in", 1, "isochronous", 256)})
video_capture_makes == BlinkerAndTask
video_capture == Device(cVid, UsbPid(VideoMap, video_capture_classes), video_capture_classes, 4, 2,
  Same(<<video_function>>), video_capture_blinks, video_capture_makes)

usbtmc_classes == [USBTMC |-> 1]
usbtmc_blinks == "guarded"
usbtmc_makes == TimerAndTask
usbtmc == Device(cVid, UsbPid(CommonMap, usbtmc_classes), usbtmc_classes, 4, 1,
  Same(<<Function("USBTMC", 1, {4},
          Pair(1, "bulk", BulkOfBuild) \cup {Endpoint("in", 2, "interrupt", 8)})>>), usbtmc_blinks, usbtmc_makes)

dfu_classes == [DFU |-> 1]
dfu_blinks == "timer"
dfu_makes == LedOnly
dfu == Device(cVid, UsbPid(CommonMap, dfu_classes), dfu_classes, 5, 1,
  Same(<<TUD_DFU_DESCRIPTOR({4, 5})>>), dfu_blinks, dfu_makes)

\* The configuration for the run-time mode is there but never given.
dfu_runtime_classes == [DFU |-> 1]
dfu_runtime_blinks == "guarded"
dfu_runtime_makes == <<"images">> \o LedOnly
dfu_runtime == Device(cVid, UsbPid(CommonMap, dfu_runtime_classes), dfu_runtime_classes, 5, 1,
  Same(<<TUD_DFU_DESCRIPTOR({5})>>), dfu_runtime_blinks, dfu_runtime_makes)

dfu_download_classes == [DFU |-> 1]
dfu_download == Device(cVid, UsbPid(CommonMap, dfu_download_classes), dfu_download_classes, 6, 1,
  Same(<<TUD_DFU_DESCRIPTOR({4, 5, 6})>>), "never", << >>)

device_control_classes == [XMOS_DEVICE_CONTROL |-> 1]
device_control == Device(xVid, {4, 12}, device_control_classes, 4, 1,
  Same(<<Function("XMOS_DEVICE_CONTROL", 1, {4}, {})>>), "never", << >>)

firmware ==
  [cdc_msc |-> cdc_msc, cdc_dual_ports |-> cdc_dual_ports, webusb_serial |-> webusb_serial,
   hid_composite |-> hid_composite, hid_boot_interface |-> hid_boot_interface,
   hid_multiple_interface |-> hid_multiple_interface, hid_generic_inout |-> hid_generic_inout,
   midi_test |-> midi_test, msc_dual_lun |-> msc_dual_lun, uac2_headset |-> uac2_headset,
   audio_test |-> audio_test, video_capture |-> video_capture, usbtmc |-> usbtmc, dfu |-> dfu,
   dfu_runtime |-> dfu_runtime, dfu_download |-> dfu_download, device_control |-> device_control]
=============================================================================
