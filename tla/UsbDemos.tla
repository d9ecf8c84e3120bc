------------------------------- MODULE UsbDemos -------------------------------
(***************************************************************************)
(* The USB demos of examples/freertos/usb/tinyusb_demos: each is built into  *)
(* a firmware of its own from the same main.c, which creates the demo after  *)
(* the USB task is started.  One of them is flashed; its steps are those of  *)
(* the component, and the state of the others is not there.  In "bus" the    *)
(* firmwares are plugged in and enumerated, whatever their application does. *)
(***************************************************************************)
EXTENDS UsbEnumeration, HidReports, UsbtmcApp, DfuRuntime, UsbAudio, AudioControls, SerialEcho,
        VideoCapture, MidiNotes, UsbDisks

VARIABLE demo   \* the demo flashed

DemoNames == {"hid", "usbtmc", "dfu_runtime", "audio", "serial", "video", "midi",
              "disk", "controls", "bus"}

UsbInit ==
  /\ demo \in DemoNames
  /\ HidInit /\ TmcInit /\ RtInit /\ AudioInit /\ EchoInit /\ VideoInit /\ MidiInit
  /\ DiskInit /\ AudioControlInit /\ EnumInit
  \* which of its variants a component that is not flashed would be is of no interest
  /\ demo # "hid" => hidDemo = CHOOSE d \in HidDemos : TRUE
  /\ demo # "audio" => audioDemo = CHOOSE d \in AudioDemos : TRUE
  /\ demo # "serial" => echoDemo = CHOOSE d \in EchoDemos : TRUE
  /\ demo # "disk" => diskDemo = CHOOSE d \in DiskDemos : TRUE
  /\ demo # "controls" => controlDemo = CHOOSE d \in ControlDemos : TRUE

\* What belongs to the demos that are not flashed.
NotIn(name) ==
  /\ name # "hid" => UNCHANGED hidVars
  /\ name # "usbtmc" => UNCHANGED tmcVars
  /\ name # "dfu_runtime" => UNCHANGED rtVars
  /\ name # "audio" => UNCHANGED audioVars
  /\ name # "serial" => UNCHANGED echoVars
  /\ name # "video" => UNCHANGED videoVars
  /\ name # "midi" => UNCHANGED midiVars
  /\ name # "disk" => UNCHANGED diskVars
  /\ name # "controls" => UNCHANGED audioControlVars
  /\ name # "bus" => UNCHANGED enumVars

UsbNext ==
  /\ UNCHANGED demo
  /\ \/ demo = "hid" /\ HidNext
     \/ demo = "usbtmc" /\ TmcNext
     \/ demo = "dfu_runtime" /\ RtNext
     \/ demo = "audio" /\ AudioNext
     \/ demo = "serial" /\ EchoNext
     \/ demo = "video" /\ VideoNext
     \/ demo = "midi" /\ MidiNext
     \/ demo = "disk" /\ DiskNext
     \/ demo = "controls" /\ AudioControlNext
     \/ demo = "bus" /\ EnumNext
  /\ NotIn(demo)

usbVars == <<demo, hidVars, tmcVars, rtVars, audioVars, echoVars, videoVars, midiVars,
             diskVars, audioControlVars, enumVars>>

\* HidFairness and TmcFairness, for the demo that is flashed.
HidSteps(A) == demo = "hid" /\ ~ halted /\ A /\ UNCHANGED halted
HidDemoFairness ==
  /\ WF_hidVars(HidSteps(HidTask)) /\ WF_hidVars(HidSteps(ReportComplete \/ SendFromCallback))
  /\ \A e \in Endpoints : WF_hidVars(HidSteps(Transfer(e)))
TmcDemoFairness ==
  /\ WF_tmcVars(demo = "usbtmc" /\ usbtmc_app_task_iter) /\ WF_tmcVars(demo = "usbtmc" /\ SendPacket)
  /\ WF_tmcVars(demo = "usbtmc" /\ tmcHost = "waiting" /\ tud_usbtmc_msgBulkIn_request_cb)
  /\ WF_tmcVars(demo = "usbtmc" /\ tud_usbtmc_msgBulkIn_complete_cb)

UsbSpec ==
  /\ UsbInit /\ [][UsbNext]_usbVars
  /\ HidDemoFairness /\ TmcDemoFairness
  /\ EnumFairness   \* with no board plugged in, it asks nothing

\* Every component's variables are what it declares them to be.
UsbTypeOK ==
  /\ demo \in DemoNames
  /\ HidTypeOK /\ TmcTypeOK /\ RtTypeOK /\ AudioTypeOK /\ EchoTypeOK /\ VideoTypeOK
  /\ MidiTypeOK /\ DiskTypeOK /\ AudioControlTypeOK /\ EnumTypeOK
=============================================================================
