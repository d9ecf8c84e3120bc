------------------------------ MODULE BoardDemos ------------------------------
(***************************************************************************)
(* The smaller applications of examples/, each a firmware of its own for the *)
(* Explorer board: the Tracealyzer and xscope file I/O demos, the bare-metal *)
(* board and its start-up, device control with its host program, the MQTT    *)
(* demo, its WiFi firmware on its own, the UART demo, which shares nothing   *)
(* with the rest of the Explorer board's firmware, and the two boards of the *)
(* xlink demo.  One of them is flashed; its steps are those of the           *)
(* component, and the state of the others is not there.                      *)
(***************************************************************************)
EXTENDS MqttClient, Tracealyzer, XscopeFileIo, BareMetalBoard, DeviceControl, WifiFirmware,
        UartLoopback, Xlink, BareMetalStartUp

VARIABLE flashed   \* the application flashed

Applications == {"tracealyzer", "xscope_fileio", "bare_metal", "device_control", "mqtt", "wifi",
                 "uart", "xlink", "start_up"}

DemosInit ==
  /\ flashed \in Applications
  /\ TraceInit /\ FioInit /\ BoardInit /\ ControlInit /\ Init /\ WifiInit
  /\ UartInit /\ XlinkInit /\ StartInit
  \* the file and the buttons of an application that is not flashed are of no interest
  /\ flashed # "xscope_fileio" => infile = CHOOSE f \in Files : TRUE
  /\ flashed # "bare_metal" => pins = {}
  /\ flashed # "xlink" => board = "rx" /\ enabled = FALSE

\* What belongs to the applications that are not flashed.
NotFlashed(name) ==
  /\ name # "tracealyzer" => UNCHANGED traceVars
  /\ name # "xscope_fileio" => UNCHANGED fioVars
  /\ name # "bare_metal" => UNCHANGED boardVars
  /\ name # "device_control" => UNCHANGED controlVars
  /\ name # "mqtt" => UNCHANGED vars
  /\ name # "wifi" => UNCHANGED wifiVars
  /\ name # "uart" => UNCHANGED uartVars
  /\ name # "xlink" => UNCHANGED xlinkVars
  /\ name # "start_up" => UNCHANGED startVars

DemosNext ==
  /\ UNCHANGED flashed
  /\ \/ flashed = "tracealyzer" /\ TraceNext
     \/ flashed = "xscope_fileio" /\ FioNext
     \/ flashed = "bare_metal" /\ BoardNext
     \/ flashed = "device_control" /\ ControlNext
     \/ flashed = "mqtt" /\ Next
     \/ flashed = "wifi" /\ WifiNext
     \/ flashed = "uart" /\ UartNext
     \/ flashed = "xlink" /\ XlinkNext
     \/ flashed = "start_up" /\ StartNext
  /\ NotFlashed(flashed)

demosVars == <<flashed, traceVars, fioVars, boardVars, controlVars, vars, wifiVars,
               uartVars, xlinkVars, startVars>>

Runs(name) == flashed = name

\* Tracealyzer: there are cores for all tasks, none holds the mutex while it waits, and the
\* timer daemon has the highest priority.
TracealyzerFairness ==
  /\ WF_traceVars(Runs("tracealyzer") /\ process_task)
  /\ WF_traceVars(Runs("tracealyzer") /\ subprocess_tmr_callback)
  /\ \A i \in Insts : WF_traceVars(Runs("tracealyzer") /\ subprocess_task(i))

\* File I/O: every task blocks only where it waits for the next one, and the host answers.
FileIoFairness ==
  /\ WF_fioVars(Runs("xscope_fileio") /\ xscope_fileio)
  /\ WF_fioVars(Runs("xscope_fileio") /\ (Allocate1 \/ Stage1Receive \/ Stage1Pass))
  /\ WF_fioVars(Runs("xscope_fileio") /\ (Stage2Receive \/ Stage2Send))
  /\ WF_fioVars(Runs("xscope_fileio") /\ (Allocate3 \/ Stage3Receive \/ xscope_fileio_tx_to_host))

\* Bare metal: the threads have a processor each, and an event that is ready again and
\* again is taken at last, whatever else is ready.
BareMetalFairness ==
  /\ SF_boardVars(Runs("bare_metal") /\ event_chan)
  /\ WF_boardVars(Runs("bare_metal") /\ \E button \in Buttons : HandleButton(button))
  /\ WF_boardVars(Runs("bare_metal") /\ ScaleFrame)
  /\ SF_boardVars(Runs("bare_metal") /\ gpio_request)
  /\ WF_boardVars(Runs("bare_metal") /\ ap_stage_c)

\* MQTT: the scheduler is preemptive and each task blocks between its calls; calls into the
\* network return, as sockets have time-outs and the drain counts its tries.
MqttFairness ==
  /\ WF_vars(Runs("mqtt") /\ mqtt_demo_connect) /\ WF_vars(Runs("mqtt") /\ mqtt_handler)
  /\ WF_vars(Runs("mqtt") /\ ShowLeds)

\* WiFi: the set-up task runs, and the driver goes on and begins again until it succeeds.
DriverFairness ==
  /\ WF_wifiVars(Runs("wifi") /\ wifi_setup_task) /\ WF_wifiVars(Runs("wifi") /\ Download)

\* Bare metal, from power-on: the tiles run by themselves.
StartUpFairness == WF_startVars(Runs("start_up") /\ BootStep)

\* xlink: the task that opens the link again has a core and waits for nobody.
ReenableFairness ==
  WF_xlinkVars(Runs("xlink") /\ board = "tx" /\ xlink_tx_reenable /\ UNCHANGED <<board, rxVars>>)

DemosSpec ==
  /\ DemosInit /\ [][DemosNext]_demosVars
  /\ TracealyzerFairness /\ FileIoFairness /\ BareMetalFairness /\ MqttFairness /\ DriverFairness
  /\ StartUpFairness /\ ReenableFairness

-----------------------------------------------------------------------------
(* Properties                                                               *)

\* Every component's variables are what it declares them to be.
DemosTypeOK ==
  /\ flashed \in Applications
  /\ TraceTypeOK /\ FioTypeOK /\ BoardTypeOK /\ ControlTypeOK /\ TypeOK /\ WifiTypeOK
  /\ UartTypeOK /\ XlinkTypeOK /\ StartTypeOK

\* No board stops half-way.  The bare-metal board's tiles, which wait for each other twice before
\* any job runs, both come to their jobs whether or not the codec answers (with every register
\* right when tile 1 was told so), and the threads of the audio's ring, each of which may wait
\* for the next, handle every button and bring every frame to the DAC.  The xlink demo's
\* transmitting board opens its link again and again, however its tasks' writes cross.
BoardsGoOn ==
  NoCircularWait /\ (Runs("start_up") => TilesStart) /\ (Runs("xlink") => LinkComesBack)
=============================================================================
