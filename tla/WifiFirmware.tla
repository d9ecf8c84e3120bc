----------------------------- MODULE WifiFirmware -----------------------------
(***************************************************************************)
(* The WiFi part of examples/freertos/iot (src/network_demos/               *)
(* network_setup.c): a set-up task starts the IP stack and the connection    *)
(* manager, whose driver loads the WF200's firmware through two callbacks    *)
(* that read it from a file.  The driver, the manager and the file system    *)
(* are outside src/: the driver asks for the size and then for the firmware  *)
(* chunk by chunk, gives a download up when the bus fails, and may begin     *)
(* another one.  The manager tells the application each event and takes the  *)
(* mode it is to go into from the answer.                                   *)
(***************************************************************************)
EXTENDS Integers

CONSTANTS
  FileSize,    \* bytes of wf200.sec
  BlockSize,   \* bytes the driver asks for at once
  MaxFaults    \* bound: downloads given up and files not opened

ASSUME FirmwareAssumption ==
  FileSize \in Nat \ {0} /\ BlockSize \in Nat \ {0} /\ MaxFaults \in Nat

VARIABLES
  wifi_setup,     \* where wifi_setup_task is
  fileOpen, filePos,  \* wf200_fw_file: obj.fs # NULL; the position in it
  wf200_fw_size,
  driver,         \* "off", "size", "read" or "loaded"
  dlSize, dlIndex,    \* the driver's download: the size it was told, the bytes it has got
  straight,       \* history: all of them were the bytes it asked for
  manager,        \* the connection manager: what it is doing
  faults

wifiVars == <<wifi_setup, fileOpen, filePos, wf200_fw_size, driver, dlSize, dlIndex,
              straight, manager, faults>>
firmwareFile == <<fileOpen, filePos, wf200_fw_size>>

WifiInit ==
  /\ wifi_setup = "delay" /\ fileOpen = FALSE /\ filePos = 0 /\ wf200_fw_size = 0
  /\ driver = "off" /\ dlSize = 0 /\ dlIndex = 0 /\ straight = TRUE /\ faults = 0
  /\ manager = "startup"

Steps == <<"delay", "hif", "ip", "manager", "deleted">>

\* The delay, sl_wfx_host_set_hif, FreeRTOS_IPInit and wifi_conn_mgr_start.
wifi_setup_task ==
  /\ \E i \in 1 .. 4 : wifi_setup = Steps[i] /\ wifi_setup' = Steps[i + 1]
  /\ UNCHANGED <<firmwareFile, driver, dlSize, dlIndex, straight, manager, faults>>

\* The driver begins a download: at first, after one that failed, or to load it anew.
BeginDownload ==
  /\ wifi_setup = "deleted" /\ driver \in {"off", "loaded"}
  /\ driver' = "size" /\ dlIndex' = 0 /\ straight' = TRUE
  /\ manager' = "startup"
  /\ UNCHANGED <<wifi_setup, firmwareFile, dlSize, faults>>

\* The file is opened unless it still is; it then stays where it was.
sl_wfx_app_fw_size ==
  /\ driver = "size"
  /\ \/ /\ fileOpen' = TRUE /\ filePos' = IF fileOpen THEN filePos ELSE 0
        /\ wf200_fw_size' = FileSize /\ driver' = "read" /\ dlSize' = FileSize
        /\ UNCHANGED faults
     \/ /\ ~ fileOpen /\ faults < MaxFaults /\ faults' = faults + 1   \* f_open fails
        /\ wf200_fw_size' = 0 /\ driver' = "off" /\ dlSize' = 0
        /\ UNCHANGED <<fileOpen, filePos>>
  /\ UNCHANGED <<wifi_setup, dlIndex, straight, manager>>

Least(a, b) == IF a <= b THEN a ELSE b
Wanted == Least(BlockSize, dlSize - dlIndex)
BytesRead == IF fileOpen THEN Least(Wanted, FileSize - filePos) ELSE 0

\* (Faulty variant: only a read of the last bytes closes the file.)
LastReadOnly == dlIndex + Wanted >= wf200_fw_size

\* The read that closes the file: of nothing, or of the last bytes.
LastRead == BytesRead = 0 \/ dlIndex + Wanted >= wf200_fw_size

\* (Faulty variant: the count that f_read returns is not looked at.)
AllReadTaken == TRUE

AllRead == BytesRead = Wanted

\* The next bytes of the file, wherever it is: index is not looked at.
sl_wfx_app_fw_read ==
  /\ driver = "read"
  /\ filePos' = filePos + BytesRead
  /\ straight' = (straight /\ filePos = dlIndex /\ BytesRead = Wanted)
  /\ fileOpen' = (fileOpen /\ ~ LastRead)
  /\ wf200_fw_size' = IF LastRead THEN 0 ELSE wf200_fw_size
  /\ IF AllRead
     THEN /\ dlIndex' = dlIndex + Wanted
          /\ driver' = IF dlIndex' = dlSize THEN "loaded" ELSE "read"
     ELSE driver' = "off" /\ UNCHANGED dlIndex
  /\ UNCHANGED <<wifi_setup, dlSize, manager, faults>>

\* The bus fails and the driver gives the download up; the file is not told.
GiveUp ==
  /\ driver = "read" /\ faults < MaxFaults /\ faults' = faults + 1
  /\ driver' = "off"
  /\ UNCHANGED <<wifi_setup, firmwareFile, dlSize, dlIndex, straight, manager>>

Download == BeginDownload \/ sl_wfx_app_fw_size \/ sl_wfx_app_fw_read

-----------------------------------------------------------------------------
(* The connection manager                                                   *)

\* The mode the application answers an event with; what it answers to CONNECTED and
\* SOFT_AP_STARTED is ignored.
wifi_conn_mgr_event_cb(event) ==
  IF event \in {"CONNECT_FAILED", "SOFT_AP_STARTED"} THEN "SOFT_AP" ELSE "STATION"

\* What each event finds the manager doing, and what it does in a mode.
During == [STARTUP |-> "startup", CONNECTED |-> "connecting", CONNECT_FAILED |-> "connecting",
           DISCONNECTED |-> "connected", SOFT_AP_STARTED |-> "starting AP",
           SOFT_AP_STOPPED |-> "soft AP"]
InMode == [STATION |-> "connecting", SOFT_AP |-> "starting AP"]

\* An event, once the firmware is loaded.  After a failed connection the application scans
\* for networks, and prints them, before it answers and names the soft AP to start.
ManagerEvent(event) ==
  /\ driver = "loaded" /\ manager = During[event]
  /\ manager' = CASE event = "CONNECTED" -> "connected"
                  [] event = "SOFT_AP_STARTED" -> "soft AP"
                  [] event = "CONNECT_FAILED" -> "scanning"
                  [] OTHER -> InMode[wifi_conn_mgr_event_cb(event)]
  /\ UNCHANGED <<wifi_setup, firmwareFile, driver, dlSize, dlIndex, straight, faults>>

scan ==
  /\ driver = "loaded" /\ manager = "scanning"
  /\ manager' = InMode[wifi_conn_mgr_event_cb("CONNECT_FAILED")]
  /\ UNCHANGED <<wifi_setup, firmwareFile, driver, dlSize, dlIndex, straight, faults>>

WifiNext ==
  \/ wifi_setup_task \/ Download \/ GiveUp
  \/ (\E event \in DOMAIN During : ManagerEvent(event)) \/ scan

WifiSpec == WifiInit /\ [][WifiNext]_wifiVars

-----------------------------------------------------------------------------
(* Properties                                                               *)

\* Type invariant.
WifiTypeOK ==
  /\ \E i \in 1 .. 5 : wifi_setup = Steps[i]
  /\ fileOpen \in BOOLEAN /\ filePos \in 0 .. FileSize /\ wf200_fw_size \in {0, FileSize}
  /\ driver \in {"off", "size", "read", "loaded"}
  /\ dlSize \in {0, FileSize} /\ dlIndex \in 0 .. FileSize
  /\ manager \in {"startup", "connecting", "connected", "scanning", "starting AP", "soft AP"}
  /\ straight \in BOOLEAN /\ faults \in 0 .. MaxFaults

\* Firmware that the driver has loaded to its end is the file, byte for byte, although a
\* download that follows one given up begins in the middle of the open file.
FirmwareWhole == driver = "loaded" => straight /\ dlIndex = FileSize

\* However many downloads were given up and wherever, one succeeds once the bus does.
FirmwareLoads == wifi_setup = "deleted" ~> driver = "loaded"
=============================================================================
