# TLA+ models of xcore_iot

xcore_iot is a set of FreeRTOS and bare-metal applications for the xcore.ai processor, with the tests of
the drivers they use. The drivers, FreeRTOS, TinyUSB, mbedTLS, Paho MQTT and the generic pipeline are git
submodules; the repository holds the applications. What is hard in them is what happens between tasks,
tiles, interrupts and a host: this directory models those parts in TLA+, checks the models with TLC and
proves part of what is checked for all values of the constants with TLAPS.

Paths below are relative to the repository's root. `EX` stands for `examples/freertos`, `TU` for
`examples/freertos/usb/tinyusb_demos`, `BM` for `examples/bare-metal/explorer_board/src`.

- [Inventory](#inventory)
- [Modules](#modules): what each one models and how it corresponds to the code
- [Runs](#runs): what is checked, bounds, results
- [Fairness](#fairness)
- [Proofs](#proofs)
- [Findings](#findings)
- [Limits](#what-is-only-model-checked-and-what-is-not-modelled)
- [Plan](#plan)

## Inventory

| Component | State it keeps | Operations | Interacts with | What is hard | Modelled by |
|---|---|---|---|---|---|
| DFU download (`EX/dfu/src/usb/app_dfu.c`) | `total_len`, `bytes_avail`, `dn_base_addr`; the flash | download, manifest, abort, upload, detach callbacks | TinyUSB's DFU class calls it; it locks and programs the QSPI flash | a host that gives up; power cuts inside a sector; address and space computed from different counters | `DfuDownload`, `PartitionStore` |
| DFU runtime demo (`TU/dfu_runtime`, `EX/usb/src/dfu_demo_support.c`) | image table, place of a download, mode flag in flash | building the table, download, upload, manifest, abort, detach callbacks | TinyUSB, flash, reset | a sector shared with an image; power cuts; a class left busy | `DfuRuntime` |
| MQTT client (`EX/iot/src/mqtt_demo`) | socket, TLS context, argument block, `mqtt_timeout`, LED word | connection task, handler task, message callback | network, TLS and MQTT libraries; GPIO | a session lent from one task to another; suspend and resume; a thread deleted anywhere | `MqttClient` |
| WiFi set-up (`EX/iot/src/network_demos`) | the firmware's file, bytes read, the manager's mode | set-up task, size and read callbacks, manager events | connection manager, WF200 driver, file system | a download given up in the middle and begun again | `WifiFirmware` |
| Explorer board controls (`EX/explorer_board/src/gpio_ctrl`) | notification, LED port, timers | button callback, `gpio_ctrl`, two timer callbacks | the audio pipeline (gain, LED port), FreeRTOS timers | unlocked read-modify-write from several cores; a timer queue that fills up | `ExplorerBoard` |
| Explorer board audio pipeline (`EX/explorer_board/src/example_pipeline`) | `xStage0_Gain`, LED 2 | stages 0, 1, 2 | the above | as above | `ExplorerBoard` (gain and LEDs) |
| UART loopback (`EX/explorer_board/src/uart`) | the queue of vectors, the receive buffer | sending task, receiving task | UART drivers, a wire | a byte lost between two tasks that count bytes | `UartLoopback` |
| Tracealyzer demo (`EX/tracealyzer/src/main.c`) | `process_state`, subprocess counts, mutex, notifications, LEDs | process task, subprocess tasks, timers, gpio task, button callback | each other, on several cores | a mutex several tasks compete for; a clock that wraps; notification bits overwritten | `Tracealyzer` |
| xscope2psf (`EX/tracealyzer/host/xscope2psf.c`) | metadata state, per-core counters, event count, `running` | options, reading a VCD file, endpoint callbacks, `main` | the target's trace; stdio; the endpoint library | lost records, wrapping counters, callbacks after the end, a file that still grows | `XscopeToPsf` |
| xscope file I/O (`EX/xscope_fileio/src`) | files, block number, frames in the stages | file task, three stages on two tiles | the host's files; intertile links; a queue | a block passes six tasks and links; heap frames; partial files | `XscopeFileIo` |
| Device control (`EX/device_control/src`, `host`) | registrations, command table, values | start-up of both tiles, servicers, host command | USB control requests, the control library | start order of the tiles; values cut and put together again | `DeviceControl` |
| xlink demo (`EX/xlink/src`) | link control register, states, token counters | transmit handler, re-enable task, receiver, report task | the switch's registers, I2C, the other board | registers and counters changed by two tasks | `Xlink` |
| Bare-metal board (`BM/audio_pipeline`, `BM/demos/gpio_server.c`) | gain, LEDs, frames, channels | `gpio_server`, stages a, b, c | one another, in a ring of blocking channels | circular waits; frames that come too early; a byte of an old frame | `BareMetalBoard` |
| Bare-metal start-up (`BM/main.c`, codec, UART, SPI, flash demos) | progress of the tiles, codec registers, jobs | hand-shake, codec set-up, start of the jobs | tiles, I2C, UART | two tiles that wait for each other; a codec that does not answer | `BareMetalStartUp` |
| HID demos (`TU/hid_*`) | pressed keys, position in the report chain | polling task, report, bus and LED callbacks | TinyUSB's endpoints, buttons, host | two tasks that share one endpoint; suspend at the wrong moment | `HidReports` |
| USBTMC demo (`TU/usbtmc`) | message buffer, index, query state, status | message, request, clear, abort, trigger callbacks; application task | TinyUSB's class, host | two tasks over one buffer; requests before an answer is ready | `UsbtmcApp` |
| Audio demos (`TU/uac2_headset`, `TU/audio_test`) | buffers, sizes, stream buffer; mutes, volumes, rate | audio tasks, transfer callbacks, entity requests | TinyUSB, microphone, host | buffers reused while the next frame comes | `UsbAudio`, `AudioControls` |
| Serial demos (`TU/webusb_serial`, `TU/cdc_dual_ports`, `TU/cdc_msc`) | FIFOs, connection | echo tasks, control requests | TinyUSB, terminal, web page | two writers of one FIFO, one of them character by character | `SerialEcho` |
| Disk demos (`TU/msc_dual_lun`, the disk of `TU/cdc_msc`) | blocks, `ejected` | block, start/stop, ready and SCSI callbacks | TinyUSB, host | commands of several blocks that run past the end or are given up | `UsbDisks` |
| Video demo (`TU/video_capture`) | frame buffer, frame number, busy flag | video task, transfer and commit callbacks | TinyUSB, host | drawing in the buffer being sent | `VideoCapture` |
| MIDI demo (`TU/midi_test`) | position in the melody | note task, bus callbacks | TinyUSB, host | messages lost, a note that stays on | `MidiNotes` |
| USB descriptors, start-up, enumeration (`TU/*/src/usb_descriptors.c`, `EX/usb/src/main.c`) | tables; objects made so far; blink interval | descriptor callbacks, start-up task, bus callbacks, LED timer | host, TinyUSB | numbers kept in step by hand in several files; a bus event before the objects exist | `UsbDescriptors`, `UsbEnumeration` |
| Explorer file-system and memory demos, board support, getting started, L2 cache, driver tests, `TU/dfu`, `TU/hid_generic_inout` | | | | sequential, or the behaviour is the submodule's | not modelled, reasons in `PROJECT.json` |

What makes each modelled component correct, in one sentence:

- **DFU download**: whatever the host gives up and wherever power fails, only the chosen partition is
  written, a completed download is there byte for byte, and what fits is not refused.
- **DFU runtime demo**: a download, a mode change or a power cut leaves every image that was found at start
  as it was, except in the sector that holds the mode flag.
- **MQTT client**: the session is up as long as somebody can use it, nothing of it is left for the next
  attempt, and a lost session is closed and retried with a delay that does not shrink.
- **WiFi set-up**: the driver never takes part of the firmware for the whole, and loads it in the end.
- **Explorer board**: the gain stays in range under unlocked updates, the timers follow the buttons, and
  the LEDs show the buttons.
- **UART loopback**: the receiver compares each copy with the bytes sent for it (not after a loss, see below).
- **Tracealyzer demo**: the subprocesses asked for run once each and in order, a timeout happens only when
  enough of them run, and every run ends.
- **xscope2psf**: a trace with lost metadata is refused unless its events pass for it by their length, the
  events reported missing are those missing,
  and a run ends with its files closed, whatever it was called with.
- **xscope file I/O**: the output is the input with the gain applied, block by block, in order, and of the
  length its header tells.
- **Device control**: the number a user types arrives at the servicer of the right tile, at most clamped
  to the type of the command (or, negative and of the widest unsigned type, as its complement), and the bytes the servicer gives are the numbers the user sees.
- **xlink demo**: the link does not stay closed, and what is received is reported once (it is not always, see
  below).
- **Bare-metal board**: with frames that come in time the threads never wait in a circle, and the LED tells the truth of the last frame.
- **Bare-metal start-up**: both tiles come to their jobs, whether or not the codec answers, and tile 1 is
  told that the codec is ready only if every register was written.
- **HID demos**: a key let go is reported as let go.
- **USBTMC demo**: an answer is what was asked for, whole (that to `*idn?` as far as it was asked for, see below) and
  once, and comes in the end.
- **Audio demos**: nothing of a frame goes out twice or before an older one; settings are those last set.
- **Serial demos**: every port shows what was typed, in order and without holes while its FIFO has room.
- **Disk demos**: the host reads what it wrote, and only to the disk it addressed.
- **Video demo**: a frame the host sees is torn by one position of the bars at most.
- **MIDI demo**: a note whose end was lost ends with the next time it is played, if not before.
- **USB firmwares**: what a device says of itself agrees with the class drivers built into it, a host can
  enumerate it to the end, and its LED tells the state of the bus.

The hazards, each at its line and with the properties that cover it, are in `PROJECT.json`. Others, which no
property covers:

- *MQTT*: `mqtt_demo_client.c:71` searches the payload with `strstr`, which runs on into what earlier
  packets left in the buffer; `:350` ignores the result of `xTaskCreate` and then waits for a task that may
  not exist.
- *Tracealyzer*: at `main.c:223` a stop time beyond the wrap ends the spin at once.
- *xlink*: `xlink_rx.c:53` reads the counter of data tokens and clears it several I2C transfers later, so
  that tokens that come in between are never reported; `xlink_tx.c:126` goes on, after an exception, with a
  channel end that is not allocated, and the task stops there. Both are in the model (`StoreCount`,
  `OutputRaises`).
- *UART loopback*: after one lost byte `uart_rx_demo` reads the rest of one vector and the beginning of the
  next for ever. In the model (`ReadEnds`).
- *DFU runtime*: `demo_main.c:184` puts a block of at most 512 bytes at `block_num` times a page of 4096;
  `:162` never calls `tud_dfu_finish_flashing`; `flash_boot_image.c:88` measures the space left from the
  image's end. All in the model.
- *Bus and LED*: `EX/usb/src/main.c` starts the USB task before the demo makes its timer (in the model: the
  stage at which a callback finds an object). The pulse of `usbtmc` leaves the LED at its interval until
  the next bus event; the headset's LED shows MOUNTED after a resume although a stream is open (in the model,
  as are the requests below). `webusb_serial` (`:194`) says "Always lit LED if connected", but changes only the
  timer's period: the LED keeps the level it has until the next toggle. Caps lock on the keyboard of
  `hid_boot_interface` sets a variable that its timer never reads again; on that of `hid_composite` it sets
  an interval of nothing, at which `vTaskDelayUntil` asserts and the firmware stops.
- *USBTMC*: `usbtmc_app.c:235` sends of the answer to `*idn?` no more than the request has room for, and marks that
  as the end of the message whatever is left. In the model, and excepted in `AnswerWhole`.
- *Headset*: behind a mix that a shorter frame overtakes, the rest of an older one goes out
  (`uac2_headset/src/demo_main.c:392`, `:407`), and part of the frame that overtook it goes out now and again with
  its own mix. In the model, and excepted in `NoAudioTwice`.
- *Device control*: `host/commands.c:241` reads a negative argument of the widest unsigned type as a large one,
  while every other type is clamped. In the model, and excepted in `ValuesArrive`.
- *Audio*: `tud_audio_set_itf_cb` of the headset (`demo_main.c:338`) takes its resolution from the setting
  of either interface; the stream buffer of `audio_test` may not exist yet when an early host asks for data.
- *Disks*: nothing resets `ejected` of `cdc_msc`. *Descriptors*: the qualifier of `cdc_dual_ports` has the
  type of a device descriptor and its other-speed configuration that of a configuration
  (`usb_descriptors.c:151`, `:181`); the strings of the headset's two streams are exchanged; `webusb_serial`
  and `usbtmc` have the packet size of high speed whatever the speed is. `hid_generic_inout` ignores whether
  its echo was taken (`demo_main.c:116`).
- *Bare metal*: `spi_demo` prints the buffer it sent as what it received; a byte that `uart_rx_demo` misses
  shifts every comparison after it; a codec that did not answer is reported and the audio started all the
  same. In `gpio_server.c:51` a change of one button repeats the request of the other if it is held, and a
  button held since the start lights no LED.
- *Host tools*: `EX/xscope_fileio/src/wav/wav_utils.c:58` computes with a chunk size it has not checked;
  `xscope_fileio_task.c:100` creates the queue while the pipeline of the same tile may already run;
  `EX/tracealyzer/host/xscope2psf.c:526` takes the first event for a table entry when the table is empty,
  `:549` may read half a line in stream mode, `:573` passes NULL to `strcmp` for a blank header line, and in
  port mode the exit code does not tell that the trace was refused;
  `EX/device_control/host/device_control_host.c` does not check `calloc`.

## Modules

Every component has a module that is parameterised by CONSTANTS with named assumptions. `UsbDemos` and
`BoardDemos` put together the applications that are small enough to be checked in one run; the others have a
run of their own. An `MC` module gives the values that a `.cfg` cannot write, and there is one `.cfg` per
run. The modules `...Proofs` hold the theorems: `DfuDownloadProofs`, `MqttClientProofs`,
`ExplorerBoardProofs`, `XscopeToPsfProofs`, `DeviceControlProofs`, `BoardDemosProofs` (file I/O, WiFi, UART, xlink,
bare metal, Tracealyzer and the composition of all), `SerialEchoProofs` and `UsbDemosProofs` (the other USB components
and theirs). A definition whose comment begins "(Faulty variant: ...)" is not part of a model: it is the
defect that shows that a property can fail.

### DfuDownload and PartitionStore

`DfuDownload` models `EX/dfu/src/usb/app_dfu.c`. `flash` maps addresses to cells that tell which transfer
and which offset of it was written; `total_len`, `bytes_avail` and `dn_base_addr` are the file's statics;
`pc`, `cur_addr` and `tmp_buf` are the locals of `tud_dfu_download_cb`, whose erase and write are separate
steps because power may fail between them.

| Code | Action |
|---|---|
| `tud_dfu_download_cb`, alternate setting 0 | `DownloadRefused` |
| choice of the partition, space check, read and patch of the sector | `DownloadRead` (`TargetOf`, `Fits`, `BlockAddr`, `Patched`) |
| the space check fails: `ERR_ADDRESS`, then `OK` | `DownloadNoSpace` |
| `rtos_qspi_flash_erase`, `rtos_qspi_flash_write` | `DownloadErase`, `DownloadWrite` |
| `tud_dfu_manifest_cb`, `tud_dfu_abort_cb`, `tud_dfu_upload_cb` | the same names |
| power cut, the watchdog armed by `tud_dfu_detach_cb`, and start-up with `dfu_image_ctx` taken | `Reboot` |
| the DFU class and the host (external) | `Dnload`, `DnloadEnd`, `finish_flashing`, `Quiet` |

`PartitionStore` is what a download promises without the DFU state machine: one partition is open for one
image, whose bytes land one after another from the start of the partition; a sector being programmed is
blank for a while; when the host gives up, what follows is only known to stay inside the open partition.
`ImplementsStore` states that `DfuDownload` implements it under the mapping `flash`, (`dn_base_addr`,
`host`, `total_len`), (`pc`, `cur_addr`, `tmp_buf`).

### MqttClient

`conn`, `handler` and `thread` are the places of the connection task (`mqtt_demo_connect`), of the handler
task it creates (`mqtt_handler`) and of the MQTT client's own thread. `socket`, `ssl` and `args` are what
is lent and taken back; `val` and `port` the LED word and what the port shows. The steps of
`mqtt_demo_connect` are, in order, `WaitNetwork`, `WaitAddress`, `WaitCredentials`, then for each attempt
`InitSsl`, `OpenSocket`, `TcpConnect`, `Handshake`, `SpawnHandler`, `SuspendSelf`, and on the way out
`FreeArgs`, `CloseNotify`, `ShutdownSocket`, `DrainSocket`, `CloseSocket`, `FreeSsl`, `DelayAttempt`;
those of `mqtt_handler` are `StartClient`, `MQTTConnect`, `MQTTSubscribe`, `Poll`, `DeleteThread`,
`ResumeCaller`. `messageArrived` and `ShowLeds` are the LED callback. A call into the network succeeds or
fails. `ResumeCaller` has an effect only on a task that is suspended, as `vTaskResume` has.

### ExplorerBoard

Every access to the LED port and to `xStage0_Gain` is a step of its own, because the code takes no lock and
the tasks run on different cores. `button_callback` is the interrupt. `gpio_ctrl` takes its notification,
reads the buttons, reads and writes the LEDs and, for each button, starts or stops its timer and changes
the gain (`GetGain`, `SetGain`). `TakeCommand`, `RapidFire` and `RapidFireEnd` are the timer daemon with
`vVolumeUpCallback` and `vVolumeDownCallback`. `StageReads` and `StageWrites` are stage 1's update of LED 2.

### Tracealyzer

`Idle`, `DelayEnd`, `Setup`, `Measure`, `TakeMutex`, `Spin` and `TimedOut` are the process task;
`SubWake`, `SubTake`, `SubSpin` and `SubGive` a subprocess, which notifies the next one before it gives the
mutex back. `subprocess_tmr_callback`, `button_callback`, `hbeat_tmr_callback` and `gpio_task` are the
handlers of those names. Time passes only when a task spins; `now` wraps at `RefPeriod`, and
`get_abs_delta` is the code's, wrap included. The history variables `ran` and `timeouts` are what the
properties speak of; no action reads them.

### XscopeToPsf

`process_args` (over `StartMain`), `OpenInput` and `OpenOutput` stand for `main` up to the loop: a command
line is a sequence of words of which the program knows the options. The target sends metadata, then events of
its cores; a record may be lost (`dropped`, `gap` remember it) and an event may be cut short. Reading a line
and the end of the file are the loop of `process_vcd_file`; `xscope_record_cb` and `xscope_exit_cb` the
callbacks of port mode; `NotRunning` and `CloseFiles` the end of `main`. `process_psf_data` and what it calls
keep their names. A record is its kind, its length (all that the code compares), its core and its counter;
`written` is the last one written to the PSF file. An event may be as long as a record of the metadata and is
then taken for one: `mistaken` are the kinds this has happened to, and what the bytes of an event say when they
are taken for a table's header is one of `FalseTables`. A counter has `CountValues` values, 0x1000 in the code. The
endpoint library calls back only between the connection and the end of `main`.

### XscopeFileIo

`OpenFiles`, `ReadBlock`, `SendBlock`, `WriteBlock` and `CloseFiles` are the file task; `Allocate1`,
`Stage1Receive`, `Stage1Pass`, `Stage2Receive`, `Stage2Send` the stages of tile 1; `Allocate3`,
`Stage3Receive` and `xscope_fileio_tx_to_host` the stage of tile 0. Links and queues hold one block.
`Supported` is the acceptance of a WAV header, `Twice` the doubling of a sample, which wraps at `HalfRange`
(2^31 in the code).

### BareMetalBoard

`event_btn` and `HandleButton`, `event_chan`, `event_timer` are the events of `gpio_server`; `ap_stage_a`,
`ScaleFrame`, `gpio_request`, `ReceiveFrame`, `SendLed` and `OutputFrame` those of the pipeline. Channels
hold `Capacity` bytes, after which `chanend_out_byte` waits. Samples are abstracted to a level in dB. A frame
may come from the microphones whenever stage a is free. `pace`, which nothing reads, remembers whether one
ever came while `gpio_server`, stage b or stage c still had something to do (`Busy`), or while the I2S
master was a whole frame behind (`OutputBehind`).

### BareMetalStartUp

`tile` is how far each tile has come through `main`; `TileSteps` lists the steps in their order.
`EstablishChannel`, `Tell` and `AwaitByte` are the channel between the tiles, over which one tile may be
ahead of the other; `tile1_setup_dac` and `SignalReset` take the codec out of reset, `aic3204_reg_write` is
one write, which succeeds or fails, and the first that fails ends the set-up (`CodecDone`, `TellCodec`).
`codec` is its register pages as they were written. `StartJobs` ends the sequence. `SendRamp`, `CheckRamp`,
`spi_demo` and `flash_demo` are jobs that share nothing with the audio.

### WifiFirmware

`wifi_setup_task` goes through `Steps`. The driver (external) asks for the size, then reads chunk by chunk:
`sl_wfx_app_fw_size` opens the file unless it is open, `sl_wfx_app_fw_read` reads at the file's position,
whatever index the driver is at, and closes after the last byte. `GiveUp` ends a download anywhere.
`straight` remembers whether what has been loaded is the file from its start. `ManagerEvent` and
`wifi_conn_mgr_event_cb` are the events of the connection manager with the mode each answer asks for.

### DeviceControl

`tileAt` is each tile's place in its start-up: `app_control_init`, the byte by which the tiles wait for each
other (`sync`), the registration of the tile's servicer, and the servicer's loop. On the host `Call` takes a
command line, `command_arg_string_to_value` clamps an argument to the type, except that one of the widest
unsigned type (`IsUint64`) is read by `strtoull`, which takes a negative one modulo its range; `command_bytes_from_value` and
`command_bytes_to_value` cut a value into bytes and put it together with its sign; `command_xfer`, `read_cmd`
and `write_cmd` are the exchange. Bytes have `ByteBase` values, the widest type
`WideBytes` bytes.

### UartLoopback and Xlink

`UartLoopback`: `SendByte`, `QueueVector` and `TakeVector`, `ReadByte`, `ReadEnds` are the two tasks, with the
wire and the driver's buffer between them; a byte may be lost on the wire or for lack of room.

`Xlink`: one of the two boards. `ReadRegister`, `EnableBit` and `WriteRegister` are the unlocked changes of
the link's control register, of which each task of the transmitting board has one under way (`op`, `read`).
`Handle` and `TransmitLoop` are the transmit handler's states, `xlink_tx_reenable` the other task. On the
receiving board `GoTo`, `Transaction`, `StoreCount` and `TimeOut` are the receiver and its report.

### DfuRuntime

`img_table` is built at start by `boot_image_find_factory_image` and `boot_image_locate_next_image`.
`boot_image_locate_available_spot` gives the place of a download; `tud_dfu_download_cb`, `EraseSector` and
`WriteSector` are the read, erase and write of a sector, between which power may fail; `write_dfu_mode` does
the same to the sector of the mode flag. `tud_dfu_upload_cb` answers from the image
`boot_image_get_last_image` returns. As the download callback never finishes the flashing, the class stays
busy after a block (`dfuBusy`), and only a download without data reaches `tud_dfu_manifest_cb`.
Addresses are in units of the smallest block.

### HidReports

`hid_task` and `usb_task` are the places of the two tasks that send. `Ready` is checked (`CheckReady`) before
`SendFromTask` queues a report, and in the composite demo `ReportComplete` and `SendFromCallback` do the same
in the USB task with the next report of the `Chain`. An endpoint that holds a report refuses another
(`Queue`). Bus events and caps lock set `blink`, which `led_blinky_task` reads; `halted` is its assertion.

### UsbtmcApp

`StartIteration`, `FirstDelay`, `SecondDelay`, `Transmit` and `EndIdnQuery` are one iteration of
`usbtmc_app_task_iter`, split where the USB task may come in between. The `tud_usbtmc_*_cb` are the callbacks
of those names. `busRead` is TinyUSB's readiness to take a message, `bulkIn` the transmission under way. The
host sends, asks, may clear, abort or trigger; it is `polite` as long as it has not cleared, nor asked for an
answer unprompted. The answer to `*idn?` is `IdnLength` units, of which `Transmit` sends no more than the
request asks for and marks them as the end. A message that is refused stalls the endpoint until the host
clears it.

### UsbAudio and AudioControls

`UsbAudio`: `tud_audio_rx_done_pre_read_cb` reads a frame of any size into `spk_buf` pair by pair
(`BeginFrame`, `ReadPair`) and then tells its size (`AnnounceFrame`), while the headset's task goes through
`StartMix`, `ReadLimit`, `MixPair`, `WriteMix` and `ClearFrame`. The two tasks share the buffer and
`spk_data_size` without a lock; that is not volatile, so where the task names it again it may have read it again
or not. `played` is what was written to the microphone's stream, each write with how many of its pairs were
mixed for it and whether a frame began to come meanwhile. In `audio_test` the microphone's task fills the stream
buffer (`BufferFrame`) and `tud_audio_tx_done_pre_load_cb` empties it. What is compared is the frame and the
place that a pair, or a byte, has.

`AudioControls`: `tud_audio_get_req_entity_cb` and `tud_audio_set_req_entity_cb` with the dispatch by entity,
control and channel and the checks of length. `believed` is what the host has set; `strayed` is set by a
request for a channel that the tables have no entry for.

### SerialEcho, VideoCapture, MidiNotes, UsbDisks

`SerialEcho`: `ReadChunk` reads what there is; what is to be written of it (`Writes`) is then written to one port
after another, at once (`WriteChunk`, `tud_vendor_write` and `tud_cdc_write`) or a character at a time
(`WriteChar`, `tud_cdc_write_char` and the line feed behind a return), while the other task writes to the same
FIFOs. A character is the port it was typed at, its number there and its case.

`VideoCapture`: `video_task` in its steps: checking the stream, drawing the two parts of the buffer, offering
it; `SendPart` is TinyUSB's read of a part, `tud_video_frame_xfer_complete_cb` and `tud_video_commit_cb` the
callbacks.

`MidiNotes`: `NextNote`, `NoteOn`, `NoteOff` are the body of `midi_task`; a message that finds the FIFO full
or the device unmounted is lost. `kept` counts the messages since one was lost.

`UsbDisks`: `disk` is the blocks of each unit, built by `msc_disk`; a command calls back once per block
(`ServeBlock`), may begin or end beyond the disk and may be given up. `told` and `found` are what the host
takes a block to be and what it finds when it mounts the disk as a FAT file system.

### UsbDescriptors and UsbEnumeration

`UsbDescriptors` has no state: for each of the 17 firmwares a record of its product id, the class drivers its
`tusb_config.h` compiles in, its strings, the functions of its configuration at each speed, what
`create_tinyusb_demo` makes and how its LED blinks. `UsbEnumeration` plugs the boards in: `stage` is the
request the host is at, the descriptor callbacks answer it, `startup_task` makes one object after another, and
`mount_cb`, `umount_cb`, `suspend_cb`, `resume_cb` use those objects, which an early host may find missing
(`stopped`). `drivers` is what the host keeps for an id. Requests of a class change how some LEDs blink:
`tud_usbtmc_indicator_pulse_cb` of `usbtmc`, `SelectSpeaker` of the headset, `ConnectPage` of `webusb_serial`,
`SetKeyboardLeds` of the keyboards. `using` is what the host asked for last and `renewed` whether a bus event
came since.

### UsbDemos and BoardDemos

Each firmware of the repository is built from one application. `demo` and `flashed` name the one that runs;
its steps are those of its module, and the variables of the others keep one value. The composition adds
no interleaving between applications that never share a chip, and lets one run ask the questions of all.

## Runs

Each property of a passing run has a faulty variant of a definition of the code (`PROJECT.json`, `mutants`)
under which TLC finds it violated in the same run.

| Run | Result | Distinct states | Shows |
|---|---|---|---|
| `dfu_download` | passes | 8 068 | two downloads of images of 1, 3, 4, 5 cells into partitions of 4 |
| `dfu_stale_base` | violation | | `OnlySelectedPartition` |
| `explorer_board` | passes | 181 000 | three button edges, a timer queue of two |
| `explorer_leds` | violation | | `ButtonLedsSettle` |
| `mqtt_lost_wakeup` | violation | | `Reconnects` |
| `tracealyzer_led` | violation | | `TimeoutTogglesLed` |
| `xscope2psf` | passes | 685 285 | 14 command lines, three modes, two cores, a counter of two bits |
| `xscope_stream` | violation | | `StreamGoesOn` |
| `board_demos` | passes | 211 524 | nine applications for the boards |
| `usb_demos` | passes | 344 119 | nine kinds of USB demo, and the enumeration of 17 firmwares |
| `hid_stuck_key` | violation | | `KeyReleased` |
| `usb_product_ids` | violation | | `DriverFits` |

**dfu_download.** `FactoryUntouched`: nothing below the upgrade partition is ever written. `SectorInTarget`:
the sector being programmed is in the partition that `dn_base_addr` names, although the space check counts
bytes and the address follows the block number. `ReadBack`: a download that reached manifestation from a
fresh start is in the selected partition whole, and is what an upload returns after a restart: the length of
an upload is that of the image found at start-up (`dfu_image_ctx`, taken in `Reboot`), and an upload before it
returns as much as the image of that time had. `FittingImageAccepted`: only
what is too long is refused. `ImplementsStore`: the refinement. Bounds: two transfers suffice for the second
to start on what the first left; the image lengths end exactly at the partition's end, inside its last
sector, and beyond it. The sector size equals the transfer size, as `CFG_TUD_DFU_XFER_BUFSIZE` does.

**explorer_board.** `GainInRange`, `TimersFollowButtons`, `ReleaseStopsVolume`. Three edges contain press,
release and press again, and both buttons held; more edges repeat these states. A queue of two commands
can be full for a command, which `dropped` records: the properties say what holds otherwise.

**xscope2psf.** A counter of two bits wraps within four events; the table has two entries; one core is
known to the header and one is not; events are shorter than their counter, or as long as a table's header or
as one of its entries. `MetadataLossDetected`: events are processed only when nothing was lost of the metadata,
or when an event as long took the place of every kind that was; and only lost metadata is ever mistaken.
`MissingReported`: the number reported is that of the core's events lost or cut short since its last whole
one, as long as fewer than all the counter's values are missing (beyond that no reader could tell).
`RunEnds`: with every command line, whatever could be opened, the program ends with its files closed. At most
one record is unread: what the program does with a record does not depend on those behind it. The
program ends, hence no check for deadlock.

**board_demos.** Most of these applications end or wait for ever, so deadlock is not checked; the liveness
properties say where none may stop.

- *Tracealyzer*: two subprocesses of two units against a tolerance of four, so that both are needed for a
  timeout; seven values of the clock wrap within two runs; two button edges, one heartbeat.
  `RequestedRunInOrder`: each subprocess asked for runs once, in order, before the next run, and a
  timeout needs enough of them; `RunEnds`.
- *File I/O*: blocks of two samples of four bits; the samples 7 and -8 overflow under the gain as large ones
  do in 32 bits. Seven files end with a block or within one, are shorter than their header says, or are not
  supported. `OutputRight` compares every sample written with the code's arithmetic on the input, and the
  header written first with the data written last; `SupportedFileCopied`.
- *Bare metal*: two gains (0 and 4), at one of which the level is above the threshold; channels of one byte,
  so that every byte can meet a full channel. `PowerLedTrue` is checked whenever frames come. `BoardsGoOn`
  says that every button press is handled and every captured frame reaches the DAC, as long as frames come in time:
  when the board is done with those before, of which the last may still be on its way to the DAC. Two frames are then
  under way, and `gpio_server` does wait for stage b while b waits for stage c. A frame is 256 samples at
  16 kHz (16 ms), which the I2S master plays at the rate they were captured, and each event takes
  microseconds. The condition is needed: without it TLC finds the circle in which `gpio_server` waits for
  stage b, b for c and c for `gpio_server`, when frames pile up in the stages while a button's bytes wait (larger
  channels need more frames for it). `BoardsGoOn` also says that both tiles come to their jobs with the codec
  set up or known not to be. At start-up any write to the codec may be refused; the ramp has four
  values, of which one may be lost; a tile has eight threads.
- *Device control*: bytes of four values, commands to read, to write and both, of one and two bytes (two being the
  widest type), signed and unsigned, one for a resource that nobody serves; arguments within the types and beyond
  them at both ends, among them a negative one for the widest unsigned type. One program
  runs to its end. `ValuesArrive`.
- *MQTT*: two LEDs; `SessionHeldWhileUsed`, `CleanSlate`, `DarkUntilSubscribed`, `BackoffKept` and
  `LostSessionClosed`. Attempts are unlimited, since the state returns; only the delay is bounded
  (`DelayBound`, beyond which no handshake fails). The delays 1, 2, 3 reach the clamp and two steps beyond.
- *WiFi*: a file of five bytes in blocks of two, so that the last block is short; three downloads given up.
  `FirmwareWhole`, `FirmwareLoads`.
- *UART and xlink*: vectors of two bytes, one of which may be lost; a control token after each byte, two tokens.
  `BoardsGoOn` says of the transmitting board that its link does not stay closed, although both of its tasks
  write the register back as they read it. Of the others only the types are checked: what one would like to
  claim of them (that the UART receiver finds its place again, that each token is reported once) is false, as
  the inventory says.

**usb_demos.** The demos end nowhere, but the bounds on what the host does end the behaviours, hence no check
for deadlock.

- *HID*, boot and multiple-interface demos: four presses and releases, four bus events, enough for a release
  during a suspend and one while the endpoint is busy. `KeyReleasedByOneTask`.
- *USBTMC*: a buffer of four units sent in packets of two, so that an answer is shorter than, as long as and longer
  than a packet, and a message may be too long; an answer to `*idn?` of two units, which a request for one cuts; two messages, one clear or abort, one trigger. `AnswerWhole`,
  `EchoAnswered`.
- *DFU runtime*: pages of two units, a partition of ten in a flash of sixteen, images of 2, 3 and 7 units, so
  that an image ends with a sector and within one; four starts. `ListedImagesKept`.
- *Audio*: three frames, those of the host of one pair or two, so that a frame overtakes a longer and a shorter
  one; a stream buffer of twelve bytes, in which frames and samples do not come out even; three changes of
  interface. `NoAudioTwice`: a mix that no frame overtakes plays its frame from the first pair to the last
  and nothing else, and nothing is mixed twice but, in part, a frame that overtook a mix; the microphone sends
  whole samples in order. Volumes 0, 45 and -12800 are the ends of the range and a
  value inside; `SettingsHeard`.
- *Serial*: chunks of two, FIFOs of six, three characters typed at either port, each a letter or a return, two
  changes of the lines. `EchoFaithful`.
- *Video*: positions of the bars up to four, three streams. `TornByOneAtMost`.
- *MIDI*: a melody of four notes with one of them twice, a FIFO of two messages, two bus events. `LostNotesEnd`.
- *Disks*: four blocks, two commands of one or two blocks. `DiskAsTold`.
- *Bus*: each of the 17 firmwares is plugged in once at either speed, suspended and resumed twice.
  `EnumerationEnds`, `ConfigurationSound`, `BlinkTellsBus`: the LED's interval is that of the last bus event, or of the
  last request of the class if one came since, for every firmware.

## Fairness

Safety is checked with the same specification; fairness only matters to the liveness properties.

- *MqttClient*: weak fairness of each task. The scheduler is preemptive, every task blocks between its
  calls, and calls into the network have time-outs. Nothing is assumed of messages, of the network or of
  the loss of a connection.
- *ExplorerBoard*: weak fairness of `gpio_ctrl` and of the end of a timer callback; strong fairness of
  `TakeCommand`, as the daemon empties its queue between two expiries of a timer, which are
  `appconfGPIO_VOLUME_RAPID_FIRE_MS` apart.
- *Tracealyzer*: weak fairness of the process, the subprocesses and the timer: there are cores for all of
  them. None of the gpio task, nor of the mutex: that the
  process gets it follows from the chain being finite.
- *XscopeToPsf*: the program and the library's callbacks run; the target need not do anything.
- *XscopeFileIo*: weak fairness of every task; each waits only for the next one, and the host answers.
- *BareMetalBoard*: every thread has a hardware thread of its own. Strong fairness of the events, since the
  event hardware does not pass over one that is ready again and again. Nothing is assumed of the microphones. *BareMetalStartUp*: each tile runs;
  nothing is assumed of the codec.
- *WifiFirmware* (`DriverFairness`): the set-up task runs, and the driver goes on and begins again; the
  faults that end a download are bounded, as a bus that fails for ever loads nothing.
- *HidReports*, *UsbtmcApp* (`HidFairness`, `TmcFairness`): the task and the USB task run, and the host
  polls the endpoints. Nothing is assumed of presses, of the bus or of the messages the host sends.
- *UsbEnumeration* (`EnumFairness`): the start-up task and the host's next request. Nothing is assumed of
  when a board is unplugged or suspended.

- *Xlink* (`ReenableFairness`): the re-enabling task runs. Nothing is assumed of credits, tokens or the other task.

In a composed run each condition is that of the application that runs (`Runs("mqtt") /\ ...`).

## Proofs

Every theorem holds for all values of the constants that satisfy the module's assumptions, which TLC
evaluates in each run. Every invariant below was checked by TLC before it was proved. Except where a
line says otherwise the proof has the three parts of an inductive invariant: it holds at first, each action
keeps it (a lemma per action or group of actions), and it implies the property.

| Theorem | States of all constants | Inductive invariant |
|---|---|---|
| `TypeCorrect`, `FactorySafe`, `TargetSafe` | `TypeOK`, `FactoryUntouched`, `SectorInTarget` of `DfuDownload` | `Inv` |
| `FreshReadsBack`, `FittingAccepted` | `ReadBack`, `FittingImageAccepted` | `StoreInv` |
| `StoreImplemented` | `ImplementsStore`: `DfuDownload` refines `PartitionStore` | `StoreInv` |
| `MqttTypeCorrect`, `SessionSafe`, `AttemptsClean`, `SessionsDark`, `BackoffSafe` | `SessionHeldWhileUsed`, `CleanSlate`, `DarkUntilSubscribed`, `BackoffKept` | `Owned`, `Borrowed`, `Dark` |
| `ExplorerTypeCorrect`, `GainSafe` | `GainInRange` | `IInv` |
| `TimersRight` | `TimersFollowButtons` | `IInv`, `TimerInv` |
| `OutputIsRight` | `OutputRight` | `FioInv` |
| `LossFound`, `MissingCounted` | `MetadataLossDetected`, `MissingReported` | `PsfInv` |
| `CommandValuesArrive` | `ValuesArrive` | `ControlInv` of `DeviceControlProofs` |
| `FirmwareLoadedWhole` | `FirmwareWhole` | `WifiInv` |
| `BareMetalSafe` | `PowerLedTrue` | `BoardInv` |
| `ChainRunsInOrder` | `RequestedRunInOrder` | `TraceInv` |
| `DemosTyped` | `DemosTypeOK`: every application of `BoardDemos` | the above, `UartInv`, `XlinkInv`, `StartInv` |
| `FramesBarelyTorn` | `TornByOneAtMost` | `VideoInv` |
| `ImagesSurvive` | `ListedImagesKept` | `RtInv` |
| `SettingsAsHeard` | `SettingsHeard` | `ControlInv` of `UsbDemosProofs` |
| `DisksAsTold` | `DiskAsTold` | `DiskInv` |
| `AudioOnce` | `NoAudioTwice` | `AudioInv` |
| `BlinkFollowsBus` | `BlinkTellsBus` | `EnumInv` |
| `AnswersWhole` | `AnswerWhole` | `TmcInv` |
| `NotesEnd` | `LostNotesEnd` | `MidiInv` |
| `EchoesFaithful` | `EchoFaithful` | `EchoInv` |
| `UsbTyped` | `UsbTypeOK`: every component of `UsbDemos` | the above, `HidInv` |
| `DemosKeepPromises`, `UsbKeepsPromises` | the above, of the composed specifications the runs check | those of the components |

Each component's theorem is about its own specification (`WifiSpec`, `TmcSpec`, ...) and contains its type
invariant. `DemosKeepPromises`, `DemosTyped`, `UsbKeepsPromises` and `UsbTyped` carry them to `BoardDemos` and `UsbDemos`: `OwnSteps` shows that a step of the
composition is a step or a stutter of every component, since the firmware that is not flashed does not move.

**DFU download** (from `LayoutAssumption`: partitions of whole sectors, one after another). `SectorInTarget` is
not inductive: that a sector address lies inside the partition follows from three facts that only hold
together, kept in `Inv`. `StaticsInv`: the statics name one partition, its size and no more bytes than it
holds. `BlockInv`: every block but the last is whole, so a block's offset is its number times the block size,
and at least the bytes before it have been counted. `CallbackInv`: the callback works on the sector of the
block it was given. The step that matters is `SpaceCheck`: if `bytes_avail - total_len >= length > 0` and
`total_len >= offset`, the block starts in the partition, and since partitions are whole sectors
(`BlockEndsInside`) the whole sector does. An aborted transfer only makes `total_len` larger than the
offset, which is why the factory image survives it.

`StoreInv` adds what a transfer knows that found no partition selected, and one after an abort does not:
its bytes are counted exactly and lie in the partition it named (`FreshInv`), the buffer holds the block
and, until the erase, the rest of the sector (`BufferInv`), and a manifested image is whole (`DoneInv`). `KnownInv` carries
this over a restart: what start-up read of the upgrade partition is the header of the image manifested there.
For the refinement each action is shown to be a step of `PartitionStore` or a stutter: choosing the
partition opens the store (`Open`), a new transfer into a partition that is still selected gives the image up
(`GiveUp`), the erase tears a sector (`Tear`), the write completes it (`Fill`), and manifestation or a reset
closes the store (`Close`).

**MQTT client** (from `DelayAssumption`). The invariant ties the connection task's place to what it owns
(`Owned`) and says that a handler or a client thread exists only while that task waits for it (`Borrowed`);
`Dark` adds that no message is being delivered before the subscription.

**Explorer board** (from `GainAssumption`, `BoundAssumption`). Bounds alone are not inductive, as a step from just
below the maximum would overshoot. Inductive is `OnLevel`: the gain, and each copy of it that a task is about
to write back, is a whole number of steps above the minimum and not above the maximum, which is itself such
a level. Lost updates then cost a step, never the range. For the timers, `TimerInv` speaks of the last
command in the queue for a button, or of the timer if there is none: as long as nothing was dropped, it is
what `gpio_ctrl` decided for the buttons it read, and if they changed since then, a notification is waiting.

**xscope file I/O** (`FilesAssumption`). One block is under way while the file task waits, in exactly one of
seven places, with the gains of the stages it has passed (`BlockAt`); the heap of each tile holds the frames
of its stages (`HeapInv`); the output is the input so far (`OutputFollowsInput`).

**xscope2psf** (`LengthsAssumption`). The metadata is known by position only. `MetadataCounted`: as
long as no event was mistaken, what was taken of each kind and what waits is never more than what was sent, and
less exactly when some was lost; once one was, all metadata was sent before, and each kind not yet passed is one
that was lost, so that the next record is refused or is an event as long. `CountersFollowed`: for each core, the target's counter is the
recorded one plus one plus the gap, with one wrap (`Wrap`), also while an event waits to be read.

**WiFi** (`FirmwareAssumption`). A download may begin in a file left open in the middle by an older one. While the
driver reads, the file's position is at its index or beyond it, and if it is at its index what was loaded is
the file from its start; beyond it the file ends before the driver has all.

**Device control** (`ControlAssumption`: bytes of two values or more, types of one byte or more, and no command named
"none" or "unknown"). The weights of bytes (`Power`) and the value of some bytes are recursive functions. That
they satisfy their own recursion is shown first, from a function that is built step by step (`Recursion`);
what holds of each of their values then follows since a set that holds 0 and all successors holds every
number (`SetInduction`). With quotients and remainders (`DivMod`, `ModSplit`) this gives the two directions:
the bytes of a value of the type read back as the value, its sign included (`ValuesReadBack`), and the values
of some bytes have these bytes (`BytesReadBack`). `ControlInv` then follows a request: what is sent is what the
call asked for, and an answer that is a success holds the bytes the servicer noted.

**Bare-metal board** (`GainAssumption`, `FrameAssumption`). The gain is whole steps from both limits. Of the bytes
on the way to `gpio_server` the last is that of the frame heard last; the LED port shows the LED word.

**Small boards** (`UartAssumption`, `XlinkAssumption`, `StartUpAssumption`). What is more than a type: no counter of
the xlink demo is more than the tokens that came, also between a count's reading and its storing; a codec's page is
one it has, as every write of the program to the page control says (`ProgramWrites`); and the ramp's receiver
reports an error only when a byte was lost, since until then the byte on the wire, or else the next to be
sent, is the one that it expects.

**Tracealyzer** (`TimeAssumption`). `ChainInv`: the subprocesses run so far are the first ones, the next has been
notified or is on its way to the mutex. `TimeInv`: the time the process will find to have passed, by the
code's `get_abs_delta` and so at most, is that of the subprocesses run and of its own work.

**Video**: the positions drawn and sent are the frame number or the one before, and the number moves only when a
frame was sent. **DFU runtime** (`RuntimeAssumption`): no image ends behind the last of the table, so that a
block, which goes to one of the two sectors behind it, touches none; only the mode flag's sector may be an
image's. **Audio settings**: until a request has gone beyond the tables, the settings are those the host set.
**Disks**: while a write is under way the host relies on none of its blocks, and those done hold its data.
**Audio streams** (`AudioAssumption`): what was mixed for a write is no newer than the frame coming in, and older
than what waits in the buffer unless the write was overtaken by it; a byte of the stream
buffer is at its place in its sample, and a sample is later than all before it, also when a full buffer cut
one. **USBTMC** (`TmcAssumption`): with a polite host nothing is under way before a message is stored
whole, what was sent continues what was got, and a part that is marked as the end is the end of the message,
or all that a request for `*idn?` asked for. **MIDI** (`MidiAssumption`: no note of the melody follows
itself, as in the code's table): after enough messages without a loss, an older note will not sound once
the host has heard what waits. **Enumeration** (`EnumAssumption`): `FirmwaresFit` shows, firmware by
firmware, that the LED's port is made before its timer or task, of which there is one at most; then a
device that was not disturbed too early has its LED when the bus comes up, with the interval of the last event
or request. **HID**: the type invariant needs that what
is checked, sent or held by an endpoint is the report of a function, never of none.

**Serial echo** (`EchoAssumption`). A character passes four places: what waits to be read, what its task still has to
write, the FIFO, and what the host saw. `InputInv`: what waits are the last characters typed at the port, in
order. `TaskInv`: what a task still has to write was read, of a port that this task reads, and is in order, with a
line feed first or nowhere; what was typed at one port is all echoed by one task, so that however the two
write between one another that order cannot break. `GivenInv`: what a port was given comes before the rest of
it. That nothing is lost needs the places: `Need` counts at each port what waits, what is still to be written and what
is there, a return as two and its line feed as one (`Weight`). No step but typing, or a banner, makes it more
(`NeedChanges`), and a patient host types when there is room (`RoomInv`), so a write always fits and every
character read is given or still to be written (`KeptInv`). `QuietInv` is about `webusb_serial`: a
terminal that is not connected yet was not typed at by a patient host, and its banner takes room when
nothing else does.

## Findings

Each is a run that TLC ends with a counterexample; the lines and quotations are in `PROJECT.json`.

1. `dfu_stale_base`: a download given up on one alternate setting leaves `dn_base_addr` set, and the next
   download to another setting goes to the first one's partition.
2. `mqtt_lost_wakeup`: the handler may resume the connection task before that has suspended itself; the
   connection task then sleeps for ever.
3. `explorer_leds`: stage 1 writes back button LEDs that `gpio_ctrl` has changed since it read them.
4. `tracealyzer_led`: a button edge overwrites the notification of a timeout, and LED 2 does not toggle.
5. `xscope_stream`: with `-s`, nothing added to the file after its end was reached once is read, as the
   end-of-file indicator stays set.
6. `hid_stuck_key`: in the composite demo the task and the report callback share an endpoint; an empty report
   is refused, its key is forgotten, and the host holds it down.
7. `usb_product_ids`: the bit map that is to make product ids unique has a place one bit wide for each class, so
   that two of one class look like one of the next.

Other disagreements between the code and what is said of it were met while modelling and have no run:
`boot_image_get_last_image` returns the last place of the table, although `flash_boot_image.h` says the last
populated one, so that with only the factory image an upload is empty; the README of the xlink demo says "in
the last second" of counters of which `g_ctrl_tokens` is never reset and `g_timeout_cnts` never incremented;
in `TU/hid_boot_interface/src/demo_main.c:209` a comment says that caps lock disables the blinking, but the
timer never reads the variable that is set there; an upload of the DFU runtime demo takes
`block_num` times 4096 as its offset while blocks have at most 512 bytes.

## What is only model-checked, and what is not modelled

Only model-checked, on the instances above:

- liveness (`ReleaseStopsVolume`, both `RunEnds`, `SupportedFileCopied`, `BoardsGoOn`, `FirmwareLoads`,
  `LostSessionClosed`, `EnumerationEnds`, `KeyReleasedByOneTask`, `EchoAnswered`), which the prover does not do;
- `ConfigurationSound`: it rests on what `FoldSeq` computes, that is, on induction over data. TLC's check is
  exhaustive: the firmwares are the 17 that the repository has, each at both speeds, and a proof would say no more.

Not modelled inside the modelled components: sample arithmetic beyond gains, contents of headers beyond what
the code compares, texts that are printed or sent, the debounce clock, report and vendor descriptors.
The resolution that `tud_audio_set_itf_cb` of the headset may change during a mix is left out, as are
allocation failures. The kernel, drivers, class drivers and libraries are modelled by what the
code relies on.

Partly modelled: the explorer board's audio pipeline (the arithmetic of its stages and the life of its
frames belong to the generic pipeline, which is a submodule); the host program of device control (fixed-point
commands, of which its table has none; help texts; argtable3, which is vendored); the USB descriptors (the
report, BOS and vendor descriptors, which only a host's parser could judge).

Not modelled: the file-system and memory demos of the explorer board, the board support of the FreeRTOS
examples, getting started, the L2 cache example, and the demos `dfu` and `hid_generic_inout`, which keep no
state and are sequential; and the hardware tests of the drivers, which say what submodules are for. `argtable3`,
pictures and configuration headers are data or third-party code.

## Plan

What the plan named is modelled, checked and, as far as the prover reaches, proved: every invariant the runs check
is a theorem but `ConfigurationSound`. What is left to model is what [Limits](#what-is-only-model-checked-and-what-is-not-modelled)
lists, which keeps no state of its own or belongs to submodules; what is left to prove is liveness.
