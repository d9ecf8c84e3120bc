------------------------------ MODULE MCUsbDemos ------------------------------
(* Each demo at a small size: the HID demos where one task sends, the audio and the *)
(* serial demos all, and a melody that has a note twice.                            *)
EXTENDS UsbDemos
MCHidDemos == {"boot", "multiple"}
MCAudioDemos == {"headset", "microphone"}
MCEchoDemos == {"web", "dual", "single"}
MCChars == {"A", "CR"}
MCImageSizes == {2, 3, 7}
MCMelody == <<74, 78, 74, 81>>
MCVolumes == {0, 45, -12800}
MCPlugged == {"cdc_msc", "cdc_dual_ports", "webusb_serial", "hid_composite", "hid_boot_interface",
  "hid_multiple_interface", "hid_generic_inout", "midi_test", "msc_dual_lun", "uac2_headset",
  "audio_test", "video_capture", "usbtmc", "dfu", "dfu_runtime", "dfu_download", "device_control"}
=============================================================================
