SPECIFICATION EnumSpec
CONSTANTS
  Plugged = {"cdc_msc", "cdc_dual_ports", "webusb_serial", "hid_composite", "hid_boot_interface",
             "hid_multiple_interface", "midi_test", "msc_dual_lun", "uac2_headset"}
  MaxPlugs = 2
  MaxSuspends = 0
INVARIANT DriverFits
CHECK_DEADLOCK FALSE
