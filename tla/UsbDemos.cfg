SPECIFICATION UsbSpec
CONSTANTS
  HidDemos <- MCHidDemos
  MaxPresses = 4
  MaxBusEvents = 4
  BufferSize = 4
  PacketSize = 2
  IdnLength = 2
  MaxMessages = 2
  MaxClears = 1
  MaxTriggers = 1
  FLASH_PAGE_SIZE = 2
  boot_partition_size = 10
  FlashSize = 16
  SizeLimit = 64
  FactoryStart = 1
  FactorySize = 2
  ImageSizes <- MCImageSizes
  Xfer = 1
  MODE_ADDR = 8
  MaxStarts = 4
  AudioDemos <- MCAudioDemos
  MaxPairs = 2
  FrameSamples = 4
  SampleBytes = 2
  StreamBytes = 12
  Slack = 1
  ExtraSamples = 5
  MaxFrames = 3
  MaxInterfaces = 3
  EchoDemos <- MCEchoDemos
  Chars <- MCChars
  Chunk = 2
  FifoSize = 6
  MaxTyped = 3
  MaxConnects = 2
  MaxFrameNum = 4
  MaxStreams = 3
  note_sequence <- MCMelody
  MidiFifoSize = 2
  MaxMidiEvents = 2
  DiskDemos = {"msc_dual_lun", "cdc_msc"}
  DISK_BLOCK_NUM = 4
  MaxCommands = 2
  ControlDemos = {"headset", "microphone"}
  Volumes <- MCVolumes
  Plugged <- MCPlugged
  MaxPlugs = 1
  MaxSuspends = 2
INVARIANTS UsbTypeOK AnswerWhole NoAudioTwice EchoFaithful TornByOneAtMost LostNotesEnd DiskAsTold SettingsHeard ConfigurationSound 
PROPERTIES EnumerationEnds KeyReleasedByOneTask EchoAnswered ListedImagesKept
CHECK_DEADLOCK FALSE
