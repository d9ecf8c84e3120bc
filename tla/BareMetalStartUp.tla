--------------------------- MODULE BareMetalStartUp ---------------------------
(***************************************************************************)
(* examples/bare-metal/explorer_board, from power-on until the jobs of both  *)
(* tiles run: the tiles make their channels in step, tile 1 takes the codec   *)
(* out of reset, tile 0 writes its registers and tells tile 1 how that went,  *)
(* and each tile starts its jobs either way.  With them, the small demos that *)
(* share no state with the audio: the ramp on the UART, the SPI transfer and  *)
(* the flash's id.  I2C, the lines and the codec itself are outside src/.     *)
(***************************************************************************)
EXTENDS Integers, Sequences, TLC
LOCAL INSTANCE SequencesExt

CONSTANTS
  Threads,     \* hardware threads of a tile
  RampBase,    \* values of a byte on the UART
  MaxDropped   \* bound: bytes lost on the line

ASSUME StartUpAssumption ==
  Threads \in Nat /\ RampBase \in Nat \ {0} /\ MaxDropped \in Nat

VARIABLES
  tile,         \* where each tile is
  between,      \* the bytes on their way from each tile to the other
  codec,        \* the codec: its page, and what it has got since it was reset
  writes,       \* the writes of aic3204_init so far
  jobs,         \* the jobs each tile runs
  tx_data,      \* uart_tx_demo
  line,         \* the byte on the wire
  dropped, ramp_error,   \* bytes lost; whether uart_rx_demo has reported one
  expected,     \* uart_rx_demo
  asked         \* what spi_demo and flash_demo have asked of their devices

startVars == <<tile, between, codec, writes, jobs, tx_data, line, dropped, ramp_error, expected,
               asked>>
bootVars == <<tile, between, codec, writes, jobs>>
demoVars == <<tx_data, line, dropped, ramp_error, expected, asked>>

-----------------------------------------------------------------------------
(* The codec                                                                *)

\* AIC3204_*: each register's page and number.  The page control is on every page.
Page0 == [PAGE_CTRL |-> 0, SW_RST |-> 1, NDAC |-> 11, MDAC |-> 12, DOSR |-> 14, NADC |-> 18,
          MADC |-> 19, AOSR |-> 20, CODEC_IF |-> 27, DAC_SIG_PROC |-> 60, ADC_SIG_PROC |-> 61,
          DAC_CH_SET1 |-> 63, DAC_CH_SET2 |-> 64, ADC_CH_SET |-> 81, ADC_FGA_MUTE |-> 82]
Page1 == [PWR_CFG |-> 1, LDO_CTRL |-> 2, PLAY_CFG1 |-> 3, PLAY_CFG2 |-> 4, OP_PWR_CTRL |-> 9,
          CM_CTRL |-> 10, HPL_ROUTE |-> 12, HPR_ROUTE |-> 13, HPL_GAIN |-> 16, HPR_GAIN |-> 17,
          HP_START |-> 20, LPGA_P_ROUTE |-> 52, LPGA_N_ROUTE |-> 54, RPGA_P_ROUTE |-> 55,
          RPGA_N_ROUTE |-> 57, LPGA_VOL |-> 59, RPGA_VOL |-> 60, ADC_PTM |-> 61,
          AN_IN_CHRG |-> 71, REF_STARTUP |-> 123]
Register ==
  [name \in DOMAIN Page0 \cup DOMAIN Page1 |-> IF name \in DOMAIN Page0 THEN Page0[name] ELSE Page1[name]]
Home(name) == IF name \in DOMAIN Page0 THEN 0 ELSE 1

\* What aic3204_init writes, in its order: clocks and blocks, analog, ...
SetUp ==
  << <<"PAGE_CTRL", 0>>, <<"SW_RST", 1>>, <<"NDAC", 129>>, <<"MDAC", 132>>, <<"NADC", 129>>,
     <<"MADC", 132>>, <<"DOSR", 128>>, <<"AOSR", 128>>, <<"CODEC_IF", 32>>, <<"DAC_SIG_PROC", 1>>,
     <<"ADC_SIG_PROC", 1>>, <<"PAGE_CTRL", 1>>, <<"LDO_CTRL", 9>>, <<"PWR_CFG", 8>>,
     <<"LDO_CTRL", 1>>, <<"CM_CTRL", 51>>, <<"PLAY_CFG1", 0>>, <<"PLAY_CFG2", 0>>, <<"ADC_PTM", 0>>,
     <<"AN_IN_CHRG", 49>>, <<"REF_STARTUP", 1>>, <<"HP_START", 37>>, <<"HPL_ROUTE", 8>>,
     <<"HPR_ROUTE", 8>>, <<"LPGA_P_ROUTE", 32>>, <<"LPGA_N_ROUTE", 32>>, <<"RPGA_P_ROUTE", 128>>,
     <<"RPGA_N_ROUTE", 32>>, <<"HPL_GAIN", 0>>, <<"HPR_GAIN", 0>>, <<"LPGA_VOL", 0>>,
     <<"RPGA_VOL", 0>>, <<"OP_PWR_CTRL", 48>> >>
\* ... and, after 2.5 s, the converters.
PowerUp ==
  << <<"PAGE_CTRL", 0>>, <<"DAC_CH_SET1", 212>>, <<"ADC_CH_SET", 192>>, <<"DAC_CH_SET2", 0>>,
     <<"ADC_FGA_MUTE", 0>> >>
Program == SetUp \o PowerUp

Fresh == [page |-> 0, got |-> << >>]

\* The codec keeps a value in the register of that number in its page; a reset forgets all.
Received(number, val) ==
  IF number = Register.PAGE_CTRL THEN [codec EXCEPT !.page = val]
  ELSE IF codec.page = 0 /\ number = Register.SW_RST THEN Fresh
  ELSE [codec EXCEPT !.got = (<<codec.page, number>> :> val) @@ @]

-----------------------------------------------------------------------------
(* The tiles                                                                *)

\* What each tile does, in its order: platform_init_tile_0 and platform_init_tile_1.
TileSteps == << <<"from gpio", "to gpio", "mclk", "await reset", "i2c", "codec", "tell", "spi", "flash", "run">>,
            <<"from gpio", "to gpio", "reset", "signal", "await codec", "pll", "mic", "i2s", "uart", "run">> >>
\* The direction in which a tile makes each channel.
Direction == << [c \in {"from gpio", "to gpio"} |-> IF c = "from gpio" THEN "output" ELSE "input"],
                [c \in {"from gpio", "to gpio"} |-> IF c = "from gpio" THEN "input" ELSE "output"] >>
At(t, step) == tile[t] <= 10 /\ TileSteps[t][tile[t]] = step
Advance(t) == tile' = [tile EXCEPT ![t] = @ + 1]

\* main_tile0 and main_tile1; the burning threads take what is left.
Jobs == << <<"spi_demo", "gpio_server", "flash_demo", "burn", "burn", "burn", "burn", "burn">>,
           <<"ma_vanilla_task", "ap_stage_a", "ap_stage_b", "ap_stage_c", "i2s_master",
             "uart_rx_demo", "uart_tx_demo", "burn">> >>

StartInit ==
  /\ tile = <<1, 1>> /\ between = << << >>, << >> >>
  /\ codec = Fresh /\ writes = 0 /\ jobs = << {}, {} >>
  /\ tx_data = 0 /\ line = << >> /\ dropped = 0 /\ ramp_error = FALSE /\ expected = 0 /\ asked = {}

\* soc_channel_establish: each tile waits for the other, which makes the other end.
EstablishChannel ==
  /\ \E c, d \in {"from gpio", "to gpio"} :
       /\ At(1, c) /\ At(2, d)
       /\ Direction[1][c] # Direction[2][d]
  /\ tile' = [t \in 1 .. 2 |-> tile[t] + 1]
  /\ UNCHANGED <<between, codec, writes, jobs, demoVars>>

\* TileSteps of a tile that touch nothing the other one or this model knows.
Quiet == {"mclk", "i2c", "spi", "flash", "pll", "mic", "i2s", "uart"}
InitDevice(t) ==
  /\ \E s \in Quiet : At(t, s)
  /\ Advance(t)
  /\ UNCHANGED <<between, codec, writes, jobs, demoVars>>

Tell(t, byte) == between' = [between EXCEPT ![3 - t] = Append(@, byte)]

\* tile1_setup_dac: the codec comes out of its reset.
tile1_setup_dac ==
  /\ At(2, "reset") /\ codec' = Fresh /\ Advance(2)
  /\ UNCHANGED <<between, writes, jobs, demoVars>>

SignalReset ==
  /\ At(2, "signal") /\ Tell(2, 0) /\ Advance(2)
  /\ UNCHANGED <<codec, writes, jobs, demoVars>>

\* A byte is awaited, and what it says is only reported.
AwaitByte(t) ==
  /\ At(t, "await reset") \/ At(t, "await codec")
  /\ between[t] # << >>
  /\ between' = [between EXCEPT ![t] = Tail(@)] /\ Advance(t)
  /\ UNCHANGED <<codec, writes, jobs, demoVars>>

\* One write; the codec may not acknowledge it, and then the rest is not written.
aic3204_reg_write ==
  /\ At(1, "codec") /\ writes < Len(Program)
  /\ \/ /\ codec' = Received(Register[Program[writes + 1][1]], Program[writes + 1][2])
        /\ writes' = writes + 1
        /\ UNCHANGED <<tile, between>>
     \/ Tell(1, 1) /\ tile' = [tile EXCEPT ![1] = @ + 2] /\ UNCHANGED <<codec, writes>>
  /\ UNCHANGED <<jobs, demoVars>>

\* aic3204_init has succeeded.
CodecDone ==
  /\ At(1, "codec") /\ writes = Len(Program) /\ Advance(1)
  /\ UNCHANGED <<between, codec, writes, jobs, demoVars>>

TellCodec ==
  /\ At(1, "tell") /\ Tell(1, 0) /\ Advance(1)
  /\ UNCHANGED <<codec, writes, jobs, demoVars>>

\* PAR_JOBS: every job gets a thread of its own.
StartJobs(t) ==
  /\ At(t, "run") /\ Len(Jobs[t]) <= Threads
  /\ jobs' = [jobs EXCEPT ![t] = ToSet(Jobs[t])] /\ Advance(t)
  /\ UNCHANGED <<between, codec, writes, demoVars>>

-----------------------------------------------------------------------------
(* The demos                                                                *)

HasJob(t, job) == job \in jobs[t]

\* uart_tx_demo: the ramp goes on for ever; a byte may be lost on the wire, whose two ends a user joins.
SendRamp ==
  /\ HasJob(2, "uart_tx_demo") /\ line = << >>
  /\ tx_data' = (tx_data + 1) % RampBase
  /\ \/ line' = <<tx_data>> /\ UNCHANGED dropped
     \/ dropped < MaxDropped /\ dropped' = dropped + 1 /\ UNCHANGED line
  /\ UNCHANGED <<bootVars, ramp_error, expected, asked>>

\* uart_rx_demo: a byte that is not the expected one is reported; the next one is expected in any case.
CheckRamp ==
  /\ HasJob(2, "uart_rx_demo") /\ line # << >>
  /\ ramp_error' = (ramp_error \/ line[1] # expected)
  /\ expected' = (expected + 1) % RampBase /\ line' = << >>
  /\ UNCHANGED <<bootVars, tx_data, dropped, asked>>

\* One transfer, and what was sent is printed as what was got.
spi_demo ==
  /\ HasJob(1, "spi_demo") /\ "spi" \notin asked
  /\ asked' = asked \cup {"spi"}
  /\ UNCHANGED <<bootVars, tx_data, line, dropped, ramp_error, expected>>

flash_demo ==
  /\ HasJob(1, "flash_demo") /\ "flash" \notin asked
  /\ asked' = asked \cup {"flash"}
  /\ UNCHANGED <<bootVars, tx_data, line, dropped, ramp_error, expected>>

BootStep ==
  \/ EstablishChannel \/ tile1_setup_dac \/ SignalReset
  \/ aic3204_reg_write \/ CodecDone \/ TellCodec
  \/ \E t \in 1 .. 2 : InitDevice(t) \/ AwaitByte(t) \/ StartJobs(t)

StartNext == BootStep \/ SendRamp \/ CheckRamp \/ spi_demo \/ flash_demo

StartSpec == StartInit /\ [][StartNext]_startVars /\ WF_startVars(BootStep)

-----------------------------------------------------------------------------
(* Properties                                                               *)

\* Type invariant; an error of the ramp is reported only when a byte was lost.
StartTypeOK ==
  /\ tile \in [1 .. 2 -> 1 .. 11] /\ between \in [1 .. 2 -> Seq({0, 1})]
  /\ codec.page \in {0, 1} /\ writes \in 0 .. Len(Program)
  /\ \A t \in 1 .. 2 : jobs[t] \in {{}, ToSet(Jobs[t])}
  /\ {tx_data, expected} \subseteq 0 .. RampBase - 1 /\ line \in Seq(0 .. RampBase - 1)
  /\ dropped \in 0 .. MaxDropped /\ ramp_error \in BOOLEAN /\ (ramp_error => dropped > 0)
  /\ asked \subseteq {"spi", "flash"}

\* Each register holds what was last meant for it, in the page it belongs to, and no other
\* register was written.
CodecProgrammed ==
  LET meant == { i \in DOMAIN Program : Program[i][1] \notin {"PAGE_CTRL", "SW_RST"} }
      place(i) == <<Home(Program[i][1]), Register[Program[i][1]]>>
  IN /\ DOMAIN codec.got = { place(i) : i \in meant }
     /\ \A i \in meant :
          (\A j \in meant : j > i => place(j) # place(i)) => codec.got[place(i)] = Program[i][2]

\* The two tiles never wait for each other for ever: both come to their jobs, whether or not
\* the codec answered, and when tile 1 was told that it is set up, every register is right.
TilesStart == <>(jobs[1] # {} /\ jobs[2] # {} /\ (writes = Len(Program) => CodecProgrammed))
=============================================================================
