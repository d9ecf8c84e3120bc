--------------------------- MODULE BareMetalBoard ---------------------------
(***************************************************************************)
(* examples/bare-metal/explorer_board: hardware threads joined by channels.  *)
(* Tile 0's gpio_server turns buttons into gain requests and frame power     *)
(* into an LED; on tile 1 frames go from the microphones through three       *)
(* stages to the DAC.  The threads form a ring: gpio_server may wait for     *)
(* stage b, stage b for stage c, and stage c for gpio_server.                *)
(***************************************************************************)
EXTENDS Integers, Sequences, FiniteSets

CONSTANTS
  MIN_GAIN, MAX_GAIN, GAIN_STEP, INITIAL_GAIN,  \* appconfAUDIO_PIPELINE_*, in dB
  POWER_THRESHOLD,   \* the level above which LED 2 is lit, in dB
  Levels,            \* the levels of the frames captured, in dB
  Capacity           \* bytes a channel holds

ASSUME GainAssumption ==
  /\ MIN_GAIN \in Int /\ MAX_GAIN \in Int /\ GAIN_STEP \in Nat \ {0}
  /\ INITIAL_GAIN \in MIN_GAIN .. MAX_GAIN
  /\ (MAX_GAIN - INITIAL_GAIN) % GAIN_STEP = 0 /\ (INITIAL_GAIN - MIN_GAIN) % GAIN_STEP = 0
ASSUME FrameAssumption ==
  POWER_THRESHOLD \in Int /\ Levels \subseteq Int /\ Capacity \in Nat \ {0}

Buttons == {"A", "B"}
Leds == Buttons \cup {"power", "heartbeat"}

VARIABLES
  pins,         \* the buttons held
  trigger,      \* the buttons the port compares its pins with
  server,       \* gpio_server: where it is
  led_val, p_leds,            \* its LED value and the LED port
  c_from_gpio, c_to_gpio,   \* the bytes in the channels from and to gpio_server
  gain_db,      \* stage b
  stage,        \* the frames in the stages: their levels
  stage_c,      \* stage c: where it is
  heard,        \* the level of the frame stage c has received last
  pace          \* "late" when a frame has come before the board was done with those before (nothing reads it)

boardVars == <<pins, trigger, server, led_val, p_leds, c_from_gpio, c_to_gpio, gain_db,
               stage, stage_c, heard, pace>>
serverVars == <<trigger, server, led_val, p_leds>>
frameVars == <<stage, stage_c, heard, pace>>

\* A stage holds at most one frame.
NoFrame == << >>
Stages == {"a", "b", "c"}

BoardInit ==
  /\ pins \in SUBSET Buttons /\ trigger = pins
  /\ server = "wait" /\ led_val = {} /\ p_leds = {}
  /\ c_from_gpio = << >> /\ c_to_gpio = << >>
  /\ gain_db = INITIAL_GAIN
  /\ stage = [s \in Stages |-> NoFrame] /\ stage_c = "wait"
  /\ heard = POWER_THRESHOLD /\ pace = "kept"

PressOrRelease ==
  /\ \E b \in Buttons : pins' = (pins \ {b}) \cup ({b} \ pins)
  /\ UNCHANGED <<serverVars, c_from_gpio, c_to_gpio, gain_db, frameVars>>

-----------------------------------------------------------------------------
(* gpio_server, on tile 0                                                   *)

\* chanend_out_byte and chanend_in_byte
CanSend(c) == Len(c) < Capacity

\* The buttons are read, and from now on the port waits for another value.
event_btn ==
  /\ server = "wait" /\ pins # trigger
  /\ trigger' = pins
  /\ server' = "A"
  /\ UNCHANGED <<pins, led_val, p_leds, c_from_gpio, c_to_gpio, gain_db, frameVars>>

\* One button's part of event_btn: a held button sends its request and lights its LED.
HandleButton(b) ==
  /\ server = b
  /\ IF b \in trigger
     THEN /\ CanSend(c_from_gpio) /\ c_from_gpio' = Append(c_from_gpio, b)
          /\ led_val' = led_val \cup {b}
     ELSE led_val' = led_val \ {b} /\ UNCHANGED c_from_gpio
  /\ IF b = "A" THEN server' = "B" /\ UNCHANGED p_leds
                ELSE server' = "wait" /\ p_leds' = led_val'
  /\ UNCHANGED <<pins, trigger, c_to_gpio, gain_db, frameVars>>

\* (Faulty variant: a zero byte does not put the LED out.)
event_chan_lit ==
  /\ server = "wait" /\ c_to_gpio # << >>
  /\ c_to_gpio' = Tail(c_to_gpio)
  /\ led_val' = IF Head(c_to_gpio) # 0 THEN led_val \cup {"power"} ELSE led_val
  /\ p_leds' = led_val'
  /\ UNCHANGED <<pins, trigger, server, c_from_gpio, gain_db, frameVars>>

event_chan ==
  /\ server = "wait" /\ c_to_gpio # << >>
  /\ c_to_gpio' = Tail(c_to_gpio)
  /\ led_val' = IF Head(c_to_gpio) # 0 THEN led_val \cup {"power"} ELSE led_val \ {"power"}
  /\ p_leds' = led_val'
  /\ UNCHANGED <<pins, trigger, server, c_from_gpio, gain_db, frameVars>>

event_timer ==
  /\ server = "wait"
  /\ led_val' = (led_val \ {"heartbeat"}) \cup ({"heartbeat"} \ led_val)
  /\ p_leds' = led_val'
  /\ UNCHANGED <<pins, trigger, server, c_from_gpio, c_to_gpio, gain_db, frameVars>>

gpio_server == event_btn \/ (\E b \in Buttons : HandleButton(b)) \/ event_chan \/ event_timer

-----------------------------------------------------------------------------
(* The stages, on tile 1                                                    *)

\* input_frames of ap_stage_b: the frame is scaled by the gain of now.
ScaleFrame ==
  /\ stage.b = NoFrame /\ stage.a # NoFrame
  /\ stage' = [stage EXCEPT !.a = NoFrame, !.b = <<stage.a[1] + gain_db>>]
  /\ UNCHANGED <<pins, serverVars, c_from_gpio, c_to_gpio, gain_db, stage_c, heard, pace>>

NewGain(request) ==
  CASE request = "A" -> IF gain_db >= MAX_GAIN THEN gain_db ELSE gain_db + GAIN_STEP
    [] request = "B" -> IF gain_db <= MIN_GAIN THEN gain_db ELSE gain_db - GAIN_STEP

\* (Faulty variant: after a frame the channel's trigger is left disabled.)
gpio_request_once ==
  /\ stage.b = NoFrame /\ c_from_gpio # << >> /\ heard = POWER_THRESHOLD
  /\ gain_db' = NewGain(Head(c_from_gpio)) /\ c_from_gpio' = Tail(c_from_gpio)
  /\ UNCHANGED <<pins, serverVars, c_to_gpio, frameVars>>

gpio_request ==
  /\ stage.b = NoFrame /\ c_from_gpio # << >>
  /\ gain_db' = NewGain(Head(c_from_gpio)) /\ c_from_gpio' = Tail(c_from_gpio)
  /\ UNCHANGED <<pins, serverVars, c_to_gpio, frameVars>>

ap_stage_b == ScaleFrame \/ gpio_request

ReceiveFrame ==
  /\ stage_c = "wait" /\ stage.b # NoFrame
  /\ stage' = [stage EXCEPT !.b = NoFrame, !.c = stage.b] /\ stage_c' = "led"
  /\ heard' = stage.b[1]
  /\ UNCHANGED <<pins, serverVars, c_from_gpio, c_to_gpio, gain_db, pace>>

led_byte == IF stage.c[1] > POWER_THRESHOLD THEN 1 ELSE 0

SendLed ==
  /\ stage_c = "led" /\ CanSend(c_to_gpio)
  /\ c_to_gpio' = Append(c_to_gpio, led_byte)
  /\ stage_c' = "out"
  /\ UNCHANGED <<pins, serverVars, c_from_gpio, gain_db, stage, heard, pace>>

\* The I2S master takes the frame for the DAC sample by sample.
OutputFrame ==
  /\ stage_c = "out"
  /\ stage' = [stage EXCEPT !.c = NoFrame] /\ stage_c' = "wait"
  /\ UNCHANGED <<pins, serverVars, c_from_gpio, c_to_gpio, gain_db, heard, pace>>

ap_stage_c == ReceiveFrame \/ SendLed \/ OutputFrame

\* gpio_server, stage b or stage c has something to do, and nobody to wait for.
Busy ==
  ENABLED (event_btn \/ (\E b \in Buttons : HandleButton(b)) \/ event_chan
           \/ ap_stage_b \/ ReceiveFrame \/ SendLed)

\* The I2S master is a whole frame behind: it takes them as fast as they come.
OutputBehind == stage_c = "out" /\ stage.b # NoFrame

\* ma_frame_rx_transpose: a frame comes from the microphones as soon as stage a takes it.
ap_stage_a ==
  /\ stage.a = NoFrame
  /\ \E level \in Levels : stage' = [stage EXCEPT !.a = <<level>>]
  /\ pace' = IF Busy \/ OutputBehind THEN "late" ELSE pace
  /\ UNCHANGED <<pins, serverVars, c_from_gpio, c_to_gpio, gain_db, stage_c, heard>>

BoardNext == PressOrRelease \/ gpio_server \/ ap_stage_a \/ ap_stage_b \/ ap_stage_c

BoardSpec == BoardInit /\ [][BoardNext]_boardVars

-----------------------------------------------------------------------------
(* Properties                                                               *)

\* Type invariant; the gain stays within its limits, whatever requests have come.
BoardTypeOK ==
  /\ pins \subseteq Buttons /\ trigger \subseteq Buttons
  /\ server \in {"wait"} \cup Buttons /\ led_val \subseteq Leds /\ p_leds \subseteq Leds
  /\ c_from_gpio \in Seq(Buttons) /\ c_to_gpio \in Seq({0, 1})
  /\ Len(c_from_gpio) <= Capacity /\ Len(c_to_gpio) <= Capacity
  /\ gain_db \in MIN_GAIN .. MAX_GAIN
  /\ stage \in [Stages -> Seq(Int)] /\ \A s \in Stages : Len(stage[s]) <= 1
  /\ stage_c \in {"wait", "led", "out"}
  /\ heard \in Int /\ pace \in {"kept", "late"}

\* When the frame's byte has been sent and served, LED 2 tells whether the frame now on its
\* way to the DAC is above the threshold: of that frame and of no earlier one.
PowerLedTrue ==
  stage_c # "led" /\ c_to_gpio = << >> => ("power" \in p_leds <=> heard > POWER_THRESHOLD)

\* gpio_server never stays in the middle of a button: the request it has to send is taken
\* in the end, though stage b may itself wait for the stage that waits for gpio_server.
ButtonHandled == server # "wait" ~> server = "wait"

\* A captured frame reaches the DAC.
FramesReachDac == stage.a # NoFrame ~> stage_c = "out"

\* The threads of the ring, each of which may wait for the next one to take its byte or
\* frame, never end up waiting for one another, as long as each frame comes when the board is
\* done with those before (the last of them may still be on its way to the DAC): a frame that
\* comes too early may close the circle.
NoCircularWait == [](pace = "kept") => ButtonHandled /\ FramesReachDac
=============================================================================
