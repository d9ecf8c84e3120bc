--------------------------- MODULE ExplorerBoard ----------------------------
(***************************************************************************)
(* The tasks of tile 1 of examples/freertos/explorer_board that share the   *)
(* LED port and the gain: gpio_ctrl, woken by the button interrupt; the     *)
(* FreeRTOS timer daemon, which runs the rapid-fire volume callbacks; and   *)
(* stages 0 and 1 of the audio pipeline.  They run on different cores and   *)
(* take no lock, so every access to the port and to xStage0_Gain is a step   *)
(* of its own.  Button A is "up" and button B is "down".                    *)
(***************************************************************************)
EXTENDS Integers, Sequences

CONSTANTS
  MinGain, MaxGain,  \* appconfAUDIO_PIPELINE_MIN_GAIN, _MAX_GAIN
  GainStep,          \* appconfAUDIO_PIPELINE_GAIN_STEP
  InitSteps,         \* appconfAUDIO_PIPELINE_STAGE_ZERO_GAIN, in steps above the minimum
  TimerQueueLength,  \* configTIMER_QUEUE_LENGTH
  MaxPresses         \* bound: button edges

\* The gain k steps above the minimum.
Level(k) == MinGain + k * GainStep

ASSUME GainAssumption ==
  /\ MinGain \in Int /\ MaxGain \in Int /\ GainStep \in Nat \ {0} /\ InitSteps \in Nat
  /\ Level(InitSteps) <= MaxGain
  /\ \E k \in 0 .. (MaxGain - MinGain) : MaxGain = Level(k)
ASSUME BoundAssumption == TimerQueueLength \in Nat /\ MaxPresses \in Nat

VARIABLES
  pressed, presses,  \* the buttons held down; button edges so far
  notified,          \* gpio_ctrl's task notification is pending
  gpio,              \* gpio_ctrl: place, button in hand, buttons_val, led_val, gain
  timerQueue,        \* commands for the timer daemon
  dropped,           \* was a command refused because the queue was full?
  active,            \* the timers running
  daemon,            \* the timer daemon: place, timer whose callback runs, gain
  stage,             \* pipeline stage 1: place, led_val
  leds,              \* the LED port: the button LEDs lit, and is LED 2 lit?
  xStage0_Gain

vars == <<pressed, presses, notified, gpio, timerQueue, dropped, active, daemon, stage,
          leds, xStage0_Gain>>
buttonVars == <<pressed, presses, notified>>
timerVars == <<timerQueue, dropped, active>>

Buttons == {"up", "down"}
Waiting == [pc |-> "wait", b |-> "up", buttons |-> {}, power |-> FALSE, gain |-> MinGain]
Idle == [pc |-> "idle", b |-> "up", gain |-> MinGain]

Init ==
  /\ pressed = {} /\ presses = 0 /\ notified = FALSE
  /\ gpio = Waiting
  /\ timerQueue = << >> /\ dropped = FALSE /\ active = {}
  /\ daemon = Idle
  /\ stage = [pc |-> "idle", buttons |-> {}]
  /\ leds = [buttons |-> {}, power |-> FALSE]
  /\ xStage0_Gain = Level(InitSteps)

-----------------------------------------------------------------------------
(* The buttons and their interrupt.  The value it sends is overwritten by   *)
(* the next one and never looked at.                                        *)

button_callback ==
  /\ presses < MaxPresses
  /\ \E b \in Buttons :
       pressed' = IF b \in pressed THEN pressed \ {b} ELSE pressed \union {b}
  /\ presses' = presses + 1
  /\ notified' = TRUE
  /\ UNCHANGED <<gpio, timerVars, daemon, stage, leds, xStage0_Gain>>

-----------------------------------------------------------------------------
(* The gain                                                                *)

\* (Faulty variant: the limit itself may still be stepped over.)
volume_up_over(gain) == IF gain <= MaxGain THEN gain + GainStep ELSE gain

volume_up(gain) == IF gain < MaxGain THEN gain + GainStep ELSE gain
volume_down(gain) == IF gain > MinGain THEN gain - GainStep ELSE gain

Adjusted(b, gain) == IF b = "up" THEN volume_up(gain) ELSE volume_down(gain)

-----------------------------------------------------------------------------
(* gpio_ctrl                                                                *)

\* xTaskNotifyWait
TakeNotification ==
  /\ gpio.pc = "wait" /\ notified
  /\ notified' = FALSE
  /\ gpio' = [Waiting EXCEPT !.pc = "buttons"]
  /\ UNCHANGED <<pressed, presses, timerVars, daemon, stage, leds, xStage0_Gain>>

ReadButtons ==
  /\ gpio.pc = "buttons"
  /\ gpio' = [gpio EXCEPT !.pc = "leds", !.buttons = pressed]
  /\ UNCHANGED <<buttonVars, timerVars, daemon, stage, leds, xStage0_Gain>>

\* (Faulty variant: the notification is cleared only after the buttons were read.)
ReadLedsThenClear ==
  /\ gpio.pc = "leds"
  /\ gpio' = [gpio EXCEPT !.pc = "out", !.power = leds.power]
  /\ notified' = FALSE
  /\ UNCHANGED <<pressed, presses, timerVars, daemon, stage, leds, xStage0_Gain>>

ReadLeds ==
  /\ gpio.pc = "leds"
  /\ gpio' = [gpio EXCEPT !.pc = "out", !.power = leds.power]
  /\ UNCHANGED <<buttonVars, timerVars, daemon, stage, leds, xStage0_Gain>>

WriteLeds ==
  /\ gpio.pc = "out"
  /\ leds' = [buttons |-> gpio.buttons, power |-> gpio.power]
  /\ gpio' = [gpio EXCEPT !.pc = "timer", !.power = FALSE]
  /\ UNCHANGED <<buttonVars, timerVars, daemon, stage, xStage0_Gain>>

\* The place after the button in hand: the other button, or the next notification.
NextButton ==
  IF gpio.b = "up" THEN [gpio EXCEPT !.pc = "timer", !.b = "down", !.gain = MinGain] ELSE Waiting

\* xTimerStart or xTimerStop, which give up at once when the queue is full.
SendCommand(cmd) ==
  IF Len(timerQueue) < TimerQueueLength
  THEN timerQueue' = Append(timerQueue, cmd) /\ UNCHANGED dropped
  ELSE dropped' = TRUE /\ UNCHANGED timerQueue

\* (Faulty variant: a release does not stop the timer.)
CommandTimerStartOnly ==
  /\ gpio.pc = "timer"
  /\ IF gpio.b \in gpio.buttons
     THEN SendCommand(<<"start", gpio.b>>) /\ gpio' = [gpio EXCEPT !.pc = "get"]
     ELSE gpio' = NextButton /\ UNCHANGED <<timerQueue, dropped>>
  /\ UNCHANGED <<buttonVars, active, daemon, stage, leds, xStage0_Gain>>

CommandTimer ==
  /\ gpio.pc = "timer"
  /\ IF gpio.b \in gpio.buttons
     THEN SendCommand(<<"start", gpio.b>>) /\ gpio' = [gpio EXCEPT !.pc = "get"]
     ELSE SendCommand(<<"stop", gpio.b>>) /\ gpio' = NextButton
  /\ UNCHANGED <<buttonVars, active, daemon, stage, leds, xStage0_Gain>>

GetGain ==
  /\ gpio.pc = "get"
  /\ gpio' = [gpio EXCEPT !.pc = "set", !.gain = xStage0_Gain]
  /\ UNCHANGED <<buttonVars, timerVars, daemon, stage, leds, xStage0_Gain>>

SetGain ==
  /\ gpio.pc = "set"
  /\ xStage0_Gain' = Adjusted(gpio.b, gpio.gain)
  /\ gpio' = NextButton
  /\ UNCHANGED <<buttonVars, timerVars, daemon, stage, leds>>

gpio_ctrl == \/ TakeNotification \/ ReadButtons \/ ReadLeds \/ WriteLeds
             \/ CommandTimer \/ GetGain \/ SetGain

-----------------------------------------------------------------------------
(* The timer daemon                                                         *)

TakeCommand ==
  /\ daemon.pc = "idle" /\ timerQueue # << >>
  /\ active' = IF Head(timerQueue)[1] = "start" THEN active \union {Head(timerQueue)[2]}
                                                ELSE active \ {Head(timerQueue)[2]}
  /\ timerQueue' = Tail(timerQueue)
  /\ UNCHANGED <<buttonVars, gpio, dropped, daemon, stage, leds, xStage0_Gain>>

\* A timer runs out and is started again: vVolumeUpCallback or vVolumeDownCallback
\* reads the gain.
RapidFire ==
  /\ daemon.pc = "idle"
  /\ \E b \in active : daemon' = [pc |-> "set", b |-> b, gain |-> xStage0_Gain]
  /\ UNCHANGED <<buttonVars, gpio, timerVars, stage, leds, xStage0_Gain>>

RapidFireEnd ==
  /\ daemon.pc = "set"
  /\ xStage0_Gain' = Adjusted(daemon.b, daemon.gain)
  /\ daemon' = Idle
  /\ UNCHANGED <<buttonVars, gpio, timerVars, stage, leds>>

-----------------------------------------------------------------------------
(* Pipeline stage 1, on every audio frame                                   *)

StageReads ==
  /\ stage.pc = "idle"
  /\ stage' = [pc |-> "out", buttons |-> leds.buttons]
  /\ UNCHANGED <<buttonVars, gpio, timerVars, daemon, leds, xStage0_Gain>>

StageWrites ==
  /\ stage.pc = "out"
  /\ \E loud \in BOOLEAN : leds' = [buttons |-> stage.buttons, power |-> loud]
  /\ stage' = [pc |-> "idle", buttons |-> {}]
  /\ UNCHANGED <<buttonVars, gpio, timerVars, daemon, xStage0_Gain>>

stage1 == StageReads \/ StageWrites

-----------------------------------------------------------------------------
Next == button_callback \/ gpio_ctrl \/ TakeCommand \/ RapidFire \/ RapidFireEnd \/ stage1

\* gpio_ctrl and the daemon have the highest priorities of the tile's tasks and block only
\* where they wait.  The daemon empties its queue between two expiries of a timer, which
\* are appconfGPIO_VOLUME_RAPID_FIRE_MS apart: strong fairness for its commands.
Spec == Init /\ [][Next]_vars
FairSpec == Spec /\ WF_vars(gpio_ctrl) /\ SF_vars(TakeCommand) /\ WF_vars(RapidFireEnd)

-----------------------------------------------------------------------------
(* Properties                                                               *)

GpioState == [pc : {"wait", "buttons", "leds", "out", "timer", "get", "set"},
              b : Buttons, buttons : SUBSET Buttons, power : BOOLEAN, gain : Int]
Commands == {"start", "stop"} \X Buttons

\* Type invariant; the gain is an integer here, GainInRange bounds it.
TypeOK ==
  /\ pressed \in SUBSET Buttons /\ presses \in 0 .. MaxPresses /\ notified \in BOOLEAN
  /\ gpio \in GpioState
  /\ timerQueue \in Seq(Commands)
  /\ Len(timerQueue) <= TimerQueueLength
  /\ dropped \in BOOLEAN /\ active \in SUBSET Buttons
  /\ daemon \in [pc : {"idle", "set"}, b : Buttons, gain : Int]
  /\ stage \in [pc : {"idle", "out"}, buttons : SUBSET Buttons]
  /\ leds \in [buttons : SUBSET Buttons, power : BOOLEAN]
  /\ xStage0_Gain \in Int

\* However gpio_ctrl and the timer callbacks interleave their updates, the gain
\* stays between its limits.
GainInRange == MinGain <= xStage0_Gain /\ xStage0_Gain <= MaxGain

Settled == ~notified /\ gpio.pc = "wait" /\ timerQueue = << >>

\* Once the last button edge has been dealt with, a rapid-fire timer runs exactly while
\* its button is held, unless the timer queue was full for one of the commands.
TimersFollowButtons == Settled /\ ~dropped => active = pressed

\* Releasing both buttons stops the volume from moving, again unless the queue was full.
ReleaseStopsVolume == [](pressed = {}) ~> (dropped \/ [](active = {} /\ daemon.pc = "idle"))

\* The button LEDs show the buttons once gpio_ctrl and stage 1 are at rest
\* (gpio_ctrl.c: "Turn on LEDS based on buttons").
ButtonLedsSettle == Settled /\ stage.pc = "idle" => leds.buttons = pressed
=============================================================================
