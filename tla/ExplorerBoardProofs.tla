------------------------- MODULE ExplorerBoardProofs ------------------------
(***************************************************************************)
(* The gain of ExplorerBoard stays in range for all limits and steps, in    *)
(* spite of the unlocked updates.  Bounds alone are not inductive: a step   *)
(* from just below the maximum could overshoot.  What is inductive is that  *)
(* the gain, and every copy of it a task is about to write back, is a whole *)
(* number of steps above the minimum and not above the maximum (OnLevel),   *)
(* and the maximum is such a level itself.  The second part is about the    *)
(* volume timers: unless a command was dropped, each runs while its button  *)
(* is the one pressed, or there is still a command or a notification on its *)
(* way that will see to it.                                                 *)
(***************************************************************************)
EXTENDS ExplorerBoard, TLAPS

Levels == {g \in Int : g <= MaxGain /\ \E k \in Nat : g = Level(k)}

OnLevel == /\ xStage0_Gain \in Levels
           /\ gpio.gain \in Levels
           /\ daemon.gain \in Levels

IInv == TypeOK /\ OnLevel

\* Consecutive levels are one step apart, and a higher level is at least a step higher.
LEMMA LevelSteps ==
  ASSUME NEW k \in Nat, NEW n \in Nat
  PROVE  /\ Level(k) \in Int
         /\ Level(k + 1) = Level(k) + GainStep
         /\ MinGain <= Level(k)
         /\ k < n => Level(k) + GainStep <= Level(n)
         /\ n <= k => Level(n) <= Level(k)
<1> USE GainAssumption
<1> DEFINE M(a) == a * GainStep
<1>1. \A a \in Int : M(a) \in Int
  OBVIOUS
<1>2. M(k + 1) = M(k) + GainStep
  OBVIOUS
<1>3. 0 <= M(k)
  OBVIOUS
<1>4. ASSUME NEW a \in Nat, NEW b \in Nat, a <= b PROVE M(a) <= M(b)
  <2>1. (b - a) * GainStep >= 0
    <3>1. b - a \in Nat
      BY <1>4
    <3> QED
      BY <3>1
  <2>2. (b - a) * GainStep = b * GainStep - a * GainStep
    OBVIOUS
  <2> QED
    BY <2>1, <2>2
<1>5. k < n => M(k) + GainStep <= M(n)
  <2>1. k < n => M(k + 1) <= M(n)
    BY <1>4
  <2> QED
    BY <2>1, <1>2
<1>6. n <= k => M(n) <= M(k)
  BY <1>4
<1>7. \A a : Level(a) = MinGain + M(a)
  BY DEF Level
<1> HIDE DEF M
<1> QED
  BY <1>1, <1>2, <1>3, <1>5, <1>6, <1>7

\* volume_up and volume_down lead from level to level.
LEMMA AdjustedOnLevel ==
  ASSUME NEW g \in Levels, NEW b \in Buttons PROVE Adjusted(b, g) \in Levels
<1> USE GainAssumption
<1>1. PICK k \in Nat : g = Level(k)
  BY DEF Levels
<1>2. PICK n \in Nat : MaxGain = Level(n)
  OBVIOUS
<1>3. CASE b = "up" /\ g < MaxGain
  <2>1. k < n
    BY <1>1, <1>2, <1>3, LevelSteps
  <2>2. g + GainStep <= MaxGain /\ g + GainStep = Level(k + 1)
    BY <2>1, <1>1, <1>2, LevelSteps
  <2>3. g + GainStep \in Levels
    BY <2>2 DEF Levels
  <2> QED
    BY <2>3, <1>3 DEF Adjusted, volume_up
<1>4. CASE b = "down" /\ g > MinGain
  <2>1. k # 0
    BY <1>1, <1>4 DEF Level
  <2>2. PICK j \in Nat : k = j + 1
    BY <2>1
  <2>3. Level(j + 1) = Level(j) + GainStep /\ Level(j) \in Int
    BY LevelSteps
  <2>4. g - GainStep = Level(j) /\ g - GainStep <= MaxGain
    BY <2>2, <2>3, <1>1 DEF Levels
  <2>5. g - GainStep \in Levels
    BY <2>4, <2>3 DEF Levels
  <2> QED
    BY <2>5, <1>4 DEF Adjusted, volume_down
<1>5. CASE Adjusted(b, g) = g
  BY <1>5
<1> QED
  BY <1>3, <1>4, <1>5 DEF Adjusted, volume_up, volume_down, Levels, Buttons

\* The minimum and the initial gain are levels.
LEMMA BaseLevels == MinGain \in Levels /\ Level(InitSteps) \in Levels
<1>1. MinGain = Level(0) /\ MinGain <= MaxGain
  BY GainAssumption, LevelSteps DEF Level
<1>2. MinGain \in Levels
  BY <1>1, GainAssumption DEF Levels
<1>3. Level(InitSteps) \in Levels
  BY GainAssumption, LevelSteps DEF Levels
<1> QED
  BY <1>2, <1>3

LEMMA LevelsInt == Levels \subseteq Int
  BY DEF Levels

\* The initial state satisfies the invariant.
LEMMA InitInv == Init => IInv
<1> USE DEF Init
<1>1. Waiting \in GpioState
  BY GainAssumption DEF Waiting, Buttons, GpioState
<1>2. Idle \in [pc : {"idle", "set"}, b : Buttons, gain : Int]
  BY GainAssumption DEF Idle, Buttons
<1>3. [buttons |-> {}, power |-> FALSE] \in [buttons : SUBSET Buttons, power : BOOLEAN]
  OBVIOUS
<1>4. Init => OnLevel
  BY BaseLevels DEF OnLevel, Waiting, Idle
<1>5. Level(InitSteps) \in Int
  BY BaseLevels, LevelsInt
<1>5a. 0 \in 0 .. MaxPresses /\ 0 <= TimerQueueLength
  BY BoundAssumption
<1>6. << >> \in Seq(Commands) /\ Len(<< >>) = 0
  OBVIOUS
<1>7. [pc |-> "idle", buttons |-> {}] \in [pc : {"idle", "out"}, buttons : SUBSET Buttons]
  OBVIOUS
<1>8. Init => TypeOK
  BY <1>1, <1>2, <1>3, <1>5, <1>5a, <1>6, <1>7 DEF TypeOK
<1> QED
  BY <1>4, <1>8 DEF IInv

\* Every step keeps the gain and its copies on a level.
LEMMA LevelKept == ASSUME IInv, [Next]_vars PROVE OnLevel'
<1> USE DEF IInv, OnLevel
<1>1. CASE GetGain
  BY <1>1 DEF GetGain, TypeOK, GpioState
<1>2. CASE SetGain
  <2>1. Adjusted(gpio.b, gpio.gain) \in Levels
    BY AdjustedOnLevel DEF TypeOK, GpioState
  <2>2. NextButton.gain = MinGain
    BY DEF NextButton, Waiting, TypeOK, GpioState
  <2> QED
    BY <1>2, <2>1, <2>2, BaseLevels DEF SetGain
<1>3. CASE RapidFire
  BY <1>3 DEF RapidFire
<1>4. CASE RapidFireEnd
  <2>1. Adjusted(daemon.b, daemon.gain) \in Levels
    BY AdjustedOnLevel DEF TypeOK, GpioState
  <2> QED
    BY <1>4, <2>1, BaseLevels DEF RapidFireEnd, Idle
<1>5. CASE TakeNotification \/ ReadButtons \/ ReadLeds \/ WriteLeds
  BY <1>5, BaseLevels DEF TakeNotification, ReadButtons, ReadLeds, WriteLeds, Waiting, TypeOK, GpioState
<1>6. CASE CommandTimer
  <2>1. NextButton.gain = MinGain
    BY DEF NextButton, Waiting, TypeOK, GpioState
  <2> QED
    BY <1>6, <2>1, BaseLevels DEF CommandTimer, TypeOK, GpioState
<1>7. CASE button_callback \/ TakeCommand \/ stage1 \/ UNCHANGED vars
  BY <1>7 DEF button_callback, TakeCommand, stage1, StageReads, StageWrites, vars
<1> QED
  BY <1>1, <1>2, <1>3, <1>4, <1>5, <1>6, <1>7 DEF Next, gpio_ctrl

\* Every step keeps the types.
LEMMA TypeKept == ASSUME IInv, [Next]_vars PROVE TypeOK'
<1> USE BoundAssumption, GainAssumption DEF IInv, TypeOK, buttonVars, timerVars
<1>1. Levels \subseteq Int
  BY LevelsInt
<1>2. \A g \in Levels, b \in Buttons : Adjusted(b, g) \in Int
  BY <1>1, AdjustedOnLevel
<1>3. NextButton \in GpioState
  BY DEF NextButton, Waiting, Buttons, GpioState
<1>4. CASE button_callback
  BY <1>4 DEF button_callback
<1>5. CASE TakeNotification
  <2>1. [Waiting EXCEPT !.pc = "buttons"] \in GpioState
    BY DEF Waiting, Buttons, GpioState
  <2> QED
    BY <1>5, <2>1 DEF TakeNotification
<1>6. CASE ReadButtons \/ ReadLeds \/ WriteLeds
  <2>1. gpio' \in GpioState
    <3>1. CASE ReadButtons
      BY <3>1 DEF ReadButtons, GpioState
    <3>2. CASE ReadLeds
      <4>1. leds.power \in BOOLEAN
        OBVIOUS
      <4> QED
        BY <3>2, <4>1 DEF ReadLeds, GpioState
    <3>3. CASE WriteLeds
      BY <3>3 DEF WriteLeds, GpioState
    <3> QED
      BY <1>6, <3>1, <3>2, <3>3
  <2>2. leds' \in [buttons : SUBSET Buttons, power : BOOLEAN]
    BY <1>6 DEF ReadButtons, ReadLeds, WriteLeds, GpioState
  <2> QED
    BY <1>6, <2>1, <2>2 DEF ReadButtons, ReadLeds, WriteLeds
<1>7. CASE CommandTimer
  <2>1. ASSUME NEW cmd \in Commands, SendCommand(cmd)
        PROVE  timerQueue' \in Seq(Commands) /\ Len(timerQueue') <= TimerQueueLength /\ dropped' \in BOOLEAN
    <3>1. CASE Len(timerQueue) < TimerQueueLength
      BY <2>1, <3>1 DEF SendCommand
    <3>2. CASE ~(Len(timerQueue) < TimerQueueLength)
      BY <2>1, <3>2 DEF SendCommand
    <3> QED
      BY <3>1, <3>2
  <2>2. gpio.b \in Buttons
    BY DEF GpioState
  <2>3. timerQueue' \in Seq(Commands) /\ Len(timerQueue') <= TimerQueueLength /\ dropped' \in BOOLEAN
    BY <1>7, <2>1, <2>2 DEF CommandTimer, Commands
  <2>4. [gpio EXCEPT !.pc = "get"] \in GpioState
    BY DEF GpioState
  <2>5. gpio' \in GpioState
    BY <1>7, <1>3, <2>4 DEF CommandTimer
  <2> QED
    BY <1>7, <2>3, <2>5 DEF CommandTimer
<1>8. CASE GetGain
  BY <1>8 DEF GetGain, GpioState
<1>9. CASE SetGain
  BY <1>9, <1>2, <1>3 DEF SetGain, OnLevel, GpioState
<1>10. CASE TakeCommand
  BY <1>10 DEF TakeCommand, Commands
<1>11. CASE RapidFire
  BY <1>11 DEF RapidFire
<1>12. CASE RapidFireEnd
  BY <1>12, <1>2 DEF RapidFireEnd, OnLevel, Idle, Buttons
<1>13. CASE stage1
  BY <1>13 DEF stage1, StageReads, StageWrites
<1>14. CASE UNCHANGED vars
  BY <1>14 DEF vars
<1> QED
  BY <1>4, <1>5, <1>6, <1>7, <1>8, <1>9, <1>10, <1>11, <1>12, <1>13, <1>14 DEF Next, gpio_ctrl

\* The invariant holds in every reachable state.
THEOREM ExplorerInvariance == Spec => []IInv
<1>1. IInv /\ [Next]_vars => IInv'
  BY LevelKept, TypeKept DEF IInv
<1> QED
  BY <1>1, InitInv, PTL DEF Spec

\* Type correctness for any limits, step, queue length and number of button edges.
THEOREM ExplorerTypeCorrect == Spec => []TypeOK
<1>1. IInv => TypeOK
  BY DEF IInv
<1> QED
  BY <1>1, ExplorerInvariance, PTL

\* volume_up and volume_down, called by two tasks without a lock, never take the gain out
\* of [MIN_GAIN, MAX_GAIN], provided the initial and the maximum gain are whole steps
\* above the minimum, as appconf's 0, 20, 60 and 4 are.
THEOREM GainSafe == Spec => []GainInRange
<1>1. \A g \in Levels : MinGain <= g /\ g <= MaxGain
  BY LevelSteps DEF Levels
<1>2. IInv => GainInRange
  BY <1>1 DEF IInv, OnLevel, GainInRange
<1> QED
  BY <1>2, ExplorerInvariance, PTL

-----------------------------------------------------------------------------
(* The timers.  What the last command of a button in the queue says, or the  *)
(* timer itself when there is none, is what gpio_ctrl has decided for it;    *)
(* what it decides upon is what the buttons were when it last read them, and  *)
(* an edge after that has left a notification.                                *)

LastIs(cmd, b) == \E i \in 1 .. Len(timerQueue) :
                    /\ timerQueue[i] = <<cmd, b>>
                    /\ \A j \in 1 .. Len(timerQueue) : j > i => timerQueue[j][2] # b
NoneOf(b) == \A j \in 1 .. Len(timerQueue) : timerQueue[j][2] # b

WillRun(b) == LastIs("start", b) \/ (NoneOf(b) /\ b \in active)
WillStop(b) == LastIs("stop", b) \/ (NoneOf(b) /\ b \notin active)
Commanded(b, held) == IF b \in held THEN WillRun(b) ELSE WillStop(b)

\* The buttons whose timers have been commanded for the buttons in hand.
Handled == IF gpio.pc \in {"timer", "get", "set"} /\ gpio.b = "down"
           THEN IF gpio.pc = "timer" THEN {"up"} ELSE {"up", "down"}
           ELSE IF gpio.pc \in {"get", "set"} THEN {"up"} ELSE {}

TimerInv ==
  ~ dropped =>
     /\ gpio.pc \in {"buttons", "leds", "out"} => gpio.b = "up"
     /\ \A b \in Handled : Commanded(b, gpio.buttons)
     /\ ~ notified /\ gpio.pc \notin {"wait", "buttons"} => gpio.buttons = pressed
     /\ ~ notified /\ gpio.pc = "wait" => \A b \in Buttons : Commanded(b, pressed)

LEMMA QueueTyped ==
  ASSUME TypeOK
  PROVE  /\ timerQueue \in Seq({"start", "stop"} \X Buttons) /\ Len(timerQueue) \in Nat
         /\ \A i \in 1 .. Len(timerQueue) : timerQueue[i] \in {"start", "stop"} \X Buttons
<1>1. timerQueue \in Seq({"start", "stop"} \X Buttons)
  BY DEF TypeOK, Commands
<1> QED
  BY <1>1

\* A command that the queue takes is the last word on its button, and on no other.
LEMMA CommandSent ==
  ASSUME TypeOK, NEW cmd \in {"start", "stop"}, NEW b \in Buttons,
         SendCommand(<<cmd, b>>), ~ dropped', active' = active
  PROVE  /\ ~ dropped /\ LastIs(cmd, b)'
         /\ \A x \in Buttons \ {b} : (WillRun(x) => WillRun(x)') /\ (WillStop(x) => WillStop(x)')
<1>1. ~ dropped /\ timerQueue' = Append(timerQueue, <<cmd, b>>)
  BY DEF SendCommand
<1>2. timerQueue \in Seq({"start", "stop"} \X Buttons) /\ Len(timerQueue) \in Nat
  BY QueueTyped
<1>3. /\ Len(timerQueue') = Len(timerQueue) + 1
      /\ timerQueue'[Len(timerQueue) + 1] = <<cmd, b>>
      /\ \A i \in 1 .. Len(timerQueue) : timerQueue'[i] = timerQueue[i]
  <2>1. <<cmd, b>> \in Commands /\ timerQueue \in Seq(Commands)
    BY DEF Commands, TypeOK
  <2>2. ASSUME NEW e \in Commands
        PROVE  /\ Len(Append(timerQueue, e)) = Len(timerQueue) + 1
               /\ Append(timerQueue, e)[Len(timerQueue) + 1] = e
               /\ \A i \in 1 .. Len(timerQueue) : Append(timerQueue, e)[i] = timerQueue[i]
    BY <2>1
  <2>3. /\ Len(Append(timerQueue, <<cmd, b>>)) = Len(timerQueue) + 1
        /\ Append(timerQueue, <<cmd, b>>)[Len(timerQueue) + 1] = <<cmd, b>>
        /\ \A i \in 1 .. Len(timerQueue) : Append(timerQueue, <<cmd, b>>)[i] = timerQueue[i]
    BY <2>1, <2>2
  <2> QED
    BY <1>1, <2>3, Zenon
<1>4. LastIs(cmd, b)'
  <2>1. Len(timerQueue) + 1 \in 1 .. Len(timerQueue')
    BY <1>2, <1>3
  <2>2. \A j \in 1 .. Len(timerQueue') : ~ (j > Len(timerQueue) + 1)
    BY <1>2, <1>3
  <2> QED
    BY <1>3, <2>1, <2>2 DEF LastIs
<1>5. ASSUME NEW x \in Buttons \ {b}
      PROVE  /\ NoneOf(x) => NoneOf(x)'
             /\ \A c \in {"start", "stop"} : LastIs(c, x) => LastIs(c, x)'
  <2>1. \A j \in 1 .. Len(timerQueue') : j \in 1 .. Len(timerQueue) \/ j = Len(timerQueue) + 1
    BY <1>2, <1>3
  <2>2. <<cmd, b>>[2] = b /\ b # x
    OBVIOUS
  <2>3. NoneOf(x) => NoneOf(x)'
    BY <1>3, <2>1, <2>2 DEF NoneOf
  <2>4. ASSUME NEW c \in {"start", "stop"}, LastIs(c, x) PROVE LastIs(c, x)'
    <3>1. PICK i \in 1 .. Len(timerQueue) :
               /\ timerQueue[i] = <<c, x>>
               /\ \A j \in 1 .. Len(timerQueue) : j > i => timerQueue[j][2] # x
      BY <2>4 DEF LastIs
    <3>2. i \in 1 .. Len(timerQueue') /\ timerQueue'[i] = <<c, x>>
      BY <1>2, <1>3, <3>1
    <3>3. \A j \in 1 .. Len(timerQueue') : j > i => timerQueue'[j][2] # x
      BY <1>3, <2>1, <2>2, <3>1
    <3> QED
      BY <3>2, <3>3, Zenon DEF LastIs
  <2> QED
    BY <2>3, <2>4
<1>6. ASSUME NEW x \in Buttons \ {b} PROVE (WillRun(x) => WillRun(x)') /\ (WillStop(x) => WillStop(x)')
  BY <1>5, Zenon DEF WillRun, WillStop
<1> QED
  BY <1>1, <1>4, <1>6

\* The daemon does what the oldest command says; what will be of a button stays the same.
LEMMA CommandTaken ==
  ASSUME TypeOK, TakeCommand, NEW x \in Buttons
  PROVE  (WillRun(x) => WillRun(x)') /\ (WillStop(x) => WillStop(x)')
<1> DEFINE head == timerQueue[1]
<1>1. timerQueue \in Seq({"start", "stop"} \X Buttons) /\ Len(timerQueue) \in Nat /\ active \in SUBSET Buttons
  BY QueueTyped DEF TypeOK
<1>2. /\ timerQueue # << >> /\ timerQueue' = Tail(timerQueue)
      /\ active' = IF Head(timerQueue)[1] = "start" THEN active \union {Head(timerQueue)[2]}
                                                    ELSE active \ {Head(timerQueue)[2]}
  BY DEF TakeCommand
<1>3. /\ Len(timerQueue) >= 1 /\ Head(timerQueue) = head /\ Len(timerQueue') = Len(timerQueue) - 1
      /\ \A i \in 1 .. Len(timerQueue') : timerQueue'[i] = timerQueue[i + 1]
  BY <1>1, <1>2
<1>4. head \in {"start", "stop"} \X Buttons
  BY <1>1, <1>3, QueueTyped
<1>5. ASSUME NEW c \in {"start", "stop"}, LastIs(c, x)
      PROVE  LastIs(c, x)' \/ (NoneOf(x)' /\ head = <<c, x>>)
  <2>1. PICK i \in 1 .. Len(timerQueue) :
             /\ timerQueue[i] = <<c, x>>
             /\ \A j \in 1 .. Len(timerQueue) : j > i => timerQueue[j][2] # x
    BY <1>5 DEF LastIs
  <2>2. CASE i = 1
    <3>1. \A j \in 1 .. Len(timerQueue') : j + 1 \in 1 .. Len(timerQueue) /\ j + 1 > i
      BY <1>1, <1>3, <2>2
    <3>2. NoneOf(x)'
      BY <1>3, <2>1, <3>1 DEF NoneOf
    <3> QED
      BY <2>1, <2>2, <3>2
  <2>3. CASE i # 1
    <3>1. i - 1 \in 1 .. Len(timerQueue') /\ (i - 1) + 1 = i
      BY <1>1, <1>3, <2>3
    <3>2. timerQueue'[i - 1] = <<c, x>>
      BY <1>3, <2>1, <3>1
    <3>3. \A j \in 1 .. Len(timerQueue') : j > i - 1 => (j + 1 \in 1 .. Len(timerQueue) /\ j + 1 > i)
      BY <1>1, <1>3, <2>3
    <3>4. \A j \in 1 .. Len(timerQueue') : j > i - 1 => timerQueue'[j][2] # x
      BY <1>3, <2>1, <3>3
    <3> QED
      BY <3>1, <3>2, <3>4, Zenon DEF LastIs
  <2> QED
    BY <2>2, <2>3
<1>6. ASSUME NoneOf(x) PROVE NoneOf(x)' /\ head[2] # x
  <2>1. \A j \in 1 .. Len(timerQueue') : j + 1 \in 1 .. Len(timerQueue)
    BY <1>1, <1>3
  <2>2. 1 \in 1 .. Len(timerQueue)
    BY <1>1, <1>3
  <2> QED
    BY <1>3, <1>6, <2>1, <2>2 DEF NoneOf
<1> HIDE DEF head
<1>7. active' = IF head[1] = "start" THEN active \union {head[2]} ELSE active \ {head[2]}
  BY <1>2, <1>3, Zenon
<1>8. /\ head = <<"start", x>> => x \in active'
      /\ head = <<"stop", x>> => x \notin active'
      /\ head[2] # x => (x \in active <=> x \in active')
  BY <1>1, <1>7
<1> QED
  BY <1>5, <1>6, <1>8, Zenon DEF WillRun, WillStop
LEMMA CommandedKept ==
  ASSUME NEW x \in Buttons, NEW held, Commanded(x, held),
         (WillRun(x) => WillRun(x)') /\ (WillStop(x) => WillStop(x)')
  PROVE  Commanded(x, held)'
BY Zenon DEF Commanded

\* The timers and the queue are left alone.
LEMMA SameTimers ==
  ASSUME timerQueue' = timerQueue, active' = active, NEW x \in Buttons
  PROVE  (WillRun(x) => WillRun(x)') /\ (WillStop(x) => WillStop(x)')
<1>1. \A c \in {"start", "stop"} : LastIs(c, x) => LastIs(c, x)'
  BY Zenon DEF LastIs
<1>2. (NoneOf(x) => NoneOf(x)') /\ (x \in active <=> x \in active')
  BY Zenon DEF NoneOf
<1> QED
  BY <1>1, <1>2, Zenon DEF WillRun, WillStop

LEMMA TimerStart == Init => TimerInv
<1> SUFFICES ASSUME Init PROVE TimerInv
  OBVIOUS
<1>1. timerQueue = << >> /\ active = {} /\ pressed = {} /\ gpio = Waiting /\ Len(timerQueue) = 0
  BY DEF Init
<1>2. gpio.pc = "wait"
  BY <1>1 DEF Waiting
<1>3. Handled = {}
  BY <1>2 DEF Handled
<1>4. \A b \in Buttons : Commanded(b, pressed)
  <2>1. \A b \in Buttons : NoneOf(b) /\ b \notin active /\ b \notin pressed
    BY <1>1 DEF NoneOf
  <2> QED
    BY <2>1, Zenon DEF Commanded, WillStop
<1> QED
  BY <1>2, <1>3, <1>4 DEF TimerInv

\* The buttons handled before and after gpio_ctrl goes on to the next one.
LEMMA HandledSets ==
  ASSUME TypeOK
  PROVE  /\ gpio.pc = "timer" => Handled = IF gpio.b = "down" THEN {"up"} ELSE {}
         /\ gpio.pc \in {"get", "set"} => Handled = IF gpio.b = "down" THEN Buttons ELSE {"up"}
         /\ gpio.pc \in {"wait", "buttons", "leds", "out"} => Handled = {}
BY DEF Handled, Buttons, TypeOK, GpioState

\* After the last of the buttons gpio_ctrl waits again, and what was commanded stands.
LEMMA NextButtonKeeps ==
  ASSUME TypeOK, gpio' = NextButton, gpio.pc \in {"timer", "get", "set"}, ~ dropped',
         UNCHANGED <<pressed, notified>>,
         ~ notified => gpio.buttons = pressed,
         NEW held, held = gpio.buttons, NEW b, b = gpio.b,
         \A x \in {"up", b} : Commanded(x, held)'
  PROVE  TimerInv'
<1>1. gpio \in GpioState /\ b \in Buttons /\ Buttons = {"up", "down"}
  BY DEF TypeOK, GpioState, Buttons
<1>2. CASE b = "up"
  <2>1. gpio' = [gpio EXCEPT !.pc = "timer", !.b = "down", !.gain = MinGain]
    BY <1>2 DEF NextButton
  <2>2. gpio'.pc = "timer" /\ gpio'.b = "down" /\ gpio'.buttons = held
    BY <1>1, <2>1 DEF GpioState
  <2>3. Handled' = {"up"}
    BY <2>2 DEF Handled
  <2>4. \A x \in Handled' : Commanded(x, held)'
    BY <2>3, Zenon
  <2>5. \A x \in Handled' : Commanded(x, gpio.buttons)'
    BY <2>2, <2>4, Zenon DEF Commanded
  <2>6. ~ notified' => gpio'.buttons = pressed'
    BY <2>2, Zenon
  <2> QED
    BY <2>2, <2>5, <2>6 DEF TimerInv
<1>3. CASE b = "down"
  <2>1. gpio' = Waiting
    BY <1>3 DEF NextButton
  <2>2. gpio'.pc = "wait"
    BY <2>1 DEF Waiting
  <2>3. Handled' = {}
    BY <2>2 DEF Handled
  <2>4. \A x \in Buttons : Commanded(x, held)'
    BY <1>1, <1>3, Zenon
  <2>5. ~ notified' => pressed' = held
    BY Zenon
  <2>6. ~ notified' => \A x \in Buttons : Commanded(x, pressed)'
    BY <2>4, <2>5, Zenon DEF Commanded
  <2> QED
    BY <2>2, <2>3, <2>6 DEF TimerInv
<1> QED
  BY <1>1, <1>2, <1>3
\* A command for the button in hand.
LEMMA CommandTimerKeeps == ASSUME TypeOK, TimerInv, CommandTimer PROVE TimerInv'
<1> SUFFICES ASSUME ~ dropped' PROVE TimerInv'
  BY Zenon DEF TimerInv
<1>1. gpio \in GpioState /\ gpio.b \in Buttons /\ gpio.buttons \in SUBSET Buttons
  BY DEF TypeOK, GpioState
<1>2. gpio.pc = "timer" /\ UNCHANGED <<pressed, notified, active>>
  BY DEF CommandTimer, buttonVars
<1>3. PICK b \in Buttons : b = gpio.b
  BY <1>1
<1>4. PICK held \in SUBSET Buttons : held = gpio.buttons
  BY <1>1
<1>5. /\ IF b \in held THEN SendCommand(<<"start", b>>) ELSE SendCommand(<<"stop", b>>)
      /\ gpio' = IF b \in held THEN [gpio EXCEPT !.pc = "get"] ELSE NextButton
  BY <1>3, <1>4 DEF CommandTimer
<1>6. /\ ~ dropped /\ Commanded(b, held)'
      /\ \A x \in Buttons \ {b} : (WillRun(x) => WillRun(x)') /\ (WillStop(x) => WillStop(x)')
  <2>1. CASE b \in held
    <3>1. SendCommand(<<"start", b>>)
      BY <1>5, <2>1
    <3>2. /\ ~ dropped /\ LastIs("start", b)'
          /\ \A x \in Buttons \ {b} : (WillRun(x) => WillRun(x)') /\ (WillStop(x) => WillStop(x)')
      BY <1>2, <3>1, CommandSent
    <3>3. Commanded(b, held)'
      BY <2>1, <3>2, Zenon DEF Commanded, WillRun
    <3> QED
      BY <3>2, <3>3, Zenon
  <2>2. CASE b \notin held
    <3>1. SendCommand(<<"stop", b>>)
      BY <1>5, <2>2
    <3>2. /\ ~ dropped /\ LastIs("stop", b)'
          /\ \A x \in Buttons \ {b} : (WillRun(x) => WillRun(x)') /\ (WillStop(x) => WillStop(x)')
      BY <1>2, <3>1, CommandSent
    <3>3. Commanded(b, held)'
      BY <2>2, <3>2, Zenon DEF Commanded, WillStop
    <3> QED
      BY <3>2, <3>3, Zenon
  <2> QED
    BY <2>1, <2>2
<1>7. /\ \A x \in Handled : Commanded(x, gpio.buttons)
      /\ ~ notified => gpio.buttons = pressed
  BY <1>2, <1>6 DEF TimerInv
<1>8. Handled = IF b = "down" THEN {"up"} ELSE {}
  BY <1>2, <1>3, HandledSets
<1>9. \A x \in Handled \cup {b} : Commanded(x, held)'
  <2>1. ASSUME NEW x \in Handled PROVE x \in Buttons \ {b} /\ Commanded(x, held)
    BY <1>4, <1>7, <1>8, <2>1 DEF Buttons
  <2>2. ASSUME NEW x \in Handled PROVE Commanded(x, held)'
    BY <1>6, <2>1, CommandedKept, Zenon
  <2> QED
    BY <1>6, <2>2
<1>10. \A x \in {"up", b} : Commanded(x, held)'
  BY <1>8, <1>9 DEF Buttons
<1>11. CASE b \in held
  <2>1. gpio' = [gpio EXCEPT !.pc = "get"]
    BY <1>5, <1>11
  <2>2. gpio'.pc = "get" /\ gpio'.b = b /\ gpio'.buttons = held
    BY <1>1, <1>3, <1>4, <2>1 DEF GpioState
  <2>3. Handled' = IF b = "down" THEN {"up", "down"} ELSE {"up"}
    BY <2>2 DEF Handled
  <2>4. \A x \in Handled' : x \in {"up", b}
    BY <1>3, <2>3 DEF Buttons
  <2>5. \A x \in Handled' : Commanded(x, gpio.buttons)'
    BY <1>10, <2>2, <2>4, Zenon DEF Commanded
  <2>6. ~ notified' => gpio'.buttons = pressed'
    BY <1>2, <1>4, <1>7, <2>2, Zenon
  <2> QED
    BY <2>2, <2>5, <2>6 DEF TimerInv
<1>12. CASE b \notin held
  <2>1. gpio' = NextButton
    BY <1>5, <1>12
  <2> QED
    BY <1>2, <1>3, <1>4, <1>7, <1>10, <2>1, NextButtonKeeps, Zenon
<1> QED
  BY <1>11, <1>12

\* The other steps of gpio_ctrl leave the timers alone.
LEMMA GpioKeeps ==
  ASSUME TypeOK, TimerInv,
         TakeNotification \/ ReadButtons \/ ReadLeds \/ WriteLeds \/ GetGain \/ SetGain
  PROVE  TimerInv'
<1> SUFFICES ASSUME ~ dropped' PROVE TimerInv'
  BY Zenon DEF TimerInv
<1>1. UNCHANGED <<timerQueue, active, dropped, pressed>>
  BY DEF TakeNotification, ReadButtons, ReadLeds, WriteLeds, GetGain, SetGain, timerVars, buttonVars
<1>2. gpio \in GpioState /\ gpio.b \in Buttons /\ gpio.buttons \in SUBSET Buttons
  BY DEF TypeOK, GpioState
<1>3. /\ gpio.pc \in {"buttons", "leds", "out"} => gpio.b = "up"
      /\ \A b \in Handled : Commanded(b, gpio.buttons)
      /\ ~ notified /\ gpio.pc \notin {"wait", "buttons"} => gpio.buttons = pressed
  BY <1>1, Zenon DEF TimerInv
<1>4. \A x \in Buttons : (WillRun(x) => WillRun(x)') /\ (WillStop(x) => WillStop(x)')
  BY <1>1, SameTimers
<1>5. CASE TakeNotification
  <2>1. gpio' = [Waiting EXCEPT !.pc = "buttons"]
    BY <1>5 DEF TakeNotification
  <2>2. gpio'.pc = "buttons" /\ gpio'.b = "up"
    BY <2>1 DEF Waiting
  <2>3. Handled' = {}
    BY <2>2 DEF Handled
  <2> QED
    BY <2>2, <2>3 DEF TimerInv
<1>6. CASE ReadButtons
  <2>1. gpio' = [gpio EXCEPT !.pc = "leds", !.buttons = pressed] /\ gpio.pc = "buttons"
    BY <1>6 DEF ReadButtons
  <2>2. gpio'.pc = "leds" /\ gpio'.b = "up" /\ gpio'.buttons = pressed'
    BY <1>1, <1>2, <1>3, <2>1 DEF GpioState
  <2>3. Handled' = {}
    BY <2>2 DEF Handled
  <2> QED
    BY <2>2, <2>3 DEF TimerInv
<1>7. CASE ReadLeds
  <2>1. gpio' = [gpio EXCEPT !.pc = "out", !.power = leds.power] /\ gpio.pc = "leds" /\ notified' = notified
    BY <1>7 DEF ReadLeds, buttonVars
  <2>2. gpio'.pc = "out" /\ gpio'.b = "up" /\ gpio'.buttons = gpio.buttons
    BY <1>2, <1>3, <2>1 DEF GpioState
  <2>3. Handled' = {}
    BY <2>2 DEF Handled
  <2>4. ~ notified' => gpio'.buttons = pressed'
    BY <1>1, <1>3, <2>1, <2>2
  <2> QED
    BY <2>2, <2>3, <2>4 DEF TimerInv
<1>8. CASE WriteLeds
  <2>1. gpio' = [gpio EXCEPT !.pc = "timer", !.power = FALSE] /\ gpio.pc = "out" /\ notified' = notified
    BY <1>8 DEF WriteLeds, buttonVars
  <2>2. gpio'.pc = "timer" /\ gpio'.b = "up" /\ gpio'.buttons = gpio.buttons
    BY <1>2, <1>3, <2>1 DEF GpioState
  <2>3. Handled' = {}
    BY <2>2 DEF Handled
  <2>4. ~ notified' => gpio'.buttons = pressed'
    BY <1>1, <1>3, <2>1, <2>2
  <2> QED
    BY <2>2, <2>3, <2>4 DEF TimerInv
<1>9. CASE GetGain
  <2>1. gpio' = [gpio EXCEPT !.pc = "set", !.gain = xStage0_Gain] /\ gpio.pc = "get" /\ notified' = notified
    BY <1>9 DEF GetGain, buttonVars
  <2>2. gpio'.pc = "set" /\ gpio'.b = gpio.b /\ gpio'.buttons = gpio.buttons
    BY <1>2, <2>1 DEF GpioState
  <2>3. PICK held \in SUBSET Buttons : held = gpio.buttons
    BY <1>2
  <2>4. Handled' = Handled /\ Handled \in SUBSET Buttons
    BY <2>1, <2>2 DEF Handled, Buttons
  <2>5. \A x \in Handled' : Commanded(x, held)'
    BY <1>3, <1>4, <2>3, <2>4, CommandedKept, Zenon
  <2>6. \A x \in Handled' : Commanded(x, gpio.buttons)'
    BY <2>2, <2>3, <2>5, Zenon DEF Commanded
  <2>7. ~ notified' => gpio'.buttons = pressed'
    BY <1>1, <1>3, <2>1, <2>2
  <2> QED
    BY <2>2, <2>6, <2>7 DEF TimerInv
<1>10. CASE SetGain
  <2>1. gpio' = NextButton /\ gpio.pc = "set" /\ notified' = notified
    BY <1>10 DEF SetGain, buttonVars
  <2>2. PICK held \in SUBSET Buttons : held = gpio.buttons
    BY <1>2
  <2>3. PICK b \in Buttons : b = gpio.b
    BY <1>2
  <2>4. \A x \in {"up", b} : x \in Handled /\ x \in Buttons
    BY <2>1, <2>3, HandledSets DEF Buttons
  <2>5. \A x \in {"up", b} : Commanded(x, held)'
    BY <1>3, <1>4, <2>2, <2>4, CommandedKept, Zenon
  <2>6. ~ notified => gpio.buttons = pressed
    BY <1>3, <2>1
  <2>7. UNCHANGED <<pressed, notified>> /\ gpio.pc \in {"timer", "get", "set"}
    BY <1>1, <2>1
  <2> QED
    BY <2>1, <2>2, <2>3, <2>5, <2>6, <2>7, NextButtonKeeps, Zenon
<1> QED
  BY <1>5, <1>6, <1>7, <1>8, <1>9, <1>10

\* The buttons, the daemon and the pipeline.
LEMMA OthersKeep ==
  ASSUME TypeOK, TimerInv,
         button_callback \/ TakeCommand \/ RapidFire \/ RapidFireEnd \/ stage1 \/ UNCHANGED vars
  PROVE  TimerInv'
<1> SUFFICES ASSUME ~ dropped' PROVE TimerInv'
  BY Zenon DEF TimerInv
<1>1. UNCHANGED <<gpio, dropped>>
  BY DEF button_callback, TakeCommand, RapidFire, RapidFireEnd, stage1, StageReads, StageWrites, vars, timerVars
<1>2. \A x \in Buttons : (WillRun(x) => WillRun(x)') /\ (WillStop(x) => WillStop(x)')
  <2>1. CASE TakeCommand
    BY <2>1, CommandTaken
  <2>2. CASE ~ TakeCommand
    <3>1. timerQueue' = timerQueue /\ active' = active
      BY <2>2 DEF button_callback, RapidFire, RapidFireEnd, stage1, StageReads, StageWrites, vars, timerVars
    <3> QED
      BY <3>1, SameTimers
  <2> QED
    BY <2>1, <2>2
<1>3. notified' \/ (notified' = notified /\ pressed' = pressed)
  BY DEF button_callback, TakeCommand, RapidFire, RapidFireEnd, stage1, StageReads, StageWrites, vars, buttonVars
<1>4. gpio.buttons \in SUBSET Buttons /\ pressed \in SUBSET Buttons
  BY DEF TypeOK, GpioState
<1>5. Handled' = Handled /\ Handled \in SUBSET Buttons
  BY <1>1 DEF Handled, Buttons
<1>6. /\ gpio.pc \in {"buttons", "leds", "out"} => gpio.b = "up"
      /\ \A b \in Handled : Commanded(b, gpio.buttons)
      /\ ~ notified /\ gpio.pc \notin {"wait", "buttons"} => gpio.buttons = pressed
      /\ ~ notified /\ gpio.pc = "wait" => \A b \in Buttons : Commanded(b, pressed)
  BY <1>1, Zenon DEF TimerInv
<1>7. \A held : \A x \in Buttons : Commanded(x, held) => Commanded(x, held)'
  BY <1>2, Zenon DEF Commanded
<1>8. \A x \in Handled' : Commanded(x, gpio.buttons)'
  <2>1. PICK held \in SUBSET Buttons : held = gpio.buttons
    BY <1>4
  <2>2. \A x \in Handled' : Commanded(x, held)'
    BY <1>5, <1>6, <1>7, <2>1
  <2> QED
    BY <1>1, <2>1, <2>2, Zenon DEF Commanded
<1>9. ASSUME ~ notified', gpio'.pc = "wait" PROVE \A x \in Buttons : Commanded(x, pressed)'
  <2>1. PICK held \in SUBSET Buttons : held = pressed
    BY <1>4
  <2>2. \A x \in Buttons : Commanded(x, held)
    BY <1>1, <1>3, <1>6, <1>9, <2>1, Zenon
  <2>3. \A x \in Buttons : Commanded(x, held)'
    BY <1>7, <2>2
  <2> QED
    BY <1>3, <1>9, <2>1, <2>3, Zenon DEF Commanded
<1>10. ~ notified' /\ gpio'.pc \notin {"wait", "buttons"} => gpio'.buttons = pressed'
  BY <1>1, <1>3, <1>6, Zenon
<1>11. gpio'.pc \in {"buttons", "leds", "out"} => gpio'.b = "up"
  BY <1>1, <1>6
<1> QED
  BY <1>8, <1>9, <1>10, <1>11, Zenon DEF TimerInv

\* A rapid-fire timer runs exactly while its button is held, once the last edge has been
\* dealt with and if the timer queue had room for every command (gpio_ctrl and FreeRTOS's
\* timer command queue), for any queue length and number of edges.
THEOREM TimersRight == Spec => []TimersFollowButtons
<1>1. IInv /\ TimerInv /\ [Next]_vars => TimerInv'
  BY CommandTimerKeeps, GpioKeeps, OthersKeep, Zenon DEF Next, gpio_ctrl, IInv
<1>2. IInv /\ TimerInv => TimersFollowButtons
  <2> SUFFICES ASSUME IInv, TimerInv, Settled, ~ dropped PROVE active = pressed
    BY DEF TimersFollowButtons
  <2>1. active \in SUBSET Buttons /\ pressed \in SUBSET Buttons
    BY DEF IInv, TypeOK
  <2>2. timerQueue = << >> /\ Len(timerQueue) = 0 /\ \A b \in Buttons : Commanded(b, pressed)
    BY DEF TimerInv, Settled
  <2>3. \A b \in Buttons : ~ LastIs("start", b) /\ ~ LastIs("stop", b)
    BY <2>2 DEF LastIs
  <2>4. \A b \in Buttons : b \in active <=> b \in pressed
    BY <2>2, <2>3, Zenon DEF Commanded, WillRun, WillStop
  <2> QED
    BY <2>1, <2>4
<1> QED
  BY <1>1, <1>2, TimerStart, ExplorerInvariance, PTL DEF Spec
=============================================================================
