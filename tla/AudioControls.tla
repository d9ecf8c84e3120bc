---------------------------- MODULE AudioControls ----------------------------
(***************************************************************************)
(* The control requests of the audio demos in                                *)
(* examples/freertos/usb/tinyusb_demos: uac2_headset and audio_test keep the *)
(* mutes and volumes of their channels and a sample rate, which a host reads *)
(* and sets through the entities of the audio function.  A stage of a        *)
(* request that no callback takes is stalled by TinyUSB, outside src/.       *)
(***************************************************************************)
EXTENDS Integers, FiniteSets

CONSTANTS
  ControlDemos,   \* the demos that may be flashed
  Volumes         \* the volumes a host sets when they are in range, 0 among them

ASSUME ControlAssumption ==
  /\ ControlDemos \subseteq {"headset", "microphone"} /\ Volumes \subseteq Int /\ 0 \in Volumes

VARIABLES
  controlDemo,
  setting,     \* mute[], volume[] and the sample rate
  believed,    \* what a host takes them to be
  answer,      \* to the last request: the setting it is about and its value, or stalled
  strayed      \* a request named a channel beyond the tables

audioControlVars == <<controlDemo, setting, believed, answer, strayed>>

\* The tables have entries for the master and one channel.
Channels == {0, 1}
sample_rates == IF controlDemo = "headset" THEN {44100, 48000, 88200, 96000} ELSE {16000}
\* The channels a host is told of: the headset's feature unit has two besides the master.
NamedChannels == IF controlDemo = "headset" THEN {0, 1, 2} ELSE {0, 1}

\* In steps of 1/256 dB; the two demos give different ranges.
VolumeRange == IF controlDemo = "headset" THEN -12800 .. 0 ELSE -90 .. 90

Settings == ({"mute", "volume"} \X Channels) \cup {<<"rate", 0>>}
ValuesOf(s) == CASE s[1] = "volume" -> Volumes \cap VolumeRange [] s[1] = "rate" -> sample_rates [] OTHER -> {0, 1}

Stall == [kind |-> "stall"]
Value(s, v) == [kind |-> "value", of |-> s, value |-> v]
RangeOf(s, vs) == [kind |-> "range", of |-> s, values |-> vs]
Fixed(control) == [kind |-> "fixed", of |-> control]

InitialRate == IF controlDemo = "headset" THEN 44100 ELSE 16000

AudioControlInit ==
  /\ controlDemo \in ControlDemos
  /\ setting = [s \in Settings |-> IF s[1] = "rate" THEN InitialRate ELSE 0]
  /\ believed = setting
  /\ answer = Stall /\ strayed = FALSE

-----------------------------------------------------------------------------
(* Requests: to an entity, about a control of a channel, for the current     *)
(* value or the range, with as much data as the control has or not.          *)

\* The settings each entity serves; a request to another entity, to the interface or to an
\* endpoint is stalled.
Serves(entity) == CASE entity = "feature unit" -> {"mute", "volume"}
                    [] entity = "clock" -> {"rate"}
                    [] OTHER -> {}

\* What has no state: the clock is valid, the microphone's terminal has one channel.
ServesFixed(entity) ==
  CASE entity = "clock" -> {"valid"}
    [] entity = "input terminal" -> IF controlDemo = "microphone" THEN {"connector"} ELSE {}
    [] OTHER -> {}

\* The microphone answers a request for the range of a mute with its current value, and
\* does not look at what is asked of a fixed control.
AsksCurrent(r) ==
  r.request = "CUR" \/ (controlDemo = "microphone" /\ r.control \in {"mute", "valid", "connector"})

tud_audio_get_req_entity_cb(r) ==
  LET s == <<r.control, r.channel>>
  IN /\ IF r.control \in Serves(r.entity)
        THEN IF AsksCurrent(r)
             THEN IF s \in Settings THEN answer' = Value(s, setting[s])
                  ELSE answer' \in {Value(s, v) : v \in ValuesOf(s)}   \* beyond the table
             ELSE answer' = IF r.control = "mute" THEN Stall ELSE RangeOf(s, ValuesOf(s))
        ELSE answer' = IF r.control \in ServesFixed(r.entity) /\ AsksCurrent(r)
                       THEN Fixed(r.control) ELSE Stall
     /\ UNCHANGED <<controlDemo, setting, believed, strayed>>

\* The microphone's clock has one rate, which cannot be set.
Settable(r) ==
  /\ r.request = "CUR" /\ r.whole
  /\ r.control \in Serves(r.entity)
  /\ r.control = "rate" => controlDemo = "headset"

\* (Faulty variant: what is set goes to the master's entry.)
EntryOfMaster(r) == <<r.control, 0>>

\* The entry of the tables a request is about.
Entry(r) == <<r.control, r.channel>>

tud_audio_set_req_entity_cb(r, v) ==
  /\ IF ~ Settable(r)
     THEN answer' = Stall /\ UNCHANGED <<setting, believed, strayed>>
     ELSE /\ answer' = Value(<<r.control, r.channel>>, v)
          /\ IF Entry(r) \in Settings
             THEN /\ setting' = [setting EXCEPT ![Entry(r)] = v]
                  /\ believed' = [believed EXCEPT ![<<r.control, r.channel>>] = v]
                  /\ UNCHANGED strayed
             \* what lies behind the table is the linker's choice: another setting, or none
             ELSE /\ \/ UNCHANGED setting
                     \/ \E s \in Settings \ {<<"rate", 0>>}, w \in {0, 1} :
                          setting' = [setting EXCEPT ![s] = w]
                  /\ strayed' = TRUE /\ UNCHANGED believed
  /\ UNCHANGED controlDemo

Requests ==
  {r \in [entity : {"feature unit", "clock", "input terminal", "interface"},
          control : {"mute", "volume", "rate", "valid", "connector"},
          channel : NamedChannels, request : {"CUR", "RANGE"}, whole : BOOLEAN] :
     r.control \in {"rate", "valid", "connector"} => r.channel = 0}

\* Once a request has gone beyond the tables there is nothing to say of them.
AudioControlNext ==
  /\ ~ strayed
  /\ \/ \E r \in Requests : r.whole /\ tud_audio_get_req_entity_cb(r)
     \/ \E r \in Requests : \E v \in ValuesOf(<<r.control, r.channel>>) : tud_audio_set_req_entity_cb(r, v)

AudioControlSpec == AudioControlInit /\ [][AudioControlNext]_audioControlVars

-----------------------------------------------------------------------------
(* Properties                                                               *)

AudioControlTypeOK ==
  /\ controlDemo \in ControlDemos
  /\ DOMAIN setting = Settings /\ DOMAIN believed = Settings
  /\ strayed \in BOOLEAN
  /\ answer.kind \in {"stall", "value", "range", "fixed"}

\* What the device answers for the current value of a mute, a volume or the rate is what the
\* host last set there, on that channel and no other, through refused requests and requests
\* of the wrong size, and lies in the range it gives, as long as no request has named a
\* channel beyond the tables (tud_audio_set_req_entity_cb, tud_audio_get_req_entity_cb).
SettingsHeard ==
  ~ strayed /\ answer.kind \in {"value", "range"} /\ answer.of \in Settings =>
    /\ answer.kind = "value" => answer.value = believed[answer.of]
    /\ believed[answer.of] \in (IF answer.kind = "range" THEN answer.values ELSE ValuesOf(answer.of))
=============================================================================
