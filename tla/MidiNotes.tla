------------------------------ MODULE MidiNotes ------------------------------
(***************************************************************************)
(* examples/freertos/usb/tinyusb_demos/midi_test: each second midi_task      *)
(* turns the next note of a melody on and the one before it off.  Outside    *)
(* src/ is TinyUSB: a message that the FIFO has no room for, or that comes   *)
(* while the device is not mounted, is lost, which the task ignores.         *)
(***************************************************************************)
EXTENDS Integers, Sequences, SequencesExt

CONSTANTS
  note_sequence,   \* the melody
  MidiFifoSize,    \* messages the FIFO holds
  MaxMidiEvents    \* bound: times the host mounts or unmounts the device

\* No note of the melody follows itself, across its end either (note_sequence).
ASSUME MidiAssumption ==
  /\ note_sequence \in Seq(0 .. 127) /\ Len(note_sequence) > 1
  /\ \A i \in 2 .. Len(note_sequence) : note_sequence[i] # note_sequence[i - 1]
  /\ note_sequence[1] # note_sequence[Len(note_sequence)]
  /\ MidiFifoSize \in Nat \ {0} /\ MaxMidiEvents \in Nat

VARIABLES
  note_pos,
  midi_task_at,   \* "wait", "on" or "off"
  midiMounted, midiEvents,
  midiFifo,       \* messages to be sent: on or off, and the note
  ringing,        \* the notes that sound at the host
  kept            \* messages since one was lost, counted up to a round of the melody

midiVars == <<note_pos, midi_task_at, midiMounted, midiEvents, midiFifo, ringing, kept>>

MelodyRound == 2 * Len(note_sequence)   \* messages in a round of the melody

MidiInit ==
  /\ note_pos = 0 /\ midi_task_at = "wait"
  /\ midiMounted = FALSE /\ midiEvents = 0
  /\ midiFifo = << >> /\ ringing = {} /\ kept = 0

\* tud_midi_stream_write
StreamWrite(on, note) ==
  IF midiMounted /\ Len(midiFifo) < MidiFifoSize
  THEN midiFifo' = Append(midiFifo, [on |-> on, note |-> note]) /\ kept' = Min({kept + 1, MelodyRound})
  ELSE kept' = 0 /\ UNCHANGED midiFifo

\* (Faulty variant: at the start of the melody the note before it is its first.)
PreviousHeld == IF note_pos = 0 THEN 0 ELSE note_pos - 1

\* Before the first note of the melody comes its last.
Previous == IF note_pos = 0 THEN Len(note_sequence) - 1 ELSE note_pos - 1

\* midi_task: the delay ends, the note is turned on, the one before it off.
NextNote ==
  /\ midi_task_at = "wait" /\ midi_task_at' = "on"
  /\ UNCHANGED <<note_pos, midiMounted, midiEvents, midiFifo, ringing, kept>>

NoteOn ==
  /\ midi_task_at = "on" /\ midi_task_at' = "off"
  /\ StreamWrite(TRUE, note_sequence[note_pos + 1])
  /\ UNCHANGED <<note_pos, midiMounted, midiEvents, ringing>>

NoteOff ==
  /\ midi_task_at = "off" /\ midi_task_at' = "wait"
  /\ StreamWrite(FALSE, note_sequence[Previous + 1])
  /\ note_pos' = (note_pos + 1) % Len(note_sequence)
  /\ UNCHANGED <<midiMounted, midiEvents, ringing>>

\* The host takes a message.
HearMessage ==
  /\ midiMounted /\ midiFifo # << >>
  /\ LET m == Head(midiFifo)
     IN ringing' = IF m.on THEN ringing \cup {m.note} ELSE ringing \ {m.note}
  /\ midiFifo' = Tail(midiFifo)
  /\ UNCHANGED <<note_pos, midi_task_at, midiMounted, midiEvents, kept>>

\* The device is mounted or unmounted, which empties the FIFO; the host stays as it is.
MidiMountOrUnmount ==
  /\ midiEvents < MaxMidiEvents /\ midiEvents' = midiEvents + 1
  /\ midiMounted' = ~ midiMounted
  /\ kept' = IF midiFifo # << >> THEN 0 ELSE kept
  /\ midiFifo' = << >>
  /\ UNCHANGED <<note_pos, midi_task_at, ringing>>

MidiNext == NextNote \/ NoteOn \/ NoteOff \/ HearMessage \/ MidiMountOrUnmount

MidiSpec == MidiInit /\ [][MidiNext]_midiVars

-----------------------------------------------------------------------------
(* Properties                                                               *)

MidiTypeOK ==
  /\ note_pos \in 0 .. Len(note_sequence) - 1 /\ midi_task_at \in {"wait", "on", "off"}
  /\ midiMounted \in BOOLEAN /\ midiEvents \in 0 .. MaxMidiEvents
  /\ Len(midiFifo) <= MidiFifoSize /\ ringing \subseteq ToSet(note_sequence)
  /\ kept \in 0 .. MelodyRound

\* A lost message may leave a note sounding, but not for ever: a round of the melody with
\* no loss ends every note but the one it is at, across the start of the melody too.
LostNotesEnd ==
  midi_task_at = "wait" /\ kept = MelodyRound /\ midiFifo = << >> =>
    ringing = {note_sequence[Previous + 1]}
=============================================================================
