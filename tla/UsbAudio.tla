------------------------------- MODULE UsbAudio -------------------------------
(***************************************************************************)
(* Two audio demos of examples/freertos/usb/tinyusb_demos.  uac2_headset     *)
(* sends what the host plays back as its microphone: the USB task puts a     *)
(* frame in spk_buf, a task mixes its pairs of samples into mic_buf.         *)
(* audio_test sends a microphone: a task puts its frames in a stream buffer, *)
(* the USB task takes them out.  TinyUSB, the microphone and the stream      *)
(* buffer are outside src/.                                                  *)
(***************************************************************************)
EXTENDS Integers, Sequences, SequencesExt

CONSTANTS
  AudioDemos,     \* the demos that may be flashed
  MaxPairs,       \* pairs of samples that a frame of the host may have
  FrameSamples,   \* samples in a frame of the microphone
  SampleBytes,    \* bytes in a sample
  StreamBytes,    \* size of the stream buffer, one and a half frames
  Slack,          \* samples over a frame at which more is sent
  ExtraSamples,   \* samples sent then
  MaxFrames,      \* bound: frames that arrive
  MaxInterfaces   \* bound: times the host sets an interface

ASSUME AudioAssumption ==
  /\ AudioDemos \subseteq {"headset", "microphone"}
  /\ MaxPairs \in Nat \ {0} /\ FrameSamples \in Nat \ {0} /\ SampleBytes \in Nat \ {0} /\ StreamBytes \in Nat \ {0}
  /\ Slack \in Nat /\ ExtraSamples \in Nat /\ MaxFrames \in Nat /\ MaxInterfaces \in Nat

VARIABLES
  audioDemo,
  frames, alternates,           \* frames that came; alternate settings the host chose
  arriving,                     \* headset: size of the frame being read, and pairs of it read
  spk_buf, spk_data_size,       \* pairs, each with its frame and place; those of the new frame
  mic_buf,
  mixing,                       \* where the task is, the size it read, the pair it is at, and
                                \* the frame that was announced when it found one
  played,                       \* the writes to the microphone's stream
  interface_open,               \* microphone: the host listens
  captured,                     \* the frame its task took and decided to send, or 0
  sample_stream_buf,            \* bytes, each with its frame, sample and byte
  packet, lastSent              \* the last bytes written, and the last byte before them

audioVars == <<audioDemo, frames, alternates, arriving, spk_buf, spk_data_size, mic_buf, mixing, played,
               interface_open, captured, sample_stream_buf, packet, lastSent>>
headset == <<arriving, spk_buf, spk_data_size, mic_buf, mixing, played>>
microphone == <<interface_open, captured, sample_stream_buf, packet, lastSent>>

NothingArriving == [size |-> 0, read |-> 0]
Polling == [place |-> "poll", size |-> 0, at |-> 1, since |-> 0]

AudioInit ==
  /\ audioDemo \in AudioDemos
  /\ frames = 0 /\ alternates = 0
  /\ arriving = NothingArriving
  /\ spk_buf = [k \in 1 .. MaxPairs |-> <<0, k>>] /\ spk_data_size = 0
  /\ mic_buf = [k \in 1 .. MaxPairs |-> <<0, k>>] /\ mixing = Polling
  /\ played = << >>
  /\ interface_open = FALSE /\ captured = 0
  /\ sample_stream_buf = << >> /\ packet = << >> /\ lastSent = << >>

-----------------------------------------------------------------------------
(* uac2_headset.  The two tasks share spk_buf and spk_data_size without a      *)
(* lock, so they are read and written a pair, or a size, at a time.           *)

\* tud_audio_rx_done_pre_read_cb has a frame read into spk_buf, as long as the host made it,
BeginFrame ==
  /\ arriving = NothingArriving
  /\ frames < MaxFrames /\ frames' = frames + 1
  /\ \E n \in 1 .. MaxPairs : arriving' = [size |-> n, read |-> 0]
  /\ UNCHANGED <<audioDemo, alternates, spk_buf, spk_data_size, mic_buf, mixing, played,
                 microphone>>

ReadPair ==
  /\ arriving.read < arriving.size
  /\ arriving' = [arriving EXCEPT !.read = @ + 1]
  /\ spk_buf' = [spk_buf EXCEPT ![arriving'.read] = <<frames, arriving'.read>>]
  /\ UNCHANGED <<audioDemo, frames, alternates, spk_data_size, mic_buf, mixing, played,
                 microphone>>

\* and then tells its size.
AnnounceFrame ==
  /\ arriving # NothingArriving /\ arriving.read = arriving.size
  /\ spk_data_size' = arriving.size /\ arriving' = NothingArriving
  /\ UNCHANGED <<audioDemo, frames, alternates, spk_buf, mic_buf, mixing, played, microphone>>

tud_audio_rx_done_pre_read_cb == BeginFrame \/ ReadPair \/ AnnounceFrame

\* tud_audio_set_itf_cb of the headset, in the same task (the LED: SelectSpeaker of UsbEnumeration)
ClearOnSetInterface ==
  /\ arriving = NothingArriving
  /\ alternates < MaxInterfaces /\ alternates' = alternates + 1
  /\ spk_data_size' = 0
  /\ UNCHANGED <<audioDemo, frames, arriving, spk_buf, mic_buf, mixing, played, microphone>>

\* The frame whose size was told last.
Announced == IF arriving = NothingArriving THEN frames ELSE frames - 1

\* audio_task
StartMix ==
  /\ mixing.place = "poll" /\ spk_data_size # 0
  /\ mixing' = [place |-> "limit", size |-> spk_data_size, at |-> 1, since |-> Announced]
  /\ UNCHANGED <<audioDemo, frames, alternates, arriving, spk_buf, spk_data_size, mic_buf,
                 played, microphone>>

\* spk_data_size is not volatile: here and in the write, the size is the one read before or
\* read again, as the build has it.
ReadLimit ==
  /\ mixing.place = "limit"
  /\ \E n \in {mixing.size, spk_data_size} :
       mixing' = [mixing EXCEPT !.place = "mix", !.size = n]
  /\ UNCHANGED <<audioDemo, frames, alternates, arriving, spk_buf, spk_data_size, mic_buf,
                 played, microphone>>

MixPair ==
  /\ mixing.place = "mix" /\ mixing.at <= mixing.size
  /\ mic_buf' = [mic_buf EXCEPT ![mixing.at] = spk_buf[mixing.at]]
  /\ mixing' = [mixing EXCEPT !.at = @ + 1]
  /\ UNCHANGED <<audioDemo, frames, alternates, arriving, spk_buf, spk_data_size, played,
                 microphone>>

\* With a size that is read again, what an older mix left in mic_buf follows a shorter one.
\* The mix was overtaken when another frame began to come since it was started.
WriteMix ==
  /\ mixing.place = "mix" /\ mixing.at > mixing.size
  /\ \E n \in {mixing.size, spk_data_size} :
       played' = Append(played, [pairs |-> SubSeq(mic_buf, 1, n), mixed |-> mixing.size,
                                 since |-> mixing.since, overtaken |-> frames # mixing.since])
  /\ mixing' = [Polling EXCEPT !.place = "clear"]
  /\ UNCHANGED <<audioDemo, frames, alternates, arriving, spk_buf, spk_data_size, mic_buf,
                 microphone>>

\* (Faulty variant: the frame is not marked as done.)
LeaveFrame ==
  /\ mixing.place = "clear"
  /\ mixing' = Polling
  /\ UNCHANGED <<audioDemo, frames, alternates, arriving, spk_buf, spk_data_size, mic_buf,
                 played, microphone>>

\* A frame announced since is dropped with the one written; one not announced yet is not.
ClearFrame ==
  /\ mixing.place = "clear"
  /\ spk_data_size' = 0
  /\ mixing' = Polling
  /\ UNCHANGED <<audioDemo, frames, alternates, arriving, spk_buf, mic_buf, played, microphone>>

Headset ==
  \/ tud_audio_rx_done_pre_read_cb \/ ClearOnSetInterface
  \/ StartMix \/ ReadLimit \/ MixPair \/ WriteMix \/ ClearFrame

-----------------------------------------------------------------------------
(* audio_test                                                               *)

Bytes(n) == [i \in 1 .. FrameSamples * SampleBytes |->
               <<n, ((i - 1) \div SampleBytes) + 1, ((i - 1) % SampleBytes) + 1>>]

\* audio_task takes a frame and keeps it if the host listens.
TakeFrame ==
  /\ captured = 0 /\ frames < MaxFrames /\ frames' = frames + 1
  /\ captured' = IF interface_open THEN frames' ELSE 0
  /\ UNCHANGED <<audioDemo, alternates, headset, interface_open, sample_stream_buf, packet,
                 lastSent>>

\* Without waiting: what does not fit of a frame is lost.
BufferFrame ==
  /\ captured # 0
  /\ LET room == StreamBytes - Len(sample_stream_buf)
         bytes == Bytes(captured)
     IN sample_stream_buf' = sample_stream_buf \o SubSeq(bytes, 1, Min({room, Len(bytes)}))
  /\ captured' = 0
  /\ UNCHANGED <<audioDemo, frames, alternates, headset, interface_open, packet, lastSent>>

BytesToSend ==
  IF Len(sample_stream_buf) > (FrameSamples + Slack) * SampleBytes
  THEN ExtraSamples * SampleBytes ELSE FrameSamples * SampleBytes

\* A full buffer is dropped whole, else a frame or a little more is sent.
tud_audio_tx_done_pre_load_cb ==
  /\ alternates % 2 = 1   \* the host has opened the interface
  /\ interface_open' = TRUE
  /\ IF Len(sample_stream_buf) = StreamBytes
     THEN sample_stream_buf' = << >> /\ UNCHANGED <<packet, lastSent>>
     ELSE LET n == Min({BytesToSend, Len(sample_stream_buf)})
          IN /\ lastSent' = IF packet = << >> THEN lastSent ELSE Last(packet)
             /\ packet' = SubSeq(sample_stream_buf, 1, n)
             /\ sample_stream_buf' = SubSeq(sample_stream_buf, n + 1, Len(sample_stream_buf))
  /\ UNCHANGED <<audioDemo, frames, alternates, headset, captured>>

\* TinyUSB closes an open endpoint before it sets an interface, opened and closed in turn.
tud_audio_set_itf_cb ==
  /\ alternates < MaxInterfaces /\ alternates' = alternates + 1
  /\ interface_open' = FALSE   \* tud_audio_set_itf_close_EP_cb
  /\ sample_stream_buf' = << >>
  /\ UNCHANGED <<audioDemo, frames, headset, captured, packet, lastSent>>

Microphone ==
  \/ TakeFrame \/ BufferFrame
  \/ tud_audio_tx_done_pre_load_cb \/ tud_audio_set_itf_cb

AudioNext ==
  \/ audioDemo = "headset" /\ Headset
  \/ audioDemo = "microphone" /\ Microphone

AudioSpec == AudioInit /\ [][AudioNext]_audioVars

-----------------------------------------------------------------------------
(* Properties                                                               *)

AudioTypeOK ==
  /\ audioDemo \in AudioDemos
  /\ frames \in 0 .. MaxFrames /\ alternates \in 0 .. MaxInterfaces
  /\ arriving \in [size : 0 .. MaxPairs, read : 0 .. MaxPairs] /\ spk_data_size \in 0 .. MaxPairs
  /\ mixing \in [place : {"poll", "limit", "mix", "clear"}, size : 0 .. MaxPairs,
                 at : 1 .. MaxPairs + 1, since : 0 .. MaxFrames]
  /\ interface_open \in BOOLEAN /\ captured \in 0 .. MaxFrames
  /\ Len(sample_stream_buf) <= StreamBytes

Earlier(x, y) == x[1] < y[1] \/ (x[1] = y[1] /\ x[2] < y[2])

\* The pairs of a write that its mix put there.
Mixed(w) == {w.pairs[k] : k \in 1 .. Min({w.mixed, Len(w.pairs)})}

\* However the host's frames fall between the steps of the task: a mix that no frame overtakes
\* plays one frame from its first pair on, and nothing of it was or will be mixed again; one
\* that was overtaken plays nothing older than what was mixed before, except for the rest of
\* an older mix behind it, and of the frame that overtook it some may come once more.  And
\* what a microphone sends begins and ends with a sample, although neither the buffer nor
\* what is taken from it is bound to samples.
NoAudioTwice ==
  /\ \A i \in 1 .. Len(played) : ~ played[i].overtaken =>
       \A k \in 1 .. Len(played[i].pairs) : played[i].pairs[k] = <<played[i].since, k>>
  /\ \A i, j \in 1 .. Len(played) : i < j =>
       \A x \in Mixed(played[i]), y \in Mixed(played[j]) :
         x[1] < y[1] \/ (x[1] = y[1] /\ played[i].overtaken)
  /\ packet # << >> =>
       /\ packet[1][3] = 1 /\ Last(packet)[3] = SampleBytes
       /\ lastSent # << >> => Earlier(lastSent, packet[1])
=============================================================================
