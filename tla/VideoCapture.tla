----------------------------- MODULE VideoCapture -----------------------------
(***************************************************************************)
(* examples/freertos/usb/tinyusb_demos/video_capture, built without          *)
(* CFG_EXAMPLE_VIDEO_READONLY: video_task draws each frame in the one        *)
(* frame_buffer and offers it to TinyUSB, which refuses it while a frame is  *)
(* being sent and reads the buffer itself as the payloads go out.  A frame   *)
(* is drawn and sent in two parts, each named by the position of its bars.   *)
(***************************************************************************)
EXTENDS Integers, Sequences

CONSTANTS
  MaxFrameNum,   \* bound: the number a frame may get
  MaxStreams     \* bound: times the host starts or stops the stream

ASSUME VideoAssumption == MaxFrameNum \in Nat /\ MaxStreams \in Nat

VARIABLES
  frame_num,
  frame_buffer,   \* the positions its two parts were drawn for
  videoTask,      \* where video_task is, in which of its two frames, drawing what
  streaming, streams,
  sending,        \* the parts sent so far of the frame under way, or none
  received        \* the last frame the host got

videoVars == <<frame_num, frame_buffer, videoTask, streaming, streams, sending, received>>

NoFrame == [busy |-> FALSE, parts |-> << >>]
VideoAt(place, frame, drawing) == [place |-> place, frame |-> frame, drawing |-> drawing]

VideoInit ==
  /\ frame_num = 0 /\ frame_buffer = <<0, 0>>
  /\ videoTask = VideoAt("poll", 1, 0)
  /\ streaming = FALSE /\ streams = 0
  /\ sending = NoFrame /\ received = <<0, 0>>

-----------------------------------------------------------------------------
(* video_task                                                               *)

\* Without a stream the numbers start again; the check and the reset are two steps.
CheckStreaming ==
  /\ videoTask.place = "poll"
  /\ videoTask' = IF streaming THEN VideoAt("draw", 1, 0) ELSE VideoAt("reset", 1, 0)
  /\ UNCHANGED <<frame_num, frame_buffer, streaming, streams, sending, received>>

ResetFrames ==
  /\ videoTask.place = "reset"
  /\ frame_num' = 0 /\ videoTask' = VideoAt("poll", 1, 0)
  /\ UNCHANGED <<frame_buffer, streaming, streams, sending, received>>

\* fill_color_bar with the number read at the call
fill_color_bar ==
  /\ \/ /\ videoTask.place = "draw"
        /\ videoTask' = VideoAt("top", videoTask.frame, frame_num)
        /\ UNCHANGED frame_buffer
     \/ /\ videoTask.place = "top"
        /\ frame_buffer' = [frame_buffer EXCEPT ![1] = videoTask.drawing]
        /\ videoTask' = [videoTask EXCEPT !.place = "bottom"]
     \/ /\ videoTask.place = "bottom"
        /\ frame_buffer' = [frame_buffer EXCEPT ![2] = videoTask.drawing]
        /\ videoTask' = [videoTask EXCEPT !.place = "offer"]
  /\ UNCHANGED <<frame_num, streaming, streams, sending, received>>

\* (Faulty variant: the frame is counted where it is offered, too.)
CountOffered ==
  /\ videoTask.place = "offer"
  /\ sending' = IF streaming /\ ~ sending.busy THEN [busy |-> TRUE, parts |-> << >>] ELSE sending
  /\ frame_num' = frame_num + 1 /\ frame_num < MaxFrameNum
  /\ videoTask' = IF videoTask.frame = 1 THEN VideoAt("draw", 2, 0) ELSE VideoAt("poll", 1, 0)
  /\ UNCHANGED <<frame_buffer, streaming, streams, received>>

\* tud_video_n_frame_xfer, its result ignored.  A second frame follows at once: the loop
\* between them waits for tx_busy, which nothing ever sets.
OfferFrame ==
  /\ videoTask.place = "offer"
  /\ sending' = IF streaming /\ ~ sending.busy THEN [busy |-> TRUE, parts |-> << >>] ELSE sending
  /\ videoTask' = IF videoTask.frame = 1 THEN VideoAt("draw", 2, 0) ELSE VideoAt("poll", 1, 0)
  /\ UNCHANGED <<frame_num, frame_buffer, streaming, streams, received>>

video_task == CheckStreaming \/ ResetFrames \/ fill_color_bar \/ OfferFrame

-----------------------------------------------------------------------------
(* The USB task                                                             *)

SendPart ==
  /\ sending.busy /\ Len(sending.parts) < 2
  /\ sending' = [sending EXCEPT !.parts = Append(@, frame_buffer[Len(@) + 1])]
  /\ UNCHANGED <<frame_num, frame_buffer, videoTask, streaming, streams, received>>

tud_video_frame_xfer_complete_cb ==
  /\ sending.busy /\ Len(sending.parts) = 2 /\ frame_num < MaxFrameNum
  /\ received' = sending.parts
  /\ frame_num' = frame_num + 1
  /\ sending' = NoFrame
  /\ UNCHANGED <<frame_buffer, videoTask, streaming, streams>>

\* The host starts the stream (tud_video_commit_cb keeps an interval nothing reads) or
\* stops it, which drops the frame under way.
tud_video_commit_cb ==
  /\ streams < MaxStreams /\ streams' = streams + 1
  /\ streaming' = ~ streaming
  /\ sending' = NoFrame
  /\ UNCHANGED <<frame_num, frame_buffer, videoTask, received>>

VideoNext ==
  \/ video_task
  \/ SendPart \/ tud_video_frame_xfer_complete_cb \/ tud_video_commit_cb

VideoSpec == VideoInit /\ [][VideoNext]_videoVars

-----------------------------------------------------------------------------
(* Properties                                                               *)

VideoTypeOK ==
  /\ frame_num \in 0 .. MaxFrameNum /\ frame_buffer \in [1 .. 2 -> 0 .. MaxFrameNum]
  /\ videoTask \in [place : {"poll", "reset", "draw", "top", "bottom", "offer"},
                    frame : 1 .. 2, drawing : 0 .. MaxFrameNum]
  /\ streaming \in BOOLEAN /\ streams \in 0 .. MaxStreams
  /\ sending.busy \in BOOLEAN /\ received \in [1 .. 2 -> 0 .. MaxFrameNum]

\* The buffer is drawn again while it is being sent, so a frame may be torn.  But the bars
\* of its parts are never more than one position apart, through stops and starts of the
\* stream as well, and nothing a stopped stream left behind gets in.
TornByOneAtMost == received[1] - received[2] \in -1 .. 1
===============================================================================
