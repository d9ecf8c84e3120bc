--------------------------- MODULE UsbDemosProofs ---------------------------
(***************************************************************************)
(* Proofs about the USB demos, for every value of their constants: what     *)
(* each component promises of its own specification, and that the firmware  *)
(* flashed, whichever it is, keeps it.                                      *)
(***************************************************************************)
EXTENDS UsbDemos, SerialEchoProofs, TLAPS

-----------------------------------------------------------------------------
(* Video: how far a frame can be torn                                       *)

Drawing == videoTask.place \in {"top", "bottom", "offer"}

\* The two positions the parts of a frame that is being sent may have.
Near(position) == position \in {frame_num - 1, frame_num}

\* What is drawn is the number of now or the one before, and of now while a frame is under
\* way, as the number only moves when the frame is sent; frames are offered whole; a frame
\* is under way only while the host listens, and never while the numbers start again.
VideoInv ==
  /\ VideoTypeOK
  /\ sending \in [busy : BOOLEAN, parts : Seq(0 .. MaxFrameNum)] /\ Len(sending.parts) <= 2
  /\ Drawing => Near(videoTask.drawing) /\ (sending.busy => videoTask.drawing = frame_num)
  /\ videoTask.place \in {"bottom", "offer"} => frame_buffer[1] = videoTask.drawing
  /\ videoTask.place = "offer" => frame_buffer[2] = videoTask.drawing
  /\ sending.busy =>
       /\ streaming /\ videoTask.place # "reset"
       /\ Near(frame_buffer[1]) /\ Near(frame_buffer[2])
       /\ \A i \in 1 .. Len(sending.parts) : Near(sending.parts[i])
  /\ TornByOneAtMost

\* The places of the task, apart.
LEMMA VideoFacts ==
  ASSUME VideoInv
  PROVE  /\ frame_num \in 0 .. MaxFrameNum /\ MaxFrameNum \in Nat /\ 0 \in 0 .. MaxFrameNum
         /\ frame_buffer \in [1 .. 2 -> 0 .. MaxFrameNum]
         /\ videoTask \in [place : {"poll", "reset", "draw", "top", "bottom", "offer"},
                           frame : 1 .. 2, drawing : 0 .. MaxFrameNum]
         /\ streaming \in BOOLEAN /\ streams \in 0 .. MaxStreams /\ MaxStreams \in Nat
         /\ received \in [1 .. 2 -> 0 .. MaxFrameNum]
         /\ sending \in [busy : BOOLEAN, parts : Seq(0 .. MaxFrameNum)]
         /\ sending.busy \in BOOLEAN /\ Len(sending.parts) \in Nat
<1>1. MaxFrameNum \in Nat /\ MaxStreams \in Nat
  BY VideoAssumption
<1>2. sending \in [busy : BOOLEAN, parts : Seq(0 .. MaxFrameNum)]
  BY DEF VideoInv
<1>3. sending.busy \in BOOLEAN /\ Len(sending.parts) \in Nat
  BY <1>2
<1> QED
  BY <1>1, <1>2, <1>3 DEF VideoInv, VideoTypeOK

\* A step of video_task that neither counts nor draws.
LEMMA VideoPollSteps == VideoInv /\ (CheckStreaming \/ ResetFrames) => VideoInv'
<1> SUFFICES ASSUME VideoInv, CheckStreaming \/ ResetFrames PROVE VideoInv'
  OBVIOUS
<1>1. UNCHANGED <<frame_buffer, streaming, streams, sending, received>>
  BY DEF CheckStreaming, ResetFrames
<1>2. CASE CheckStreaming
  <2>1. /\ frame_num' = frame_num
        /\ videoTask' = VideoAt(IF streaming THEN "draw" ELSE "reset", 1, 0)
    BY <1>2 DEF CheckStreaming
  <2>2. videoTask' \in [place : {"poll", "reset", "draw", "top", "bottom", "offer"},
                        frame : 1 .. 2, drawing : 0 .. MaxFrameNum]
    BY <2>1, VideoFacts DEF VideoAt
  <2>3. videoTask'.place = IF streaming THEN "draw" ELSE "reset"
    BY <2>1 DEF VideoAt
  <2>4. VideoTypeOK'
    BY <1>1, <2>1, <2>2, Zenon DEF VideoInv, VideoTypeOK
  <2>5. sending.busy => streaming
    BY DEF VideoInv
  <2> QED
    BY <1>1, <2>1, <2>3, <2>4, <2>5 DEF VideoInv, Drawing, Near, TornByOneAtMost
<1>3. CASE ResetFrames
  <2>1. /\ frame_num' = 0 /\ videoTask.place = "reset" /\ videoTask' = VideoAt("poll", 1, 0)
    BY <1>3 DEF ResetFrames
  <2>2. videoTask' \in [place : {"poll", "reset", "draw", "top", "bottom", "offer"},
                        frame : 1 .. 2, drawing : 0 .. MaxFrameNum]
        /\ videoTask'.place = "poll"
    BY <2>1, VideoFacts DEF VideoAt
  <2>3. ~ sending.busy
    BY <2>1 DEF VideoInv
  <2>4. VideoTypeOK'
    BY <1>1, <2>1, <2>2, VideoFacts, Zenon DEF VideoTypeOK
  <2> QED
    BY <1>1, <2>1, <2>2, <2>3, <2>4 DEF VideoInv, Drawing, Near, TornByOneAtMost
<1> QED
  BY <1>2, <1>3

LEMMA VideoDrawStep == VideoInv /\ fill_color_bar => VideoInv'
<1> SUFFICES ASSUME VideoInv, fill_color_bar PROVE VideoInv'
  OBVIOUS
<1> USE VideoFacts
<1>1. UNCHANGED <<frame_num, streaming, streams, sending, received>>
  BY DEF fill_color_bar
<1>2. CASE /\ videoTask.place = "draw"
           /\ videoTask' = VideoAt("top", videoTask.frame, frame_num)
           /\ UNCHANGED frame_buffer
  <2>1. videoTask' \in [place : {"poll", "reset", "draw", "top", "bottom", "offer"},
                        frame : 1 .. 2, drawing : 0 .. MaxFrameNum]
        /\ videoTask'.place = "top" /\ videoTask'.drawing = frame_num
    BY <1>2 DEF VideoAt
  <2>2. VideoTypeOK'
    BY <1>1, <1>2, <2>1, Zenon DEF VideoTypeOK
  <2> QED
    BY <1>1, <1>2, <2>1, <2>2 DEF VideoInv, Drawing, Near, TornByOneAtMost
<1>3. CASE /\ videoTask.place = "top"
           /\ frame_buffer' = [frame_buffer EXCEPT ![1] = videoTask.drawing]
           /\ videoTask' = [videoTask EXCEPT !.place = "bottom"]
  <2>1. videoTask' \in [place : {"poll", "reset", "draw", "top", "bottom", "offer"},
                        frame : 1 .. 2, drawing : 0 .. MaxFrameNum]
        /\ videoTask'.place = "bottom" /\ videoTask'.drawing = videoTask.drawing
    BY <1>3
  <2>2. /\ frame_buffer' \in [1 .. 2 -> 0 .. MaxFrameNum]
        /\ frame_buffer'[1] = videoTask.drawing /\ frame_buffer'[2] = frame_buffer[2]
    BY <1>3
  <2>3. VideoTypeOK'
    BY <1>1, <2>1, <2>2, Zenon DEF VideoTypeOK
  <2> QED
    BY <1>1, <1>3, <2>1, <2>2, <2>3 DEF VideoInv, Drawing, Near, TornByOneAtMost
<1>4. CASE /\ videoTask.place = "bottom"
           /\ frame_buffer' = [frame_buffer EXCEPT ![2] = videoTask.drawing]
           /\ videoTask' = [videoTask EXCEPT !.place = "offer"]
  <2>1. videoTask' \in [place : {"poll", "reset", "draw", "top", "bottom", "offer"},
                        frame : 1 .. 2, drawing : 0 .. MaxFrameNum]
        /\ videoTask'.place = "offer" /\ videoTask'.drawing = videoTask.drawing
    BY <1>4
  <2>2. /\ frame_buffer' \in [1 .. 2 -> 0 .. MaxFrameNum]
        /\ frame_buffer'[2] = videoTask.drawing /\ frame_buffer'[1] = frame_buffer[1]
    BY <1>4
  <2>3. VideoTypeOK'
    BY <1>1, <2>1, <2>2, Zenon DEF VideoTypeOK
  <2> QED
    BY <1>1, <1>4, <2>1, <2>2, <2>3 DEF VideoInv, Drawing, Near, TornByOneAtMost
<1> QED
  BY <1>2, <1>3, <1>4 DEF fill_color_bar

\* A frame that is accepted is whole and was drawn for the number of now or the one before.
LEMMA VideoOfferStep == VideoInv /\ OfferFrame => VideoInv'
<1> SUFFICES ASSUME VideoInv, OfferFrame PROVE VideoInv'
  OBVIOUS
<1> USE VideoFacts
<1>1. /\ UNCHANGED <<frame_num, frame_buffer, streaming, streams, received>>
      /\ videoTask.place = "offer"
      /\ videoTask' = IF videoTask.frame = 1 THEN VideoAt("draw", 2, 0) ELSE VideoAt("poll", 1, 0)
  BY DEF OfferFrame
<1>2. videoTask' \in [place : {"poll", "reset", "draw", "top", "bottom", "offer"},
                      frame : 1 .. 2, drawing : 0 .. MaxFrameNum]
      /\ videoTask'.place \in {"draw", "poll"}
  BY <1>1 DEF VideoAt
<1>3. Near(frame_buffer[1]) /\ Near(frame_buffer[2])
  BY <1>1 DEF VideoInv, Drawing
<1>4. CASE streaming /\ ~ sending.busy
  <2>1. sending' = [busy |-> TRUE, parts |-> << >>]
    BY <1>4 DEF OfferFrame
  <2>2. sending' \in [busy : BOOLEAN, parts : Seq(0 .. MaxFrameNum)] /\ Len(sending'.parts) = 0
    BY <2>1
  <2>3. VideoTypeOK'
    BY <1>1, <1>2, <2>1 DEF VideoTypeOK
  <2> QED
    BY <1>1, <1>2, <1>3, <1>4, <2>1, <2>2, <2>3 DEF VideoInv, Drawing, Near, TornByOneAtMost
<1>5. CASE ~(streaming /\ ~ sending.busy)
  <2>1. sending' = sending
    BY <1>5 DEF OfferFrame
  <2>2. VideoTypeOK'
    BY <1>1, <1>2, <2>1, Zenon DEF VideoTypeOK
  <2> QED
    BY <1>1, <1>2, <2>1, <2>2 DEF VideoInv, Drawing, Near, TornByOneAtMost
<1> QED
  BY <1>4, <1>5

LEMMA VideoSendStep == VideoInv /\ SendPart => VideoInv'
<1> SUFFICES ASSUME VideoInv, SendPart PROVE VideoInv'
  OBVIOUS
<1> USE VideoFacts
<1> DEFINE parts == sending.parts
           part == frame_buffer[Len(parts) + 1]
<1>1. /\ UNCHANGED <<frame_num, frame_buffer, videoTask, streaming, streams, received>>
      /\ sending.busy /\ Len(parts) < 2
      /\ sending' = [sending EXCEPT !.parts = Append(parts, part)]
  BY DEF SendPart
<1>2. Len(parts) + 1 \in 1 .. 2 /\ parts \in Seq(0 .. MaxFrameNum)
  BY <1>1
<1>3. part \in 0 .. MaxFrameNum /\ Near(part)
  BY <1>1, <1>2 DEF VideoInv
<1>4. /\ sending'.parts = Append(parts, part) /\ sending'.busy = sending.busy
      /\ sending' \in [busy : BOOLEAN, parts : Seq(0 .. MaxFrameNum)]
  <2> DEFINE longer == Append(parts, part)
  <2>1. longer \in Seq(0 .. MaxFrameNum)
    BY <1>2, <1>3
  <2> HIDE DEF longer
  <2>2. sending' = [sending EXCEPT !.parts = longer]
    BY <1>1 DEF longer
  <2>3. sending'.parts = longer /\ sending'.busy = sending.busy
        /\ sending' \in [busy : BOOLEAN, parts : Seq(0 .. MaxFrameNum)]
    BY <2>1, <2>2
  <2> QED
    BY <2>3 DEF longer
<1>5. /\ Len(sending'.parts) <= 2
      /\ \A i \in 1 .. Len(sending'.parts) : Near(sending'.parts[i])
  BY <1>1, <1>2, <1>3, <1>4 DEF VideoInv
<1>6. VideoTypeOK'
  BY <1>1, <1>4, Zenon DEF VideoTypeOK
<1> QED
  BY <1>1, <1>4, <1>5, <1>6 DEF VideoInv, Drawing, Near, TornByOneAtMost

\* The frame is shown and the number moves on; or the stream starts or stops.
LEMMA VideoHostSteps ==
  VideoInv /\ (tud_video_frame_xfer_complete_cb \/ tud_video_commit_cb) => VideoInv'
<1> SUFFICES ASSUME VideoInv, tud_video_frame_xfer_complete_cb \/ tud_video_commit_cb PROVE VideoInv'
  OBVIOUS
<1> USE VideoFacts
<1>1. sending' = NoFrame /\ UNCHANGED <<frame_buffer, videoTask>>
  BY DEF tud_video_frame_xfer_complete_cb, tud_video_commit_cb
<1>2. /\ sending' \in [busy : BOOLEAN, parts : Seq(0 .. MaxFrameNum)]
      /\ ~ sending'.busy /\ Len(sending'.parts) = 0
  BY <1>1 DEF NoFrame
<1>3. CASE tud_video_frame_xfer_complete_cb
  <2>1. /\ sending.busy /\ Len(sending.parts) = 2 /\ frame_num < MaxFrameNum
        /\ received' = sending.parts /\ frame_num' = frame_num + 1 /\ UNCHANGED <<streaming, streams>>
    BY <1>3 DEF tud_video_frame_xfer_complete_cb
  <2>2. Near(sending.parts[1]) /\ Near(sending.parts[2]) /\ received' \in [1 .. 2 -> 0 .. MaxFrameNum]
    BY <2>1 DEF VideoInv
  <2>3. TornByOneAtMost'
    <3>1. received'[1] \in {frame_num - 1, frame_num} /\ received'[2] \in {frame_num - 1, frame_num}
      BY <2>1, <2>2 DEF Near
    <3>2. \A x, y \in {frame_num - 1, frame_num} : x - y \in -1 .. 1
      OBVIOUS
    <3> QED
      BY <3>1, <3>2 DEF TornByOneAtMost
  <2>4. frame_num' \in 0 .. MaxFrameNum
    BY <2>1
  <2>5. VideoTypeOK'
    BY <1>1, <1>2, <2>1, <2>2, <2>4, Zenon DEF VideoTypeOK
  <2>6. Drawing => videoTask.drawing = frame_num
    BY <2>1 DEF VideoInv
  <2> QED
    BY <1>1, <1>2, <2>1, <2>3, <2>5, <2>6 DEF VideoInv, Drawing, Near
<1>4. CASE tud_video_commit_cb
  <2>1. /\ streams' = streams + 1 /\ streams < MaxStreams /\ streaming' \in BOOLEAN
        /\ UNCHANGED <<frame_num, received>>
    BY <1>4 DEF tud_video_commit_cb
  <2>2. streams' \in 0 .. MaxStreams
    BY <2>1
  <2>3. VideoTypeOK'
    BY <1>1, <1>2, <2>1, <2>2, Zenon DEF VideoTypeOK
  <2> QED
    BY <1>1, <1>2, <2>1, <2>3 DEF VideoInv, Drawing, Near, TornByOneAtMost
<1> QED
  BY <1>3, <1>4

LEMMA VideoStep == VideoInv /\ [VideoNext]_videoVars => VideoInv'
<1>1. ASSUME VideoInv, UNCHANGED videoVars PROVE VideoInv'
  <2>1. UNCHANGED <<frame_num, frame_buffer, videoTask, streaming, streams, sending, received>>
    BY <1>1 DEF videoVars
  <2>2. VideoTypeOK'
    BY <1>1, <2>1, Zenon DEF VideoInv, VideoTypeOK
  <2> QED
    BY <1>1, <2>1, <2>2 DEF VideoInv, Drawing, Near, TornByOneAtMost
<1> QED
  BY <1>1, VideoPollSteps, VideoDrawStep, VideoOfferStep, VideoSendStep, VideoHostSteps
     DEF VideoNext, video_task

LEMMA VideoInitInv == VideoInit => VideoInv
<1> SUFFICES ASSUME VideoInit PROVE VideoInv
  OBVIOUS
<1>1. MaxFrameNum \in Nat /\ MaxStreams \in Nat
  BY VideoAssumption
<1>2. /\ frame_num = 0 /\ frame_buffer = <<0, 0>> /\ received = <<0, 0>>
      /\ videoTask = [place |-> "poll", frame |-> 1, drawing |-> 0]
      /\ streaming = FALSE /\ streams = 0 /\ sending = [busy |-> FALSE, parts |-> << >>]
  BY DEF VideoInit, VideoAt, NoFrame
<1>3. /\ 0 \in 0 .. MaxFrameNum /\ 0 \in 0 .. MaxStreams
      /\ <<0, 0>> \in [1 .. 2 -> 0 .. MaxFrameNum]
  BY <1>1
<1>4. videoTask \in [place : {"poll", "reset", "draw", "top", "bottom", "offer"},
                    frame : 1 .. 2, drawing : 0 .. MaxFrameNum]
  BY <1>2, <1>3
<1>5. sending.busy = FALSE /\ sending \in [busy : BOOLEAN, parts : Seq(0 .. MaxFrameNum)]
      /\ Len(sending.parts) = 0
  BY <1>2
<1>6. VideoTypeOK
  BY <1>2, <1>3, <1>4, <1>5 DEF VideoTypeOK
<1> QED
  BY <1>1, <1>2, <1>5, <1>6 DEF VideoInv, Drawing, TornByOneAtMost

\* For any number of frames and of starts and stops of the stream, the two parts of a frame
\* that the host gets are at most one position apart.
THEOREM FramesBarelyTorn == VideoSpec => [](VideoTypeOK /\ TornByOneAtMost)
<1>1. VideoInv => VideoTypeOK /\ TornByOneAtMost
  BY DEF VideoInv
<1> QED
  BY <1>1, VideoInitInv, VideoStep, PTL DEF VideoSpec

-----------------------------------------------------------------------------
(* DFU runtime: the images that were found at start                         *)

Images == [start : Nat, size : Nat]
BlockRecords == [addr : Nat, length : 0 .. Xfer, units : Seq(Units)]

\* Where the next image is to go, behind the last one of the table.
Spot == FirstFree(Last(img_table))

\* No image ends behind the last one.
TableInv ==
  /\ img_table \in Seq(Images) /\ Len(img_table) \in 1 .. MAX_IMAGE_CNT
  /\ \A i \in 1 .. Len(img_table) : End(img_table[i]) <= End(Last(img_table))

\* A block on its way to flash goes to one of the two sectors behind the images, or is the
\* sector of the mode flag; once its sector is erased it holds all of it.
BlockInv ==
  /\ block \in BlockRecords
  /\ dn_base_addr \in {0, Spot}
  /\ dfuPlace \in {"write", "erased"} =>
       dfuBusy /\ block.addr \in {Spot, Spot + FLASH_PAGE_SIZE}
  /\ dfuPlace = "mode erased" => block.addr = MODE_ADDR
  /\ dfuPlace = "write" => Len(block.units) <= FLASH_PAGE_SIZE
  /\ dfuPlace \in {"erased", "mode erased"} => Len(block.units) = FLASH_PAGE_SIZE
  /\ ~dfuBusy \/ dfuPlace \in {"write", "erased"} => total_len = 0

RtInv == RtTypeOK /\ TableInv /\ BlockInv

LEMMA RtConstants ==
  /\ FLASH_PAGE_SIZE \in Nat /\ FLASH_PAGE_SIZE > 0 /\ Xfer \in Nat /\ Xfer > 0
  /\ Xfer <= FLASH_PAGE_SIZE
  /\ FactoryStart \in Nat /\ FactorySize \in Nat
  /\ FlashSize \in Nat /\ SizeLimit \in Nat /\ SizeLimit > 0 /\ MODE_ADDR \in Nat
  /\ boot_partition_size \in Nat /\ MaxStarts \in Nat /\ MaxStarts > 0 /\ ImageSizes \subseteq Nat
<1>1. FLASH_PAGE_SIZE \in Nat /\ FLASH_PAGE_SIZE > 0
  BY RuntimeAssumption
<1>2. FactoryStart \in Nat /\ FactorySize \in Nat
  BY RuntimeAssumption
<1>3. /\ FlashSize \in Nat /\ SizeLimit \in Nat /\ MODE_ADDR \in Nat
      /\ boot_partition_size \in Nat /\ MaxStarts \in Nat /\ MaxStarts > 0
  BY RuntimeAssumption
<1>4. Xfer \in 1 .. FLASH_PAGE_SIZE /\ FlashSize < SizeLimit /\ \A n \in ImageSizes : n \in Nat
  BY RuntimeAssumption
<1> QED
  BY <1>1, <1>2, <1>3, <1>4

\* An address lies in its sector, and what lies behind lies in that sector or behind it.
LEMMA Sectors ==
  /\ \A s \in Nat : SectorAddress(s) \in Nat
                    /\ SectorAddress(s + 1) = SectorAddress(s) + FLASH_PAGE_SIZE
  /\ \A x \in Nat : /\ SectorOf(x) \in Nat
                    /\ SectorAddress(SectorOf(x)) <= x /\ x < SectorAddress(SectorOf(x) + 1)
  /\ \A s \in Nat, r \in 0 .. (FLASH_PAGE_SIZE - 1) : SectorOf(SectorAddress(s) + r) = s
  /\ \A s, x \in Nat : x < SectorAddress(s) => SectorOf(x) < s
<1> DEFINE P == FLASH_PAGE_SIZE
<1>1. P \in Nat /\ P > 0
  BY RtConstants
<1> HIDE DEF P
<1>2. \A s \in Nat : s * P \in Nat /\ (s + 1) * P = s * P + P
  BY <1>1
<1>3. \A x \in Nat : x \div P \in Nat
  BY <1>1
<1>4. \A x, q \in Nat : q = x \div P => q * P <= x /\ x < q * P + P
  BY <1>1
<1>5. \A s \in Nat, r \in 0 .. (P - 1) : (s * P + r) \div P = s
  BY <1>1
<1>6. ASSUME NEW x \in Nat
      PROVE  SectorOf(x) \in Nat /\ SectorAddress(SectorOf(x)) <= x /\ x < SectorAddress(SectorOf(x) + 1)
  <2>1. PICK q \in Nat : q = x \div P
    BY <1>3
  <2>2. q * P <= x /\ x < q * P + P
    BY <1>4, <2>1
  <2>3. SectorOf(x) = q
    BY <2>1 DEF SectorOf, P
  <2>4. q * P <= x /\ x < (q + 1) * P
    BY <1>2, <2>1, <2>2
  <2> QED
    BY <2>1, <2>3, <2>4, Zenon DEF SectorAddress, P
<1>7. ASSUME NEW s \in Nat, NEW x \in Nat, x < SectorAddress(s) PROVE SectorOf(x) < s
  <2> DEFINE t == SectorOf(x)
  <2>1. t \in Nat /\ t * P <= x /\ x < s * P
    BY <1>6, <1>7 DEF SectorAddress, P
  <2> HIDE DEF t
  <2>2. t * P < s * P
    BY <1>1, <1>2, <2>1
  <2>3. ASSUME t >= s PROVE FALSE
    <3>1. PICK d \in Nat : t = s + d
      <4>1. t - s \in Nat /\ t = s + (t - s)
        BY <2>1, <2>3
      <4> QED
        BY <4>1
    <3>2. t * P = s * P + d * P /\ d * P \in Nat
      BY <1>1, <3>1
    <3> QED
      BY <1>1, <1>2, <2>1, <2>2, <3>2
  <2>4. t < s
    BY <2>1, <2>3
  <2> QED
    BY <2>4 DEF t
<1>8. \A s \in Nat : SectorAddress(s) \in Nat /\ SectorAddress(s + 1) = SectorAddress(s) + FLASH_PAGE_SIZE
  BY <1>2 DEF SectorAddress, P
<1>9. \A s \in Nat, r \in 0 .. (FLASH_PAGE_SIZE - 1) : SectorOf(SectorAddress(s) + r) = s
  BY <1>5 DEF SectorAddress, SectorOf, P
<1> QED
  BY <1>6, <1>7, <1>8, <1>9

\* The sector of the mode flag starts at the flag.
LEMMA ModeSector ==
  \E s \in Nat : MODE_ADDR = SectorAddress(s) /\ SectorOf(MODE_ADDR) = s
<1>1. MODE_ADDR \in Nat /\ MODE_ADDR % FLASH_PAGE_SIZE = 0 /\ FLASH_PAGE_SIZE \in Nat /\ FLASH_PAGE_SIZE > 0
  BY RuntimeAssumption, RtConstants
<1> DEFINE s == SectorOf(MODE_ADDR)
<1>2. /\ s \in Nat /\ SectorAddress(s) <= MODE_ADDR /\ SectorAddress(s) \in Nat
      /\ MODE_ADDR < SectorAddress(s) + FLASH_PAGE_SIZE
  BY <1>1, Sectors
<1> HIDE DEF s
<1>3. PICK r \in 0 .. (FLASH_PAGE_SIZE - 1) : MODE_ADDR = SectorAddress(s) + r
  <2>1. MODE_ADDR - SectorAddress(s) \in 0 .. (FLASH_PAGE_SIZE - 1)
        /\ MODE_ADDR = SectorAddress(s) + (MODE_ADDR - SectorAddress(s))
    BY <1>1, <1>2
  <2> QED
    BY <2>1
<1>4. MODE_ADDR = s * FLASH_PAGE_SIZE + r
  BY <1>3 DEF SectorAddress
<1>5. MODE_ADDR % FLASH_PAGE_SIZE = r
  <2>1. \A x, y, q \in Nat : \A remain \in 0 .. (y - 1) : y > 0 /\ x = q * y + remain => x % y = remain
    OBVIOUS
  <2> QED
    BY <1>1, <1>2, <1>3, <1>4, <2>1
<1>6. r = 0
  BY <1>1, <1>5, Zenon
<1>7. MODE_ADDR = SectorAddress(s)
  BY <1>2, <1>3, <1>6
<1> QED
  BY <1>2, <1>7 DEF s

\* Units of an image lie in other sectors than the two where a block may go.
LEMMA SpotBehind ==
  ASSUME TableInv
  PROVE  /\ End(Last(img_table)) \in Nat /\ Spot \in Nat
         /\ SectorOf(Spot) \in Nat /\ Spot = SectorAddress(SectorOf(Spot))
         /\ SectorOf(Spot + FLASH_PAGE_SIZE) = SectorOf(Spot) + 1
         /\ Spot + FLASH_PAGE_SIZE = SectorAddress(SectorOf(Spot) + 1)
         /\ \A a \in Nat : a < End(Last(img_table)) => SectorOf(a) < SectorOf(Spot)
<1>1. Last(img_table) \in Images
  BY DEF TableInv, Last, MAX_IMAGE_CNT
<1> DEFINE e == End(Last(img_table))
           s == SectorOf(e) + 1
<1>2. e \in Nat
  BY <1>1 DEF End, Images
<1> HIDE DEF e
<1>3. s \in Nat /\ SectorOf(e) \in Nat /\ e < SectorAddress(s)
  BY <1>2, Sectors
<1>4. Spot = SectorAddress(s)
  BY DEF Spot, FirstFree, e
<1> HIDE DEF s
<1>5. 0 \in 0 .. (FLASH_PAGE_SIZE - 1) /\ FLASH_PAGE_SIZE \in Nat
  BY RtConstants
<1>6. \A t \in Nat : SectorOf(SectorAddress(t)) = t
  <2> TAKE t \in Nat
  <2>1. SectorAddress(t) \in Nat /\ SectorOf(SectorAddress(t) + 0) = t
    BY <1>5, Sectors
  <2>2. SectorAddress(t) + 0 = SectorAddress(t)
    BY <2>1
  <2> QED
    BY <2>1, <2>2
<1>7. SectorOf(Spot) = s /\ Spot \in Nat
  BY <1>3, <1>4, <1>6, Sectors
<1>8. Spot + FLASH_PAGE_SIZE = SectorAddress(s + 1) /\ s + 1 \in Nat
  BY <1>3, <1>4, Sectors
<1>9. \A a \in Nat : a < e => SectorOf(a) < s
  <2> TAKE a \in Nat
  <2> HAVE a < e
  <2>1. a < SectorAddress(s)
    BY <1>2, <1>3, Sectors
  <2> QED
    BY <1>3, <2>1, Sectors
<1> QED
  BY <1>2, <1>3, <1>4, <1>6, <1>7, <1>8, <1>9 DEF e

Flash == [0 .. FlashSize - 1 -> Units]

LEMMA UnitsOfFlash ==
  /\ <<"data">> \in Units /\ <<"erased">> \in Units /\ <<"mode">> \in Units
  /\ \A n \in ImageSizes \cup {FactorySize} : Header(n) \in Units
  /\ \A u \in Headers : u[2] \in Nat
<1>1. \A n \in ImageSizes \cup {FactorySize} : n \in Nat /\ Header(n)[2] = n
  BY RtConstants DEF Header
<1>2. \A u \in Headers : \E n \in ImageSizes \cup {FactorySize} : u = Header(n)
  BY DEF Headers
<1>3. \A u \in Headers : u[2] \in Nat
  BY <1>1, <1>2
<1> QED
  BY <1>3, Zenon DEF Units, Headers

\* Flash after an erase and after a write.
LEMMA FlashKept ==
  ASSUME sectors \in Flash, block \in BlockRecords
  PROVE  /\ \A addr : Erased(addr) \in Flash
         /\ Written \in Flash
<1>1. \A addr : Erased(addr) \in Flash
  BY UnitsOfFlash DEF Erased, Flash
<1>2. block.addr \in Nat /\ block.units \in Seq(Units)
  BY DEF BlockRecords
<1>3. ASSUME NEW a \in 0 .. FlashSize - 1
      PROVE  (IF InBlock(a) THEN block.units[a - block.addr + 1] ELSE sectors[a]) \in Units
  <2>1. CASE InBlock(a)
    <3>1. (a - block.addr) + 1 \in 1 .. Len(block.units)
      BY <1>2, <2>1, RtConstants DEF InBlock
    <3> QED
      BY <1>2, <2>1, <3>1
  <2>2. CASE ~ InBlock(a)
    BY <2>2 DEF Flash
  <2> QED
    BY <2>1, <2>2
<1> QED
  BY <1>1, <1>3 DEF Written, Flash

\* What the invariant says of the state, part by part.
LEMMA RtFacts ==
  ASSUME RtInv
  PROVE  /\ sectors \in Flash /\ block \in BlockRecords /\ block.addr \in Nat
         /\ block.length \in 0 .. Xfer /\ block.units \in Seq(Units) /\ Len(block.units) \in Nat
         /\ dn_base_addr \in Nat /\ bytes_avail \in 0 .. SizeLimit - 1 /\ total_len \in 0 .. Xfer
         /\ Spot \in Nat /\ End(Last(img_table)) \in Nat /\ dfuBusy \in BOOLEAN
         /\ starts \in 1 .. MaxStarts
<1>1. block \in BlockRecords
  BY DEF RtInv, BlockInv
<1>2. Spot \in Nat /\ End(Last(img_table)) \in Nat
  BY SpotBehind DEF RtInv
<1>3. block.addr \in Nat /\ block.length \in 0 .. Xfer /\ block.units \in Seq(Units)
  BY <1>1 DEF BlockRecords
<1>4. Len(block.units) \in Nat
  BY <1>3
<1> QED
  BY <1>1, <1>2, <1>3, <1>4 DEF RtInv, RtTypeOK, Flash

\* While the images stay, so does the place behind them.
LEMMA SameTable ==
  ASSUME TableInv, UNCHANGED img_table
  PROVE  TableInv' /\ Spot' = Spot
<1>1. TableInv'
  BY Zenon DEF TableInv, End, Last
<1>2. Spot' = Spot
  BY Zenon DEF Spot, FirstFree, End, Last, SectorOf, SectorAddress
<1> QED
  BY <1>1, <1>2

LEMMA DownloadStep == RtInv /\ tud_dfu_download_cb => RtInv'
<1> SUFFICES ASSUME RtInv, tud_dfu_download_cb PROVE RtInv'
  OBVIOUS
<1>1. /\ dfuPlace = "up" /\ ~ dfuBusy /\ dfuBusy' = TRUE /\ uploaded' = NoUpload
      /\ UNCHANGED <<sectors, img_table, starts>>
  BY DEF tud_dfu_download_cb
<1>2. total_len = 0 /\ TableInv' /\ Spot' = Spot
  BY <1>1, SameTable DEF RtInv, BlockInv
<1>3. /\ dn_base_addr' = Spot /\ bytes_avail' \in 0 .. SizeLimit - 1 /\ total_len' = 0
  <2>1. CASE dn_base_addr = 0
    <3>1. /\ dn_base_addr' = Spot /\ total_len' = 0
          /\ bytes_avail' = (boot_partition_size - End(Last(img_table))) % SizeLimit
      BY <2>1 DEF tud_dfu_download_cb, boot_image_locate_available_spot, Spot
    <3>2. \A x \in Int : x % SizeLimit \in 0 .. SizeLimit - 1
      BY RtConstants
    <3>3. boot_partition_size - End(Last(img_table)) \in Int
      BY RtFacts, RtConstants
    <3> QED
      BY <3>1, <3>2, <3>3
  <2>2. CASE dn_base_addr # 0
    <3>1. UNCHANGED <<dn_base_addr, bytes_avail, total_len>>
      BY <2>2 DEF tud_dfu_download_cb
    <3>2. dn_base_addr = Spot
      BY <2>2 DEF RtInv, BlockInv
    <3> QED
      BY <1>2, <3>1, <3>2, RtFacts
  <2> QED
    BY <2>1, <2>2
<1>4. /\ block' \in BlockRecords /\ dfuPlace' \in {"up", "write"}
      /\ dfuPlace' = "write" => /\ block'.addr \in {Spot, Spot + FLASH_PAGE_SIZE}
                                /\ Len(block'.units) <= FLASH_PAGE_SIZE
  <2>1. PICK data \in Blocks, block_num \in 0 .. 1 :
           \/ /\ block' = [addr |-> dn_base_addr' + block_num * FLASH_PAGE_SIZE,
                           length |-> Len(data), units |-> data]
              /\ dfuPlace' = "write"
           \/ UNCHANGED <<block, dfuPlace>>
    BY DEF tud_dfu_download_cb
  <2>2. CASE UNCHANGED <<block, dfuPlace>>
    BY <1>1, <2>2, RtFacts
  <2>3. CASE /\ block' = [addr |-> dn_base_addr' + block_num * FLASH_PAGE_SIZE,
                           length |-> Len(data), units |-> data]
             /\ dfuPlace' = "write"
    <3>1. data \in Seq(Units) /\ Len(data) \in 1 .. Xfer
      <4>1. PICK n \in 1 .. Xfer, first \in {Header(k) : k \in ImageSizes} \cup {<<"data">>} :
              data = [i \in 1 .. n |-> IF i = 1 THEN first ELSE <<"data">>]
        BY <2>1 DEF Blocks
      <4>2. first \in Units /\ <<"data">> \in Units
        BY UnitsOfFlash
      <4>3. n \in Nat
        BY RtConstants
      <4> QED
        BY <4>1, <4>2, <4>3
    <3>2. block_num * FLASH_PAGE_SIZE \in {0, FLASH_PAGE_SIZE}
      BY RtConstants
    <3>3. dn_base_addr' + block_num * FLASH_PAGE_SIZE \in {Spot, Spot + FLASH_PAGE_SIZE}
      BY <1>3, <3>2, RtFacts, RtConstants
    <3>4. {Spot, Spot + FLASH_PAGE_SIZE} \subseteq Nat
      BY RtFacts, RtConstants
    <3>5. /\ block'.addr = dn_base_addr' + block_num * FLASH_PAGE_SIZE
          /\ block'.length = Len(data) /\ block'.units = data
      BY <2>3
    <3>6. block' \in BlockRecords
      BY <2>3, <3>1, <3>3, <3>4, RtConstants DEF BlockRecords
    <3> QED
      BY <2>3, <3>1, <3>3, <3>5, <3>6, RtConstants
  <2> QED
    BY <2>1, <2>2, <2>3
<1>5. BlockInv'
  BY <1>1, <1>2, <1>3, <1>4 DEF BlockInv
<1>6. RtTypeOK'
  <2>1. block'.addr \in Nat /\ block'.length \in 0 .. Xfer
    BY <1>4 DEF BlockRecords
  <2>2. uploaded'.addr \in Nat /\ uploaded'.length \in 0 .. Xfer
    BY <1>1, RtConstants DEF NoUpload
  <2>3. dn_base_addr' \in Nat /\ total_len' \in 0 .. Xfer
    BY <1>3, RtFacts, RtConstants
  <2>4. UNCHANGED <<sectors, img_table, starts>>
    BY <1>1
  <2> QED
    BY <1>1, <1>3, <1>4, <2>1, <2>2, <2>3, <2>4 DEF RtInv, RtTypeOK
<1> QED
  BY <1>2, <1>5, <1>6 DEF RtInv

LEMMA EraseStep == RtInv /\ EraseSector => RtInv'
<1> SUFFICES ASSUME RtInv, EraseSector PROVE RtInv'
  OBVIOUS
<1> DEFINE filled == [i \in 1 .. FLASH_PAGE_SIZE |->
                      IF InBlock(block.addr + i - 1) THEN block.units[i]
                      ELSE IF block.addr + i - 1 < FlashSize THEN sectors[block.addr + i - 1]
                      ELSE <<"erased">>]
<1>1. /\ dfuPlace = "write" /\ dfuPlace' = "erased" /\ block' = [block EXCEPT !.units = filled]
      /\ sectors' = Erased(block.addr)
      /\ UNCHANGED <<img_table, dn_base_addr, bytes_avail, dfuBusy, uploaded, starts, total_len>>
  BY DEF EraseSector
<1>2. filled \in Seq(Units) /\ Len(filled) = FLASH_PAGE_SIZE
  <2>1. ASSUME NEW i \in 1 .. FLASH_PAGE_SIZE PROVE filled[i] \in Units
    <3> DEFINE a == block.addr + i - 1
    <3>1. a \in Nat /\ filled[i] = IF InBlock(a) THEN block.units[i]
                                 ELSE IF a < FlashSize THEN sectors[a] ELSE <<"erased">>
      BY RtFacts, RtConstants
    <3>2. CASE InBlock(a)
      <4>1. i \in 1 .. Len(block.units)
        BY <3>2, RtFacts, RtConstants DEF InBlock
      <4>2. block.units[i] \in Units
        BY <4>1, RtFacts
      <4> QED
        BY <3>1, <3>2, <4>2
    <3>3. CASE ~ InBlock(a) /\ a < FlashSize
      <4>1. sectors[a] \in Units
        BY <3>1, <3>3, RtFacts, RtConstants DEF Flash
      <4> QED
        BY <3>1, <3>3, <4>1
    <3>4. CASE ~ InBlock(a) /\ ~(a < FlashSize)
      BY <3>1, <3>4, UnitsOfFlash
    <3> QED
      BY <3>2, <3>3, <3>4
  <2> QED
    BY <2>1, RtConstants
<1> HIDE DEF filled
<1>3. /\ block'.addr = block.addr /\ block'.length = block.length /\ block'.units = filled
      /\ block' \in BlockRecords
  BY <1>1, <1>2, RtFacts DEF BlockRecords
<1>4. sectors' \in Flash
  BY <1>1, FlashKept, RtFacts
<1>5. TableInv' /\ Spot' = Spot
  BY <1>1, SameTable DEF RtInv
<1>6. BlockInv'
  BY <1>1, <1>2, <1>3, <1>5 DEF RtInv, BlockInv
<1>7. RtTypeOK'
  BY <1>1, <1>3, <1>4, RtFacts DEF RtInv, RtTypeOK, Flash
<1> QED
  BY <1>5, <1>6, <1>7 DEF RtInv

\* The flag's sector is erased, at an abort, a detach or a manifestation.
LEMMA AbortStep == RtInv /\ tud_dfu_abort_cb => RtInv'
<1> SUFFICES ASSUME RtInv, tud_dfu_abort_cb PROVE RtInv'
  OBVIOUS
<1> DEFINE flag == [i \in 1 .. FLASH_PAGE_SIZE |->
                      IF i = 1 THEN <<"mode">> ELSE sectors[MODE_ADDR + i - 1]]
<1>1. /\ dfuPlace = "up" /\ dfuPlace' = "mode erased"
      /\ block' = [addr |-> MODE_ADDR, length |-> 0, units |-> flag]
      /\ sectors' = Erased(MODE_ADDR)
      /\ UNCHANGED <<img_table, dn_base_addr, bytes_avail, total_len, dfuBusy, uploaded, starts>>
  BY DEF tud_dfu_abort_cb
<1>2. flag \in Seq(Units) /\ Len(flag) = FLASH_PAGE_SIZE
  <2>1. MODE_ADDR + FLASH_PAGE_SIZE <= FlashSize
    BY RuntimeAssumption
  <2>2. ASSUME NEW i \in 1 .. FLASH_PAGE_SIZE PROVE flag[i] \in Units
    <3>1. MODE_ADDR + i - 1 \in 0 .. FlashSize - 1
      BY <2>1, RtConstants
    <3>2. sectors[MODE_ADDR + i - 1] \in Units
      BY <3>1, RtFacts DEF Flash
    <3> QED
      BY <3>2, UnitsOfFlash
  <2>3. flag \in [1 .. FLASH_PAGE_SIZE -> Units]
    BY <2>2, Zenon
  <2> HIDE DEF flag
  <2> QED
    BY <2>3, RtConstants
<1> HIDE DEF flag
<1>3. /\ block'.addr = MODE_ADDR /\ block'.length = 0 /\ block'.units = flag
      /\ block' \in BlockRecords
  <2>1. 0 \in 0 .. Xfer /\ MODE_ADDR \in Nat
    BY RtConstants
  <2> QED
    BY <1>1, <1>2, <2>1 DEF BlockRecords
<1>4. sectors' \in Flash
  BY <1>1, FlashKept, RtFacts
<1>5. TableInv' /\ Spot' = Spot
  BY <1>1, SameTable DEF RtInv
<1>6. BlockInv'
  BY <1>1, <1>2, <1>3, <1>5 DEF RtInv, BlockInv
<1>7. RtTypeOK'
  <2>1. block'.addr \in Nat /\ block'.length \in 0 .. Xfer
    BY <1>3, RtConstants
  <2> QED
    BY <1>1, <1>4, <2>1, Zenon DEF RtInv, RtTypeOK, Flash
<1> QED
  BY <1>5, <1>6, <1>7 DEF RtInv

LEMMA WriteSectorSteps == RtInv /\ (WriteSector \/ write_dfu_mode) => RtInv'
<1> SUFFICES ASSUME RtInv, WriteSector \/ write_dfu_mode PROVE RtInv'
  OBVIOUS
<1>1. /\ sectors' = Written /\ UNCHANGED <<img_table, dn_base_addr, bytes_avail, dfuBusy, uploaded, starts>>
  BY DEF WriteSector, write_dfu_mode, download
<1>2. sectors' \in Flash
  BY <1>1, FlashKept, RtFacts
<1>3. TableInv' /\ Spot' = Spot
  BY <1>1, SameTable DEF RtInv
<1>4. CASE WriteSector
  <2>1. /\ dfuPlace = "erased" /\ dfuPlace' = "up" /\ block' = NoBlock
        /\ total_len' = total_len + block.length
    BY <1>4 DEF WriteSector
  <2>2. total_len = 0 /\ dfuBusy
    BY <2>1 DEF RtInv, BlockInv
  <2>3. total_len' \in 0 .. Xfer
    BY <2>1, <2>2, RtFacts
  <2>4. block' \in BlockRecords /\ block'.addr \in Nat /\ block'.length \in 0 .. Xfer
    BY <2>1, RtConstants DEF NoBlock, BlockRecords
  <2>5. BlockInv'
    BY <1>1, <1>3, <2>1, <2>2, <2>4 DEF RtInv, BlockInv
  <2>6. RtTypeOK'
    BY <1>1, <1>2, <2>1, <2>3, <2>4, Zenon DEF RtInv, RtTypeOK, Flash
  <2> QED
    BY <1>3, <2>5, <2>6 DEF RtInv
<1>5. CASE write_dfu_mode
  <2>1. dfuPlace' = "off" /\ UNCHANGED <<total_len, block>>
    BY <1>5 DEF write_dfu_mode, download
  <2>2. BlockInv'
    <3>1. dfuPlace = "mode erased"
      BY <1>5 DEF write_dfu_mode
    <3> QED
      BY <1>1, <1>3, <2>1, <3>1 DEF RtInv, BlockInv
  <2>3. RtTypeOK'
    BY <1>1, <1>2, <2>1 DEF RtInv, RtTypeOK, Flash
  <2> QED
    BY <1>3, <2>2, <2>3 DEF RtInv
<1> QED
  BY <1>4, <1>5

LEMMA UploadStep == RtInv /\ tud_dfu_upload_cb => RtInv'
<1> SUFFICES ASSUME RtInv, tud_dfu_upload_cb PROVE RtInv'
  OBVIOUS
<1>1. /\ UNCHANGED <<sectors, img_table, dfuPlace, starts>>
      /\ UNCHANGED <<dn_base_addr, bytes_avail, total_len, dfuBusy, block>>
  BY DEF tud_dfu_upload_cb, download
<1>2. uploaded'.addr \in Nat /\ uploaded'.length \in 0 .. Xfer
  <2> DEFINE image == boot_image_get_last_image
  <2>1. image.start \in Nat
    <3>1. Len(img_table) \in Nat /\ Len(img_table) # 0 /\ img_table \in Seq(Images)
      BY DEF RtInv, TableInv, MAX_IMAGE_CNT
    <3>2. Last(img_table) \in Images
      BY <3>1 DEF Last
    <3>3. Last(img_table).start \in Nat
      BY <3>2 DEF Images
    <3> QED
      BY <3>3 DEF boot_image_get_last_image
  <2>2. PICK block_num \in 0 .. 1, length \in 1 .. Xfer :
          uploaded' = IF image.start + block_num * FLASH_PAGE_SIZE < End(image)
                      THEN [addr |-> image.start + block_num * FLASH_PAGE_SIZE, length |-> length]
                      ELSE NoUpload
    BY DEF tud_dfu_upload_cb
  <2> HIDE DEF image
  <2>3. image.start + block_num * FLASH_PAGE_SIZE \in Nat
    BY <2>1, RtConstants
  <2> QED
    BY <2>2, <2>3, RtConstants DEF NoUpload
<1>3. TableInv' /\ Spot' = Spot
  BY <1>1, SameTable DEF RtInv
<1>4. BlockInv'
  BY <1>1, <1>3 DEF RtInv, BlockInv
<1>5. RtTypeOK'
  BY <1>1, <1>2, Zenon DEF RtInv, RtTypeOK
<1> QED
  BY <1>3, <1>4, <1>5 DEF RtInv

LEMMA RtPowerFailStep == RtInv /\ PowerFail => RtInv'
<1> SUFFICES ASSUME RtInv, PowerFail PROVE RtInv'
  OBVIOUS
<1>1. /\ UNCHANGED <<sectors, img_table, uploaded, starts>> /\ dfuPlace' = "off"
      /\ UNCHANGED <<dn_base_addr, bytes_avail, total_len, dfuBusy, block>>
  BY DEF PowerFail, download
<1>2. TableInv' /\ Spot' = Spot
  BY <1>1, SameTable DEF RtInv
<1>3. BlockInv'
  BY <1>1, <1>2 DEF RtInv, BlockInv
<1>4. RtTypeOK'
  BY <1>1 DEF RtInv, RtTypeOK
<1> QED
  BY <1>2, <1>3, <1>4 DEF RtInv

\* A start lists the factory image and, where one is found behind it, the upgrade image.
LEMMA CreateStep == RtInv /\ create_tinyusb_demo => RtInv'
<1> SUFFICES ASSUME RtInv, create_tinyusb_demo PROVE RtInv'
  OBVIOUS
<1>1. /\ dfuPlace = "off" /\ starts < MaxStarts /\ starts' = starts + 1
      /\ img_table' = boot_image_build_table
      /\ dn_base_addr' = 0 /\ bytes_avail' = 0 /\ total_len' = 0
      /\ dfuPlace' = "up" /\ dfuBusy' = FALSE /\ block' = NoBlock /\ uploaded' = NoUpload
      /\ UNCHANGED sectors
  BY DEF create_tinyusb_demo
<1> DEFINE factory == [start |-> FactoryStart, size |-> FactorySize]
           addr == FirstFree(factory)
           second == [start |-> addr, size |-> sectors[addr][2]]
<1>2. factory \in Images /\ End(factory) = FactoryStart + FactorySize /\ End(factory) \in Nat
  BY RtConstants DEF Images, End
<1>3. addr \in Nat /\ End(factory) < addr
  <2>1. addr = SectorAddress(SectorOf(End(factory)) + 1)
    BY DEF FirstFree
  <2>2. SectorOf(End(factory)) \in Nat /\ End(factory) < SectorAddress(SectorOf(End(factory)) + 1)
    BY <1>2, Sectors
  <2>3. SectorOf(End(factory)) + 1 \in Nat
    BY <2>2
  <2> QED
    BY <2>1, <2>2, <2>3, Sectors
<1>4. \/ img_table' = <<factory>>
      \/ img_table' = Append(<<factory>>, second) /\ sectors[addr] \in Headers
  <2>1. boot_image_find_factory_image = <<factory>>
    BY DEF boot_image_find_factory_image
  <2>2. Last(<<factory>>) = factory
    BY DEF Last
  <2>3. \/ boot_image_locate_next_image(<<factory>>) = <<factory>>
        \/ boot_image_locate_next_image(<<factory>>) = Append(<<factory>>, second) /\ sectors[addr] \in Headers
    BY <2>2, Zenon DEF boot_image_locate_next_image
  <2> QED
    BY <1>1, <2>1, <2>3, Zenon DEF boot_image_build_table
<1> HIDE DEF factory, addr
<1>5. TableInv'
  <2>1. CASE img_table' = <<factory>>
    <3>1. img_table' \in Seq(Images) /\ Len(img_table') = 1 /\ img_table'[1] = factory
      BY <1>2, <2>1
    <3>2. Last(img_table') = factory
      BY <3>1 DEF Last
    <3>3. \A i \in 1 .. Len(img_table') : img_table'[i] = factory
      BY <3>1
    <3> QED
      BY <1>2, <3>1, <3>2, <3>3 DEF TableInv, MAX_IMAGE_CNT, End
  <2>2. CASE img_table' = Append(<<factory>>, second) /\ sectors[addr] \in Headers
    <3>1. sectors[addr][2] \in Nat
      BY <2>2, UnitsOfFlash
    <3>2. second \in Images /\ End(second) \in Nat /\ End(factory) < End(second)
      BY <1>2, <1>3, <3>1 DEF Images, End
    <3> HIDE DEF second
    <3>3. img_table' \in Seq(Images) /\ Len(img_table') = 2 /\ img_table'[1] = factory /\ img_table'[2] = second
      BY <1>2, <2>2, <3>2
    <3>4. Last(img_table') = second
      BY <3>3 DEF Last
    <3>5. \A i \in 1 .. Len(img_table') : img_table'[i] = factory \/ img_table'[i] = second
      BY <3>3
    <3>6. \A i \in 1 .. Len(img_table') : End(img_table'[i]) <= End(second)
      <4> TAKE i \in 1 .. Len(img_table')
      <4>1. End(img_table'[i]) = End(factory) \/ End(img_table'[i]) = End(second)
        BY <3>5, Zenon
      <4> QED
        BY <1>2, <3>2, <4>1
    <3>7. End(Last(img_table))' = End(second)
      BY <3>4, Zenon DEF End
    <3>8. \A i \in 1 .. Len(img_table') : End(img_table[i])' = End(img_table'[i])
      BY Zenon DEF End
    <3> QED
      BY <3>3, <3>6, <3>7, <3>8 DEF TableInv, MAX_IMAGE_CNT
  <2> QED
    BY <1>4, <2>1, <2>2
<1>6. block' \in BlockRecords /\ block'.addr \in Nat /\ block'.length \in 0 .. Xfer
      /\ uploaded'.addr \in Nat /\ uploaded'.length \in 0 .. Xfer
  BY <1>1, RtConstants DEF NoBlock, NoUpload, BlockRecords
<1>7. BlockInv'
  BY <1>1, <1>6 DEF BlockInv
<1>8. RtTypeOK'
  <2>1. /\ bytes_avail' \in 0 .. SizeLimit - 1 /\ total_len' \in 0 .. Xfer /\ dn_base_addr' \in Nat
        /\ starts' \in 1 .. MaxStarts
    BY <1>1, RtFacts, RtConstants
  <2>2. Len(img_table') \in 1 .. MAX_IMAGE_CNT
    BY <1>5 DEF TableInv
  <2> QED
    BY <1>1, <1>6, <2>1, <2>2 DEF RtInv, RtTypeOK
<1> QED
  BY <1>5, <1>7, <1>8 DEF RtInv

LEMMA RtStep == RtInv /\ [RtNext]_rtVars => RtInv'
<1>1. ASSUME RtInv, UNCHANGED rtVars PROVE RtInv'
  <2>1. UNCHANGED <<sectors, img_table, dn_base_addr, bytes_avail, total_len, dfuPlace, dfuBusy, block,
                    uploaded, starts>>
    BY <1>1 DEF rtVars
  <2>2. TableInv' /\ Spot' = Spot
    BY <1>1, <2>1, SameTable DEF RtInv
  <2>3. BlockInv'
    BY <1>1, <2>1, <2>2, Zenon DEF RtInv, BlockInv
  <2>4. RtTypeOK'
    BY <1>1, <2>1, Zenon DEF RtInv, RtTypeOK
  <2> QED
    BY <2>2, <2>3, <2>4 DEF RtInv
<1> QED
  BY <1>1, DownloadStep, EraseStep, WriteSectorSteps, UploadStep, AbortStep, RtPowerFailStep, CreateStep
     DEF RtNext, tud_dfu_manifest_cb

LEMMA RtInitInv == RtInit => RtInv
<1> SUFFICES ASSUME RtInit PROVE RtInv
  OBVIOUS
<1>1. /\ img_table = <<[start |-> FactoryStart, size |-> FactorySize]>>
      /\ dn_base_addr = 0 /\ bytes_avail = 0 /\ total_len = 0 /\ starts = 1
      /\ dfuPlace = "up" /\ dfuBusy = FALSE /\ block = NoBlock /\ uploaded = NoUpload
  BY DEF RtInit, boot_image_find_factory_image
<1>2. sectors \in Flash
  <2>1. Header(FactorySize) \in Units /\ <<"data">> \in Units /\ <<"erased">> \in Units
    BY UnitsOfFlash
  <2>2. sectors = [a \in 0 .. FlashSize - 1 |->
                      IF a = FactoryStart THEN Header(FactorySize)
                      ELSE IF a < FactoryStart + FactorySize THEN <<"data">> ELSE <<"erased">>]
    BY DEF RtInit
  <2> QED
    BY <2>1, <2>2 DEF Flash
<1>3. TableInv
  <2> DEFINE factory == [start |-> FactoryStart, size |-> FactorySize]
  <2>1. factory \in Images /\ End(factory) \in Nat
    BY RtConstants DEF Images, End
  <2>2. img_table = <<factory>>
    BY <1>1
  <2> HIDE DEF factory
  <2>3. img_table \in Seq(Images) /\ Len(img_table) = 1 /\ img_table[1] = factory
    BY <2>1, <2>2
  <2>4. Last(img_table) = factory /\ \A i \in 1 .. Len(img_table) : img_table[i] = factory
    BY <2>3 DEF Last
  <2> QED
    BY <2>1, <2>3, <2>4 DEF TableInv, MAX_IMAGE_CNT
<1>4. /\ block \in BlockRecords /\ block.addr \in Nat /\ block.length \in 0 .. Xfer
      /\ uploaded.addr \in Nat /\ uploaded.length \in 0 .. Xfer
  BY <1>1, RtConstants DEF NoBlock, NoUpload, BlockRecords
<1>5. BlockInv
  BY <1>1, <1>4 DEF BlockInv
<1>6. RtTypeOK
  <2>1. /\ bytes_avail \in 0 .. SizeLimit - 1 /\ total_len \in 0 .. Xfer /\ dn_base_addr \in Nat
        /\ starts \in 1 .. MaxStarts
    BY <1>1, RtConstants
  <2>2. Len(img_table) \in 1 .. MAX_IMAGE_CNT
    BY <1>3 DEF TableInv
  <2> QED
    BY <1>1, <1>2, <1>4, <2>1, <2>2 DEF RtTypeOK, Flash
<1> QED
  BY <1>3, <1>5, <1>6 DEF RtInv

\* What ListedImagesKept asks of one step.
ListedKept ==
  \A i \in DOMAIN img_table, a \in 0 .. FlashSize - 1 :
    /\ img_table[i].start <= a /\ a < End(img_table[i])
    /\ SectorOf(a) # SectorOf(MODE_ADDR)
    => sectors'[a] = sectors[a]

\* A unit of an image is neither in the sector that a block is written to nor, with the one
\* exception, in the mode flag's.
LEMMA ListedElsewhere ==
  ASSUME RtInv, NEW i \in DOMAIN img_table, NEW a \in 0 .. FlashSize - 1,
         a < End(img_table[i]), SectorOf(a) # SectorOf(MODE_ADDR)
  PROVE  /\ dfuPlace \in {"write", "erased"} => SectorOf(a) # SectorOf(block.addr)
         /\ dfuPlace \in {"erased", "mode erased"} => ~ InBlock(a)
<1>1. TableInv /\ BlockInv /\ a \in Nat
  BY RtConstants DEF RtInv
<1>2. a < End(Last(img_table))
  <2>1. img_table \in Seq(Images) /\ i \in 1 .. Len(img_table) /\ img_table[i] \in Images
    BY <1>1 DEF TableInv
  <2>2. End(img_table[i]) <= End(Last(img_table)) /\ End(img_table[i]) \in Nat
    BY <1>1, <2>1 DEF TableInv, End, Images
  <2>3. End(Last(img_table)) \in Nat
    BY RtFacts
  <2> QED
    BY <1>1, <2>2, <2>3
<1>3. SectorOf(a) \in Nat /\ SectorOf(a) < SectorOf(Spot) /\ SectorOf(Spot) \in Nat
  <2>1. SectorOf(a) \in Nat
    BY <1>1, Sectors
  <2> QED
    BY <1>1, <1>2, <2>1, SpotBehind
<1>4. a < Spot /\ Spot \in Nat
  <2>1. End(Last(img_table)) \in Nat /\ Spot \in Nat /\ End(Last(img_table)) < Spot
    <3>1. End(Last(img_table)) \in Nat /\ Spot \in Nat
      BY RtFacts
    <3>2. End(Last(img_table)) < SectorAddress(SectorOf(End(Last(img_table))) + 1)
      BY <3>1, Sectors
    <3> QED
      BY <3>1, <3>2 DEF Spot, FirstFree
  <2> QED
    BY <1>1, <1>2, <2>1
<1>5. ASSUME dfuPlace \in {"write", "erased"}
      PROVE  SectorOf(a) # SectorOf(block.addr) /\ ~ InBlock(a)
  <2>1. block.addr \in {Spot, Spot + FLASH_PAGE_SIZE}
    BY <1>1, <1>5 DEF BlockInv
  <2>2. SectorOf(block.addr) \in {SectorOf(Spot), SectorOf(Spot) + 1}
    BY <1>1, <2>1, SpotBehind
  <2>3. a < block.addr /\ block.addr \in Nat
    BY <1>1, <1>4, <2>1, RtConstants
  <2>4. ~ InBlock(a)
    BY <1>1, <2>3 DEF InBlock
  <2> QED
    BY <1>3, <2>2, <2>4
<1>6. ASSUME dfuPlace = "mode erased", InBlock(a) PROVE FALSE
  <2>1. block.addr = MODE_ADDR /\ Len(block.units) = FLASH_PAGE_SIZE
    BY <1>1, <1>6 DEF BlockInv
  <2>2. MODE_ADDR <= a /\ a < MODE_ADDR + FLASH_PAGE_SIZE
    BY <1>6, <2>1 DEF InBlock
  <2>3. PICK s \in Nat : MODE_ADDR = SectorAddress(s) /\ SectorOf(MODE_ADDR) = s
    BY ModeSector
  <2>4. PICK r \in 0 .. (FLASH_PAGE_SIZE - 1) : a = SectorAddress(s) + r
    <3>1. a - MODE_ADDR \in 0 .. (FLASH_PAGE_SIZE - 1) /\ a = MODE_ADDR + (a - MODE_ADDR)
      BY <1>1, <2>2, RtConstants
    <3> QED
      BY <2>3, <3>1
  <2>5. SectorOf(a) = s
    BY <2>4, Sectors
  <2> QED
    BY <2>3, <2>5
<1> QED
  BY <1>5, <1>6

LEMMA RtKeeps == RtInv /\ [RtNext]_rtVars => [ListedKept]_rtVars
<1> SUFFICES ASSUME RtInv, RtNext PROVE ListedKept
  OBVIOUS
<1> SUFFICES ASSUME NEW i \in DOMAIN img_table, NEW a \in 0 .. FlashSize - 1,
                    a < End(img_table[i]), SectorOf(a) # SectorOf(MODE_ADDR)
             PROVE  sectors'[a] = sectors[a]
  BY DEF ListedKept
<1>1. CASE EraseSector
  <2>1. dfuPlace = "write" /\ sectors' = Erased(block.addr)
    BY <1>1 DEF EraseSector
  <2>2. SectorOf(a) # SectorOf(block.addr)
    BY <2>1, ListedElsewhere
  <2> QED
    BY <2>1, <2>2 DEF Erased
<1>2. CASE WriteSector \/ write_dfu_mode
  <2>1. dfuPlace \in {"erased", "mode erased"} /\ sectors' = Written
    BY <1>2 DEF WriteSector, write_dfu_mode
  <2>2. ~ InBlock(a)
    BY <2>1, ListedElsewhere
  <2> QED
    BY <2>1, <2>2 DEF Written
<1>3. CASE tud_dfu_abort_cb
  <2>1. sectors' = Erased(MODE_ADDR)
    BY <1>3 DEF tud_dfu_abort_cb
  <2> QED
    BY <2>1 DEF Erased
<1>4. CASE tud_dfu_download_cb \/ tud_dfu_upload_cb \/ PowerFail \/ create_tinyusb_demo
  BY <1>4 DEF tud_dfu_download_cb, tud_dfu_upload_cb, PowerFail, create_tinyusb_demo
<1> QED
  BY <1>1, <1>2, <1>3, <1>4 DEF RtNext, tud_dfu_manifest_cb

\* For any sizes of flash, partition and images, and any number of starts: no step, and no
\* loss of power between an erase and its write, changes a listed image outside the sector
\* of the mode flag.
THEOREM ImagesSurvive == RtSpec => []RtTypeOK /\ ListedImagesKept
<1>1. RtInv => RtTypeOK
  BY DEF RtInv
<1> QED
  BY <1>1, RtInitInv, RtStep, RtKeeps, PTL DEF RtSpec, ListedImagesKept, ListedKept

-----------------------------------------------------------------------------
(* Audio: mutes, volumes and the sample rate                                *)

\* Until a request has gone beyond the tables, the device's settings are those the host
\* believes in, and lie in the ranges that it is given.
ControlInv ==
  /\ AudioControlTypeOK
  /\ ~ strayed => /\ believed = setting
                  /\ \A s \in Settings : setting[s] \in ValuesOf(s)
  /\ SettingsHeard

LEMMA ControlGetStep ==
  ASSUME ControlInv, ~ strayed, NEW r \in Requests, tud_audio_get_req_entity_cb(r)
  PROVE  ControlInv'
<1> DEFINE s == <<r.control, r.channel>>
<1>1. UNCHANGED <<controlDemo, setting, believed, strayed>>
  BY DEF tud_audio_get_req_entity_cb
<1>2. Settings' = Settings /\ (\A x : ValuesOf(x)' = ValuesOf(x))
  BY <1>1 DEF Settings, Channels, ValuesOf, VolumeRange, sample_rates
<1>3. \/ s \in Settings /\ answer' = Value(s, setting[s])
      \/ s \notin Settings /\ \E v \in ValuesOf(s) : answer' = Value(s, v)
      \/ answer' = RangeOf(s, ValuesOf(s))
      \/ answer' = Stall \/ answer' = Fixed(r.control)
  BY DEF tud_audio_get_req_entity_cb
<1> HIDE DEF s
<1>4. answer'.kind \in {"stall", "value", "range", "fixed"}
  BY <1>3 DEF Value, RangeOf, Stall, Fixed
<1>5. /\ answer'.kind = "value" /\ answer'.of \in Settings => answer'.value = setting[answer'.of]
      /\ answer'.kind = "range" /\ answer'.of \in Settings => answer'.values = ValuesOf(answer'.of)
  BY <1>3 DEF Value, RangeOf, Stall, Fixed
<1>7. believed' = setting' /\ \A x \in Settings' : setting'[x] \in ValuesOf(x)'
  BY <1>1, <1>2 DEF ControlInv
<1>8. SettingsHeard'
  BY <1>2, <1>5, <1>7, <1>1 DEF SettingsHeard
<1>9. AudioControlTypeOK'
  BY <1>1, <1>2, <1>4 DEF ControlInv, AudioControlTypeOK
<1> QED
  BY <1>7, <1>8, <1>9 DEF ControlInv

LEMMA ControlSetStep ==
  ASSUME ControlInv, ~ strayed, NEW r \in Requests, NEW v \in ValuesOf(<<r.control, r.channel>>),
         tud_audio_set_req_entity_cb(r, v)
  PROVE  ControlInv'
<1> DEFINE s == <<r.control, r.channel>>
<1>1. controlDemo' = controlDemo /\ believed = setting /\ AudioControlTypeOK
      /\ \A x \in Settings : setting[x] \in ValuesOf(x)
  BY DEF tud_audio_set_req_entity_cb, ControlInv
<1>2. Settings' = Settings /\ (\A x : ValuesOf(x)' = ValuesOf(x))
  BY <1>1 DEF Settings, Channels, ValuesOf, VolumeRange, sample_rates
<1>3. Entry(r) = s /\ v \in ValuesOf(s)
  BY DEF Entry
<1>4. \/ answer' = Stall /\ UNCHANGED <<setting, believed, strayed>>
      \/ /\ answer' = Value(s, v) /\ s \in Settings /\ UNCHANGED strayed
         /\ setting' = [setting EXCEPT ![s] = v] /\ believed' = [believed EXCEPT ![s] = v]
      \/ /\ answer' = Value(s, v) /\ strayed' = TRUE /\ UNCHANGED believed
         /\ \/ UNCHANGED setting
            \/ \E x \in Settings, w \in {0, 1} : setting' = [setting EXCEPT ![x] = w]
  BY <1>3 DEF tud_audio_set_req_entity_cb
<1> HIDE DEF s
<1>5. CASE answer' = Stall /\ UNCHANGED <<setting, believed, strayed>>
  <2>1. answer'.kind = "stall"
    BY <1>5 DEF Stall
  <2> QED
    BY <1>1, <1>2, <1>5, <2>1 DEF ControlInv, SettingsHeard, AudioControlTypeOK
<1>6. CASE /\ answer' = Value(s, v) /\ s \in Settings /\ UNCHANGED strayed
           /\ setting' = [setting EXCEPT ![s] = v] /\ believed' = [believed EXCEPT ![s] = v]
  <2>1. answer'.kind = "value" /\ answer'.of = s /\ answer'.value = v
    BY <1>6 DEF Value
  <2>2. DOMAIN setting = Settings /\ DOMAIN believed = Settings
    BY <1>1 DEF AudioControlTypeOK
  <2>3. /\ believed' = setting' /\ setting'[s] = v /\ DOMAIN setting' = Settings
        /\ \A x \in Settings : x # s => setting'[x] = setting[x]
    BY <1>1, <1>6, <2>2
  <2>4. \A x \in Settings : setting'[x] \in ValuesOf(x)
    BY <1>1, <1>3, <2>3
  <2>5. SettingsHeard'
    BY <1>2, <1>6, <2>1, <2>3, <2>4 DEF SettingsHeard
  <2>6. AudioControlTypeOK'
    BY <1>1, <1>2, <1>6, <2>1, <2>3 DEF AudioControlTypeOK
  <2> QED
    BY <1>2, <2>3, <2>4, <2>5, <2>6 DEF ControlInv
<1>7. CASE /\ answer' = Value(s, v) /\ strayed' = TRUE /\ UNCHANGED believed
           /\ \/ UNCHANGED setting
              \/ \E x \in Settings, w \in {0, 1} : setting' = [setting EXCEPT ![x] = w]
  <2>1. answer'.kind = "value"
    BY <1>7 DEF Value
  <2>2. DOMAIN setting' = DOMAIN setting
    BY <1>7
  <2>3. AudioControlTypeOK'
    BY <1>1, <1>2, <1>7, <2>1, <2>2 DEF AudioControlTypeOK
  <2> QED
    BY <1>7, <2>3 DEF ControlInv, SettingsHeard
<1> QED
  BY <1>4, <1>5, <1>6, <1>7

LEMMA ControlStep == ControlInv /\ [AudioControlNext]_audioControlVars => ControlInv'
<1>1. ASSUME ControlInv, UNCHANGED audioControlVars PROVE ControlInv'
  <2>1. UNCHANGED <<controlDemo, setting, believed, answer, strayed>>
    BY <1>1 DEF audioControlVars
  <2>2. Settings' = Settings /\ (\A x : ValuesOf(x)' = ValuesOf(x))
    BY <2>1 DEF Settings, Channels, ValuesOf, VolumeRange, sample_rates
  <2> QED
    BY <1>1, <2>1, <2>2 DEF ControlInv, AudioControlTypeOK, SettingsHeard
<1> QED
  BY <1>1, ControlGetStep, ControlSetStep DEF AudioControlNext

LEMMA ControlInitInv == AudioControlInit => ControlInv
<1> SUFFICES ASSUME AudioControlInit PROVE ControlInv
  OBVIOUS
<1>1. /\ controlDemo \in ControlDemos /\ believed = setting /\ strayed = FALSE
      /\ setting = [s \in Settings |-> IF s[1] = "rate" THEN InitialRate ELSE 0]
      /\ answer.kind = "stall"
  BY DEF AudioControlInit, Stall
<1>2. ASSUME NEW s \in Settings PROVE setting[s] \in ValuesOf(s)
  <2>1. 0 \in Volumes \cap VolumeRange
    BY ControlAssumption DEF VolumeRange
  <2>2. InitialRate \in sample_rates
    BY DEF InitialRate, sample_rates
  <2>3. setting[s] = IF s[1] = "rate" THEN InitialRate ELSE 0
    BY <1>1
  <2> QED
    BY <2>1, <2>2, <2>3 DEF ValuesOf
<1>3. AudioControlTypeOK
  BY <1>1 DEF AudioControlTypeOK
<1> QED
  BY <1>1, <1>2, <1>3 DEF ControlInv, SettingsHeard

\* For both demos and any volumes: what the host is told of a setting is what it last set
\* there, and in the range it is told.
THEOREM SettingsAsHeard == AudioControlSpec => [](AudioControlTypeOK /\ SettingsHeard)
<1>1. ControlInv => AudioControlTypeOK /\ SettingsHeard
  BY DEF ControlInv
<1> QED
  BY <1>1, ControlInitInv, ControlStep, PTL DEF AudioControlSpec

-----------------------------------------------------------------------------
(* Disks: what the host takes a block to hold                               *)

DiskForm ==
  /\ DOMAIN found = LunNumbers
  /\ \A lun \in LunNumbers : DOMAIN disk[lun] = DiskBlocks /\ DOMAIN told[lun] = DiskBlocks

\* While a write is under way the host relies on none of its blocks, and those behind hold
\* its data.
WriteInv ==
  /\ command.op # "none" => command.left > 0 /\ command.from <= command.lba
  /\ command.op = "write" =>
       /\ \A b \in DiskBlocks : command.from <= b /\ b < command.lba + command.left
                                => told[command.lun][b] = Unknown
       /\ \A b \in DiskBlocks : command.from <= b /\ b < command.lba
                                => disk[command.lun][b] = Data(commands)

DiskInv == DiskTypeOK /\ DiskForm /\ WriteInv /\ DiskAsTold

Commands == [op : {"none", "read", "write"}, lun : LunNumbers, from : 0 .. DISK_BLOCK_NUM,
             lba : 0 .. DISK_BLOCK_NUM, left : 0 .. 2]

LEMMA DiskConstants == DISK_BLOCK_NUM \in Nat /\ DISK_BLOCK_NUM > 3 /\ MaxCommands \in Nat
BY DiskAssumption

LEMMA CommandFacts ==
  ASSUME command \in Commands
  PROVE  /\ command.lun \in LunNumbers /\ command.from \in 0 .. DISK_BLOCK_NUM
         /\ command.lba \in 0 .. DISK_BLOCK_NUM /\ command.left \in 0 .. 2
BY DEF Commands

LEMMA NoCommandFits ==
  NoCommand \in Commands /\ NoCommand.op = "none"
<1>1. 0 \in 0 .. DISK_BLOCK_NUM
  BY DiskConstants
<1> QED
  BY <1>1 DEF NoCommand, Commands, LunNumbers

LEMMA BeginStep ==
  ASSUME DiskInv, NEW op \in {"read", "write"}, NEW lun \in LunNumbers,
         NEW lba \in 0 .. DISK_BLOCK_NUM, NEW count \in 1 .. 2, BeginCommand(op, lun, lba, count)
  PROVE  DiskInv'
<1>1. /\ commands < MaxCommands /\ commands' = commands + 1
      /\ command' = [op |-> op, lun |-> lun, from |-> lba, lba |-> lba, left |-> count]
      /\ UNCHANGED <<diskDemo, disk, ejected, sense, found>>
  BY DEF BeginCommand
<1>2. /\ command'.op = op /\ command'.lun = lun /\ command'.from = lba /\ command'.lba = lba
      /\ command'.left = count /\ command' \in Commands
  BY <1>1 DEF Commands
<1>3. DOMAIN told = LunNumbers /\ \A l \in LunNumbers : DOMAIN told[l] = DiskBlocks
  BY DEF DiskInv, DiskTypeOK, DiskForm
<1>4. /\ DOMAIN told' = LunNumbers /\ \A l \in LunNumbers : DOMAIN told'[l] = DiskBlocks
      /\ \A l \in LunNumbers, b \in DiskBlocks :
           told'[l][b] = IF op = "write" /\ l = lun /\ b \in lba .. lba + count - 1 THEN Unknown
                         ELSE told[l][b]
  <2>1. CASE op = "write"
    <3>1. told' = [told EXCEPT ![lun] = [b \in DiskBlocks |->
                     IF b \in lba .. lba + count - 1 THEN Unknown ELSE told[lun][b]]]
      BY <2>1 DEF BeginCommand
    <3> QED
      BY <1>3, <2>1, <3>1
  <2>2. CASE op # "write"
    <3>1. told' = told
      BY <2>2 DEF BeginCommand
    <3> QED
      BY <1>3, <2>2, <3>1
  <2> QED
    BY <2>1, <2>2
<1>5. DiskTypeOK'
  <2>1. commands' \in 0 .. MaxCommands
    <3>1. commands \in 0 .. MaxCommands
      BY DEF DiskInv, DiskTypeOK
    <3> QED
      BY <1>1, <3>1, DiskConstants
  <2> QED
    BY <1>1, <1>2, <1>4, <2>1 DEF DiskInv, DiskTypeOK, Commands
<1>6. DiskForm'
  BY <1>1, <1>4 DEF DiskInv, DiskForm, DiskBlocks
<1>7. WriteInv'
  <2>1. \A b \in DiskBlocks : lba <= b /\ b < lba + count => b \in lba .. lba + count - 1
    BY DiskConstants DEF DiskBlocks
  <2>2. op = "write" => \A b \in DiskBlocks : lba <= b /\ b < lba + count => told'[lun][b] = Unknown
    BY <1>4, <2>1
  <2>3. count > 0 /\ lba <= lba /\ \A b \in DiskBlocks : ~(lba <= b /\ b < lba)
    BY DiskConstants DEF DiskBlocks
  <2> QED
    BY <1>2, <2>2, <2>3 DEF WriteInv, Unknown, DiskBlocks
<1>8. DiskAsTold'
  BY <1>1, <1>4 DEF DiskInv, DiskAsTold, DiskBlocks, Unknown, Nothing, Readme
<1> QED
  BY <1>5, <1>6, <1>7, <1>8 DEF DiskInv

\* The command goes on to its next block, or ends, at its last one or where none is left.
LEMMA ServeFacts ==
  ASSUME DiskInv, NEW op \in {"read", "write"}, ServeBlock(op)
  PROVE  /\ command.op = op /\ command.lun \in LunNumbers
         /\ command.from \in Nat /\ command.lba \in Nat /\ command.left \in 1 .. 2
         /\ command.from <= command.lba
         /\ command' \in Commands /\ sense' \in {"none", "failed", "not ready", "illegal request"}
         /\ BlockOf(command.lba) = -1 => command'.op = "none"
         /\ BlockOf(command.lba) # -1 => command.lba \in DiskBlocks /\ BlockOf(command.lba) = command.lba
         /\ command'.op # "none" =>
              /\ BlockOf(command.lba) # -1 /\ command.left = 2
              /\ command'.op = op /\ command'.lun = command.lun /\ command'.from = command.from
              /\ command'.lba = command.lba + 1 /\ command'.left = 1
         /\ UNCHANGED <<diskDemo, ejected, commands, found>>
<1>1. /\ command.op = op /\ UNCHANGED <<diskDemo, ejected, commands, found>>
      /\ \/ BlockOf(command.lba) = -1 /\ command' = NoCommand /\ sense' = "failed"
         \/ BlockOf(command.lba) # -1 /\ command.left = 1 /\ command' = NoCommand /\ sense' = sense
         \/ /\ BlockOf(command.lba) # -1 /\ command.left # 1 /\ sense' = sense
            /\ command' = [command EXCEPT !.lba = command.lba + 1, !.left = command.left - 1]
  BY DEF ServeBlock
<1>2. command \in Commands /\ sense \in {"none", "failed", "not ready", "illegal request"}
  BY DEF DiskInv, DiskTypeOK, Commands
<1>3. /\ command.lun \in LunNumbers /\ command.from \in 0 .. DISK_BLOCK_NUM
      /\ command.lba \in 0 .. DISK_BLOCK_NUM /\ command.left \in 0 .. 2
  BY <1>2, CommandFacts
<1>4. command.left > 0 /\ command.from <= command.lba
  BY <1>1 DEF DiskInv, WriteInv
<1>5. BlockOf(command.lba) # -1 => command.lba \in DiskBlocks /\ BlockOf(command.lba) = command.lba
  BY <1>3, DiskConstants DEF BlockOf, DiskBlocks
<1>6. sense' \in {"none", "failed", "not ready", "illegal request"}
  BY <1>1, <1>2
<1>7. CASE command' = NoCommand
  <2>1. command' \in Commands /\ command'.op = "none"
    BY <1>7, NoCommandFits
  <2>2. command.from \in Nat /\ command.lba \in Nat /\ command.left \in 1 .. 2
    BY <1>3, <1>4, DiskConstants
  <2> QED
    BY <1>1, <1>3, <1>4, <1>5, <1>6, <2>1, <2>2, Zenon
<1>8. CASE /\ BlockOf(command.lba) # -1 /\ command.left # 1
           /\ command' = [command EXCEPT !.lba = command.lba + 1, !.left = command.left - 1]
  <2>1. command.lba + 1 \in 0 .. DISK_BLOCK_NUM /\ command.left = 2 /\ command.left - 1 = 1
    BY <1>3, <1>4, <1>5, <1>8, DiskConstants DEF DiskBlocks
  <2> DEFINE next == [command EXCEPT !.lba = command.lba + 1]
  <2>2. /\ next \in Commands /\ next.op = command.op /\ next.lun = command.lun
        /\ next.from = command.from /\ next.lba = command.lba + 1
    BY <1>2, <2>1 DEF Commands
  <2>3. command' = [next EXCEPT !.left = 1]
    BY <1>2, <1>8, <2>1 DEF Commands
  <2> HIDE DEF next
  <2>4. /\ command' \in Commands /\ command'.op = next.op /\ command'.lun = next.lun
        /\ command'.from = next.from /\ command'.lba = next.lba /\ command'.left = 1
    BY <2>2, <2>3 DEF Commands
  <2>5. command.from \in Nat /\ command.lba \in Nat /\ command.left \in 1 .. 2
    BY <1>3, <1>4, DiskConstants
  <2>6. /\ command'.op = op /\ command'.lun = command.lun /\ command'.from = command.from
        /\ command'.lba = command.lba + 1 /\ op # "none"
    BY <1>1, <2>2, <2>4
  <2> QED
    BY <1>1, <1>3, <1>4, <1>5, <1>6, <1>8, <2>1, <2>4, <2>5, <2>6, Zenon
<1> QED
  BY <1>1, <1>7, <1>8

LEMMA ReadStep == DiskInv /\ tud_msc_read10_cb => DiskInv'
<1> SUFFICES ASSUME DiskInv, tud_msc_read10_cb PROVE DiskInv'
  OBVIOUS
<1>1. ServeBlock("read") /\ UNCHANGED disk
  BY DEF tud_msc_read10_cb
<1> DEFINE lun == command.lun
           lba == command.lba
<1>2. /\ lun \in LunNumbers
      /\ BlockOf(lba) # -1 => lba \in DiskBlocks /\ BlockOf(lba) = lba
  BY <1>1, ServeFacts
<1>3. /\ command' \in Commands /\ command'.op # "write"
      /\ sense' \in {"none", "failed", "not ready", "illegal request"}
      /\ command'.op # "none" => command'.left > 0 /\ command'.from <= command'.lba
  <2>1. /\ command.from \in Nat /\ command.lba \in Nat /\ command.from <= command.lba
        /\ command' \in Commands
        /\ sense' \in {"none", "failed", "not ready", "illegal request"}
    BY <1>1, ServeFacts
  <2>2. command'.op # "none" =>
          /\ command'.op = "read" /\ command'.from = command.from
          /\ command'.lba = command.lba + 1 /\ command'.left = 1
    BY <1>1, ServeFacts
  <2>3. ASSUME command'.op # "none" PROVE command'.left > 0 /\ command'.from <= command'.lba
    <3>1. 1 > 0 /\ \A x, y \in Nat : x <= y => x <= y + 1
      OBVIOUS
    <3>2. command.from <= command.lba + 1 /\ 1 > 0
      BY <2>1, <3>1, Zenon
    <3> QED
      BY <2>2, <2>3, <3>2, Zenon
  <2>4. command'.op # "write"
    BY <2>2
  <2> QED
    BY <2>1, <2>3, <2>4, Zenon
<1>4. UNCHANGED <<diskDemo, ejected, commands, found>>
  BY <1>1, ServeFacts
<1>5. told' = IF BlockOf(lba) = -1 THEN told
              ELSE [told EXCEPT ![lun] = [told[lun] EXCEPT ![BlockOf(lba)] = disk[lun][BlockOf(lba)]]]
  BY DEF tud_msc_read10_cb
<1> HIDE DEF lun, lba
<1>6. DOMAIN told = LunNumbers /\ \A l \in LunNumbers : DOMAIN told[l] = DiskBlocks
  BY DEF DiskInv, DiskTypeOK, DiskForm
<1>7. /\ DOMAIN told' = LunNumbers /\ \A l \in LunNumbers : DOMAIN told'[l] = DiskBlocks
      /\ \A l \in LunNumbers, b \in DiskBlocks : told'[l][b] \in {told[l][b], disk[l][b]}
  BY <1>2, <1>5, <1>6
<1>8. DiskTypeOK'
  BY <1>1, <1>3, <1>4, <1>7 DEF DiskInv, DiskTypeOK, Commands
<1>9. DiskForm'
  BY <1>1, <1>4, <1>7 DEF DiskInv, DiskForm, DiskBlocks
<1>10. DiskAsTold'
  BY <1>1, <1>4, <1>7 DEF DiskInv, DiskAsTold, DiskBlocks, Unknown, Nothing, Readme
<1> QED
  BY <1>3, <1>8, <1>9, <1>10 DEF DiskInv, WriteInv

LEMMA WriteStep == DiskInv /\ tud_msc_write10_cb => DiskInv'
<1> SUFFICES ASSUME DiskInv, tud_msc_write10_cb PROVE DiskInv'
  OBVIOUS
<1>1. ServeBlock("write")
  BY DEF tud_msc_write10_cb
<1> DEFINE lun == command.lun
           lba == command.lba
           start == command.from
<1>2. /\ lun \in LunNumbers /\ lba \in Nat /\ start \in Nat /\ start <= lba
      /\ command.left \in 1 .. 2
      /\ BlockOf(lba) # -1 => lba \in DiskBlocks /\ BlockOf(lba) = lba
  BY <1>1, ServeFacts
<1>3. /\ command' \in Commands
      /\ sense' \in {"none", "failed", "not ready", "illegal request"}
      /\ UNCHANGED <<diskDemo, ejected, commands, found>>
  BY <1>1, ServeFacts
<1>4. command'.op # "none" =>
        /\ BlockOf(lba) # -1 /\ command.left = 2 /\ command'.lun = lun /\ command'.from = start
        /\ command'.lba = lba + 1 /\ command'.left = 1
  BY <1>1, ServeFacts
<1>5. /\ disk' = IF BlockOf(lba) = -1 THEN disk
                 ELSE [disk EXCEPT ![lun] = [disk[lun] EXCEPT ![BlockOf(lba)] = Data(commands)]]
      /\ told' = IF BlockOf(lba) # -1 /\ command.left = 1
                 THEN [told EXCEPT ![lun] = [b \in DiskBlocks |->
                         IF b \in start .. lba THEN Data(commands) ELSE told[lun][b]]]
                 ELSE told
  BY DEF tud_msc_write10_cb
<1>6. /\ \A b \in DiskBlocks : start <= b /\ b < lba + command.left => told[lun][b] = Unknown
      /\ \A b \in DiskBlocks : start <= b /\ b < lba => disk[lun][b] = Data(commands)
  <2>1. command.op = "write"
    BY <1>1, ServeFacts
  <2> QED
    BY <2>1 DEF DiskInv, WriteInv
<1> HIDE DEF lun, lba, start
<1>7. /\ DOMAIN told = LunNumbers /\ \A l \in LunNumbers : DOMAIN told[l] = DiskBlocks
      /\ DOMAIN disk = LunNumbers /\ \A l \in LunNumbers : DOMAIN disk[l] = DiskBlocks
  BY DEF DiskInv, DiskTypeOK, DiskForm
<1>8. \A l \in LunNumbers, b \in DiskBlocks : told[l][b] \in {Unknown, disk[l][b]}
  BY DEF DiskInv, DiskAsTold
<1>9. DiskBlocks \subseteq Nat
  BY DiskConstants DEF DiskBlocks
<1>10. /\ DOMAIN disk' = LunNumbers /\ \A l \in LunNumbers : DOMAIN disk'[l] = DiskBlocks
       /\ \A l \in LunNumbers, b \in DiskBlocks :
            disk'[l][b] = IF BlockOf(lba) # -1 /\ l = lun /\ b = lba THEN Data(commands) ELSE disk[l][b]
  BY <1>2, <1>5, <1>7
<1>11. /\ DOMAIN told' = LunNumbers /\ \A l \in LunNumbers : DOMAIN told'[l] = DiskBlocks
       /\ \A l \in LunNumbers, b \in DiskBlocks :
            told'[l][b] = IF BlockOf(lba) # -1 /\ command.left = 1 /\ l = lun /\ b \in start .. lba
                          THEN Data(commands) ELSE told[l][b]
  BY <1>2, <1>5, <1>7
<1>12. \A l \in LunNumbers, b \in DiskBlocks : told'[l][b] \in {Unknown, disk'[l][b]}
  <2> TAKE l \in LunNumbers, b \in DiskBlocks
  <2>1. CASE BlockOf(lba) # -1 /\ command.left = 1 /\ l = lun /\ b \in start .. lba
    <3>1. told'[l][b] = Data(commands)
      BY <1>11, <2>1
    <3>2. disk'[l][b] = Data(commands)
      <4>1. CASE b = lba
        BY <1>10, <2>1, <4>1
      <4>2. CASE b # lba
        <5>1. start <= b /\ b < lba
          BY <1>2, <1>9, <2>1, <4>2
        <5> QED
          BY <1>6, <1>10, <2>1, <4>2, <5>1
      <4> QED
        BY <4>1, <4>2
    <3> QED
      BY <3>1, <3>2
  <2>2. CASE ~(BlockOf(lba) # -1 /\ command.left = 1 /\ l = lun /\ b \in start .. lba)
    <3>1. told'[l][b] = told[l][b]
      BY <1>11, <2>2
    <3>2. CASE BlockOf(lba) # -1 /\ l = lun /\ b = lba
      <4>1. start <= b /\ b < lba + command.left
        BY <1>2, <3>2
      <4> QED
        BY <1>6, <3>1, <3>2, <4>1
    <3>3. CASE ~(BlockOf(lba) # -1 /\ l = lun /\ b = lba)
      <4>1. disk'[l][b] = disk[l][b]
        BY <1>10, <3>3
      <4> QED
        BY <1>8, <3>1, <4>1
    <3> QED
      BY <3>2, <3>3
  <2> QED
    BY <2>1, <2>2
<1>13. WriteInv'
  <2>1. CASE command'.op = "none"
    BY <2>1 DEF WriteInv
  <2>2. CASE command'.op # "none"
    <3>1. \A b \in DiskBlocks : start <= b /\ b < lba + 2 => told'[lun][b] = Unknown
      BY <1>2, <1>4, <1>6, <1>11, <2>2
    <3>2. \A b \in DiskBlocks : start <= b /\ b < lba + 1 => disk'[lun][b] = Data(commands)
      <4> TAKE b \in DiskBlocks
      <4> HAVE start <= b /\ b < lba + 1
      <4>1. b = lba \/ (start <= b /\ b < lba)
        BY <1>2, <1>9
      <4> QED
        BY <1>2, <1>4, <1>6, <1>10, <2>2, <4>1
    <3>3. command'.left > 0 /\ command'.from <= command'.lba
      BY <1>2, <1>4, <2>2
    <3>4. \A b \in DiskBlocks : b < lba + 1 + 1 => b < lba + 2
      BY <1>2, <1>9
    <3> QED
      BY <1>3, <1>4, <2>2, <3>1, <3>2, <3>3, <3>4 DEF WriteInv, DiskBlocks, Unknown, Data
  <2> QED
    BY <2>1, <2>2
<1>14. DiskTypeOK'
  BY <1>3, <1>10, <1>11 DEF DiskInv, DiskTypeOK, Commands
<1>15. DiskForm'
  BY <1>3, <1>10, <1>11 DEF DiskInv, DiskForm, DiskBlocks
<1>16. DiskAsTold'
  BY <1>3, <1>12 DEF DiskInv, DiskAsTold, DiskBlocks, Unknown, Nothing, Readme
<1> QED
  BY <1>13, <1>14, <1>15, <1>16 DEF DiskInv

\* A host that finds the blocks it needs as they were built finds the README.
LEMMA MountStep ==
  ASSUME DiskInv, NEW lun \in LunNumbers, tud_msc_test_unit_ready_cb(lun)
  PROVE  DiskInv'
<1>1. UNCHANGED <<diskDemo, disk, ejected, command, commands, told>>
  BY DEF tud_msc_test_unit_ready_cb
<1>2. sense' \in {"none", "failed", "not ready", "illegal request"}
  BY DEF tud_msc_test_unit_ready_cb, DiskInv, DiskTypeOK
<1>3. DOMAIN found' = LunNumbers /\ \A l \in LunNumbers : found'[l] \in {Nothing, Readme(l)}
  <2>1. DOMAIN found = LunNumbers /\ \A l \in LunNumbers : found[l] \in {Nothing, Readme(l)}
    BY DEF DiskInv, DiskForm, DiskAsTold
  <2>2. CASE ejected
    <3>1. found' = found
      BY <2>2 DEF tud_msc_test_unit_ready_cb
    <3> QED
      BY <2>1, <3>1
  <2>3. CASE ~ ejected
    <3>1. {0, 1, 2, 3} \subseteq DiskBlocks
      BY DiskConstants DEF DiskBlocks
    <3>2. \A b \in 0 .. 3 : told[lun][b] = msc_disk(lun)[b]
      BY <2>3 DEF tud_msc_test_unit_ready_cb
    <3>3. \A b \in {0, 1, 2, 3} : told[lun][b] \in {Unknown, disk[lun][b]}
      BY <3>1 DEF DiskInv, DiskAsTold
    <3>4. disk[lun][0] = BootSector
      <4>1. msc_disk(lun)[0] = BootSector /\ BootSector # Unknown
        BY <3>1 DEF msc_disk, BootSector, Unknown
      <4> QED
        BY <3>2, <3>3, <4>1
    <3>5. disk[lun][1] = FatTable
      <4>1. msc_disk(lun)[1] = FatTable /\ FatTable # Unknown
        BY <3>1 DEF msc_disk, FatTable, Unknown
      <4> QED
        BY <3>2, <3>3, <4>1
    <3>6. disk[lun][2] = RootDirectory
      <4>1. msc_disk(lun)[2] = RootDirectory /\ RootDirectory # Unknown
        BY <3>1 DEF msc_disk, RootDirectory, Unknown
      <4> QED
        BY <3>2, <3>3, <4>1
    <3>7. disk[lun][3] = Readme(lun)
      <4>1. msc_disk(lun)[3] = Readme(lun) /\ Readme(lun) # Unknown
        BY <3>1 DEF msc_disk, Readme, Unknown
      <4> QED
        BY <3>2, <3>3, <4>1
    <3>8. /\ BootSector.reserved = 1 /\ BootSector.fats = 1 /\ BootSector.sectorsPerFat = 1
          /\ BootSector.rootBlocks = 1 /\ BootSector.sectorsPerCluster = 1
          /\ RootDirectory.readme = 2 /\ FatTable.next[2] = "end"
      BY DEF BootSector, RootDirectory, FatTable
    <3>9. found' = [found EXCEPT ![lun] = Readme(lun)]
      <4> DEFINE boot == disk[lun][0]
                 fat == disk[lun][boot.reserved]
                 root == disk[lun][boot.reserved + boot.fats * boot.sectorsPerFat]
                 first == boot.reserved + boot.fats * boot.sectorsPerFat + boot.rootBlocks
                 file == disk[lun][first + (root.readme - 2) * boot.sectorsPerCluster]
      <4>1. found' = [found EXCEPT ![lun] = IF fat.next[root.readme] = "end" THEN file ELSE Unknown]
        BY <2>3 DEF tud_msc_test_unit_ready_cb
      <4>2. fat = FatTable /\ root = RootDirectory /\ first = 3
        BY <3>4, <3>5, <3>6, <3>8
      <4>3. file = Readme(lun)
        <5>1. first + (root.readme - 2) * boot.sectorsPerCluster = 3
          BY <3>4, <3>8, <4>2
        <5> QED
          BY <3>7, <5>1
      <4> QED
        BY <3>8, <4>1, <4>2, <4>3
    <3> QED
      BY <2>1, <3>9
  <2> QED
    BY <2>2, <2>3
<1>4. DiskTypeOK'
  BY <1>1, <1>2, Zenon DEF DiskInv, DiskTypeOK
<1>5. DiskForm'
  BY <1>1, <1>3 DEF DiskInv, DiskForm, DiskBlocks
<1>6. WriteInv'
  BY <1>1, Zenon DEF DiskInv, WriteInv, DiskBlocks, Unknown, Data
<1>7. DiskAsTold'
  BY <1>1, <1>3 DEF DiskInv, DiskAsTold, DiskBlocks, Unknown, Nothing, Readme
<1> QED
  BY <1>4, <1>5, <1>6, <1>7 DEF DiskInv

\* The other commands, and a host that gives one up or loses power.
LEMMA DiskOtherSteps ==
  ASSUME DiskInv,
         \/ \E start, load_eject \in BOOLEAN : tud_msc_start_stop_cb(start, load_eject)
         \/ tud_msc_scsi_cb \/ RequestSense \/ AbandonCommand \/ UNCHANGED diskVars
  PROVE  DiskInv'
<1>1. /\ UNCHANGED <<diskDemo, disk, commands, told, found>>
      /\ command' = command \/ command' = NoCommand
      /\ sense' = sense \/ sense' \in {"none", "illegal request"}
  BY DEF tud_msc_start_stop_cb, tud_msc_scsi_cb, RequestSense, AbandonCommand, diskVars
<1>2. ejected' \in BOOLEAN
  <2>1. ejected \in BOOLEAN
    BY DEF DiskInv, DiskTypeOK
  <2>2. CASE \E start, load_eject \in BOOLEAN : tud_msc_start_stop_cb(start, load_eject)
    BY <2>1, <2>2, Zenon DEF tud_msc_start_stop_cb
  <2>3. CASE tud_msc_scsi_cb \/ RequestSense \/ AbandonCommand \/ UNCHANGED diskVars
    <3>1. ejected' = ejected
      BY <2>3 DEF tud_msc_scsi_cb, RequestSense, AbandonCommand, diskVars
    <3> QED
      BY <2>1, <3>1
  <2> QED
    BY <2>2, <2>3
<1>3. DiskForm'
  BY <1>1 DEF DiskInv, DiskForm, DiskBlocks
<1>4. DiskAsTold'
  BY <1>1 DEF DiskInv, DiskAsTold, DiskBlocks, Unknown, Nothing, Readme
<1>5. WriteInv'
  <2>1. CASE command' = command
    BY <1>1, <2>1, Zenon DEF DiskInv, WriteInv, DiskBlocks, Unknown, Data
  <2>2. CASE command' = NoCommand
    BY <2>2, NoCommandFits DEF WriteInv
  <2> QED
    BY <1>1, <2>1, <2>2
<1>6. DiskTypeOK'
  <2>1. command' \in Commands /\ sense' \in {"none", "failed", "not ready", "illegal request"}
    BY <1>1, NoCommandFits DEF DiskInv, DiskTypeOK, Commands
  <2> QED
    BY <1>1, <1>2, <2>1, Zenon DEF DiskInv, DiskTypeOK, Commands
<1> QED
  BY <1>3, <1>4, <1>5, <1>6 DEF DiskInv

\* The disks, and what the host takes them to hold, as they were built.
LEMMA FreshDisks ==
  ASSUME NEW d, d = [lun \in LunNumbers |-> msc_disk(lun)]
  PROVE  DOMAIN d = LunNumbers /\ \A lun \in LunNumbers : DOMAIN d[lun] = DiskBlocks
<1>1. \A lun \in LunNumbers : DOMAIN msc_disk(lun) = DiskBlocks
  BY DEF msc_disk
<1> QED
  BY <1>1

LEMMA PowerCycleStep == DiskInv /\ PowerCycle => DiskInv'
<1> SUFFICES ASSUME DiskInv, PowerCycle PROVE DiskInv'
  OBVIOUS
<1>1. /\ disk' = [lun \in LunNumbers |-> msc_disk(lun)] /\ told' = disk'
      /\ ejected' = FALSE /\ sense' = "none" /\ command' = NoCommand
      /\ UNCHANGED <<diskDemo, commands, found>>
  BY DEF PowerCycle
<1>2. DOMAIN disk' = LunNumbers /\ \A lun \in LunNumbers : DOMAIN disk'[lun] = DiskBlocks
  BY <1>1, FreshDisks
<1>3. DiskForm'
  BY <1>1, <1>2 DEF DiskInv, DiskForm, DiskBlocks
<1>4. DiskAsTold'
  BY <1>1 DEF DiskInv, DiskAsTold, DiskBlocks, Unknown, Nothing, Readme
<1>5. WriteInv'
  BY <1>1, NoCommandFits DEF WriteInv
<1>6. DiskTypeOK'
  BY <1>1, <1>2, NoCommandFits DEF DiskInv, DiskTypeOK, Commands
<1> QED
  BY <1>3, <1>4, <1>5, <1>6 DEF DiskInv

LEMMA DiskStep == DiskInv /\ [DiskNext]_diskVars => DiskInv'
BY BeginStep, ReadStep, WriteStep, MountStep, DiskOtherSteps, PowerCycleStep DEF DiskNext

LEMMA DiskInitInv == DiskInit => DiskInv
<1> SUFFICES ASSUME DiskInit PROVE DiskInv
  OBVIOUS
<1>1. /\ diskDemo \in DiskDemos
      /\ disk = [lun \in LunNumbers |-> msc_disk(lun)] /\ told = disk
      /\ ejected = FALSE /\ sense = "none" /\ command = NoCommand /\ commands = 0
      /\ found = [lun \in LunNumbers |-> Nothing]
  BY DEF DiskInit
<1>2. DOMAIN disk = LunNumbers /\ \A lun \in LunNumbers : DOMAIN disk[lun] = DiskBlocks
  BY <1>1, FreshDisks
<1>3. DiskForm
  BY <1>1, <1>2 DEF DiskForm
<1>4. DiskAsTold
  BY <1>1 DEF DiskAsTold
<1>5. WriteInv
  BY <1>1, NoCommandFits DEF WriteInv
<1>6. 0 \in 0 .. MaxCommands
  BY DiskConstants
<1>7. DiskTypeOK
  BY <1>1, <1>2, <1>6, NoCommandFits DEF DiskTypeOK, Commands
<1> QED
  BY <1>3, <1>4, <1>5, <1>7 DEF DiskInv

\* For any number of blocks and of commands: a block is what the host takes it to be, and the
\* README is where it looks for it.
THEOREM DisksAsTold == DiskSpec => [](DiskTypeOK /\ DiskAsTold)
<1>1. DiskInv => DiskTypeOK /\ DiskAsTold
  BY DEF DiskInv
<1> QED
  BY <1>1, DiskInitInv, DiskStep, PTL DEF DiskSpec

-----------------------------------------------------------------------------
(* Audio: frames of the headset and samples of the microphone               *)

Pairs == Nat \X Nat
HeadsetWrites == [pairs : Seq(Pairs), mixed : Nat, since : Nat, overtaken : BOOLEAN]
AudioBytes == Nat \X Nat \X Nat

\* No write mixed a pair of a frame behind n, and none that was not overtaken one behind m.
PlayedUpTo(writes, n, m) ==
  \A i \in 1 .. Len(writes) : \A x \in Mixed(writes[i]) :
    x[1] \in Nat /\ x[1] <= n /\ (~ writes[i].overtaken => x[1] <= m)

\* What NoAudioTwice says of the headset, of any writes.
PlayedOnce(writes) ==
  /\ \A i \in 1 .. Len(writes) : ~ writes[i].overtaken =>
       \A k \in 1 .. Len(writes[i].pairs) : writes[i].pairs[k] = <<writes[i].since, k>>
  /\ \A i, j \in 1 .. Len(writes) : i < j =>
       \A x \in Mixed(writes[i]), y \in Mixed(writes[j]) :
         x[1] < y[1] \/ (x[1] = y[1] /\ writes[i].overtaken)

\* As far as the announced size goes, the speaker's buffer holds the announced frame, or
\* what has come since.
SpkInv ==
  /\ arriving \in [size : 0 .. MaxPairs, read : 0 .. MaxPairs] /\ arriving.read <= arriving.size
  /\ arriving # NothingArriving => frames > 0
  /\ spk_buf \in [1 .. MaxPairs -> Pairs] /\ mic_buf \in [1 .. MaxPairs -> Pairs]
  /\ \A k \in 1 .. MaxPairs :
       /\ spk_buf[k][2] = k /\ spk_buf[k][1] <= frames
       /\ k <= spk_data_size => spk_buf[k][1] >= Announced
       /\ k <= arriving.read => spk_buf[k][1] = frames

\* A mix takes nothing older than the frame that was announced when it began, and that is
\* later than all that was mixed before.  As long as no other frame comes, the size told is
\* the one it has read, or 0.
MixInv ==
  /\ mixing.since <= Announced /\ PlayedUpTo(played, mixing.since, mixing.since - 1)
  /\ mixing.at <= mixing.size + 1 /\ (mixing.place = "limit" => mixing.at = 1)
  /\ \A k \in 1 .. MaxPairs :
       /\ k <= mixing.size => spk_buf[k][1] >= mixing.since
       /\ k < mixing.at =>
            mic_buf[k][2] = k /\ mic_buf[k][1] >= mixing.since /\ mic_buf[k][1] <= frames
  /\ frames = mixing.since => spk_data_size <= mixing.size

HeadsetInv ==
  /\ SpkInv
  /\ played \in Seq(HeadsetWrites) /\ PlayedOnce(played)
  /\ PlayedUpTo(played, frames, Announced)
  /\ mixing.place = "poll" /\ spk_data_size # 0 => PlayedUpTo(played, Announced, Announced - 1)
  /\ mixing.place \in {"limit", "mix"} => MixInv

\* The sample and the byte of a sample where byte i of a whole frame is.
SampleAt(i) == ((i - 1) \div SampleBytes) + 1
ByteAt(i) == ((i - 1) % SampleBytes) + 1
WholeSamples(n) == \E q \in 0 .. n : n = q * SampleBytes

\* The last byte sent.
LastOut == IF packet = << >> THEN lastSent ELSE Last(packet)

\* A byte is where it was in its sample, it is no later than the last frame, and when it
\* begins a sample it is later than all that is before it, in the buffer and on the bus.
ByteInPlace(i) ==
  /\ sample_stream_buf[i][3] = ByteAt(i)
  /\ sample_stream_buf[i][1] <= frames
  /\ captured # 0 => sample_stream_buf[i][1] < captured
  /\ ByteAt(i) = 1 =>
       /\ \A j \in 1 .. i - 1 : Earlier(sample_stream_buf[j], sample_stream_buf[i])
       /\ LastOut # << >> => Earlier(LastOut, sample_stream_buf[i])

\* The buffer begins with a sample, and ends with one unless it is full.
MicInv ==
  /\ sample_stream_buf \in Seq(AudioBytes) /\ packet \in Seq(AudioBytes)
  /\ lastSent = << >> \/ lastSent \in AudioBytes
  /\ \A i \in 1 .. Len(sample_stream_buf) : ByteInPlace(i)
  /\ LastOut # << >> => LastOut[1] <= frames /\ (captured # 0 => LastOut[1] < captured)
  /\ captured <= frames
  /\ Len(sample_stream_buf) <= StreamBytes
  /\ WholeSamples(Len(sample_stream_buf)) \/ Len(sample_stream_buf) = StreamBytes
  /\ packet # << >> =>
       /\ packet[1][3] = 1 /\ Last(packet)[3] = SampleBytes
       /\ lastSent # << >> => Earlier(lastSent, packet[1])

AudioInv ==
  /\ AudioTypeOK
  /\ audioDemo = "headset" => HeadsetInv /\ packet = << >>
  /\ audioDemo = "microphone" => MicInv /\ played = << >>

LEMMA AudioConstants ==
  /\ FrameSamples \in Nat /\ FrameSamples > 0 /\ SampleBytes \in Nat /\ SampleBytes > 0
  /\ StreamBytes \in Nat /\ StreamBytes > 0 /\ MaxPairs \in Nat /\ MaxPairs > 0
  /\ Slack \in Nat /\ ExtraSamples \in Nat /\ MaxFrames \in Nat /\ MaxInterfaces \in Nat
<1>1. FrameSamples \in Nat \ {0} /\ SampleBytes \in Nat \ {0} /\ StreamBytes \in Nat \ {0}
      /\ MaxPairs \in Nat \ {0}
  BY AudioAssumption
<1>2. FrameSamples \in Nat /\ FrameSamples > 0 /\ SampleBytes \in Nat /\ SampleBytes > 0
      /\ StreamBytes \in Nat /\ StreamBytes > 0 /\ MaxPairs \in Nat /\ MaxPairs > 0
  BY <1>1
<1> QED
  BY <1>2, AudioAssumption

Mixings == [place : {"poll", "limit", "mix", "clear"}, size : 0 .. MaxPairs,
            at : 1 .. MaxPairs + 1, since : 0 .. MaxFrames]

LEMMA PlayedMore ==
  ASSUME NEW writes, NEW n \in Int, NEW m \in Int, NEW n2 \in Int, NEW m2 \in Int,
         n <= n2, m <= m2, PlayedUpTo(writes, n, m)
  PROVE  PlayedUpTo(writes, n2, m2)
BY DEF PlayedUpTo

LEMMA HeadsetTypes ==
  ASSUME AudioTypeOK, SpkInv
  PROVE  /\ frames \in Nat /\ frames \in 0 .. MaxFrames /\ alternates \in 0 .. MaxInterfaces
         /\ spk_data_size \in 0 .. MaxPairs /\ mixing \in Mixings
         /\ mixing.place \in {"poll", "limit", "mix", "clear"} /\ mixing.size \in 0 .. MaxPairs
         /\ mixing.at \in 1 .. MaxPairs + 1 /\ mixing.since \in 0 .. MaxFrames
         /\ arriving.size \in 0 .. MaxPairs /\ arriving.read \in 0 .. MaxPairs
         /\ Announced \in Nat /\ Announced <= frames
         /\ (arriving = NothingArriving => Announced = frames)
         /\ (arriving # NothingArriving => Announced = frames - 1)
<1>1. /\ frames \in 0 .. MaxFrames /\ alternates \in 0 .. MaxInterfaces
      /\ spk_data_size \in 0 .. MaxPairs /\ mixing \in Mixings
  BY Zenon DEF AudioTypeOK, Mixings
<1>2. /\ mixing.place \in {"poll", "limit", "mix", "clear"} /\ mixing.size \in 0 .. MaxPairs
      /\ mixing.at \in 1 .. MaxPairs + 1 /\ mixing.since \in 0 .. MaxFrames
  BY <1>1 DEF Mixings
<1>3. arriving.size \in 0 .. MaxPairs /\ arriving.read \in 0 .. MaxPairs
      /\ (arriving # NothingArriving => frames > 0)
  BY DEF SpkInv
<1>4. frames \in Nat
  BY <1>1, AudioConstants
<1> QED
  BY <1>1, <1>2, <1>3, <1>4 DEF Announced

\* A frame begins to come, a pair of it comes, it is announced, or the host sets an interface.
LEMMA HeadsetHostSteps ==
  ASSUME AudioTypeOK, HeadsetInv, tud_audio_rx_done_pre_read_cb \/ ClearOnSetInterface
  PROVE  AudioTypeOK' /\ HeadsetInv'
<1> USE AudioConstants
<1>1. /\ UNCHANGED <<audioDemo, mic_buf, mixing, played>>
      /\ UNCHANGED <<interface_open, captured, sample_stream_buf, packet, lastSent>>
  BY DEF tud_audio_rx_done_pre_read_cb, BeginFrame, ReadPair, AnnounceFrame, ClearOnSetInterface,
         microphone
<1>2. /\ frames \in Nat /\ frames \in 0 .. MaxFrames /\ alternates \in 0 .. MaxInterfaces
      /\ spk_data_size \in 0 .. MaxPairs /\ mixing \in Mixings
      /\ mixing.place \in {"poll", "limit", "mix", "clear"} /\ mixing.size \in 0 .. MaxPairs
      /\ mixing.at \in 1 .. MaxPairs + 1 /\ mixing.since \in 0 .. MaxFrames
      /\ arriving.size \in 0 .. MaxPairs /\ arriving.read \in 0 .. MaxPairs
      /\ Announced \in Nat /\ Announced <= frames
      /\ (arriving = NothingArriving => Announced = frames)
      /\ (arriving # NothingArriving => Announced = frames - 1)
  BY HeadsetTypes DEF HeadsetInv
<1>3. /\ arriving \in [size : 0 .. MaxPairs, read : 0 .. MaxPairs] /\ arriving.read <= arriving.size
      /\ arriving # NothingArriving => frames > 0
      /\ spk_buf \in [1 .. MaxPairs -> Pairs] /\ mic_buf \in [1 .. MaxPairs -> Pairs]
  BY DEF HeadsetInv, SpkInv
<1>4. \A k \in 1 .. MaxPairs :
        /\ spk_buf[k][1] \in Nat /\ spk_buf[k][2] = k /\ spk_buf[k][1] <= frames
        /\ k <= spk_data_size => spk_buf[k][1] >= Announced
        /\ k <= arriving.read => spk_buf[k][1] = frames
        /\ mic_buf[k][1] \in Nat
  BY <1>3 DEF HeadsetInv, SpkInv, Pairs
<1>5. NothingArriving.size = 0 /\ NothingArriving.read = 0
      /\ NothingArriving \in [size : 0 .. MaxPairs, read : 0 .. MaxPairs]
  BY DEF NothingArriving
\* what the four steps have in common
<1>6. /\ frames' \in Nat /\ frames' \in 0 .. MaxFrames /\ alternates' \in 0 .. MaxInterfaces
      /\ spk_data_size' \in 0 .. MaxPairs
      /\ arriving' \in [size : 0 .. MaxPairs, read : 0 .. MaxPairs] /\ arriving'.read <= arriving'.size
      /\ arriving' # NothingArriving => frames' > 0
      /\ spk_buf' \in [1 .. MaxPairs -> Pairs]
      /\ frames <= frames' /\ Announced <= Announced' /\ Announced' \in Nat /\ Announced' <= frames'
      /\ \A k \in 1 .. MaxPairs :
           /\ spk_buf'[k][2] = k /\ spk_buf'[k][1] <= frames' /\ spk_buf'[k][1] >= spk_buf[k][1]
           /\ k <= spk_data_size' => spk_buf'[k][1] >= Announced'
           /\ k <= arriving'.read => spk_buf'[k][1] = frames'
      /\ spk_data_size' = 0 \/ (spk_data_size' = spk_data_size /\ Announced' = Announced)
           \/ Announced' = Announced + 1
      /\ frames' = frames => spk_data_size' \in {0, spk_data_size} \/ Announced < frames
  <2>1. CASE BeginFrame
    <3>1. /\ arriving = NothingArriving /\ frames < MaxFrames /\ frames' = frames + 1
          /\ UNCHANGED <<alternates, spk_buf, spk_data_size>>
      BY <2>1 DEF BeginFrame
    <3>2. PICK n \in 1 .. MaxPairs : arriving' = [size |-> n, read |-> 0]
      BY <2>1 DEF BeginFrame
    <3>3. /\ arriving'.size = n /\ arriving'.read = 0 /\ arriving' # NothingArriving
          /\ arriving' \in [size : 0 .. MaxPairs, read : 0 .. MaxPairs]
      BY <3>2, <1>5
    <3>4. Announced' = Announced /\ Announced = frames
      BY <1>2, <3>1, <3>3 DEF Announced
    <3>5. \A k \in 1 .. MaxPairs : spk_buf'[k] = spk_buf[k] /\ spk_data_size' = spk_data_size
      BY <3>1
    <3> QED
      BY <1>2, <1>3, <1>4, <3>1, <3>3, <3>4, <3>5
  <2>2. CASE ReadPair
    <3>1. /\ arriving.read < arriving.size /\ arriving' = [arriving EXCEPT !.read = @ + 1]
          /\ spk_buf' = [spk_buf EXCEPT ![arriving'.read] = <<frames, arriving'.read>>]
          /\ UNCHANGED <<frames, alternates, spk_data_size>>
      BY <2>2 DEF ReadPair
    <3>2. /\ arriving'.size = arriving.size /\ arriving'.read = arriving.read + 1
          /\ arriving' \in [size : 0 .. MaxPairs, read : 0 .. MaxPairs]
          /\ arriving'.read \in 1 .. MaxPairs
      <4>1. arriving.read + 1 \in 1 .. MaxPairs /\ arriving.read + 1 \in 0 .. MaxPairs
        BY <1>2, <3>1
      <4>2. /\ arriving'.size = arriving.size /\ arriving'.read = arriving.read + 1
            /\ arriving' = [size |-> arriving.size, read |-> arriving.read + 1]
        BY <1>3, <3>1
      <4> QED
        BY <1>2, <4>1, <4>2
    <3>3. arriving # NothingArriving /\ arriving' # NothingArriving
      BY <1>2, <1>5, <3>1, <3>2
    <3>4. Announced' = Announced /\ Announced = frames - 1
      BY <1>2, <3>1, <3>3 DEF Announced
    <3>5. <<frames, arriving'.read>> \in Pairs
      BY <1>2, <3>2 DEF Pairs
    <3>6. spk_buf' \in [1 .. MaxPairs -> Pairs]
      BY <1>3, <3>1, <3>2, <3>5
    <3>7. \A k \in 1 .. MaxPairs :
            spk_buf'[k] = IF k = arriving'.read THEN <<frames, k>> ELSE spk_buf[k]
      BY <1>3, <3>1, <3>2
    <3>8. \A k \in 1 .. MaxPairs : k <= arriving'.read => k = arriving'.read \/ k <= arriving.read
      BY <1>2, <3>2
    <3>9. \A k \in 1 .. MaxPairs :
           /\ spk_buf'[k][2] = k /\ spk_buf'[k][1] <= frames' /\ spk_buf'[k][1] >= spk_buf[k][1]
           /\ k <= spk_data_size' => spk_buf'[k][1] >= Announced'
           /\ k <= arriving'.read => spk_buf'[k][1] = frames'
      <4> TAKE k \in 1 .. MaxPairs
      <4>1. CASE k = arriving'.read
        <5>0. spk_buf'[k] = <<frames, k>>
          BY <3>7, <4>1
        <5>1. spk_buf'[k][1] = frames /\ spk_buf'[k][2] = k
          BY <5>0
        <5> QED
          BY <1>2, <1>4, <3>1, <3>4, <5>1
      <4>2. CASE k # arriving'.read
        <5>1. spk_buf'[k] = spk_buf[k]
          BY <3>7, <4>2
        <5> QED
          BY <1>2, <1>4, <3>1, <3>4, <3>8, <4>2, <5>1
      <4> QED
        BY <4>1, <4>2
    <3>10. arriving'.read <= arriving'.size /\ frames' > 0 /\ frames' = frames /\ spk_data_size' = spk_data_size
           /\ alternates' = alternates
      BY <1>2, <1>3, <3>1, <3>2, <3>3
    <3> HIDE <3>1, <3>7
    <3> QED
      BY <1>2, <3>2, <3>4, <3>6, <3>9, <3>10
  <2>3. CASE AnnounceFrame
    <3>1. /\ arriving # NothingArriving /\ arriving.read = arriving.size
          /\ spk_data_size' = arriving.size /\ arriving' = NothingArriving
          /\ UNCHANGED <<frames, alternates, spk_buf>>
      BY <2>3 DEF AnnounceFrame
    <3>2. Announced' = frames /\ Announced = frames - 1
      BY <1>2, <3>1 DEF Announced
    <3>3. \A k \in 1 .. MaxPairs : spk_buf'[k] = spk_buf[k] /\ ~ k <= arriving'.read
      BY <1>5, <3>1
    <3> QED
      BY <1>2, <1>3, <1>4, <1>5, <3>1, <3>2, <3>3
  <2>4. CASE ClearOnSetInterface
    <3>1. /\ arriving = NothingArriving /\ spk_data_size' = 0
          /\ alternates < MaxInterfaces /\ alternates' = alternates + 1
          /\ UNCHANGED <<frames, arriving, spk_buf>>
      BY <2>4 DEF ClearOnSetInterface
    <3>2. Announced' = Announced
      BY <3>1 DEF Announced
    <3> QED
      BY <1>2, <1>3, <1>4, <3>1, <3>2
  <2> QED
    BY <2>1, <2>2, <2>3, <2>4 DEF tud_audio_rx_done_pre_read_cb
<1>7. SpkInv'
  BY <1>1, <1>3, <1>6 DEF SpkInv
<1>8. PlayedUpTo(played, frames', Announced')
  <2>1. PlayedUpTo(played, frames, Announced)
    BY DEF HeadsetInv
  <2> QED
    BY <1>2, <1>6, <2>1, PlayedMore
<1>9. mixing.place = "poll" /\ spk_data_size' # 0 => PlayedUpTo(played, Announced', Announced' - 1)
  <2> SUFFICES ASSUME mixing.place = "poll", spk_data_size' # 0
               PROVE  PlayedUpTo(played, Announced', Announced' - 1)
    OBVIOUS
  <2>1. CASE spk_data_size' = spk_data_size /\ Announced' = Announced
    <3>1. PlayedUpTo(played, Announced, Announced - 1)
      BY <2>1 DEF HeadsetInv
    <3> QED
      BY <2>1, <3>1
  <2>2. CASE Announced' = Announced + 1
    <3>1. PlayedUpTo(played, frames, Announced)
      BY DEF HeadsetInv
    <3>2. frames <= Announced'
      BY <1>2, <2>2
    <3>3. /\ Announced <= Announced' - 1 /\ frames \in Int /\ Announced \in Int
          /\ Announced' \in Int /\ Announced' - 1 \in Int
      BY <1>2, <2>2
    <3> QED
      BY <3>1, <3>2, <3>3, PlayedMore, Zenon
  <2> QED
    BY <1>6, <2>1, <2>2
<1>10. mixing.place \in {"limit", "mix"} => MixInv'
  <2> SUFFICES ASSUME mixing.place \in {"limit", "mix"} PROVE MixInv'
    OBVIOUS
  <2>1. /\ mixing.since <= Announced /\ PlayedUpTo(played, mixing.since, mixing.since - 1)
        /\ mixing.at <= mixing.size + 1 /\ (mixing.place = "limit" => mixing.at = 1)
    BY DEF HeadsetInv, MixInv
  <2>2. \A k \in 1 .. MaxPairs :
         /\ k <= mixing.size => spk_buf[k][1] >= mixing.since
         /\ k < mixing.at =>
              mic_buf[k][2] = k /\ mic_buf[k][1] >= mixing.since /\ mic_buf[k][1] <= frames
    BY DEF HeadsetInv, MixInv
  <2>3. frames = mixing.since => spk_data_size <= mixing.size
    BY DEF HeadsetInv, MixInv
  <2>4. mixing.since <= Announced'
    BY <1>2, <1>6, <2>1
  <2>5. \A k \in 1 .. MaxPairs :
         /\ k <= mixing.size => spk_buf'[k][1] >= mixing.since
         /\ k < mixing.at =>
              mic_buf[k][2] = k /\ mic_buf[k][1] >= mixing.since /\ mic_buf[k][1] <= frames'
    <3> TAKE k \in 1 .. MaxPairs
    <3>1. spk_buf'[k][1] >= spk_buf[k][1] /\ spk_buf'[k][1] \in Nat /\ spk_buf[k][1] \in Nat /\ mic_buf[k][1] \in Nat
      BY <1>4, <1>6 DEF Pairs
    <3>2. \A n \in Nat : n <= frames => n <= frames'
      BY <1>2, <1>6
    <3>3. \A m, n, o \in Nat : m >= n /\ n >= o => m >= o
      OBVIOUS
    <3>4. mixing.since \in Nat
      BY <1>2
    <3> QED
      BY <2>2, <3>1, <3>2, <3>3, <3>4
  <2>6. frames' = mixing.since => spk_data_size' <= mixing.size
    <3> SUFFICES ASSUME frames' = mixing.since PROVE spk_data_size' <= mixing.size
      OBVIOUS
    <3>1. frames = mixing.since /\ Announced = frames
      BY <1>2, <1>6, <2>1
    <3>2. spk_data_size' \in {0, spk_data_size}
      BY <1>2, <1>6, <3>1
    <3> QED
      BY <1>2, <2>3, <3>1, <3>2
  <2> QED
    BY <1>1, <2>1, <2>4, <2>5, <2>6 DEF MixInv
<1>11. HeadsetInv'
  <2>1. played' = played /\ mixing' = mixing /\ played \in Seq(HeadsetWrites) /\ PlayedOnce(played)
    BY <1>1 DEF HeadsetInv
  <2> QED
    BY <1>7, <1>8, <1>9, <1>10, <2>1 DEF HeadsetInv
<1>12. AudioTypeOK'
  <2>1. captured' \in 0 .. MaxFrames /\ interface_open' \in BOOLEAN /\ audioDemo' \in AudioDemos
        /\ Len(sample_stream_buf') <= StreamBytes /\ mixing' \in Mixings
    BY <1>1, <1>2, <1>6, Zenon DEF AudioTypeOK
  <2> QED
    BY <1>6, <2>1, Zenon DEF AudioTypeOK, Mixings
<1> QED
  BY <1>11, <1>12

\* A frame is taken to be mixed, mixed pair by pair, and dropped.
LEMMA HeadsetMixSteps ==
  ASSUME AudioTypeOK, HeadsetInv, StartMix \/ ReadLimit \/ MixPair \/ ClearFrame
  PROVE  AudioTypeOK' /\ HeadsetInv'
<1> USE AudioConstants
<1>1. /\ UNCHANGED <<audioDemo, frames, alternates, arriving, spk_buf, played>>
      /\ UNCHANGED <<interface_open, captured, sample_stream_buf, packet, lastSent>>
  BY DEF StartMix, ReadLimit, MixPair, ClearFrame, microphone
<1>2. /\ frames \in Nat /\ frames \in 0 .. MaxFrames
      /\ spk_data_size \in 0 .. MaxPairs /\ mixing \in Mixings
      /\ mixing.place \in {"poll", "limit", "mix", "clear"} /\ mixing.size \in 0 .. MaxPairs
      /\ mixing.at \in 1 .. MaxPairs + 1 /\ mixing.since \in 0 .. MaxFrames
      /\ Announced \in Nat /\ Announced <= frames
  BY HeadsetTypes DEF HeadsetInv
<1>3. SpkInv /\ played \in Seq(HeadsetWrites) /\ PlayedOnce(played) /\ PlayedUpTo(played, frames, Announced)
  BY DEF HeadsetInv
<1>4. /\ spk_buf \in [1 .. MaxPairs -> Pairs] /\ mic_buf \in [1 .. MaxPairs -> Pairs]
      /\ \A k \in 1 .. MaxPairs :
           /\ spk_buf[k][1] \in Nat /\ spk_buf[k][2] = k /\ spk_buf[k][1] <= frames
           /\ k <= spk_data_size => spk_buf[k][1] >= Announced
  BY <1>3 DEF SpkInv, Pairs
<1>5. Announced' = Announced
  BY <1>1 DEF Announced
<1>6. /\ mixing' \in Mixings /\ spk_data_size' \in 0 .. MaxPairs /\ spk_data_size' \in {0, spk_data_size}
      /\ mic_buf' \in [1 .. MaxPairs -> Pairs]
      /\ mixing'.place = "poll" => spk_data_size' = 0
      /\ mixing'.place \in {"limit", "mix"} => MixInv'
  <2>1. CASE StartMix
    <3>1. /\ mixing.place = "poll" /\ spk_data_size # 0 /\ UNCHANGED <<spk_data_size, mic_buf>>
          /\ mixing' = [place |-> "limit", size |-> spk_data_size, at |-> 1, since |-> Announced]
      BY <2>1 DEF StartMix
    <3>2. /\ mixing'.place = "limit" /\ mixing'.size = spk_data_size /\ mixing'.at = 1
          /\ mixing'.since = Announced
      BY <3>1
    <3>3. Announced \in 0 .. MaxFrames /\ 1 \in 1 .. MaxPairs + 1
      BY <1>2
    <3>4. mixing' \in Mixings
      BY <1>2, <3>1, <3>3 DEF Mixings
    <3>5. PlayedUpTo(played, Announced, Announced - 1)
      BY <3>1 DEF HeadsetInv
    <3>6. \A k \in 1 .. MaxPairs : ~ k < 1
      OBVIOUS
    <3>7. MixInv'
      BY <1>1, <1>2, <1>4, <1>5, <3>1, <3>2, <3>5, <3>6 DEF MixInv
    <3> QED
      BY <1>2, <1>4, <3>1, <3>2, <3>4, <3>7
  <2>2. CASE ReadLimit
    <3>1. mixing.place = "limit" /\ UNCHANGED <<spk_data_size, mic_buf>>
      BY <2>2 DEF ReadLimit
    <3>2. PICK n \in {mixing.size, spk_data_size} :
            mixing' = [mixing EXCEPT !.place = "mix", !.size = n]
      BY <2>2 DEF ReadLimit
    <3>3. n \in 0 .. MaxPairs
      BY <1>2
    <3>4. /\ mixing' \in Mixings /\ mixing'.place = "mix" /\ mixing'.size = n
          /\ mixing'.at = mixing.at /\ mixing'.since = mixing.since
      BY <1>2, <3>2, <3>3 DEF Mixings
    <3>5. /\ mixing.since <= Announced /\ PlayedUpTo(played, mixing.since, mixing.since - 1)
          /\ mixing.at = 1
          /\ \A k \in 1 .. MaxPairs : k <= mixing.size => spk_buf[k][1] >= mixing.since
          /\ frames = mixing.since => spk_data_size <= mixing.size
      BY <3>1 DEF HeadsetInv, MixInv
    <3>6. \A k \in 1 .. MaxPairs : k <= n => spk_buf[k][1] >= mixing.since
      BY <1>2, <1>4, <3>5
    <3>7. frames = mixing.since => spk_data_size <= n
      BY <1>2, <3>5
    <3>8. \A k \in 1 .. MaxPairs : ~ k < 1
      OBVIOUS
    <3>9. 1 <= n + 1
      BY <3>3
    <3> HIDE <3>2
    <3>10. MixInv'
      BY <1>1, <1>5, <3>1, <3>4, <3>5, <3>6, <3>7, <3>8, <3>9 DEF MixInv
    <3> QED
      BY <1>2, <1>4, <3>1, <3>4, <3>10
  <2>3. CASE MixPair
    <3>1. /\ mixing.place = "mix" /\ mixing.at <= mixing.size
          /\ mic_buf' = [mic_buf EXCEPT ![mixing.at] = spk_buf[mixing.at]]
          /\ mixing' = [mixing EXCEPT !.at = @ + 1] /\ UNCHANGED spk_data_size
      BY <2>3 DEF MixPair
    <3>2. mixing.at \in 1 .. MaxPairs /\ mixing.at + 1 \in 1 .. MaxPairs + 1
      BY <1>2, <3>1
    <3>3. /\ mixing' \in Mixings /\ mixing'.place = "mix" /\ mixing'.size = mixing.size
          /\ mixing'.at = mixing.at + 1 /\ mixing'.since = mixing.since
      BY <1>2, <3>1, <3>2 DEF Mixings
    <3>4. mic_buf' \in [1 .. MaxPairs -> Pairs]
      BY <1>4, <3>1, <3>2
    <3>5. \A k \in 1 .. MaxPairs : mic_buf'[k] = IF k = mixing.at THEN spk_buf[k] ELSE mic_buf[k]
      BY <1>4, <3>1, <3>2
    <3>6. MixInv
      BY <3>1 DEF HeadsetInv
    <3>7. \A k \in 1 .. MaxPairs :
            /\ k <= mixing.size => spk_buf[k][1] >= mixing.since
            /\ k < mixing.at =>
                 mic_buf[k][2] = k /\ mic_buf[k][1] >= mixing.since /\ mic_buf[k][1] <= frames
      BY <3>6 DEF MixInv
    <3>8. ASSUME NEW k \in 1 .. MaxPairs, k < mixing.at + 1
          PROVE  mic_buf'[k][2] = k /\ mic_buf'[k][1] >= mixing.since /\ mic_buf'[k][1] <= frames
      <4>1. CASE k = mixing.at
        <5>1. mic_buf'[k] = spk_buf[k] /\ k <= mixing.size
          BY <3>1, <3>5, <4>1
        <5> QED
          BY <1>4, <3>7, <5>1
      <4>2. CASE k # mixing.at
        <5>1. mic_buf'[k] = mic_buf[k] /\ k < mixing.at
          BY <1>2, <3>5, <3>8, <4>2
        <5> QED
          BY <3>7, <5>1
      <4> QED
        BY <4>1, <4>2
    <3>9. /\ mixing.since <= Announced /\ PlayedUpTo(played, mixing.since, mixing.since - 1)
          /\ frames = mixing.since => spk_data_size <= mixing.size
          /\ mixing.at + 1 <= mixing.size + 1
      BY <1>2, <3>1, <3>6 DEF MixInv
    <3>10. MixInv'
      BY <1>1, <1>5, <3>1, <3>3, <3>7, <3>8, <3>9 DEF MixInv
    <3> QED
      BY <1>2, <3>1, <3>3, <3>4, <3>10
  <2>4. CASE ClearFrame
    <3>1. spk_data_size' = 0 /\ mixing' = Polling /\ UNCHANGED mic_buf
      BY <2>4 DEF ClearFrame
    <3>2. mixing' \in Mixings /\ mixing'.place = "poll"
      <4>1. 0 \in 0 .. MaxPairs /\ 0 \in 0 .. MaxFrames /\ 1 \in 1 .. MaxPairs + 1
        OBVIOUS
      <4> QED
        BY <3>1, <4>1 DEF Polling, Mixings
    <3> QED
      BY <1>4, <3>1, <3>2
  <2> QED
    BY <2>1, <2>2, <2>3, <2>4
<1>7. SpkInv'
  <2>1. \A k \in 1 .. MaxPairs : k <= spk_data_size' => spk_buf[k][1] >= Announced
    BY <1>2, <1>4, <1>6
  <2> QED
    BY <1>1, <1>3, <1>5, <1>6, <2>1 DEF SpkInv
<1>8. HeadsetInv'
  BY <1>1, <1>3, <1>5, <1>6, <1>7 DEF HeadsetInv
<1>9. AudioTypeOK'
  BY <1>1, <1>6, Zenon DEF AudioTypeOK, Mixings
<1> QED
  BY <1>8, <1>9

LEMMA MinOfTwo ==
  \A a, b \in Int : Min({a, b}) \in Int /\ Min({a, b}) = IF a <= b THEN a ELSE b
<1> SUFFICES ASSUME NEW a \in Int, NEW b \in Int
             PROVE  Min({a, b}) \in Int /\ Min({a, b}) = IF a <= b THEN a ELSE b
  OBVIOUS
<1>1. \E x \in {a, b} : \A y \in {a, b} : x =< y
  <2>1. CASE a <= b
    BY <2>1
  <2>2. CASE ~(a <= b)
    BY <2>2
  <2> QED
    BY <2>1, <2>2
<1>2. Min({a, b}) \in {a, b} /\ \A y \in {a, b} : Min({a, b}) =< y
  BY <1>1 DEF Min
<1> QED
  BY <1>2

\* The pairs of a write that were mixed are among the first of it.
LEMMA MixedOf ==
  ASSUME NEW w \in HeadsetWrites
  PROVE  /\ Len(w.pairs) \in Nat
         /\ \A x \in Mixed(w) : \E k \in 1 .. Len(w.pairs) : k <= w.mixed /\ x = w.pairs[k]
<1>1. w.mixed \in Nat /\ Len(w.pairs) \in Nat
  BY DEF HeadsetWrites
<1>2. Min({w.mixed, Len(w.pairs)}) = IF w.mixed <= Len(w.pairs) THEN w.mixed ELSE Len(w.pairs)
  BY <1>1, MinOfTwo
<1> QED
  BY <1>1, <1>2 DEF Mixed

\* What was mixed is played, or nothing when it was dropped meanwhile, or more when a longer
\* frame came.
LEMMA HeadsetWriteStep ==
  ASSUME AudioTypeOK, HeadsetInv, WriteMix
  PROVE  AudioTypeOK' /\ HeadsetInv'
<1> USE AudioConstants
<1>1. /\ mixing.place = "mix" /\ mixing.at > mixing.size /\ mixing' = [Polling EXCEPT !.place = "clear"]
      /\ UNCHANGED <<audioDemo, frames, alternates, arriving, spk_buf, spk_data_size, mic_buf>>
      /\ UNCHANGED <<interface_open, captured, sample_stream_buf, packet, lastSent>>
  BY DEF WriteMix, microphone
<1>2. /\ frames \in Nat /\ spk_data_size \in 0 .. MaxPairs
      /\ mixing.size \in 0 .. MaxPairs /\ mixing.since \in 0 .. MaxFrames
      /\ mixing.at \in 1 .. MaxPairs + 1
      /\ Announced \in Nat /\ Announced <= frames
  BY HeadsetTypes DEF HeadsetInv
<1>3. SpkInv /\ played \in Seq(HeadsetWrites) /\ PlayedOnce(played) /\ PlayedUpTo(played, frames, Announced)
  BY DEF HeadsetInv
<1>4. MixInv
  BY <1>1 DEF HeadsetInv
<1>5. /\ mixing.since <= Announced /\ PlayedUpTo(played, mixing.since, mixing.since - 1)
      /\ \A k \in 1 .. MaxPairs : k <= mixing.size =>
           mic_buf[k][2] = k /\ mic_buf[k][1] >= mixing.since /\ mic_buf[k][1] <= frames
      /\ frames = mixing.since => spk_data_size <= mixing.size
  BY <1>1, <1>2, <1>4 DEF MixInv
<1>6. mic_buf \in [1 .. MaxPairs -> Pairs]
  BY <1>3 DEF SpkInv
<1>7. PICK n \in {mixing.size, spk_data_size} :
        played' = Append(played, [pairs |-> SubSeq(mic_buf, 1, n), mixed |-> mixing.size,
                                  since |-> mixing.since, overtaken |-> frames # mixing.since])
  BY DEF WriteMix
<1>8. PICK w : w = [pairs |-> SubSeq(mic_buf, 1, n), mixed |-> mixing.size,
                    since |-> mixing.since, overtaken |-> frames # mixing.since]
  OBVIOUS
<1>9. n \in Nat /\ n <= MaxPairs /\ (frames = mixing.since => n <= mixing.size)
  BY <1>2, <1>5
<1>10. SubSeq(mic_buf, 1, n) \in Seq(Pairs) /\ Len(SubSeq(mic_buf, 1, n)) = n
       /\ \A k \in 1 .. n : SubSeq(mic_buf, 1, n)[k] = mic_buf[k]
  <2>1. \A m \in Nat : \A f \in [1 .. m -> Pairs] : f \in Seq(Pairs) /\ Len(f) = m
    OBVIOUS
  <2>2. mic_buf \in Seq(Pairs) /\ Len(mic_buf) = MaxPairs
    BY <1>6, <2>1
  <2>3. \A s \in Seq(Pairs), m \in Nat :
          m <= Len(s) => /\ SubSeq(s, 1, m) \in Seq(Pairs) /\ Len(SubSeq(s, 1, m)) = m
                         /\ \A i \in 1 .. m : SubSeq(s, 1, m)[i] = s[i]
    OBVIOUS
  <2> QED
    BY <1>9, <2>2, <2>3
<1>11. /\ w \in HeadsetWrites /\ w.mixed = mixing.size /\ w.since = mixing.since
       /\ (w.overtaken <=> frames # mixing.since)
       /\ Len(w.pairs) = n /\ \A k \in 1 .. n : w.pairs[k] = mic_buf[k]
  <2>1. /\ w.pairs = SubSeq(mic_buf, 1, n) /\ w.mixed = mixing.size /\ w.since = mixing.since
        /\ w.overtaken = (frames # mixing.since)
    BY <1>8
  <2>2. mixing.size \in Nat /\ mixing.since \in Nat /\ (frames # mixing.since) \in BOOLEAN
    BY <1>2
  <2>3. w \in HeadsetWrites
    BY <1>8, <1>10, <2>2 DEF HeadsetWrites
  <2> QED
    BY <1>10, <2>1, <2>3
<1>12. \A x \in Mixed(w) : x[1] \in Nat /\ x[1] >= mixing.since /\ x[1] <= frames
  <2> TAKE x \in Mixed(w)
  <2>1. PICK k \in 1 .. Len(w.pairs) : k <= w.mixed /\ x = w.pairs[k]
    BY <1>11, MixedOf
  <2>2. k \in 1 .. n /\ k \in 1 .. MaxPairs /\ k <= mixing.size
    BY <1>9, <1>11, <2>1
  <2>3. x = mic_buf[k] /\ mic_buf[k] \in Pairs
    BY <1>6, <1>11, <2>1, <2>2
  <2> QED
    BY <1>5, <2>2, <2>3 DEF Pairs
<1>13. ~ w.overtaken => \A k \in 1 .. Len(w.pairs) : w.pairs[k] = <<w.since, k>>
  <2> SUFFICES ASSUME ~ w.overtaken, NEW k \in 1 .. Len(w.pairs) PROVE w.pairs[k] = <<w.since, k>>
    OBVIOUS
  <2>1. frames = mixing.since /\ k \in 1 .. MaxPairs /\ k <= mixing.size
    BY <1>2, <1>9, <1>11
  <2>2. mic_buf[k][1] = mixing.since /\ mic_buf[k][2] = k /\ mic_buf[k] \in Pairs
    BY <1>2, <1>5, <1>6, <2>1 DEF Pairs
  <2>3. mic_buf[k] = <<mic_buf[k][1], mic_buf[k][2]>>
    BY <2>2 DEF Pairs
  <2> QED
    BY <1>11, <2>2, <2>3
<1>14. played' = Append(played, w)
  BY <1>7, <1>8
<1>15. /\ played' \in Seq(HeadsetWrites) /\ Len(played') = Len(played) + 1 /\ Len(played) \in Nat
       /\ \A i \in 1 .. Len(played) : played'[i] = played[i]
       /\ played'[Len(played) + 1] = w
  BY <1>3, <1>11, <1>14
<1>16. \A i \in 1 .. Len(played') : i \in 1 .. Len(played) \/ i = Len(played) + 1
  BY <1>15
<1>17. PlayedUpTo(played', frames, Announced)
  <2> SUFFICES ASSUME NEW i \in 1 .. Len(played'), NEW x \in Mixed(played'[i])
               PROVE  x[1] \in Nat /\ x[1] <= frames /\ (~ played'[i].overtaken => x[1] <= Announced)
    BY DEF PlayedUpTo
  <2>1. CASE i \in 1 .. Len(played)
    <3>1. played'[i] = played[i]
      BY <1>15, <2>1
    <3> QED
      BY <1>3, <2>1, <3>1 DEF PlayedUpTo
  <2>2. CASE i = Len(played) + 1
    <3>1. played'[i] = w
      BY <1>15, <2>2
    <3>2. x[1] \in Nat /\ x[1] <= frames
      BY <1>12, <3>1
    <3>3. ~ w.overtaken => x[1] <= Announced
      BY <1>2, <1>5, <1>11, <3>2
    <3> QED
      BY <3>1, <3>2, <3>3
  <2> QED
    BY <1>16, <2>1, <2>2
<1>18. PlayedOnce(played')
  <2>1. ASSUME NEW i \in 1 .. Len(played'), ~ played'[i].overtaken
        PROVE  \A k \in 1 .. Len(played'[i].pairs) : played'[i].pairs[k] = <<played'[i].since, k>>
    <3>1. CASE i \in 1 .. Len(played)
      <4>1. played'[i] = played[i]
        BY <1>15, <3>1
      <4> QED
        BY <1>3, <2>1, <3>1, <4>1 DEF PlayedOnce
    <3>2. CASE i = Len(played) + 1
      <4>1. played'[i] = w
        BY <1>15, <3>2
      <4> QED
        BY <1>13, <2>1, <4>1
    <3> QED
      BY <1>16, <3>1, <3>2
  <2>2. ASSUME NEW i \in 1 .. Len(played'), NEW j \in 1 .. Len(played'), i < j,
               NEW x \in Mixed(played'[i]), NEW y \in Mixed(played'[j])
        PROVE  x[1] < y[1] \/ (x[1] = y[1] /\ played'[i].overtaken)
    <3>1. i \in 1 .. Len(played)
      BY <1>15, <1>16, <2>2
    <3>2. played'[i] = played[i]
      BY <1>15, <3>1
    <3>3. CASE j \in 1 .. Len(played)
      <4>1. played'[j] = played[j]
        BY <1>15, <3>3
      <4> QED
        BY <1>3, <2>2, <3>1, <3>2, <3>3, <4>1 DEF PlayedOnce
    <3>4. CASE j = Len(played) + 1
      <4>1. y \in Mixed(w)
        BY <1>15, <3>4
      <4>2. y[1] \in Nat /\ y[1] >= mixing.since
        BY <1>12, <4>1
      <4>3. x[1] \in Nat /\ x[1] <= mixing.since /\ (~ played[i].overtaken => x[1] <= mixing.since - 1)
        BY <1>5, <3>1, <3>2 DEF PlayedUpTo
      <4>4. CASE played[i].overtaken
        BY <1>2, <3>2, <4>2, <4>3, <4>4
      <4>5. CASE ~ played[i].overtaken
        BY <1>2, <4>2, <4>3, <4>5
      <4> QED
        BY <4>4, <4>5
    <3> QED
      BY <1>16, <3>3, <3>4
  <2> QED
    BY <2>1, <2>2 DEF PlayedOnce
<1>19. mixing' \in Mixings /\ mixing'.place = "clear"
  <2>1. 0 \in 0 .. MaxPairs /\ 0 \in 0 .. MaxFrames /\ 1 \in 1 .. MaxPairs + 1
    OBVIOUS
  <2> QED
    BY <1>1, <2>1 DEF Polling, Mixings
<1>20. Announced' = Announced
  BY <1>1 DEF Announced
<1>21. SpkInv'
  BY <1>1, <1>3, <1>20 DEF SpkInv
<1>22. HeadsetInv'
  BY <1>1, <1>15, <1>17, <1>18, <1>19, <1>20, <1>21 DEF HeadsetInv
<1>23. AudioTypeOK'
  BY <1>1, <1>19, Zenon DEF AudioTypeOK, Mixings
<1> QED
  BY <1>22, <1>23

\* How the bytes of a frame divide into samples.
LEMMA SampleFacts ==
  /\ \A i \in Nat : i > 0 => ByteAt(i) \in 1 .. SampleBytes /\ SampleAt(i) \in Nat
  /\ ByteAt(1) = 1
  /\ \A q, i \in Nat : i > 0 => ByteAt(q * SampleBytes + i) = ByteAt(i)
  /\ \A q \in Nat : q > 0 => ByteAt(q * SampleBytes) = SampleBytes
  /\ \A i, j \in Nat : i > 0 /\ i < j /\ ByteAt(j) = 1 => SampleAt(i) < SampleAt(j)
<1> DEFINE P == SampleBytes
<1>1. P \in Nat /\ P > 0
  BY AudioConstants
<1> HIDE DEF P
<1>2. \A x, q \in Nat : \A r \in 0 .. (P - 1) : x = q * P + r => x % P = r /\ x \div P = q
  BY <1>1
<1>3. \A x \in Nat : \E q \in Nat, r \in 0 .. (P - 1) : x = q * P + r
  <2> TAKE x \in Nat
  <2>1. \A n \in Nat : n \div P \in Nat
    BY <1>1
  <2>2. \A n, q \in Nat : q = n \div P => q * P <= n /\ n < q * P + P
    BY <1>1
  <2>3. \A q \in Nat : q * P \in Nat
    BY <1>1
  <2>4. PICK q \in Nat : q = x \div P
    BY <2>1
  <2>5. q * P <= x /\ x < q * P + P /\ q * P \in Nat
    BY <2>2, <2>3, <2>4
  <2>6. x - q * P \in 0 .. (P - 1) /\ x = q * P + (x - q * P)
    BY <1>1, <2>5
  <2> QED
    BY <2>6
<1>4. \A a, b \in Nat : (a + b) * P = a * P + b * P /\ a * P \in Nat
  BY <1>1
<1>5. \A x \in Nat : x % P \in 0 .. (P - 1) /\ x \div P \in Nat
  BY <1>1
<1>6. \A i \in Nat : i > 0 => ByteAt(i) \in 1 .. P /\ SampleAt(i) \in Nat
  <2> TAKE i \in Nat
  <2> HAVE i > 0
  <2>1. i - 1 \in Nat
    OBVIOUS
  <2>2. (i - 1) % P \in 0 .. (P - 1) /\ (i - 1) \div P \in Nat
    BY <1>5, <2>1
  <2> QED
    BY <1>1, <2>2 DEF ByteAt, SampleAt, P
<1>7. ByteAt(1) = 1
  <2>1. 0 = 0 * P + 0 /\ 0 \in 0 .. (P - 1) /\ 1 - 1 = 0
    BY <1>1
  <2>2. 0 % P = 0
    BY <1>2, <2>1
  <2> QED
    BY <2>1, <2>2 DEF ByteAt, P
<1>8. \A q, i \in Nat : i > 0 => ByteAt(q * P + i) = ByteAt(i)
  <2> TAKE q, i \in Nat
  <2> HAVE i > 0
  <2>1. PICK a \in Nat, r \in 0 .. (P - 1) : i - 1 = a * P + r
    <3>1. i - 1 \in Nat
      OBVIOUS
    <3> QED
      BY <1>3, <3>1
  <2>2. q * P \in Nat /\ a * P \in Nat /\ (q + a) * P = q * P + a * P /\ q + a \in Nat
    <3>1. q + a \in Nat
      OBVIOUS
    <3> QED
      BY <1>4, <3>1, Zenon
  <2>3. (q * P + i) - 1 = (q + a) * P + r /\ (q * P + i) - 1 \in Nat
    BY <1>1, <2>1, <2>2
  <2>4. (i - 1) % P = r /\ ((q * P + i) - 1) % P = r
    BY <1>2, <2>1, <2>2, <2>3
  <2> QED
    BY <2>4 DEF ByteAt, P
<1>9. \A q \in Nat : q > 0 => ByteAt(q * P) = P
  <2> TAKE q \in Nat
  <2> HAVE q > 0
  <2>1. q - 1 \in Nat /\ q = (q - 1) + 1
    OBVIOUS
  <2>2. q * P = (q - 1) * P + P /\ (q - 1) * P \in Nat
    BY <1>1, <1>4, <2>1
  <2>3. q * P - 1 = (q - 1) * P + (P - 1) /\ P - 1 \in 0 .. (P - 1) /\ q * P - 1 \in Nat
    BY <1>1, <2>2
  <2>4. (q * P - 1) % P = P - 1
    BY <1>2, <2>1, <2>3
  <2>5. (P - 1) + 1 = P
    BY <1>1
  <2>6. ByteAt(q * P) = ((q * P - 1) % P) + 1
    BY DEF ByteAt, P
  <2> QED
    BY <2>4, <2>5, <2>6
<1>10. \A i, j \in Nat : i > 0 /\ i < j /\ ByteAt(j) = 1 => SampleAt(i) < SampleAt(j)
  <2> TAKE i, j \in Nat
  <2> HAVE i > 0 /\ i < j /\ ByteAt(j) = 1
  <2>1. i - 1 \in Nat /\ j - 1 \in Nat /\ i - 1 < j - 1
    OBVIOUS
  <2>2. PICK a \in Nat, r \in 0 .. (P - 1) : i - 1 = a * P + r
    BY <1>3, <2>1
  <2>3. PICK b \in Nat, t \in 0 .. (P - 1) : j - 1 = b * P + t
    BY <1>3, <2>1
  <2>4. (i - 1) \div P = a /\ (j - 1) \div P = b /\ (j - 1) % P = t
    BY <1>2, <2>1, <2>2, <2>3
  <2>5. t = 0
    <3>1. t + 1 = 1
      BY <2>4 DEF ByteAt, P
    <3> QED
      BY <1>1, <3>1
  <2>6. ASSUME b <= a PROVE FALSE
    <3>1. PICK d \in Nat : a = b + d
      <4>1. a - b \in Nat /\ a = b + (a - b)
        BY <2>6
      <4> QED
        BY <4>1
    <3>2. a * P = b * P + d * P /\ d * P \in Nat /\ b * P \in Nat
      BY <1>4, <3>1
    <3> QED
      BY <1>1, <2>1, <2>2, <2>3, <2>5, <3>2
  <2>7. a < b
    BY <2>6
  <2> QED
    BY <2>4, <2>7 DEF SampleAt, P
<1> QED
  BY <1>6, <1>7, <1>8, <1>9, <1>10 DEF P

LEMMA WholeFacts ==
  /\ \A q \in Nat : q * SampleBytes \in Nat /\ WholeSamples(q * SampleBytes)
  /\ \A n \in Nat : WholeSamples(n) => \E q \in Nat : n = q * SampleBytes
  /\ \A m, n \in Nat : WholeSamples(m) /\ WholeSamples(n) => WholeSamples(m + n)
  /\ \A m, n \in Nat : WholeSamples(m) /\ WholeSamples(n) /\ n <= m => WholeSamples(m - n)
<1> DEFINE P == SampleBytes
<1>1. P \in Nat /\ P > 0
  BY AudioConstants
<1> HIDE DEF P
<1>2. \A q \in Nat : q * P \in Nat /\ q <= q * P
  BY <1>1
<1>3. \A q \in Nat : WholeSamples(q * P)
  <2> TAKE q \in Nat
  <2>1. q \in 0 .. q * P
    BY <1>2
  <2> QED
    BY <2>1, Zenon DEF WholeSamples, P
<1>4. \A n \in Nat : WholeSamples(n) => \E q \in Nat : n = q * P
  BY DEF WholeSamples, P
<1>5. \A a, b \in Nat : (a + b) * P = a * P + b * P /\ (b <= a => (a - b) * P = a * P - b * P)
  BY <1>1
<1>6. \A m, n \in Nat : WholeSamples(m) /\ WholeSamples(n) => WholeSamples(m + n)
  <2> TAKE m, n \in Nat
  <2> HAVE WholeSamples(m) /\ WholeSamples(n)
  <2>1. PICK a \in Nat : m = a * P
    BY <1>4
  <2>2. PICK b \in Nat : n = b * P
    BY <1>4
  <2>3. m + n = (a + b) * P /\ a + b \in Nat
    BY <1>5, <2>1, <2>2
  <2> QED
    BY <1>3, <2>3
<1>7. \A m, n \in Nat : WholeSamples(m) /\ WholeSamples(n) /\ n <= m => WholeSamples(m - n)
  <2> TAKE m, n \in Nat
  <2> HAVE WholeSamples(m) /\ WholeSamples(n) /\ n <= m
  <2>1. PICK a \in Nat : m = a * P
    BY <1>4
  <2>2. PICK b \in Nat : n = b * P
    BY <1>4
  <2>3. ASSUME a < b PROVE m = n
    <3>1. PICK d \in Nat : b = a + d
      <4>1. b - a \in Nat /\ b = a + (b - a)
        BY <2>3
      <4> QED
        BY <4>1
    <3>2. b * P = a * P + d * P /\ d * P \in Nat
      BY <1>2, <1>5, <3>1
    <3> QED
      BY <2>1, <2>2, <3>2
  <2>4. CASE a < b
    <3>1. m - n = 0 /\ 0 = 0 * P
      BY <1>1, <2>3, <2>4
    <3> QED
      BY <1>3, <3>1
  <2>5. CASE b <= a
    <3>1. a - b \in Nat /\ m - n = (a - b) * P
      BY <1>5, <2>1, <2>2, <2>5
    <3> QED
      BY <1>3, <3>1
  <2> QED
    BY <2>4, <2>5
<1> QED
  BY <1>2, <1>3, <1>4, <1>6, <1>7 DEF P

\* What sequences of bytes do when they are joined and cut.
LEMMA BytesJoined ==
  \A s, t \in Seq(AudioBytes) :
    /\ s \o t \in Seq(AudioBytes) /\ Len(s \o t) = Len(s) + Len(t)
    /\ \A i \in 1 .. Len(s) : (s \o t)[i] = s[i]
    /\ \A i \in 1 .. Len(t) : (s \o t)[Len(s) + i] = t[i]
OBVIOUS

LEMMA BytesTaken ==
  \A s \in Seq(AudioBytes), n \in Nat :
    n <= Len(s) => /\ SubSeq(s, 1, n) \in Seq(AudioBytes) /\ Len(SubSeq(s, 1, n)) = n
                   /\ \A i \in 1 .. n : SubSeq(s, 1, n)[i] = s[i]
OBVIOUS

LEMMA BytesLeft ==
  \A s \in Seq(AudioBytes), n \in Nat :
    n <= Len(s) => /\ SubSeq(s, n + 1, Len(s)) \in Seq(AudioBytes)
                   /\ Len(SubSeq(s, n + 1, Len(s))) = Len(s) - n
                   /\ \A i \in 1 .. Len(s) - n : SubSeq(s, n + 1, Len(s))[i] = s[n + i]
OBVIOUS

\* A frame is taken and, where the host listens, kept.
LEMMA TakeFrameStep ==
  ASSUME AudioTypeOK, MicInv, TakeFrame
  PROVE  AudioTypeOK' /\ MicInv'
<1>1. /\ captured = 0 /\ frames < MaxFrames /\ frames' = frames + 1
      /\ captured' = 0 \/ captured' = frames + 1
      /\ UNCHANGED <<audioDemo, alternates, arriving, spk_buf, spk_data_size, mic_buf, mixing, played>>
      /\ UNCHANGED <<interface_open, sample_stream_buf, packet, lastSent>>
  BY DEF TakeFrame, headset
<1>2. frames \in 0 .. MaxFrames /\ frames \in Nat /\ MaxFrames \in Nat
  BY AudioConstants DEF AudioTypeOK
<1>3. LastOut' = LastOut
  BY <1>1 DEF LastOut
<1>4. /\ \A i \in 1 .. Len(sample_stream_buf) : sample_stream_buf[i] \in AudioBytes
      /\ LastOut # << >> => LastOut \in AudioBytes
  <2>1. packet # << >> => Last(packet) \in AudioBytes
    BY DEF MicInv, Last
  <2> QED
    BY <2>1 DEF MicInv, LastOut
<1>5. ASSUME NEW i \in 1 .. Len(sample_stream_buf) PROVE ByteInPlace(i)'
  <2>1. ByteInPlace(i) /\ sample_stream_buf[i][1] \in Nat
    BY <1>4 DEF MicInv, AudioBytes
  <2> QED
    BY <1>1, <1>2, <1>3, <2>1 DEF ByteInPlace, ByteAt, Earlier
<1>6. LastOut' # << >> => LastOut'[1] <= frames' /\ (captured' # 0 => LastOut'[1] < captured')
  <2>1. LastOut # << >> => LastOut[1] \in Nat /\ LastOut[1] <= frames
    BY <1>4 DEF MicInv, AudioBytes
  <2> QED
    BY <1>1, <1>2, <1>3, <2>1
<1>7. captured' <= frames' /\ captured' \in 0 .. MaxFrames /\ frames' \in 0 .. MaxFrames
  BY <1>1, <1>2
<1>8. MicInv'
  BY <1>1, <1>5, <1>6, <1>7 DEF MicInv, WholeSamples, Earlier
<1>9. AudioTypeOK'
  BY <1>1, <1>7, Zenon DEF AudioTypeOK
<1> QED
  BY <1>8, <1>9

\* What there is room for of the frame goes behind what the buffer holds.
LEMMA BufferFrameStep ==
  ASSUME AudioTypeOK, MicInv, BufferFrame
  PROVE  AudioTypeOK' /\ MicInv'
<1> DEFINE B == FrameSamples * SampleBytes
           len == Len(sample_stream_buf)
           m == Min({StreamBytes - len, Len(Bytes(captured))})
           new == SubSeq(Bytes(captured), 1, m)
<1>1. /\ captured # 0 /\ captured' = 0
      /\ sample_stream_buf' = sample_stream_buf \o new
      /\ UNCHANGED <<audioDemo, frames, alternates, arriving, spk_buf, spk_data_size, mic_buf, mixing, played>>
      /\ UNCHANGED <<interface_open, packet, lastSent>>
  BY DEF BufferFrame, headset
<1>2. /\ captured \in Nat /\ frames \in Nat /\ captured <= frames
      /\ sample_stream_buf \in Seq(AudioBytes) /\ len \in Nat /\ len <= StreamBytes
      /\ WholeSamples(len) \/ len = StreamBytes
  BY AudioConstants DEF AudioTypeOK, MicInv
<1>3. LastOut' = LastOut /\ (LastOut # << >> => LastOut \in AudioBytes)
  <2>1. packet # << >> => Last(packet) \in AudioBytes
    BY DEF MicInv, Last
  <2> QED
    BY <1>1, <2>1 DEF MicInv, LastOut
<1>4. B \in Nat /\ WholeSamples(B)
  BY AudioConstants, WholeFacts
<1> HIDE DEF B
<1>5. /\ Bytes(captured) \in Seq(AudioBytes) /\ Len(Bytes(captured)) = B
      /\ \A i \in 1 .. B : Bytes(captured)[i] = <<captured, SampleAt(i), ByteAt(i)>>
  <2>1. Bytes(captured) = [i \in 1 .. B |-> <<captured, SampleAt(i), ByteAt(i)>>]
    BY DEF Bytes, SampleAt, ByteAt, B
  <2>2. \A i \in 1 .. B : SampleAt(i) \in Nat /\ ByteAt(i) \in Nat
    <3> TAKE i \in 1 .. B
    <3>1. i \in Nat /\ i > 0
      BY <1>4
    <3>2. ByteAt(i) \in 1 .. SampleBytes /\ SampleAt(i) \in Nat
      BY <3>1, SampleFacts
    <3> QED
      BY <3>2, AudioConstants
  <2>3. \A i \in 1 .. B : <<captured, SampleAt(i), ByteAt(i)>> \in AudioBytes
    BY <1>2, <2>2 DEF AudioBytes
  <2>4. \A n \in Nat : \A f \in [1 .. n -> AudioBytes] : f \in Seq(AudioBytes) /\ Len(f) = n
    OBVIOUS
  <2>5. [i \in 1 .. B |-> <<captured, SampleAt(i), ByteAt(i)>>] \in [1 .. B -> AudioBytes]
    BY <2>3
  <2> QED
    BY <1>4, <2>1, <2>4, <2>5
<1>6. /\ m \in Nat /\ m <= B /\ (m = B \/ len + m = StreamBytes) /\ len + m <= StreamBytes
      /\ len = StreamBytes => m = 0
  <2>1. StreamBytes - len \in Nat
    BY <1>2, AudioConstants
  <2>2. m \in Nat /\ m = IF StreamBytes - len <= B THEN StreamBytes - len ELSE B
    BY <1>4, <1>5, <2>1, MinOfTwo
  <2> HIDE DEF m
  <2> QED
    BY <1>2, <1>4, <2>1, <2>2, AudioConstants
<1> HIDE DEF m
<1>7. /\ new \in Seq(AudioBytes) /\ Len(new) = m
      /\ \A i \in 1 .. m : new[i] = <<captured, SampleAt(i), ByteAt(i)>>
  <2>1. /\ new \in Seq(AudioBytes) /\ Len(new) = m
        /\ \A i \in 1 .. m : new[i] = Bytes(captured)[i]
    BY <1>5, <1>6, BytesTaken
  <2>2. \A i \in 1 .. m : i \in 1 .. B
    BY <1>4, <1>6
  <2> QED
    BY <1>5, <2>1, <2>2
<1> HIDE DEF new
<1>8. /\ sample_stream_buf' \in Seq(AudioBytes) /\ Len(sample_stream_buf') = len + m
      /\ \A i \in 1 .. len : sample_stream_buf'[i] = sample_stream_buf[i]
      /\ \A i \in 1 .. m : sample_stream_buf'[len + i] = <<captured, SampleAt(i), ByteAt(i)>>
  <2>1. /\ sample_stream_buf' \in Seq(AudioBytes) /\ Len(sample_stream_buf') = len + Len(new)
        /\ \A i \in 1 .. len : sample_stream_buf'[i] = sample_stream_buf[i]
        /\ \A i \in 1 .. Len(new) : sample_stream_buf'[len + i] = new[i]
    BY <1>1, <1>2, <1>7, BytesJoined
  <2> QED
    BY <1>7, <2>1
<1>9. ASSUME NEW i \in 1 .. Len(sample_stream_buf') PROVE ByteInPlace(i)'
  <2>1. CASE i \in 1 .. len
    <3>1. ByteInPlace(i) /\ \A j \in 1 .. i : j \in 1 .. len
      BY <1>2, <2>1 DEF MicInv
    <3>2. \A j \in 1 .. i : sample_stream_buf'[j] = sample_stream_buf[j]
      BY <1>8, <3>1
    <3>3. i \in 1 .. i /\ \A j \in 1 .. i - 1 : j \in 1 .. i
      BY <1>2, <2>1
    <3> QED
      BY <1>1, <1>3, <3>1, <3>2, <3>3 DEF ByteInPlace, ByteAt, Earlier
  <2>2. CASE i \notin 1 .. len
    <3>1. PICK k \in 1 .. m : i = len + k
      <4>1. i - len \in 1 .. m /\ i = len + (i - len)
        BY <1>2, <1>6, <1>8, <2>2
      <4> QED
        BY <4>1
    <3>2. k \in Nat /\ k > 0
      BY <1>6
    <3>3. WholeSamples(len)
      BY <1>2, <1>6
    <3>4. PICK q \in Nat : len = q * SampleBytes
      BY <1>2, <3>3, WholeFacts
    <3>5. ByteAt(i) = ByteAt(k)
      BY <3>1, <3>2, <3>4, SampleFacts
    <3>6. sample_stream_buf'[i] = <<captured, SampleAt(k), ByteAt(k)>>
      BY <1>8, <3>1
    <3>7. ASSUME ByteAt(i) = 1, NEW j \in 1 .. i - 1
          PROVE  Earlier(sample_stream_buf'[j], sample_stream_buf'[i])
      <4>1. CASE j \in 1 .. len
        <5>1. sample_stream_buf'[j] = sample_stream_buf[j] /\ ByteInPlace(j)
          BY <1>8, <4>1 DEF MicInv
        <5> QED
          BY <1>1, <3>6, <5>1 DEF ByteInPlace, Earlier
      <4>2. CASE j \notin 1 .. len
        <5>1. PICK h \in 1 .. m : j = len + h
          <6>1. j - len \in 1 .. m /\ j = len + (j - len)
            BY <1>2, <1>6, <3>1, <4>2
          <6> QED
            BY <6>1
        <5>2. h \in Nat /\ h > 0 /\ h < k
          BY <1>2, <1>6, <3>1, <5>1
        <5>3. SampleAt(h) < SampleAt(k)
          BY <3>2, <3>5, <3>7, <5>2, SampleFacts
        <5>4. sample_stream_buf'[j] = <<captured, SampleAt(h), ByteAt(h)>>
          BY <1>8, <5>1
        <5> QED
          BY <3>6, <5>3, <5>4 DEF Earlier
      <4> QED
        BY <4>1, <4>2
    <3>8. LastOut # << >> => Earlier(LastOut, sample_stream_buf'[i])
      BY <1>1, <3>6 DEF MicInv, Earlier
    <3>9. ByteAt(i)' = ByteAt(i)
      BY DEF ByteAt
    <3> QED
      BY <1>1, <1>2, <1>3, <3>5, <3>6, <3>7, <3>8, <3>9 DEF ByteInPlace, Earlier
  <2> QED
    BY <2>1, <2>2
<1>10. WholeSamples(Len(sample_stream_buf')) \/ Len(sample_stream_buf') = StreamBytes
  <2>1. CASE len = StreamBytes
    BY <1>2, <1>6, <1>8, <2>1
  <2>2. CASE WholeSamples(len)
    BY <1>2, <1>4, <1>6, <1>8, <2>2, WholeFacts
  <2> QED
    BY <1>2, <2>1, <2>2
<1>11. /\ captured' <= frames' /\ Len(sample_stream_buf') <= StreamBytes
       /\ LastOut' # << >> => LastOut'[1] <= frames'
  BY <1>1, <1>2, <1>3, <1>6, <1>8 DEF MicInv
<1>12. MicInv'
  <2>1. /\ packet' \in Seq(AudioBytes) /\ (lastSent' = << >> \/ lastSent' \in AudioBytes)
        /\ packet' # << >> =>
             /\ packet'[1][3] = 1 /\ Last(packet')[3] = SampleBytes
             /\ lastSent' # << >> => Earlier(lastSent', packet'[1])
    BY <1>1 DEF MicInv
  <2> QED
    BY <1>1, <1>8, <1>9, <1>10, <1>11, <2>1 DEF MicInv, WholeSamples, Earlier
<1>13. AudioTypeOK'
  <2>1. captured' \in 0 .. MaxFrames
    BY <1>1, AudioConstants
  <2> QED
    BY <1>1, <1>11, <2>1, Zenon DEF AudioTypeOK
<1> QED
  BY <1>12, <1>13

\* Whole samples are taken out, or all of a buffer that is full.
LEMMA SendSamplesStep ==
  ASSUME AudioTypeOK, MicInv, tud_audio_tx_done_pre_load_cb
  PROVE  AudioTypeOK' /\ MicInv'
<1> DEFINE len == Len(sample_stream_buf)
           n == Min({BytesToSend, len})
<1>1. /\ interface_open' = TRUE
      /\ UNCHANGED <<audioDemo, frames, alternates, arriving, spk_buf, spk_data_size, mic_buf, mixing, played, captured>>
  BY DEF tud_audio_tx_done_pre_load_cb, headset
<1>2. /\ captured \in Nat /\ frames \in Nat /\ captured <= frames
      /\ sample_stream_buf \in Seq(AudioBytes) /\ len \in Nat /\ len <= StreamBytes
      /\ WholeSamples(len) \/ len = StreamBytes
      /\ packet \in Seq(AudioBytes) /\ (lastSent = << >> \/ lastSent \in AudioBytes)
  BY AudioConstants DEF AudioTypeOK, MicInv
<1>3. ASSUME len = StreamBytes
      PROVE  AudioTypeOK' /\ MicInv'
  <2>1. sample_stream_buf' = << >> /\ UNCHANGED <<packet, lastSent>>
    BY <1>3 DEF tud_audio_tx_done_pre_load_cb
  <2>2. LastOut' = LastOut
    BY <2>1 DEF LastOut
  <2>3. /\ sample_stream_buf' \in Seq(AudioBytes) /\ Len(sample_stream_buf') = 0
        /\ Len(sample_stream_buf') <= StreamBytes
    BY <2>1, AudioConstants
  <2>4. WholeSamples(Len(sample_stream_buf')) /\ \A i \in 1 .. Len(sample_stream_buf') : FALSE
    <3>1. 0 = 0 * SampleBytes
      BY AudioConstants
    <3>2. WholeSamples(0)
      BY <3>1, WholeFacts
    <3> QED
      BY <2>3, <3>2
  <2>5. MicInv'
    BY <1>1, <1>2, <2>1, <2>2, <2>3, <2>4 DEF MicInv, WholeSamples, Earlier
  <2>6. AudioTypeOK'
    BY <1>1, <2>3, Zenon DEF AudioTypeOK
  <2> QED
    BY <2>5, <2>6
<1>4. ASSUME len # StreamBytes
      PROVE  AudioTypeOK' /\ MicInv'
  <2>1. /\ lastSent' = IF packet = << >> THEN lastSent ELSE Last(packet)
        /\ packet' = SubSeq(sample_stream_buf, 1, n)
        /\ sample_stream_buf' = SubSeq(sample_stream_buf, n + 1, len)
    BY <1>4 DEF tud_audio_tx_done_pre_load_cb
  <2>2. WholeSamples(len)
    BY <1>2, <1>4
  <2>3. BytesToSend \in Nat /\ WholeSamples(BytesToSend)
    <3>1. BytesToSend = FrameSamples * SampleBytes \/ BytesToSend = ExtraSamples * SampleBytes
      BY DEF BytesToSend
    <3> QED
      BY <3>1, AudioConstants, WholeFacts
  <2>4. n \in Nat /\ n <= len /\ WholeSamples(n)
    BY <1>2, <2>2, <2>3, MinOfTwo
  <2> HIDE DEF n
  <2>5. PICK q \in Nat : n = q * SampleBytes
    BY <2>4, WholeFacts
  <2>6. /\ packet' \in Seq(AudioBytes) /\ Len(packet') = n
        /\ \A i \in 1 .. n : packet'[i] = sample_stream_buf[i]
        /\ sample_stream_buf' \in Seq(AudioBytes) /\ Len(sample_stream_buf') = len - n
        /\ \A i \in 1 .. len - n : sample_stream_buf'[i] = sample_stream_buf[n + i]
        /\ packet' # << >> <=> n # 0
    <3>1. /\ packet' \in Seq(AudioBytes) /\ Len(packet') = n
          /\ \A i \in 1 .. n : packet'[i] = sample_stream_buf[i]
          /\ sample_stream_buf' \in Seq(AudioBytes) /\ Len(sample_stream_buf') = len - n
          /\ \A i \in 1 .. len - n : sample_stream_buf'[i] = sample_stream_buf[n + i]
      BY <1>2, <2>1, <2>4, BytesTaken, BytesLeft
    <3>2. packet' = << >> <=> Len(packet') = 0
      BY <3>1
    <3> QED
      BY <3>1, <3>2
  <2>7. lastSent' = LastOut /\ (LastOut = << >> \/ LastOut \in AudioBytes)
    <3>1. packet # << >> => Last(packet) \in AudioBytes
      BY <1>2 DEF Last
    <3> QED
      BY <1>2, <2>1, <3>1 DEF LastOut
  <2>8. \A i \in 1 .. len : ByteInPlace(i) /\ sample_stream_buf[i] \in AudioBytes
    BY <1>2 DEF MicInv
  <2>9. ASSUME n # 0
        PROVE  /\ packet'[1] = sample_stream_buf[1] /\ Last(packet') = sample_stream_buf[n]
               /\ packet'[1][3] = 1 /\ Last(packet')[3] = SampleBytes
               /\ LastOut # << >> => Earlier(LastOut, packet'[1])
               /\ LastOut' = sample_stream_buf[n] /\ n \in 1 .. len
    <3>1. 1 \in 1 .. n /\ n \in 1 .. n /\ 1 \in 1 .. len /\ n \in 1 .. len /\ q > 0
      <4>1. q # 0
        BY <2>5, <2>9, AudioConstants
      <4> QED
        BY <1>2, <2>4, <2>9, <4>1
    <3>2. packet'[1] = sample_stream_buf[1] /\ Last(packet') = sample_stream_buf[n]
      BY <2>6, <3>1 DEF Last
    <3>3. ByteInPlace(1) /\ ByteInPlace(n)
      BY <2>8, <3>1
    <3>4. ByteAt(1) = 1 /\ ByteAt(n) = SampleBytes
      BY <2>5, <3>1, SampleFacts
    <3>5. LastOut' = Last(packet')
      BY <2>6, <2>9 DEF LastOut
    <3> QED
      BY <3>1, <3>2, <3>3, <3>4, <3>5 DEF ByteInPlace
  <2>10. n = 0 => LastOut' = LastOut
    BY <2>6, <2>7 DEF LastOut
  <2>11. LastOut' # << >> => LastOut'[1] <= frames' /\ (captured' # 0 => LastOut'[1] < captured')
    <3>1. CASE n = 0
      BY <1>1, <2>10, <3>1 DEF MicInv
    <3>2. CASE n # 0
      <4>1. LastOut' = sample_stream_buf[n] /\ ByteInPlace(n)
        BY <2>8, <2>9, <3>2
      <4> QED
        BY <1>1, <4>1 DEF ByteInPlace
    <3> QED
      BY <3>1, <3>2
  <2>12. ASSUME NEW i \in 1 .. Len(sample_stream_buf') PROVE ByteInPlace(i)'
    <3>1. i \in Nat /\ i > 0 /\ i \in 1 .. len - n /\ n + i \in 1 .. len
      BY <1>2, <2>4, <2>6
    <3>2. sample_stream_buf'[i] = sample_stream_buf[n + i] /\ ByteInPlace(n + i)
      BY <2>6, <2>8, <3>1
    <3>3. ByteAt(n + i) = ByteAt(i) /\ ByteAt(i)' = ByteAt(i)
      <4>1. ByteAt(n + i) = ByteAt(i)
        BY <2>5, <3>1, SampleFacts
      <4> QED
        BY <4>1 DEF ByteAt
    <3>4. ASSUME ByteAt(i) = 1, NEW j \in 1 .. i - 1
          PROVE  Earlier(sample_stream_buf'[j], sample_stream_buf'[i])
      <4>1. j \in 1 .. len - n /\ n + j \in 1 .. (n + i) - 1
        BY <1>2, <2>4, <3>1
      <4>2. sample_stream_buf'[j] = sample_stream_buf[n + j]
        BY <2>6, <4>1
      <4>3. Earlier(sample_stream_buf[n + j], sample_stream_buf[n + i])
        BY <3>2, <3>3, <3>4, <4>1 DEF ByteInPlace
      <4> QED
        BY <3>2, <4>2, <4>3
    <3>5. ASSUME ByteAt(i) = 1, LastOut' # << >>
          PROVE  Earlier(LastOut', sample_stream_buf'[i])
      <4>1. CASE n = 0
        BY <2>10, <3>2, <3>3, <3>5, <4>1 DEF ByteInPlace
      <4>2. CASE n # 0
        <5>1. n \in 1 .. (n + i) - 1 /\ LastOut' = sample_stream_buf[n]
          BY <1>2, <2>9, <3>1, <4>2
        <5>2. Earlier(sample_stream_buf[n], sample_stream_buf[n + i])
          BY <3>2, <3>3, <3>5, <5>1 DEF ByteInPlace
        <5> QED
          BY <3>2, <5>1, <5>2
      <4> QED
        BY <4>1, <4>2
    <3>6. /\ sample_stream_buf'[i][3] = ByteAt(i) /\ sample_stream_buf'[i][1] <= frames'
          /\ captured' # 0 => sample_stream_buf'[i][1] < captured'
      BY <1>1, <3>2, <3>3 DEF ByteInPlace
    <3> QED
      BY <3>3, <3>4, <3>5, <3>6 DEF ByteInPlace, Earlier
  <2>13. WholeSamples(Len(sample_stream_buf')) /\ Len(sample_stream_buf') <= StreamBytes
    <3>1. WholeSamples(len - n) /\ len - n <= StreamBytes
      BY <1>2, <2>2, <2>4, WholeFacts, AudioConstants
    <3> QED
      BY <2>6, <3>1
  <2>14. packet' # << >> =>
           /\ packet'[1][3] = 1 /\ Last(packet')[3] = SampleBytes
           /\ lastSent' # << >> => Earlier(lastSent', packet'[1])
    BY <2>6, <2>7, <2>9
  <2>15. MicInv'
    BY <1>1, <1>2, <2>6, <2>7, <2>11, <2>12, <2>13, <2>14 DEF MicInv, WholeSamples, Earlier
  <2>16. AudioTypeOK'
    BY <1>1, <2>13, Zenon DEF AudioTypeOK
  <2> QED
    BY <2>15, <2>16
<1> QED
  BY <1>3, <1>4

LEMMA SetInterfaceStep ==
  ASSUME AudioTypeOK, MicInv, tud_audio_set_itf_cb
  PROVE  AudioTypeOK' /\ MicInv'
<1>1. /\ alternates < MaxInterfaces /\ alternates' = alternates + 1 /\ interface_open' = FALSE
      /\ sample_stream_buf' = << >>
      /\ UNCHANGED <<audioDemo, frames, arriving, spk_buf, spk_data_size, mic_buf, mixing, played, captured,
                     packet, lastSent>>
  BY DEF tud_audio_set_itf_cb, headset
<1>2. LastOut' = LastOut
  BY <1>1 DEF LastOut
<1>3. /\ sample_stream_buf' \in Seq(AudioBytes) /\ Len(sample_stream_buf') = 0
      /\ Len(sample_stream_buf') <= StreamBytes
  BY <1>1, AudioConstants
<1>4. WholeSamples(Len(sample_stream_buf')) /\ \A i \in 1 .. Len(sample_stream_buf') : FALSE
  <2>1. 0 = 0 * SampleBytes
    BY AudioConstants
  <2>2. WholeSamples(0)
    BY <2>1, WholeFacts
  <2> QED
    BY <1>3, <2>2
<1>5. MicInv'
  BY <1>1, <1>2, <1>3, <1>4 DEF MicInv, WholeSamples, Earlier
<1>6. AudioTypeOK'
  <2>1. alternates' \in 0 .. MaxInterfaces
    <3>1. alternates \in 0 .. MaxInterfaces
      BY DEF AudioTypeOK
    <3> QED
      BY <1>1, <3>1, AudioConstants
  <2> QED
    BY <1>1, <1>3, <2>1, Zenon DEF AudioTypeOK
<1> QED
  BY <1>5, <1>6

LEMMA AudioStep == AudioInv /\ [AudioNext]_audioVars => AudioInv'
<1>1. ASSUME AudioInv, UNCHANGED audioVars PROVE AudioInv'
  <2>1. /\ UNCHANGED <<audioDemo, frames, alternates, arriving, spk_buf, spk_data_size, mic_buf, mixing, played>>
        /\ UNCHANGED <<interface_open, captured, sample_stream_buf, packet, lastSent>>
    BY <1>1 DEF audioVars
  <2>2. AudioTypeOK'
    BY <1>1, <2>1, Zenon DEF AudioInv, AudioTypeOK
  <2>3. HeadsetInv => HeadsetInv'
    BY <2>1, Zenon DEF HeadsetInv, SpkInv, MixInv, Announced
  <2>4. MicInv => MicInv'
    BY <2>1, Zenon DEF MicInv, ByteInPlace, LastOut, Last, ByteAt, WholeSamples, Earlier
  <2> QED
    BY <1>1, <2>1, <2>2, <2>3, <2>4 DEF AudioInv
<1>2. ASSUME AudioInv, audioDemo = "headset", Headset PROVE AudioInv'
  <2>1. AudioTypeOK /\ HeadsetInv /\ packet = << >>
    BY <1>2 DEF AudioInv
  <2>2. AudioTypeOK' /\ HeadsetInv'
    BY <1>2, <2>1, HeadsetHostSteps, HeadsetMixSteps, HeadsetWriteStep DEF Headset
  <2>3. UNCHANGED <<packet, audioDemo>>
    BY <1>2 DEF Headset, tud_audio_rx_done_pre_read_cb, BeginFrame, ReadPair, AnnounceFrame,
                ClearOnSetInterface, StartMix, ReadLimit, MixPair, WriteMix, ClearFrame, microphone
  <2> QED
    BY <1>2, <2>1, <2>2, <2>3 DEF AudioInv
<1>3. ASSUME AudioInv, audioDemo = "microphone", Microphone PROVE AudioInv'
  <2>1. AudioTypeOK /\ MicInv /\ played = << >>
    BY <1>3 DEF AudioInv
  <2>2. AudioTypeOK' /\ MicInv'
    BY <1>3, <2>1, TakeFrameStep, BufferFrameStep, SendSamplesStep, SetInterfaceStep DEF Microphone
  <2>3. UNCHANGED <<played, audioDemo>>
    BY <1>3 DEF Microphone, TakeFrame, BufferFrame, tud_audio_tx_done_pre_load_cb,
                tud_audio_set_itf_cb, headset
  <2> QED
    BY <1>3, <2>1, <2>2, <2>3 DEF AudioInv
<1> QED
  BY <1>1, <1>2, <1>3 DEF AudioNext

LEMMA AudioInitInv == AudioInit => AudioInv
<1> SUFFICES ASSUME AudioInit PROVE AudioInv
  OBVIOUS
<1>1. /\ audioDemo \in AudioDemos /\ frames = 0 /\ alternates = 0 /\ arriving = NothingArriving
      /\ spk_buf = [k \in 1 .. MaxPairs |-> <<0, k>>] /\ spk_data_size = 0
      /\ mic_buf = [k \in 1 .. MaxPairs |-> <<0, k>>] /\ mixing = Polling
      /\ played = << >> /\ interface_open = FALSE /\ captured = 0
      /\ sample_stream_buf = << >> /\ packet = << >> /\ lastSent = << >>
  BY DEF AudioInit
<1>2. /\ mixing \in Mixings /\ mixing.place = "poll"
      /\ arriving \in [size : 0 .. MaxPairs, read : 0 .. MaxPairs] /\ arriving.read = 0 /\ arriving.size = 0
  <2>1. 0 \in 0 .. MaxPairs /\ 0 \in 0 .. MaxFrames /\ 1 \in 1 .. MaxPairs + 1
    BY AudioConstants
  <2> QED
    BY <1>1, <2>1 DEF Polling, Mixings, NothingArriving
<1>3. /\ Len(sample_stream_buf) = 0 /\ 0 <= StreamBytes /\ 0 \in 0 .. MaxFrames
      /\ 0 \in 0 .. MaxInterfaces /\ 0 \in 0 .. MaxPairs
  BY <1>1, AudioConstants
<1>4. AudioTypeOK
  BY <1>1, <1>2, <1>3 DEF AudioTypeOK, Mixings
<1>5. HeadsetInv
  <2>1. \A k \in 1 .. MaxPairs : <<0, k>> \in Pairs
    BY AudioConstants DEF Pairs
  <2>2. /\ spk_buf \in [1 .. MaxPairs -> Pairs] /\ mic_buf \in [1 .. MaxPairs -> Pairs]
        /\ \A k \in 1 .. MaxPairs : spk_buf[k] = <<0, k>> /\ ~ k <= 0
    BY <1>1, <2>1
  <2>3. Announced = 0
    BY <1>1 DEF Announced
  <2>4. SpkInv
    BY <1>1, <1>2, <2>2, <2>3 DEF SpkInv
  <2>5. played \in Seq(HeadsetWrites) /\ Len(played) = 0 /\ \A i \in 1 .. Len(played) : FALSE
    BY <1>1
  <2>6. PlayedOnce(played) /\ PlayedUpTo(played, frames, Announced)
    BY <2>5 DEF PlayedOnce, PlayedUpTo
  <2> QED
    BY <1>1, <1>2, <2>4, <2>5, <2>6 DEF HeadsetInv
<1>6. MicInv
  <2>1. WholeSamples(0)
    <3>1. 0 = 0 * SampleBytes
      BY AudioConstants
    <3> QED
      BY <3>1, WholeFacts
  <2>2. LastOut = << >> /\ sample_stream_buf \in Seq(AudioBytes) /\ packet \in Seq(AudioBytes)
    BY <1>1 DEF LastOut
  <2>3. \A i \in 1 .. Len(sample_stream_buf) : FALSE
    BY <1>3
  <2> QED
    BY <1>1, <1>3, <2>1, <2>2, <2>3 DEF MicInv
<1> QED
  BY <1>1, <1>4, <1>5, <1>6 DEF AudioInv

\* For frames of any sizes that come at any time, a buffer of any size and any number of
\* frames: what the headset mixed comes back once, but for what overtakes its mix, and the
\* microphone's audio in whole samples (the demos' audio_task and transfer callbacks).
THEOREM AudioOnce == AudioSpec => [](AudioTypeOK /\ NoAudioTwice)
<1>1. AudioInv => AudioTypeOK /\ NoAudioTwice
  <2> SUFFICES ASSUME AudioInv PROVE NoAudioTwice
    BY DEF AudioInv
  <2>1. audioDemo = "headset" \/ audioDemo = "microphone"
    BY AudioAssumption DEF AudioInv, AudioTypeOK
  <2>2. CASE audioDemo = "headset"
    BY <2>2 DEF AudioInv, HeadsetInv, PlayedOnce, NoAudioTwice
  <2>3. CASE audioDemo = "microphone"
    <3>1. MicInv /\ played = << >>
      BY <2>3 DEF AudioInv
    <3>2. \A i \in 1 .. Len(played) : FALSE
      BY <3>1
    <3> QED
      BY <3>1, <3>2 DEF MicInv, NoAudioTwice
  <2> QED
    BY <2>1, <2>2, <2>3
<1> QED
  BY <1>1, AudioInitInv, AudioStep, PTL DEF AudioSpec

-----------------------------------------------------------------------------
(* Enumeration: the LED and the bus                                         *)

\* What makes the LED blink.
LedMakers == {"timer", "blinker"}

\* What the start-up of a firmware makes, the USB task first: the LED's port before its timer
\* or its task, of which there is at most one.
MadeInOrder(list, blinks) ==
  /\ Len(list) \in 1 .. 6
  /\ \A i \in 1 .. Len(list) : list[i] \in LedMakers =>
       /\ \E j \in 1 .. i : list[j] = "led"
       /\ \A j \in 1 .. Len(list) : list[j] \in LedMakers => j = i
  /\ blinks \in {"timer", "guarded"} => \A i \in 1 .. Len(list) : list[i] # "blinker"
  /\ blinks = "task" => \A i \in 1 .. Len(list) : list[i] # "timer"

\* What the proof needs of a firmware's descriptors.
FunctionFits(d, fn) == fn.strings \subseteq 1 .. 6

FirmwareFits(d) ==
  /\ d.blinks \in Blinks
  /\ MadeInOrder(<<"usb">> \o d.makes, d.blinks)
  /\ \A s \in Speeds : \A i \in DOMAIN d.configuration[s] : FunctionFits(d, d.configuration[s][i])

\* The lists of the firmwares.
LEMMA TimerList == \A b \in {"timer", "guarded"} : MadeInOrder(<<"usb">> \o TimerAndTask, b)
<1> DEFINE list == <<"usb">> \o TimerAndTask
<1>1. /\ Len(list) = 5 /\ list[1] = "usb" /\ list[2] = "led" /\ list[3] = "button"
      /\ list[4] = "timer" /\ list[5] = "task"
  BY DEF TimerAndTask
<1> HIDE DEF list
<1>2. \A b \in {"timer", "guarded"} : MadeInOrder(list, b)
  BY <1>1 DEF MadeInOrder, LedMakers
<1> QED
  BY <1>2 DEF list

LEMMA TwoTasksList == MadeInOrder(<<"usb">> \o Append(TimerAndTask, "task"), "timer")
<1> DEFINE list == <<"usb">> \o Append(TimerAndTask, "task")
<1>1. /\ Len(list) = 6 /\ list[1] = "usb" /\ list[2] = "led" /\ list[3] = "button"
      /\ list[4] = "timer" /\ list[5] = "task" /\ list[6] = "task"
  BY DEF TimerAndTask
<1> HIDE DEF list
<1>2. MadeInOrder(list, "timer")
  BY <1>1 DEF MadeInOrder, LedMakers
<1> QED
  BY <1>2 DEF list

LEMMA BufferList == MadeInOrder(<<"usb">> \o audio_test_makes, "timer")
<1> DEFINE list == <<"usb">> \o audio_test_makes
<1>1. /\ Len(list) = 6 /\ list[1] = "usb" /\ list[2] = "led" /\ list[3] = "button"
      /\ list[4] = "timer" /\ list[5] = "buffer" /\ list[6] = "task"
  BY DEF audio_test_makes
<1> HIDE DEF list
<1>2. MadeInOrder(list, "timer")
  BY <1>1 DEF MadeInOrder, LedMakers
<1> QED
  BY <1>2 DEF list

LEMMA BlinkerList == MadeInOrder(<<"usb">> \o BlinkerAndTask, "task")
<1> DEFINE list == <<"usb">> \o BlinkerAndTask
<1>1. /\ Len(list) = 5 /\ list[1] = "usb" /\ list[2] = "led" /\ list[3] = "button"
      /\ list[4] = "blinker" /\ list[5] = "task"
  BY DEF BlinkerAndTask
<1> HIDE DEF list
<1>2. MadeInOrder(list, "task")
  BY <1>1 DEF MadeInOrder, LedMakers
<1> QED
  BY <1>2 DEF list

LEMMA LedList == \A b \in {"timer", "unread"} : MadeInOrder(<<"usb">> \o LedOnly, b)
<1> DEFINE list == <<"usb">> \o LedOnly
<1>1. Len(list) = 3 /\ list[1] = "usb" /\ list[2] = "led" /\ list[3] = "timer"
  BY DEF LedOnly
<1> HIDE DEF list
<1>2. \A b \in {"timer", "unread"} : MadeInOrder(list, b)
  BY <1>1 DEF MadeInOrder, LedMakers
<1> QED
  BY <1>2 DEF list

LEMMA ImagesList == MadeInOrder(<<"usb">> \o dfu_runtime_makes, "guarded")
<1> DEFINE list == <<"usb">> \o dfu_runtime_makes
<1>1. Len(list) = 4 /\ list[1] = "usb" /\ list[2] = "images" /\ list[3] = "led" /\ list[4] = "timer"
  BY DEF dfu_runtime_makes, LedOnly
<1> HIDE DEF list
<1>2. MadeInOrder(list, "guarded")
  BY <1>1 DEF MadeInOrder, LedMakers
<1> QED
  BY <1>2 DEF list

LEMMA PlainLists ==
  MadeInOrder(<<"usb">> \o cdc_dual_ports_makes, "never") /\ MadeInOrder(<<"usb">> \o << >>, "never")
<1>1. MadeInOrder(<<"usb">> \o cdc_dual_ports_makes, "never")
  <2> DEFINE list == <<"usb">> \o cdc_dual_ports_makes
  <2>1. Len(list) = 2 /\ list[1] = "usb" /\ list[2] = "task"
    BY DEF cdc_dual_ports_makes
  <2> HIDE DEF list
  <2>2. MadeInOrder(list, "never")
    BY <2>1 DEF MadeInOrder, LedMakers
  <2> QED
    BY <2>2 DEF list
<1>2. MadeInOrder(<<"usb">> \o << >>, "never")
  <2> DEFINE list == <<"usb">> \o << >>
  <2>1. Len(list) = 1 /\ list[1] = "usb"
    OBVIOUS
  <2> HIDE DEF list
  <2>2. MadeInOrder(list, "never")
    BY <2>1 DEF MadeInOrder, LedMakers
  <2> QED
    BY <2>2 DEF list
<1> QED
  BY <1>1, <1>2

\* The descriptors and the start-up of each firmware are as the proof needs them.
LEMMA CdcMscFits == FirmwareFits(cdc_msc)
<1>1. cdc_msc.blinks = "timer" /\ cdc_msc.makes = TimerAndTask
  BY DEF cdc_msc, Device, cdc_msc_blinks, cdc_msc_makes
<1>2. \A s \in Speeds : \A i \in DOMAIN cdc_msc.configuration[s] : 
         FunctionFits(cdc_msc, cdc_msc.configuration[s][i])
  BY DEF cdc_msc, Device, AtSpeed, TUD_CDC_DESCRIPTOR, TUD_MSC_DESCRIPTOR, Function, FunctionFits, Speeds
<1> QED
  BY <1>1, <1>2, TimerList DEF FirmwareFits, Blinks

LEMMA CdcDualPortsFits == FirmwareFits(cdc_dual_ports)
<1>1. cdc_dual_ports.blinks = "never" /\ cdc_dual_ports.makes = cdc_dual_ports_makes
  BY DEF cdc_dual_ports, Device
<1>2. \A s \in Speeds : \A i \in DOMAIN cdc_dual_ports.configuration[s] :
         FunctionFits(cdc_dual_ports, cdc_dual_ports.configuration[s][i])
  BY DEF cdc_dual_ports, Device, AtSpeed, TUD_CDC_DESCRIPTOR, Function, FunctionFits, Speeds
<1> QED
  BY <1>1, <1>2, PlainLists DEF FirmwareFits, Blinks

LEMMA WebusbSerialFits == FirmwareFits(webusb_serial)
<1>1. webusb_serial.blinks = "timer" /\ webusb_serial.makes = Append(TimerAndTask, "task")
  BY DEF webusb_serial, Device, webusb_serial_blinks, webusb_serial_makes
<1>2. \A s \in Speeds : \A i \in DOMAIN webusb_serial.configuration[s] :
         FunctionFits(webusb_serial, webusb_serial.configuration[s][i])
  BY DEF webusb_serial, Device, Same, TUD_CDC_DESCRIPTOR, Function, FunctionFits, Speeds
<1> QED
  BY <1>1, <1>2, TwoTasksList DEF FirmwareFits, Blinks

LEMMA HidCompositeFits == FirmwareFits(hid_composite)
<1>1. hid_composite.blinks = "task" /\ hid_composite.makes = BlinkerAndTask
  BY DEF hid_composite, Device, hid_composite_blinks, hid_composite_makes
<1>2. \A s \in Speeds : \A i \in DOMAIN hid_composite.configuration[s] :
         FunctionFits(hid_composite, hid_composite.configuration[s][i])
  BY DEF hid_composite, Device, Same, TUD_HID_DESCRIPTOR, Function, FunctionFits, Speeds
<1> QED
  BY <1>1, <1>2, BlinkerList DEF FirmwareFits, Blinks

LEMMA HidBootInterfaceFits == FirmwareFits(hid_boot_interface)
<1>1. hid_boot_interface.blinks = "timer" /\ hid_boot_interface.makes = TimerAndTask
  BY DEF hid_boot_interface, Device, hid_boot_interface_blinks, hid_boot_interface_makes
<1>2. \A s \in Speeds : \A i \in DOMAIN hid_boot_interface.configuration[s] :
         FunctionFits(hid_boot_interface, hid_boot_interface.configuration[s][i])
  BY DEF hid_boot_interface, Device, Same, TUD_HID_DESCRIPTOR, Function, FunctionFits, Speeds
<1> QED
  BY <1>1, <1>2, TimerList DEF FirmwareFits, Blinks

LEMMA HidMultipleInterfaceFits == FirmwareFits(hid_multiple_interface)
<1>1. hid_multiple_interface.blinks = "timer" /\ hid_multiple_interface.makes = TimerAndTask
  BY DEF hid_multiple_interface, Device, hid_multiple_interface_blinks, hid_multiple_interface_makes
<1>2. \A s \in Speeds : \A i \in DOMAIN hid_multiple_interface.configuration[s] :
         FunctionFits(hid_multiple_interface, hid_multiple_interface.configuration[s][i])
  BY DEF hid_multiple_interface, Device, Same, TUD_HID_DESCRIPTOR, Function, FunctionFits, Speeds
<1> QED
  BY <1>1, <1>2, TimerList DEF FirmwareFits, Blinks

LEMMA HidGenericInoutFits == FirmwareFits(hid_generic_inout)
<1>1. hid_generic_inout.blinks = "unread" /\ hid_generic_inout.makes = LedOnly
  BY DEF hid_generic_inout, Device, hid_generic_inout_blinks, hid_generic_inout_makes
<1>2. \A s \in Speeds : \A i \in DOMAIN hid_generic_inout.configuration[s] :
         FunctionFits(hid_generic_inout, hid_generic_inout.configuration[s][i])
  BY DEF hid_generic_inout, Device, Same, Function, FunctionFits, Speeds
<1> QED
  BY <1>1, <1>2, LedList DEF FirmwareFits, Blinks

LEMMA MidiTestFits == FirmwareFits(midi_test)
<1>1. midi_test.blinks = "timer" /\ midi_test.makes = TimerAndTask
  BY DEF midi_test, Device, midi_test_blinks, midi_test_makes
<1>2. \A s \in Speeds : \A i \in DOMAIN midi_test.configuration[s] :
         FunctionFits(midi_test, midi_test.configuration[s][i])
  BY DEF midi_test, Device, AtSpeed, Function, FunctionFits, Speeds
<1> QED
  BY <1>1, <1>2, TimerList DEF FirmwareFits, Blinks

LEMMA MscDualLunFits == FirmwareFits(msc_dual_lun)
<1>1. msc_dual_lun.blinks = "timer" /\ msc_dual_lun.makes = LedOnly
  BY DEF msc_dual_lun, Device, msc_dual_lun_blinks, msc_dual_lun_makes
<1>2. \A s \in Speeds : \A i \in DOMAIN msc_dual_lun.configuration[s] :
         FunctionFits(msc_dual_lun, msc_dual_lun.configuration[s][i])
  BY DEF msc_dual_lun, Device, AtSpeed, TUD_MSC_DESCRIPTOR, Function, FunctionFits, Speeds
<1> QED
  BY <1>1, <1>2, LedList DEF FirmwareFits, Blinks

LEMMA Uac2HeadsetFits == FirmwareFits(uac2_headset)
<1>1. uac2_headset.blinks = "timer" /\ uac2_headset.makes = TimerAndTask
  BY DEF uac2_headset, Device, uac2_headset_blinks, uac2_headset_makes
<1>2. \A s \in Speeds : \A i \in DOMAIN uac2_headset.configuration[s] :
         FunctionFits(uac2_headset, uac2_headset.configuration[s][i])
  BY DEF uac2_headset, Device, Same, headset_function, Function, FunctionFits, Speeds
<1> QED
  BY <1>1, <1>2, TimerList DEF FirmwareFits, Blinks

LEMMA AudioTestFits == FirmwareFits(audio_test)
<1>1. audio_test.blinks = "timer" /\ audio_test.makes = audio_test_makes
  BY DEF audio_test, Device, audio_test_blinks
<1>2. \A s \in Speeds : \A i \in DOMAIN audio_test.configuration[s] :
         FunctionFits(audio_test, audio_test.configuration[s][i])
  BY DEF audio_test, Device, Same, Function, FunctionFits, Speeds
<1> QED
  BY <1>1, <1>2, BufferList DEF FirmwareFits, Blinks

LEMMA VideoCaptureFits == FirmwareFits(video_capture)
<1>1. video_capture.blinks = "task" /\ video_capture.makes = BlinkerAndTask
  BY DEF video_capture, Device, video_capture_blinks, video_capture_makes
<1>2. \A s \in Speeds : \A i \in DOMAIN video_capture.configuration[s] :
         FunctionFits(video_capture, video_capture.configuration[s][i])
  BY DEF video_capture, Device, Same, video_function, Function, FunctionFits, Speeds
<1> QED
  BY <1>1, <1>2, BlinkerList DEF FirmwareFits, Blinks

LEMMA UsbtmcFits == FirmwareFits(usbtmc)
<1>1. usbtmc.blinks = "guarded" /\ usbtmc.makes = TimerAndTask
  BY DEF usbtmc, Device, usbtmc_blinks, usbtmc_makes
<1>2. \A s \in Speeds : \A i \in DOMAIN usbtmc.configuration[s] :
         FunctionFits(usbtmc, usbtmc.configuration[s][i])
  BY DEF usbtmc, Device, usbtmc_classes, usbtmc_blinks, Same, Function, FunctionFits, Speeds
<1> QED
  BY <1>1, <1>2, TimerList DEF FirmwareFits, Blinks

LEMMA DfuFits == FirmwareFits(dfu)
<1>1. dfu.blinks = "timer" /\ dfu.makes = LedOnly
  BY DEF dfu, Device, dfu_blinks, dfu_makes
<1>2. \A s \in Speeds : \A i \in DOMAIN dfu.configuration[s] :
         FunctionFits(dfu, dfu.configuration[s][i])
  BY DEF dfu, Device, Same, TUD_DFU_DESCRIPTOR, Function, FunctionFits, Speeds
<1> QED
  BY <1>1, <1>2, LedList DEF FirmwareFits, Blinks

LEMMA DfuRuntimeFits == FirmwareFits(dfu_runtime)
<1>1. dfu_runtime.blinks = "guarded" /\ dfu_runtime.makes = dfu_runtime_makes
  BY DEF dfu_runtime, Device, dfu_runtime_blinks
<1>2. \A s \in Speeds : \A i \in DOMAIN dfu_runtime.configuration[s] :
         FunctionFits(dfu_runtime, dfu_runtime.configuration[s][i])
  BY DEF dfu_runtime, Device, Same, TUD_DFU_DESCRIPTOR, Function, FunctionFits, Speeds
<1> QED
  BY <1>1, <1>2, ImagesList DEF FirmwareFits, Blinks

LEMMA DfuDownloadFits == FirmwareFits(dfu_download)
<1>1. dfu_download.blinks = "never" /\ dfu_download.makes = << >>
  BY DEF dfu_download, Device
<1>2. \A s \in Speeds : \A i \in DOMAIN dfu_download.configuration[s] :
         FunctionFits(dfu_download, dfu_download.configuration[s][i])
  BY DEF dfu_download, Device, Same, TUD_DFU_DESCRIPTOR, Function, FunctionFits, Speeds
<1> QED
  BY <1>1, <1>2, PlainLists DEF FirmwareFits, Blinks

LEMMA DeviceControlFits == FirmwareFits(device_control)
<1>1. device_control.blinks = "never" /\ device_control.makes = << >>
  BY DEF device_control, Device
<1>2. \A s \in Speeds : \A i \in DOMAIN device_control.configuration[s] :
         FunctionFits(device_control, device_control.configuration[s][i])
  BY DEF device_control, Device, Same, Function, FunctionFits, Speeds
<1> QED
  BY <1>1, <1>2, PlainLists DEF FirmwareFits, Blinks

LEMMA FirmwaresFit == \A b \in DOMAIN firmware : FirmwareFits(firmware[b])
BY CdcMscFits, CdcDualPortsFits, WebusbSerialFits, HidCompositeFits, HidBootInterfaceFits,
   HidMultipleInterfaceFits, HidGenericInoutFits, MidiTestFits, MscDualLunFits, Uac2HeadsetFits,
   AudioTestFits, VideoCaptureFits, UsbtmcFits, DfuFits, DfuRuntimeFits, DfuDownloadFits,
   DeviceControlFits DEF firmware

\* The start-up has come no further than its list; and as long as no bus event came too early,
\* a device that is suspended or configured has what makes its LED blink.  A keyboard is used for
\* its caps lock only.
EnumLed == board # "none" =>
  /\ made <= Len(Making)
  /\ ~early /\ (suspended \/ stage = "configured") => HasLed
  /\ board = "hid_boot_interface" => using \in {"nothing", "capslock"}

EnumInv == EnumTypeOK /\ EnumLed /\ BlinkTellsBus

LEMMA BoardFits ==
  ASSUME EnumTypeOK, board # "none"
  PROVE  /\ FirmwareFits(dev) /\ MadeInOrder(Making, dev.blinks) /\ made \in Nat
         /\ \A i \in DOMAIN functions : FunctionFits(dev, functions[i])
<1>1. board \in DOMAIN firmware /\ speed \in Speeds /\ made \in Nat
  BY EnumAssumption DEF EnumTypeOK
<1>2. FirmwareFits(dev)
  BY <1>1, FirmwaresFit DEF dev
<1> QED
  BY <1>1, <1>2 DEF FirmwareFits, Making, functions

LEMMA EnumInitInv == EnumInit => EnumInv
<1> SUFFICES ASSUME EnumInit PROVE EnumInv
  OBVIOUS
<1>1. EnumTypeOK
  <2>1. 0 \in 0 .. MaxPlugs /\ 0 \in 0 .. MaxSuspends
    BY EnumAssumption
  <2>2. made \in 0 .. 6 /\ led_val \in {0, 1} /\ unread \subseteq 1 .. 6
    BY DEF EnumInit
  <2>3. {suspended, stopped, early} \subseteq BOOLEAN
    BY Zenon DEF EnumInit
  <2>4. {blink_interval_ms, timer} \subseteq Periods
    BY DEF EnumInit, Periods
  <2> QED
    BY <2>1, <2>2, <2>3, <2>4, Zenon DEF EnumInit, EnumTypeOK, Speeds, Stages
<1> QED
  BY <1>1 DEF EnumInit, EnumInv, EnumLed, BlinkTellsBus

\* A callback that sets the pattern sets what the LED shows, and meets no missing timer,
\* unless it came before the timer or the task.
LEMMA BlinkShows ==
  ASSUME NEW p \in {NOT_MOUNTED, MOUNTED, SUSPENDED}, EnumTypeOK, EnumLed, board # "none",
         Blink(p), board' = board, made' = made
  PROVE  /\ {stopped', early'} \subseteq BOOLEAN
         /\ {blink_interval_ms', timer'} \subseteq Periods
         /\ stopped' => early'
         /\ ~early' => ~early /\ HasLed
         /\ ~early' /\ dev.blinks \notin {"unread", "never"} => Period' = p
<1> DEFINE b == dev.blinks
           hasTimer == Has("timer")
           hasLed == HasLed
<1>1. b \in Blinks
  BY BoardFits DEF FirmwareFits
<1>2. hasTimer \in BOOLEAN /\ hasLed \in BOOLEAN
  BY DEF HasLed, Has
<1>3. b \in {"timer", "guarded"} => (hasLed <=> hasTimer)
  <2>1. MadeInOrder(Making, b) /\ Len(Making) \in Nat /\ made <= Len(Making) /\ made \in Nat
    BY BoardFits DEF MadeInOrder, EnumLed
  <2> QED
    BY <2>1 DEF HasLed, Has, MadeInOrder
<1>4. /\ early' = (early \/ ~hasLed)
      /\ stopped' = (b = "timer" /\ ~hasTimer)
      /\ timer' = IF b \in {"timer", "guarded"} /\ hasTimer THEN p ELSE timer
      /\ blink_interval_ms' = IF b \in {"task", "unread"} THEN p ELSE blink_interval_ms
  BY DEF Blink
<1>5. Period' = IF b = "task" THEN blink_interval_ms' ELSE timer'
  BY DEF Period, dev
<1>6. early \in BOOLEAN /\ {blink_interval_ms, timer} \subseteq Periods
  BY DEF EnumTypeOK
<1> HIDE DEF b, hasTimer, hasLed
<1>7. {stopped', early'} \subseteq BOOLEAN
  BY <1>2, <1>4, <1>6
<1>8. {blink_interval_ms', timer'} \subseteq Periods
  BY <1>4, <1>6 DEF Periods
<1>9. (stopped' => early') /\ (~early' => ~early /\ hasLed)
  BY <1>2, <1>3, <1>4, <1>6
<1>10. ~early' /\ b \notin {"unread", "never"} => Period' = p
  BY <1>1, <1>2, <1>3, <1>4, <1>5, <1>9 DEF Blinks
<1> QED
  BY <1>7, <1>8, <1>9, <1>10 DEF b, hasLed

\* A callback that gives a descriptor changes nothing the LED depends on, and configures nothing.
LEMMA DescriptorGiven ==
  ASSUME EnumInv, UNCHANGED <<board, speed, drivers, busVars>>,
         stage' \in Stages \ {"configured"}, unread' \subseteq 1 .. 6
  PROVE  EnumInv'
<1>1. EnumTypeOK'
  BY Zenon DEF EnumInv, EnumTypeOK, busVars
<1>2. EnumLed'
  BY Zenon DEF EnumInv, EnumLed, HasLed, Has, Making, dev, busVars
<1>3. BlinkTellsBus'
  BY Zenon DEF EnumInv, BlinkTellsBus, Shown, Period, dev, busVars
<1> QED
  BY <1>1, <1>2, <1>3 DEF EnumInv

\* A callback that sets the pattern of the state it leads to keeps the invariant.
LEMMA PatternSet ==
  ASSUME NEW p \in {NOT_MOUNTED, MOUNTED, SUSPENDED}, EnumInv, board # "none", Blink(p),
         UNCHANGED <<board, made, led_val, plugs>>,
         speed' \in Speeds, stage' \in Stages, unread' \subseteq 1 .. 6, suspended' \in BOOLEAN,
         suspends' \in 0 .. MaxSuspends, using' \in {using, "nothing"}, renewed' \in BOOLEAN,
         suspended' => p = SUSPENDED,
         stage' = "configured" /\ ~suspended' => p = MOUNTED /\ renewed'
  PROVE  EnumInv'
<1>1. /\ {stopped', early'} \subseteq BOOLEAN
      /\ {blink_interval_ms', timer'} \subseteq Periods
      /\ stopped' => early'
      /\ ~early' => ~early /\ HasLed
      /\ ~early' /\ dev.blinks \notin {"unread", "never"} => Period' = p
  BY BlinkShows DEF EnumInv
<1>2. EnumTypeOK'
  <2>1. using' \in DOMAIN Pattern \cup {"nothing"}
    BY DEF EnumInv, EnumTypeOK
  <2> QED
    BY <1>1, <2>1, Zenon DEF EnumInv, EnumTypeOK
<1>3. EnumLed'
  BY <1>1, Zenon DEF EnumInv, EnumLed, HasLed, Has, Making, dev
<1>4. dev' = dev
  BY DEF dev
<1>5. BlinkTellsBus'
  BY <1>1, <1>4 DEF BlinkTellsBus, Shown
<1> QED
  BY <1>2, <1>3, <1>5 DEF EnumInv

\* A request keeps the invariant when it leaves the LED with the pattern of the use it makes.
LEMMA RequestShown ==
  ASSUME NEW w \in DOMAIN Pattern \cup {"nothing"}, EnumInv, board # "none",
         stage = "configured", ~suspended, Uses(w), UNCHANGED notAsked, led_val' \in {0, 1},
         board = "hid_boot_interface" => w \in {"nothing", "capslock"},
         stopped' \in BOOLEAN, stopped' => early, {blink_interval_ms', timer'} \subseteq Periods,
         ~early /\ dev.blinks \notin {"unread", "never"} =>
           Period' = IF Shown' = "nothing" THEN MOUNTED ELSE Pattern[Shown']
  PROVE  EnumInv'
<1>1. EnumTypeOK'
  <2>1. using' \in DOMAIN Pattern \cup {"nothing"} /\ renewed' \in BOOLEAN
    BY DEF Uses
  <2>2. /\ UNCHANGED <<board, speed, stage, unread, suspended, made, early, plugs, suspends>>
        /\ {suspended', stopped', early'} \subseteq BOOLEAN
    BY DEF notAsked, EnumInv, EnumTypeOK
  <2> QED
    BY <2>1, <2>2, Zenon DEF EnumInv, EnumTypeOK
<1>2. /\ UNCHANGED <<board, stage, suspended, made, early>> /\ using' = w
      /\ dev' = dev
  BY DEF notAsked, Uses, dev
<1>3. EnumLed'
  BY <1>2, Zenon DEF EnumInv, EnumLed, HasLed, Has, Making, dev
<1>4. BlinkTellsBus'
  BY <1>2 DEF BlinkTellsBus
<1> QED
  BY <1>1, <1>3, <1>4 DEF EnumInv

\* One that changes the period of a timer does.
LEMMA PeriodShown ==
  ASSUME NEW w \in DOMAIN Pattern \cup {"nothing"}, NEW p \in Periods, EnumInv, board # "none",
         dev.blinks \in {"timer", "guarded"}, board # "hid_boot_interface", w # "capslock",
         stage = "configured", ~suspended, Uses(w), UNCHANGED notAsked, led_val' \in {0, 1},
         ChangePeriod(p), p = IF w = "nothing" THEN MOUNTED ELSE Pattern[w]
  PROVE  EnumInv'
<1>1. MadeInOrder(Making, dev.blinks) /\ Len(Making) \in 1 .. 6 /\ made \in Nat /\ made <= Len(Making)
  BY BoardFits DEF EnumInv, MadeInOrder, EnumLed
<1>2. HasLed => Has("timer")
  BY <1>1 DEF MadeInOrder, HasLed, Has
<1>3. Has("timer") \in BOOLEAN /\ stopped' = ~Has("timer") /\ timer' = p /\ blink_interval_ms' = blink_interval_ms
  BY DEF Has, ChangePeriod
<1>4. stopped' \in BOOLEAN /\ (stopped' => early)
  BY <1>2, <1>3 DEF EnumInv, EnumLed
<1>5. {blink_interval_ms', timer'} \subseteq Periods
  BY <1>3 DEF EnumInv, EnumTypeOK
<1>6. dev' = dev /\ using' = w /\ renewed' = FALSE
  BY DEF notAsked, dev, Uses
<1>7. Period' = p /\ Shown' = w
  BY <1>3, <1>6 DEF Period, Shown
<1> QED
  BY <1>4, <1>5, <1>7, RequestShown

LEMMA EnumStep == EnumInv /\ [EnumNext]_enumVars => EnumInv'
<1> SUFFICES ASSUME EnumInv, [EnumNext]_enumVars PROVE EnumInv'
  OBVIOUS
<1>1. ASSUME NEW b \in Plugged, NEW s \in Speeds, Plug(b, s) PROVE EnumInv'
  <2>1. plugs' \in 0 .. MaxPlugs /\ suspends' \in 0 .. MaxSuspends
    BY <1>1, EnumAssumption DEF Plug, EnumInv, EnumTypeOK
  <2>2. made' \in 0 .. 6 /\ made' = 0 /\ led_val' \in {0, 1} /\ unread' \subseteq 1 .. 6
    BY <1>1 DEF Plug
  <2>3. EnumTypeOK'
    <3>1. {blink_interval_ms', timer'} \subseteq Periods /\ using' \in DOMAIN Pattern \cup {"nothing"}
      BY <1>1 DEF Plug, Periods
    <3> QED
      BY <1>1, <2>1, <2>2, <3>1, Zenon DEF Plug, EnumTypeOK, Stages
  <2>4. EnumLed'
    <3>1. board' \in DOMAIN firmware
      BY <1>1, EnumAssumption DEF Plug
    <3>2. MadeInOrder(Making', dev'.blinks)
      BY <3>1, FirmwaresFit DEF FirmwareFits, Making, dev
    <3> QED
      BY <1>1, <2>2, <3>2 DEF Plug, EnumLed, MadeInOrder
  <2>5. BlinkTellsBus'
    BY <1>1 DEF Plug, BlinkTellsBus
  <2> QED
    BY <2>3, <2>4, <2>5 DEF EnumInv
<1>2. CASE Unplug
  <2>1. unread' \subseteq 1 .. 6
    BY <1>2 DEF Unplug
  <2>2. EnumTypeOK'
    BY <1>2, <2>1, Zenon DEF Unplug, EnumInv, EnumTypeOK, busVars, Stages
  <2> QED
    BY <1>2, <2>2, Zenon DEF Unplug, EnumInv, EnumLed, BlinkTellsBus, busVars
<1>3. CASE tud_descriptor_device_cb
  <2>1. stage' \in Stages \ {"configured"} /\ unread' \subseteq 1 .. 6
    BY <1>3 DEF tud_descriptor_device_cb, Stages
  <2> QED
    BY <1>3, <2>1, DescriptorGiven DEF tud_descriptor_device_cb
<1>4. CASE tud_descriptor_device_qualifier_cb
  <2>1. stage' \in Stages \ {"configured"} /\ unread' \subseteq 1 .. 6
    BY <1>4 DEF tud_descriptor_device_qualifier_cb, Stages, EnumInv, EnumTypeOK
  <2> QED
    BY <1>4, <2>1, DescriptorGiven DEF tud_descriptor_device_qualifier_cb
<1>5. CASE tud_descriptor_configuration_cb
  <2>1. board # "none" /\ stage' \in Stages \ {"configured"}
    BY <1>5 DEF tud_descriptor_configuration_cb, Asked, Running, Stages
  <2>2. \A i \in DOMAIN functions : functions[i].strings \subseteq 1 .. 6
    BY <2>1, BoardFits DEF EnumInv, FunctionFits
  <2>3. unread' \subseteq 1 .. 6
    BY <1>5, <2>2 DEF tud_descriptor_configuration_cb, EnumInv, EnumTypeOK
  <2> QED
    BY <1>5, <2>1, <2>3, DescriptorGiven DEF tud_descriptor_configuration_cb
<1>6. CASE tud_descriptor_string_cb
  <2>1. stage' \in Stages \ {"configured"} /\ unread' \subseteq 1 .. 6
    BY <1>6 DEF tud_descriptor_string_cb, Asked, Stages, EnumInv, EnumTypeOK
  <2> QED
    BY <1>6, <2>1, DescriptorGiven DEF tud_descriptor_string_cb
<1>7. CASE startup_task
  <2>1. board # "none" /\ ~stopped /\ made < Len(Making) /\ made' = made + 1
    BY <1>7 DEF startup_task
  <2>2. MadeInOrder(Making, dev.blinks) /\ Len(Making) \in 1 .. 6 /\ made \in Nat /\ dev.blinks \in Blinks
    BY <2>1, BoardFits DEF EnumInv, MadeInOrder, FirmwareFits
  <2>3. dev' = dev /\ Making' = Making
    BY <1>7 DEF startup_task, dev, Making
  <2>4. EnumTypeOK'
    <3>1. made' \in 0 .. 6
      <4>1. \A m, n \in Int : n <= 6 /\ 0 <= m /\ m < n => m + 1 \in 0 .. 6
        OBVIOUS
      <4> DEFINE n == Len(Making)
      <4>2. n \in 1 .. 6 /\ made < n /\ made \in Nat
        BY <2>1, <2>2, Zenon
      <4> HIDE DEF n
      <4> QED
        BY <2>1, <4>1, <4>2
    <3>2. {blink_interval_ms', timer'} \subseteq Periods
      BY <1>7 DEF startup_task, EnumInv, EnumTypeOK, Periods
    <3> QED
      BY <1>7, <3>1, <3>2, Zenon DEF startup_task, EnumInv, EnumTypeOK
  <2>5. HasLed => HasLed' /\ Making[made'] \notin LedMakers
    BY <2>1, <2>2, <2>3 DEF HasLed, Has, MadeInOrder, LedMakers
  <2>6. EnumLed'
    <3>1. made' <= Len(Making')
      BY <2>1, <2>2, <2>3
    <3>2. UNCHANGED <<board, early, suspended, stage, using>>
      BY <1>7 DEF startup_task
    <3> QED
      BY <2>1, <2>5, <3>1, <3>2 DEF EnumInv, EnumLed
  <2>7. HasLed => Period' = Period
    BY <1>7, <2>3, <2>5 DEF startup_task, Period, LedMakers
  <2>8. UNCHANGED <<board, early, stopped, suspended, stage, using, renewed>>
    BY <1>7 DEF startup_task
  <2>9. BlinkTellsBus'
    BY <2>1, <2>3, <2>7, <2>8 DEF BlinkTellsBus, Shown, EnumInv, EnumLed
  <2> QED
    BY <2>4, <2>6, <2>9 DEF EnumInv
<1>8. CASE led_blinky_cb
  <2>1. board # "none" /\ HasLed /\ stopped' = (~Has("led") \/ Period = NO_BLINK)
    BY <1>8 DEF led_blinky_cb, Running
  <2>2. MadeInOrder(Making, dev.blinks) /\ Len(Making) \in 1 .. 6 /\ made \in Nat /\ made <= Len(Making)
    BY <2>1, BoardFits DEF EnumInv, MadeInOrder, EnumLed
  <2>3. Has("led")
    BY <2>1, <2>2 DEF MadeInOrder, HasLed, Has, LedMakers
  <2>4. stopped' \in BOOLEAN /\ (stopped' => Period = NO_BLINK) /\ led_val' \in {0, 1}
    <3>1. led_val \in {0, 1} /\ led_val' = 1 - led_val
      BY <1>8 DEF led_blinky_cb, EnumInv, EnumTypeOK
    <3>2. stopped' \in BOOLEAN /\ (stopped' => Period = NO_BLINK)
      BY <2>1, <2>3, Zenon
    <3> QED
      BY <3>1, <3>2
  <2>5. EnumTypeOK'
    BY <1>8, <2>4, Zenon DEF led_blinky_cb, EnumInv, EnumTypeOK
  <2>6. EnumLed'
    BY <1>8, Zenon DEF led_blinky_cb, EnumInv, EnumLed, HasLed, Has, Making, dev
  <2>7. BlinkTellsBus'
    BY <1>8, <2>4, Zenon DEF led_blinky_cb, EnumInv, BlinkTellsBus, Shown, Period, dev
  <2> QED
    BY <2>5, <2>6, <2>7 DEF EnumInv
<1>9. CASE mount_cb
  <2>1. board # "none" /\ ~suspended /\ UNCHANGED <<board, speed, unread, suspended, made, led_val, using, plugs, suspends>>
    BY <1>9 DEF mount_cb, Asked, Running
  <2>2. speed' \in Speeds /\ unread' \subseteq 1 .. 6 /\ suspends' \in 0 .. MaxSuspends
        /\ suspended' \in BOOLEAN /\ suspended' = FALSE
    BY <2>1 DEF EnumInv, EnumTypeOK
  <2>3. CASE stage' = "configured" /\ renewed' = TRUE /\ Blink(MOUNTED)
    BY <2>1, <2>2, <2>3, PatternSet DEF Stages
  <2>4. CASE stage' = "refused" /\ UNCHANGED <<stopped, early, blink_interval_ms, timer, renewed>>
    <3>1. EnumTypeOK'
      BY <2>1, <2>4, Zenon DEF EnumInv, EnumTypeOK, Stages
    <3>2. EnumLed'
      BY <2>1, <2>4, Zenon DEF EnumInv, EnumLed, HasLed, Has, Making, dev
    <3>3. BlinkTellsBus'
      BY <2>1, <2>4, Zenon DEF EnumInv, BlinkTellsBus, Shown, Period, dev
    <3> QED
      BY <3>1, <3>2, <3>3 DEF EnumInv
  <2> QED
    BY <1>9, <2>3, <2>4 DEF mount_cb
<1>10. CASE umount_cb
  <2>1. /\ board # "none" /\ UNCHANGED <<board, made, led_val, plugs>> /\ Blink(NOT_MOUNTED)
        /\ stage' = "device" /\ unread' = {} /\ suspended' = FALSE /\ speed' \in Speeds
        /\ using' \in {using, "nothing"} /\ renewed' = renewed
    BY <1>10 DEF umount_cb, Running
  <2>2. suspends' \in 0 .. MaxSuspends
    BY <1>10, EnumAssumption DEF umount_cb, EnumInv, EnumTypeOK
  <2>3. unread' \subseteq 1 .. 6 /\ stage' \in Stages /\ suspended' \in BOOLEAN /\ stage' # "configured"
        /\ renewed' \in BOOLEAN
    BY <2>1 DEF Stages, EnumInv, EnumTypeOK
  <2> QED
    BY <2>1, <2>2, <2>3, PatternSet
<1>11. CASE suspend_cb
  <2>1. /\ board # "none" /\ UNCHANGED <<board, made, led_val, plugs, speed, stage, unread>>
        /\ Blink(SUSPENDED) /\ suspended' = TRUE /\ UNCHANGED <<using, renewed>>
    BY <1>11 DEF suspend_cb, Running
  <2>2. suspends' \in 0 .. MaxSuspends
    BY <1>11, EnumAssumption DEF suspend_cb, EnumInv, EnumTypeOK
  <2>3. /\ unread' \subseteq 1 .. 6 /\ stage' \in Stages /\ suspended' \in BOOLEAN /\ speed' \in Speeds
        /\ renewed' \in BOOLEAN
    BY <2>1 DEF EnumInv, EnumTypeOK
  <2> QED
    BY <2>1, <2>2, <2>3, PatternSet
<1>12. CASE resume_cb
  <2>1. /\ board # "none" /\ UNCHANGED <<board, made, led_val, plugs, speed, stage, unread, suspends>>
        /\ Blink(MOUNTED) /\ suspended' = FALSE /\ using' = using /\ renewed' = TRUE
    BY <1>12 DEF resume_cb, Running
  <2>2. unread' \subseteq 1 .. 6 /\ stage' \in Stages /\ suspended' \in BOOLEAN /\ speed' \in Speeds
        /\ suspends' \in 0 .. MaxSuspends
    BY <2>1 DEF EnumInv, EnumTypeOK
  <2> QED
    BY <2>1, <2>2, PatternSet
<1>13. CASE tud_usbtmc_indicator_pulse_cb
  <2>1. /\ board = "usbtmc" /\ stage = "configured" /\ ~suspended /\ ChangePeriod(PULSE)
        /\ led_val' = 1 /\ Uses("pulse") /\ UNCHANGED notAsked
    BY <1>13 DEF tud_usbtmc_indicator_pulse_cb, Asked, led_indicator_pulse
  <2>2. dev.blinks = "guarded"
    BY <2>1 DEF dev, firmware, usbtmc, Device, usbtmc_blinks
  <2>3. PULSE \in Periods /\ Pattern["pulse"] = PULSE /\ "pulse" \in DOMAIN Pattern /\ led_val' \in {0, 1}
    BY <2>1 DEF Periods, Pattern
  <2> QED
    BY <2>1, <2>2, <2>3, PeriodShown
<1>14. ASSUME NEW alt \in {0, 1}, SelectSpeaker(alt) PROVE EnumInv'
  <2>1. /\ board = "uac2_headset" /\ stage = "configured" /\ ~suspended
        /\ UNCHANGED <<led_val, notAsked>>
        /\ alt = 0 => ChangePeriod(MOUNTED) /\ Uses("nothing")
        /\ alt # 0 => ChangePeriod(STREAMING) /\ Uses("streaming")
    BY <1>14 DEF SelectSpeaker, Asked
  <2>2. dev.blinks = "timer"
    BY <2>1 DEF dev, firmware, uac2_headset, Device, uac2_headset_blinks
  <2>3. /\ {MOUNTED, STREAMING} \subseteq Periods /\ Pattern["streaming"] = STREAMING
        /\ "streaming" \in DOMAIN Pattern
    BY DEF Periods, Pattern
  <2>4. led_val' \in {0, 1} /\ UNCHANGED notAsked
    BY <2>1 DEF EnumInv, EnumTypeOK
  <2>5. CASE alt = 0
    BY <2>1, <2>2, <2>3, <2>4, <2>5, PeriodShown
  <2>6. CASE alt # 0
    BY <2>1, <2>2, <2>3, <2>4, <2>6, PeriodShown
  <2> QED
    BY <2>5, <2>6
<1>15. ASSUME NEW on \in BOOLEAN, ConnectPage(on) PROVE EnumInv'
  <2>1. /\ board = "webusb_serial" /\ stage = "configured" /\ ~suspended
        /\ UNCHANGED <<led_val, notAsked>>
        /\ ~on => ChangePeriod(MOUNTED) /\ Uses("nothing")
        /\ on => ChangePeriod(ALWAYS_ON) /\ Uses("connected")
    BY <1>15 DEF ConnectPage, Asked
  <2>2. dev.blinks = "timer"
    BY <2>1 DEF dev, firmware, webusb_serial, Device, webusb_serial_blinks
  <2>3. /\ {MOUNTED, ALWAYS_ON} \subseteq Periods /\ Pattern["connected"] = ALWAYS_ON
        /\ "connected" \in DOMAIN Pattern
    BY DEF Periods, Pattern
  <2>4. led_val' \in {0, 1} /\ UNCHANGED notAsked
    BY <2>1 DEF EnumInv, EnumTypeOK
  <2>5. CASE ~on
    BY <2>1, <2>2, <2>3, <2>4, <2>5, PeriodShown
  <2>6. CASE on
    BY <2>1, <2>2, <2>3, <2>4, <2>6, PeriodShown
  <2> QED
    BY <2>5, <2>6
<1>16. ASSUME NEW on \in BOOLEAN, SetKeyboardLeds(on) PROVE EnumInv'
  <2> DEFINE w == IF on THEN "capslock" ELSE "nothing"
  <2>1. /\ board \in {"hid_composite", "hid_boot_interface"} /\ stage = "configured" /\ ~suspended
        /\ stopped' = ~Has("led") /\ timer' = timer /\ Uses(w) /\ UNCHANGED <<led_val, notAsked>>
        /\ blink_interval_ms' = IF on THEN NO_BLINK ELSE MOUNTED
    BY <1>16 DEF SetKeyboardLeds, Asked
  <2>2. w \in {"nothing", "capslock"} /\ w \in DOMAIN Pattern \cup {"nothing"} /\ Pattern["capslock"] = NO_BLINK
    BY DEF Pattern
  <2>3. {blink_interval_ms', timer'} \subseteq Periods
    BY <2>1 DEF EnumInv, EnumTypeOK, Periods
  <2>4. led_val' \in {0, 1} /\ UNCHANGED notAsked
    BY <2>1 DEF EnumInv, EnumTypeOK
  <2>5. stopped' \in BOOLEAN /\ (stopped' => early)
    <3>1. MadeInOrder(Making, dev.blinks) /\ Len(Making) \in 1 .. 6 /\ made \in Nat /\ made <= Len(Making)
      BY <2>1, BoardFits DEF EnumInv, MadeInOrder, EnumLed
    <3>2. HasLed => Has("led")
      BY <3>1 DEF MadeInOrder, HasLed, Has, LedMakers
    <3>3. Has("led") \in BOOLEAN
      BY DEF Has
    <3> QED
      BY <2>1, <3>2, <3>3 DEF EnumInv, EnumLed
  <2>6. dev' = dev /\ using' = w /\ renewed' = FALSE
    BY <2>1 DEF notAsked, dev, Uses
  <2>7. ASSUME ~early, dev.blinks \notin {"unread", "never"}
        PROVE  Period' = IF Shown' = "nothing" THEN MOUNTED ELSE Pattern[Shown']
    <3>1. CASE board = "hid_composite"
      <4>1. dev.blinks = "task"
        BY <3>1 DEF dev, firmware, hid_composite, Device, hid_composite_blinks
      <4>2. Shown' = w /\ Period' = blink_interval_ms'
        BY <2>6, <4>1 DEF Shown, Period
      <4> QED
        BY <2>1, <2>2, <4>2
    <3>2. CASE board = "hid_boot_interface"
      <4>1. dev.blinks = "timer"
        BY <3>2 DEF dev, firmware, hid_boot_interface, Device, hid_boot_interface_blinks
      <4>2. Shown' = "nothing" /\ Period' = timer'
        BY <2>6, <4>1 DEF Shown, Period
      <4>3. Shown = "nothing" /\ Period = timer
        BY <2>1, <3>2, <4>1 DEF Shown, Period, EnumInv, EnumLed
      <4> QED
        BY <2>1, <2>7, <4>2, <4>3 DEF EnumInv, BlinkTellsBus
    <3> QED
      BY <2>1, <3>1, <3>2
  <2> HIDE DEF w
  <2>8. board # "none"
    BY <2>1
  <2> QED
    BY <2>1, <2>2, <2>3, <2>4, <2>5, <2>7, <2>8, RequestShown
<1>17. CASE UNCHANGED enumVars
  <2>1. EnumTypeOK'
    BY <1>17, Zenon DEF EnumInv, EnumTypeOK, enumVars
  <2>2. EnumLed'
    BY <1>17, Zenon DEF EnumInv, EnumLed, HasLed, Has, Making, dev, enumVars
  <2>3. BlinkTellsBus'
    BY <1>17, Zenon DEF EnumInv, BlinkTellsBus, Shown, Period, dev, enumVars
  <2> QED
    BY <2>1, <2>2, <2>3 DEF EnumInv
<1> QED
  BY <1>1, <1>2, <1>3, <1>4, <1>5, <1>6, <1>7, <1>8, <1>9, <1>10, <1>11, <1>12, <1>13, <1>14, <1>15, <1>16, <1>17
  DEF EnumNext

\* Whatever the order of the start-up, the bus's events and the host's requests, the LED of every
\* firmware whose timer or task was there before the first bus event shows the bus's state or the
\* use the host makes of it; and only an event too early, or a caps lock that sets an interval of
\* none, stops a firmware (demo_main.c's tud_mount_cb to tud_resume_cb, and the class requests).
THEOREM BlinkFollowsBus == EnumSpec => [](EnumTypeOK /\ BlinkTellsBus)
<1>1. EnumInv => EnumTypeOK /\ BlinkTellsBus
  BY DEF EnumInv
<1> QED
  BY <1>1, EnumInitInv, EnumStep, PTL DEF EnumSpec

-----------------------------------------------------------------------------
(* USBTMC                                                                   *)

\* Units of data: the number of a message and their place in it.
TmcUnits == Nat \X Nat
Message == [number : Nat, kind : Kinds, length : 0 .. BufferSize + 1]

\* The host's message and what was stored of one, polite or not.
TmcStored ==
  /\ message \in Message /\ buffer \in Seq(TmcUnits)
  /\ tmcHost = "sending" => message.length \in 1 .. BufferSize /\ rest \in 1 .. message.length - 1

\* What was sent of an answer: of *idn? nothing, or what was asked for of it, of an echo the
\* first buffer_tx_ix units, the last part of which may be under way.
IdnPart == [data |-> SubSeq(idn, 1, Min({Len(idn), msgReqLen})), eom |-> TRUE]
SentInOrder ==
  IF message.kind = "idn"
  THEN got = << >> /\ buffer_tx_ix = 0 /\ bulkIn \in {NoData, IdnPart}
  ELSE /\ got \in Seq(TmcUnits) /\ bulkIn \in [data : Seq(TmcUnits), eom : BOOLEAN]
       /\ buffer_tx_ix <= message.length /\ got \o bulkIn.data = SubSeq(buffer, 1, buffer_tx_ix)
       /\ bulkIn = NoData => buffer_tx_ix < message.length
       /\ bulkIn # NoData => buffer_tx_ix > 0 /\ (bulkIn.eom <=> buffer_tx_ix = message.length)

\* With a polite host: nothing is under way before a message is stored whole, nothing is
\* transmitted but what is asked for, and what was sent continues what it received.
TmcPolite ==
  /\ tmcHost \in {"ready", "sending", "waiting", "reading", "halted"}
  /\ tmcHost \in {"ready", "sending", "halted"} =>
       bulkIn = NoData /\ ~ bulkInStarted /\ buffer_tx_ix = 0
  /\ tmcHost = "sending" => buffer = SubSeq(Text(message), 1, message.length - rest) /\ got = << >>
  /\ tmcHost \in {"waiting", "reading"} =>
       /\ message.kind # "delay" /\ message.length > 0
       /\ buffer = Text(message) /\ idnQuery = (message.kind = "idn") /\ SentInOrder
  /\ tmcHost = "waiting" =>
       bulkIn = NoData /\ (buffer_tx_ix = 0 => ~ bulkInStarted /\ got = << >>)

TmcInv == TmcTypeOK /\ TmcStored /\ (polite => TmcPolite)

LEMMA UnitsTaken ==
  \A s \in Seq(TmcUnits), i, n \in Nat : i + n <= Len(s) =>
    /\ SubSeq(s, i + 1, i + n) \in Seq(TmcUnits) /\ Len(SubSeq(s, i + 1, i + n)) = n
    /\ \A j \in 1 .. n : SubSeq(s, i + 1, i + n)[j] = s[i + j]
OBVIOUS

LEMMA IdnFacts ==
  ASSUME TmcTypeOK
  PROVE  /\ idn \in Seq(TmcUnits) /\ Len(idn) \in Nat
         /\ Min({Len(idn), msgReqLen}) \in Nat /\ Min({Len(idn), msgReqLen}) <= Len(idn)
         /\ Min({Len(idn), msgReqLen}) \in {Len(idn), msgReqLen}
<1>1. \A n \in Nat : \A f \in [1 .. n -> TmcUnits] : f \in Seq(TmcUnits) /\ Len(f) = n
  OBVIOUS
<1>2. IdnLength \in Nat
  BY TmcAssumption
<1>3. idn \in [1 .. IdnLength -> TmcUnits]
  BY <1>2 DEF idn, TmcUnits
<1>4. idn \in Seq(TmcUnits) /\ Len(idn) = IdnLength
  BY <1>1, <1>2, <1>3
<1>5. msgReqLen \in 0 .. BufferSize
  BY Zenon DEF TmcTypeOK
<1>6. msgReqLen \in Nat
  BY <1>5, TmcAssumption
<1>7. Min({Len(idn), msgReqLen}) = IF Len(idn) <= msgReqLen THEN Len(idn) ELSE msgReqLen
  BY <1>2, <1>4, <1>6, MinOfTwo
<1> QED
  BY <1>2, <1>4, <1>6, <1>7

LEMMA UnitsJoined ==
  \A s, t \in Seq(TmcUnits) :
    /\ s \o t \in Seq(TmcUnits) /\ Len(s \o t) = Len(s) + Len(t)
    /\ \A j \in 1 .. Len(s) : (s \o t)[j] = s[j]
    /\ \A j \in 1 .. Len(t) : (s \o t)[Len(s) + j] = t[j]
OBVIOUS

LEMMA UnitsContinued ==
  \A s \in Seq(TmcUnits), i, n \in Nat : i + n <= Len(s) =>
    SubSeq(s, 1, i) \o SubSeq(s, i + 1, i + n) = SubSeq(s, 1, i + n)
OBVIOUS

LEMMA UnitsWhole ==
  \A s \in Seq(TmcUnits) :
    SubSeq(s, 1, Len(s)) = s /\ SubSeq(s, 1, 0) = << >> /\ s \o << >> = s /\ << >> \o s = s
OBVIOUS

LEMMA UnitsPrefix ==
  \A s \in Seq(TmcUnits), i \in Nat : i <= Len(s) =>
    IsPrefix(SubSeq(s, 1, i), s) /\ (SubSeq(s, 1, i) = s <=> i = Len(s))
BY DEF IsPrefix

LEMMA TextFacts ==
  ASSUME NEW m \in Message
  PROVE  Text(m) \in Seq(TmcUnits) /\ Len(Text(m)) = m.length
<1>1. m.number \in Nat /\ m.length \in Nat
  BY TmcAssumption DEF Message
<1>2. \A n \in Nat : \A f \in [1 .. n -> TmcUnits] : f \in Seq(TmcUnits) /\ Len(f) = n
  OBVIOUS
<1>3. Text(m) \in [1 .. m.length -> TmcUnits]
  BY <1>1 DEF Text, TmcUnits
<1> QED
  BY <1>1, <1>2, <1>3

LEMMA TmcConstants ==
  /\ BufferSize \in Nat /\ BufferSize > 0 /\ PacketSize \in Nat /\ PacketSize > 0
  /\ MaxMessages \in Nat /\ MaxClears \in Nat /\ MaxTriggers \in Nat
BY TmcAssumption

\* A packet of a message is stored behind the ones before it, or refused.
LEMMA PacketStored ==
  ASSUME TmcInv, NEW m \in Message, NEW start \in Nat, NEW len \in Nat, len > 0,
         m.length <= BufferSize, start + len <= m.length, tud_usbtmc_msg_data_cb(m, start, len)
  PROVE  /\ buffer' \in Seq(TmcUnits) /\ Len(buffer') < BufferSize
         /\ queryState' \in 0 .. 4 /\ idnQuery' \in BOOLEAN /\ busRead' \in BOOLEAN
         /\ tmcHost' \in {"ready", "sending", "waiting", "halted"} /\ rest' \in 0 .. BufferSize
         /\ tmcHost' = "sending" => rest' \in 1 .. m.length - 1
         /\ start = 0 \/ buffer = SubSeq(Text(m), 1, start) =>
              /\ tmcHost' = "sending" => buffer' = SubSeq(Text(m), 1, m.length - rest')
              /\ tmcHost' = "waiting" =>
                   m.kind # "delay" /\ buffer' = Text(m) /\ idnQuery' = (m.kind = "idn")
<1> DEFINE had == IF start = 0 THEN << >> ELSE buffer
           left == m.length - start - len
           text == Text(m)
           part == SubSeq(text, start + 1, start + len)
<1>1. /\ text \in Seq(TmcUnits) /\ Len(text) = m.length /\ m.length \in Nat /\ m.kind \in Kinds
  BY TextFacts, TmcConstants DEF Message
<1>2. had \in Seq(TmcUnits) /\ Len(had) < BufferSize
  <2>1. buffer \in Seq(TmcUnits) /\ Len(buffer) < BufferSize
    BY DEF TmcInv, TmcStored, TmcTypeOK
  <2>2. << >> \in Seq(TmcUnits) /\ Len(<< >>) < BufferSize
    BY TmcConstants
  <2> QED
    BY <2>1, <2>2
<1>3. part \in Seq(TmcUnits) /\ Len(part) = len
  BY <1>1, UnitsTaken
<1>4. had \o part \in Seq(TmcUnits) /\ Len(had \o part) = Len(had) + len
  <2> HIDE DEF had, part
  <2> QED
    BY <1>2, <1>3, UnitsJoined
<1>5. left \in Nat /\ left < m.length /\ left <= BufferSize /\ m.length - left = start + len
  BY <1>1, TmcConstants
<1>6. start = 0 \/ buffer = SubSeq(text, 1, start) => had \o part = SubSeq(text, 1, start + len)
  <2>1. CASE start = 0
    BY <2>1, <1>1, <1>3, UnitsWhole
  <2>2. CASE start # 0 /\ buffer = SubSeq(text, 1, start)
    BY <2>2, <1>1, UnitsContinued
  <2> QED
    BY <2>1, <2>2
<1>7. left = 0 => SubSeq(text, 1, start + len) = text
  BY <1>1, <1>5, UnitsWhole
<1>8. CASE BufferFits(had, len)
  <2>1. /\ buffer' = had \o part
        /\ queryState' = IF left = 0 /\ m.kind # "delay" THEN 1 ELSE 0
        /\ idnQuery' = (left = 0 /\ m.kind = "idn") /\ busRead' = TRUE /\ rest' = left
        /\ tmcHost' = IF left # 0 THEN "sending"
                      ELSE IF m.kind = "delay" THEN "ready" ELSE "waiting"
    BY <1>8 DEF tud_usbtmc_msg_data_cb
  <2> HIDE DEF part, left, text, had
  <2>2. Len(buffer') < BufferSize /\ buffer' \in Seq(TmcUnits)
    BY <2>1, <1>2, <1>4, <1>8, TmcConstants DEF BufferFits
  <2>3. queryState' \in 0 .. 4 /\ idnQuery' \in BOOLEAN /\ busRead' \in BOOLEAN
    BY <2>1
  <2>4. /\ tmcHost' \in {"ready", "sending", "waiting", "halted"} /\ rest' \in 0 .. BufferSize
        /\ tmcHost' = "sending" => rest' \in 1 .. m.length - 1
    BY <2>1, <1>1, <1>5, TmcConstants
  <2>5. ASSUME start = 0 \/ buffer = SubSeq(text, 1, start)
        PROVE  /\ tmcHost' = "sending" => buffer' = SubSeq(text, 1, m.length - rest')
               /\ tmcHost' = "waiting" =>
                    m.kind # "delay" /\ buffer' = text /\ idnQuery' = (m.kind = "idn")
    <3>1. buffer' = SubSeq(text, 1, m.length - rest')
      BY <2>1, <2>5, <1>5, <1>6
    <3>2. tmcHost' = "waiting" => left = 0 /\ m.kind # "delay"
      BY <2>1
    <3>3. left = 0 => buffer' = text /\ (idnQuery' <=> m.kind = "idn")
      BY <2>1, <2>5, <1>6, <1>7
    <3> QED
      BY <3>1, <3>2, <3>3, <2>3
  <2> QED
    BY <2>2, <2>3, <2>4, <2>5 DEF text
<1>9. CASE ~ BufferFits(had, len)
  <2>1. buffer' = had /\ busRead' = FALSE /\ rest' = 0 /\ tmcHost' = "halted"
        /\ UNCHANGED <<queryState, idnQuery>>
    BY <1>9 DEF tud_usbtmc_msg_data_cb
  <2>2. queryState \in 0 .. 4 /\ idnQuery \in BOOLEAN
    BY Zenon DEF TmcInv, TmcTypeOK
  <2>3. 0 \in 0 .. BufferSize
    BY TmcConstants
  <2> HIDE DEF part, left, text, had
  <2> QED
    BY <2>1, <2>2, <2>3, <1>2
<1> QED
  BY <1>8, <1>9

\* A host that has just asked something has received nothing.
LEMMA NothingSent ==
  ASSUME message' \in Message, message'.length > 0, buffer' \in Seq(TmcUnits),
         got' = << >>, buffer_tx_ix' = 0, bulkIn' = NoData
  PROVE  SentInOrder'
<1>1. << >> \in Seq(TmcUnits) /\ << >> \o << >> = << >> /\ NoData.data = << >> /\ NoData.eom = FALSE
      /\ NoData \in [data : Seq(TmcUnits), eom : BOOLEAN]
  BY DEF NoData
<1>2. SubSeq(buffer', 1, 0) = << >>
  BY UnitsWhole
<1>3. message'.length \in Nat
  BY TmcConstants DEF Message
<1> HIDE DEF NoData
<1> QED
  BY <1>1, <1>2, <1>3 DEF SentInOrder

LEMMA SendMessageStep == TmcInv /\ SendMessage => TmcInv'
<1> SUFFICES ASSUME TmcInv, SendMessage PROVE TmcInv'
  OBVIOUS
<1>1. /\ tmcHost = "ready" /\ messages < MaxMessages /\ messages' = messages + 1 /\ got' = << >>
      /\ UNCHANGED <<bulkInStarted, status, buffer_tx_ix, msgReqLen, tmcTask, bulkIn, polite,
                     clears, triggers>>
  BY DEF SendMessage
<1>2. PICK k \in Kinds, n \in 1 .. BufferSize + 1 :
        /\ message' = [number |-> messages + 1, kind |-> k, length |-> n]
        /\ tud_usbtmc_msgBulkOut_start_cb([number |-> messages + 1, kind |-> k, length |-> n])
  BY DEF SendMessage
<1> DEFINE m == [number |-> messages + 1, kind |-> k, length |-> n]
<1>3. messages \in 0 .. MaxMessages /\ messages \in Nat
  <2>1. messages \in 0 .. MaxMessages
    BY Zenon DEF TmcInv, TmcTypeOK
  <2> QED
    BY <2>1, TmcConstants
<1>4. m \in Message /\ m.length = n /\ m.kind = k /\ n \in Nat /\ n > 0 /\ m.kind \in Kinds
  BY <1>3, TmcConstants DEF Message
<1>5. message' = m
  BY <1>2
<1>6. polite => bulkIn' = NoData /\ ~ bulkInStarted' /\ buffer_tx_ix' = 0
  BY <1>1 DEF TmcInv, TmcPolite
<1>7. messages' \in 0 .. MaxMessages
  BY <1>1, <1>3, TmcConstants
<1>8. /\ bulkInStarted' \in BOOLEAN /\ status' \subseteq {"MAV", "SRQ"} /\ buffer_tx_ix' \in 0 .. BufferSize
      /\ msgReqLen' \in 0 .. BufferSize /\ bulkIn'.eom \in BOOLEAN /\ polite' \in BOOLEAN
      /\ tmcTask' \in {"loop", "delay 1", "delay 3", "transmit", "sent idn", "idn ended"}
      /\ clears' \in 0 .. MaxClears /\ triggers' \in 0 .. MaxTriggers /\ messages' \in 0 .. MaxMessages
  BY <1>1, <1>7, Zenon DEF TmcInv, TmcTypeOK
<1>9. m.length \in 0 .. BufferSize + 1
  BY <1>4, TmcConstants
<1>10. CASE n > BufferSize
  <2>1. buffer' = << >> /\ busRead' = FALSE /\ tmcHost' = "halted" /\ UNCHANGED <<queryState, idnQuery, rest>>
    BY <1>2, <1>4, <1>10 DEF tud_usbtmc_msgBulkOut_start_cb
  <2> HIDE DEF m
  <2>2. Len(buffer') < BufferSize /\ buffer' \in Seq(TmcUnits)
    BY <2>1, TmcConstants
  <2>3. queryState' \in 0 .. 4 /\ idnQuery' \in BOOLEAN /\ busRead' \in BOOLEAN /\ rest' \in 0 .. BufferSize
    BY <2>1, Zenon DEF TmcInv, TmcTypeOK
  <2>4. TmcTypeOK'
    BY <1>4, <1>5, <1>8, <1>9, <2>1, <2>2, <2>3, Zenon DEF TmcTypeOK
  <2>5. TmcStored'
    BY <1>4, <1>5, <2>1, <2>2 DEF TmcStored
  <2>6. polite' => TmcPolite'
    BY <1>1, <1>6, <2>1 DEF TmcPolite
  <2> QED
    BY <2>4, <2>5, <2>6 DEF TmcInv
<1>11. CASE ~ (n > BufferSize)
  <2> DEFINE len == Min({n, PacketSize})
  <2>1. len \in Nat /\ len > 0 /\ 0 + len <= m.length /\ m.length <= BufferSize
    BY <1>4, <1>11, MinOfTwo, TmcConstants
  <2>2. tud_usbtmc_msg_data_cb(m, 0, len)
    BY <1>2, <1>4, <1>11 DEF tud_usbtmc_msgBulkOut_start_cb
  <2> HIDE DEF m, len
  <2>3. /\ buffer' \in Seq(TmcUnits) /\ Len(buffer') < BufferSize
        /\ queryState' \in 0 .. 4 /\ idnQuery' \in BOOLEAN /\ busRead' \in BOOLEAN
        /\ tmcHost' \in {"ready", "sending", "waiting", "halted"} /\ rest' \in 0 .. BufferSize
        /\ tmcHost' = "sending" => rest' \in 1 .. m.length - 1
        /\ tmcHost' = "sending" => buffer' = SubSeq(Text(m), 1, m.length - rest')
        /\ tmcHost' = "waiting" =>
             m.kind # "delay" /\ buffer' = Text(m) /\ idnQuery' = (m.kind = "idn")
    BY <1>4, <2>1, <2>2, PacketStored
  <2>4. tmcHost' \in {"ready", "sending", "waiting", "asking", "reading", "clearing", "aborting", "halted"}
    BY <2>3
  <2>5. TmcTypeOK'
    BY <1>4, <1>5, <1>8, <1>9, <2>3, <2>4, Zenon DEF TmcTypeOK
  <2>6. TmcStored'
    BY <1>4, <1>5, <2>1, <2>3 DEF TmcStored
  <2>7. polite' => SentInOrder'
    BY <1>1, <1>4, <1>5, <1>6, <2>3, NothingSent
  <2>8. polite' => TmcPolite'
    BY <1>1, <1>4, <1>5, <1>6, <2>3, <2>7 DEF TmcPolite
  <2> QED
    BY <2>5, <2>6, <2>8 DEF TmcInv
<1> QED
  BY <1>10, <1>11

LEMMA SendPacketStep == TmcInv /\ SendPacket => TmcInv'
<1> SUFFICES ASSUME TmcInv, SendPacket PROVE TmcInv'
  OBVIOUS
<1> DEFINE start == message.length - rest
           len == Min({rest, PacketSize})
<1>1. /\ tmcHost = "sending" /\ tud_usbtmc_msg_data_cb(message, start, len)
      /\ UNCHANGED <<bulkInStarted, status, buffer_tx_ix, msgReqLen, tmcTask, bulkIn, message,
                     got, polite, messages, clears, triggers>>
  BY DEF SendPacket
<1>2. /\ message \in Message /\ message.length \in 1 .. BufferSize /\ rest \in 1 .. message.length - 1
      /\ message.kind \in Kinds
  BY <1>1 DEF TmcInv, TmcStored, Message
<1>3. /\ start \in Nat /\ len \in Nat /\ len > 0 /\ start + len <= message.length
      /\ message.length <= BufferSize /\ message.length > 0
  BY <1>2, MinOfTwo, TmcConstants
<1>4. polite => /\ buffer = SubSeq(Text(message), 1, start) /\ got = << >>
                /\ bulkIn = NoData /\ ~ bulkInStarted /\ buffer_tx_ix = 0
  BY <1>1 DEF TmcInv, TmcPolite
<1> HIDE DEF start, len
<1>5. /\ buffer' \in Seq(TmcUnits) /\ Len(buffer') < BufferSize
      /\ queryState' \in 0 .. 4 /\ idnQuery' \in BOOLEAN /\ busRead' \in BOOLEAN
      /\ tmcHost' \in {"ready", "sending", "waiting", "halted"} /\ rest' \in 0 .. BufferSize
      /\ tmcHost' = "sending" => rest' \in 1 .. message.length - 1
      /\ polite /\ tmcHost' = "sending" => buffer' = SubSeq(Text(message), 1, message.length - rest')
      /\ polite /\ tmcHost' = "waiting" =>
           message.kind # "delay" /\ buffer' = Text(message) /\ idnQuery' = (message.kind = "idn")
  BY <1>1, <1>2, <1>3, <1>4, PacketStored
<1>6. tmcHost' \in {"ready", "sending", "waiting", "asking", "reading", "clearing", "aborting", "halted"}
  BY <1>5
<1>7. TmcTypeOK'
  BY <1>1, <1>5, <1>6, Zenon DEF TmcInv, TmcTypeOK
<1>8. TmcStored'
  BY <1>1, <1>2, <1>5 DEF TmcStored
<1>9. message' \in Message /\ message'.length > 0
  BY <1>1, <1>2, <1>3
<1>10. polite' => SentInOrder'
  BY <1>1, <1>4, <1>5, <1>9, NothingSent
<1>11. Text(message)' = Text(message)
  BY <1>1 DEF Text
<1>12. polite' => TmcPolite'
  BY <1>1, <1>4, <1>5, <1>9, <1>10, <1>11 DEF TmcPolite
<1> QED
  BY <1>7, <1>8, <1>12 DEF TmcInv

LEMMA RequestStep == TmcInv /\ tud_usbtmc_msgBulkIn_request_cb => TmcInv'
<1> SUFFICES ASSUME TmcInv, tud_usbtmc_msgBulkIn_request_cb PROVE TmcInv'
  OBVIOUS
<1>1. /\ tmcHost \in {"ready", "waiting"} /\ busRead' = FALSE
      /\ tmcHost' = IF tmcHost = "waiting" THEN "reading" ELSE "asking"
      /\ polite' = (polite /\ tmcHost = "waiting")
      /\ UNCHANGED <<queryState, idnQuery, status, buffer, tmcTask, message, rest, got, messages,
                     clears, triggers>>
  BY DEF tud_usbtmc_msgBulkIn_request_cb
<1>2. PICK n \in 1 .. BufferSize :
        /\ msgReqLen' = n
        /\ IF queryState = 0 \/ buffer_tx_ix = 0
           THEN bulkInStarted' = TRUE /\ UNCHANGED <<bulkIn, buffer_tx_ix>>
           ELSE LET len == Min({Len(buffer) - buffer_tx_ix, n})
                IN /\ bulkIn' = Part(buffer_tx_ix, len)
                   /\ buffer_tx_ix' = buffer_tx_ix + len
                   /\ UNCHANGED bulkInStarted
  BY DEF tud_usbtmc_msgBulkIn_request_cb
<1>3. /\ buffer \in Seq(TmcUnits) /\ Len(buffer) < BufferSize /\ Len(buffer) \in Nat
      /\ buffer_tx_ix \in 0 .. BufferSize /\ polite \in BOOLEAN
  <2>1. /\ buffer \in Seq(TmcUnits) /\ Len(buffer) < BufferSize
        /\ buffer_tx_ix \in 0 .. BufferSize /\ polite \in BOOLEAN
    BY Zenon DEF TmcInv, TmcStored, TmcTypeOK
  <2> QED
    BY <2>1
<1>4. n \in Nat /\ n > 0 /\ msgReqLen' \in 0 .. BufferSize
  BY <1>2, TmcConstants
<1>5. tmcHost' \in {"ready", "sending", "waiting", "asking", "reading", "clearing", "aborting", "halted"}
      /\ tmcHost' # "sending" /\ polite' \in BOOLEAN /\ busRead' \in BOOLEAN
  BY <1>1, <1>3
<1>6. polite' => polite /\ tmcHost = "waiting" /\ tmcHost' = "reading"
  BY <1>1, <1>3
<1>7. polite' => /\ bulkIn = NoData /\ message.kind # "delay" /\ message.length > 0
                 /\ buffer = Text(message) /\ idnQuery = (message.kind = "idn") /\ SentInOrder
  BY <1>6 DEF TmcInv, TmcPolite
<1>8. TmcStored'
  BY <1>1, <1>5 DEF TmcInv, TmcStored
<1>9. Text(message)' = Text(message)
  BY <1>1 DEF Text
<1>10. CASE queryState = 0 \/ buffer_tx_ix = 0
  <2>1. bulkInStarted' = TRUE /\ UNCHANGED <<bulkIn, buffer_tx_ix>>
    BY <1>2, <1>10
  <2>2. TmcTypeOK'
    BY <1>1, <1>4, <1>5, <2>1, Zenon DEF TmcInv, TmcTypeOK
  <2>3. polite' => SentInOrder'
    BY <1>1, <1>7, <2>1 DEF SentInOrder
  <2>4. polite' => TmcPolite'
    BY <1>1, <1>6, <1>7, <1>9, <2>3 DEF TmcPolite
  <2> QED
    BY <1>8, <2>2, <2>4 DEF TmcInv
<1>11. CASE ~ (queryState = 0 \/ buffer_tx_ix = 0)
  <2> DEFINE d == Len(buffer) - buffer_tx_ix
             len == Min({d, n})
  <2>1. bulkIn' = Part(buffer_tx_ix, len) /\ buffer_tx_ix' = buffer_tx_ix + len
        /\ UNCHANGED bulkInStarted
    BY <1>2, <1>11
  <2>2. d \in Int /\ len \in Int /\ len = IF d <= n THEN d ELSE n
    BY <1>3, <1>4, MinOfTwo
  <2>3. buffer_tx_ix' \in 0 .. BufferSize /\ (d > 0 => len > 0 /\ buffer_tx_ix + len <= Len(buffer))
    <3>1. d = Len(buffer) - buffer_tx_ix
      OBVIOUS
    <3> HIDE DEF d, len
    <3> QED
      BY <3>1, <1>3, <1>4, <2>1, <2>2, TmcConstants
  <2> DEFINE part == SubSeq(buffer, buffer_tx_ix + 1, buffer_tx_ix + len)
  <2>4. bulkIn' = [data |-> part, eom |-> buffer_tx_ix' = Len(buffer)]
    BY <2>1 DEF Part
  <2>5. bulkIn'.eom \in BOOLEAN /\ bulkIn'.data = part /\ (bulkIn'.eom <=> buffer_tx_ix' = Len(buffer))
    BY <2>4
  <2>6. TmcTypeOK'
    BY <1>1, <1>4, <1>5, <2>1, <2>3, <2>5, Zenon DEF TmcInv, TmcTypeOK
  <2>7. ASSUME polite' PROVE SentInOrder'
    <3>1. Len(buffer) = message.length /\ message \in Message
      BY <1>7, <2>7, TextFacts DEF TmcInv, TmcStored
    <3>2. message.kind # "idn" /\ got \in Seq(TmcUnits) /\ buffer_tx_ix < message.length
          /\ got \o NoData.data = SubSeq(buffer, 1, buffer_tx_ix)
      BY <1>7, <1>11, <2>7 DEF SentInOrder
    <3>3. got = SubSeq(buffer, 1, buffer_tx_ix)
      BY <3>2, UnitsWhole DEF NoData
    <3>4. len \in Nat /\ len > 0 /\ buffer_tx_ix + len <= Len(buffer) /\ buffer_tx_ix \in Nat
      BY <1>3, <2>2, <2>3, <3>1, <3>2
    <3> HIDE DEF len, d
    <3>5. part \in Seq(TmcUnits) /\ Len(part) = len
      BY <1>3, <3>4, UnitsTaken
    <3>6. got \o part = SubSeq(buffer, 1, buffer_tx_ix + len)
      BY <1>3, <3>3, <3>4, UnitsContinued
    <3>7. bulkIn' \in [data : Seq(TmcUnits), eom : BOOLEAN]
      BY <2>4, <2>5, <3>5
    <3>8. bulkIn' # NoData
      <4>1. Len(bulkIn'.data) > 0 /\ Len(NoData.data) = 0
        BY <2>5, <3>4, <3>5 DEF NoData
      <4> QED
        BY <4>1
    <3> HIDE DEF part
    <3> QED
      BY <1>1, <2>1, <2>5, <3>1, <3>2, <3>4, <3>6, <3>7, <3>8 DEF SentInOrder
  <2>8. polite' => TmcPolite'
    BY <1>1, <1>6, <1>7, <1>9, <2>7 DEF TmcPolite
  <2> QED
    BY <1>8, <2>6, <2>8 DEF TmcInv
<1> QED
  BY <1>10, <1>11

LEMMA CompleteStep == TmcInv /\ tud_usbtmc_msgBulkIn_complete_cb => TmcInv'
<1> SUFFICES ASSUME TmcInv, tud_usbtmc_msgBulkIn_complete_cb PROVE TmcInv'
  OBVIOUS
<1> DEFINE ended == buffer_tx_ix = Len(buffer) \/ idnQuery
<1>1. /\ bulkIn # NoData /\ busRead' = TRUE /\ got' = got \o bulkIn.data /\ bulkIn' = NoData
      /\ tmcHost' = IF bulkIn.eom THEN "ready" ELSE "waiting"
      /\ UNCHANGED <<idnQuery, buffer, msgReqLen, tmcTask, message, rest, polite, messages,
                     clears, triggers>>
  BY DEF tud_usbtmc_msgBulkIn_complete_cb
<1>2. ended => /\ status' = status \ {"MAV"}
               /\ queryState' = 0 /\ bulkInStarted' = FALSE /\ buffer_tx_ix' = 0
  BY DEF tud_usbtmc_msgBulkIn_complete_cb
<1>3. ~ ended => UNCHANGED <<status, queryState, bulkInStarted, buffer_tx_ix>>
  BY DEF tud_usbtmc_msgBulkIn_complete_cb
<1> HIDE DEF ended
<1>4. status \subseteq {"MAV", "SRQ"} /\ queryState \in 0 .. 4 /\ bulkInStarted \in BOOLEAN
      /\ buffer_tx_ix \in 0 .. BufferSize
  BY Zenon DEF TmcInv, TmcTypeOK
<1>5. status' \subseteq {"MAV", "SRQ"} /\ queryState' \in 0 .. 4 /\ bulkInStarted' \in BOOLEAN
      /\ buffer_tx_ix' \in 0 .. BufferSize
  <2>1. CASE ended
    <3>1. 0 \in 0 .. BufferSize /\ 0 \in 0 .. 4
      BY TmcConstants
    <3> QED
      BY <3>1, <2>1, <1>2, <1>4
  <2>2. CASE ~ ended
    BY <2>2, <1>3, <1>4
  <2> QED
    BY <2>1, <2>2
<1>6. busRead' \in BOOLEAN /\ bulkIn'.eom \in BOOLEAN /\ tmcHost' # "sending"
      /\ tmcHost' \in {"ready", "sending", "waiting", "asking", "reading", "clearing", "aborting", "halted"}
  BY <1>1 DEF NoData
<1>7. TmcTypeOK'
  BY <1>1, <1>5, <1>6, Zenon DEF TmcInv, TmcTypeOK
<1>8. TmcStored'
  BY <1>1, <1>6 DEF TmcInv, TmcStored
<1>9. ASSUME polite PROVE TmcPolite'
  <2>1. tmcHost = "reading" /\ message.kind # "delay" /\ message.length > 0
        /\ buffer = Text(message) /\ idnQuery = (message.kind = "idn") /\ SentInOrder
    BY <1>1, <1>9 DEF TmcInv, TmcPolite
  <2>2. Len(buffer) = message.length /\ message \in Message /\ buffer \in Seq(TmcUnits)
    BY <2>1, TextFacts DEF TmcInv, TmcStored
  <2>3. CASE message.kind = "idn"
    <3>1. ended /\ bulkIn = IdnPart
      BY <1>1, <2>1, <2>3 DEF ended, SentInOrder
    <3>2. tmcHost' = "ready"
      BY <1>1, <3>1 DEF IdnPart
    <3> QED
      BY <1>1, <1>2, <3>1, <3>2 DEF TmcPolite
  <2>4. CASE message.kind # "idn"
    <3>1. /\ got \in Seq(TmcUnits) /\ bulkIn \in [data : Seq(TmcUnits), eom : BOOLEAN]
          /\ buffer_tx_ix <= message.length /\ got \o bulkIn.data = SubSeq(buffer, 1, buffer_tx_ix)
          /\ buffer_tx_ix > 0 /\ (bulkIn.eom <=> buffer_tx_ix = message.length)
      BY <1>1, <2>1, <2>4 DEF SentInOrder
    <3>2. ended <=> bulkIn.eom
      BY <2>1, <2>2, <2>4, <3>1 DEF ended
    <3>3. CASE bulkIn.eom
      <4>1. tmcHost' = "ready" /\ ~ bulkInStarted' /\ buffer_tx_ix' = 0
        BY <1>1, <1>2, <3>2, <3>3
      <4> QED
        BY <1>1, <4>1 DEF TmcPolite
    <3>4. CASE ~ bulkIn.eom
      <4>1. tmcHost' = "waiting" /\ buffer_tx_ix' = buffer_tx_ix
        BY <1>1, <1>3, <3>2, <3>4
      <4>2. got' \in Seq(TmcUnits) /\ got' \o << >> = got'
        BY <1>1, <3>1, UnitsJoined, UnitsWhole
      <4>3. NoData \in [data : Seq(TmcUnits), eom : BOOLEAN] /\ NoData.data = << >>
        BY DEF NoData
      <4>4. buffer_tx_ix < message.length
        BY <1>4, <2>2, <3>1, <3>4 DEF Message
      <4>5. SentInOrder'
        BY <1>1, <2>4, <3>1, <4>1, <4>2, <4>3, <4>4 DEF SentInOrder
      <4>6. Text(message)' = Text(message)
        BY <1>1 DEF Text
      <4> QED
        BY <1>1, <2>1, <3>1, <4>1, <4>5, <4>6 DEF TmcPolite
    <3> QED
      BY <3>3, <3>4
  <2> QED
    BY <2>3, <2>4
<1> QED
  BY <1>1, <1>7, <1>8, <1>9 DEF TmcInv

LEMMA TransmitStep == TmcInv /\ Transmit => TmcInv'
<1> SUFFICES ASSUME TmcInv, Transmit PROVE TmcInv'
  OBVIOUS
<1>1. UNCHANGED <<query, status, buffer, msgReqLen, busRead, host>>
  BY DEF Transmit
<1>2. tmcTask' \in {"loop", "delay 1", "delay 3", "transmit", "sent idn", "idn ended"}
  BY DEF Transmit
<1>3. TmcStored'
  BY <1>1 DEF TmcInv, TmcStored, host
<1>4. Text(message)' = Text(message)
  BY <1>1 DEF Text, host
<1>5. CASE UNCHANGED <<bulkIn, buffer_tx_ix>>
  <2>1. TmcTypeOK'
    BY <1>1, <1>2, <1>5, Zenon DEF TmcInv, TmcTypeOK, query, host
  <2>2. SentInOrder => SentInOrder'
    BY <1>1, <1>5, Zenon DEF SentInOrder, IdnPart, host
  <2>3. polite' => TmcPolite'
    BY <1>1, <1>4, <1>5, <2>2, Zenon DEF TmcInv, TmcPolite, query, host
  <2> QED
    BY <1>3, <2>1, <2>3 DEF TmcInv
<1>6. CASE bulkInStarted /\ buffer_tx_ix = 0 /\ idnQuery
  <2>1. bulkIn' = IdnPart /\ IdnPart' = IdnPart /\ buffer_tx_ix' = buffer_tx_ix /\ bulkIn'.eom \in BOOLEAN
    <3>1. bulkIn' = IdnPart /\ buffer_tx_ix' = buffer_tx_ix
      BY <1>6, Zenon DEF Transmit, IdnPart
    <3>2. IdnPart' = IdnPart
      BY <1>1, Zenon DEF IdnPart
    <3> QED
      BY <3>1, <3>2 DEF IdnPart
  <2>2. TmcTypeOK'
    BY <1>1, <1>2, <2>1, Zenon DEF TmcInv, TmcTypeOK, query, host
  <2>3. ASSUME polite PROVE TmcPolite'
    <3>1. tmcHost = "reading" /\ message.kind # "delay" /\ message.length > 0
          /\ buffer = Text(message) /\ idnQuery = (message.kind = "idn") /\ SentInOrder
      BY <1>6, <2>3 DEF TmcInv, TmcPolite
    <3>2. message.kind = "idn" /\ got = << >>
      BY <1>6, <3>1 DEF SentInOrder
    <3>3. SentInOrder'
      BY <1>1, <1>6, <2>1, <3>2 DEF SentInOrder, host
    <3>4. UNCHANGED <<tmcHost, message, buffer, idnQuery>>
      BY <1>1 DEF query, host
    <3> QED
      BY <1>4, <3>1, <3>3, <3>4 DEF TmcPolite
  <2>4. polite' = polite
    BY <1>1 DEF host
  <2> QED
    BY <1>3, <2>2, <2>3, <2>4 DEF TmcInv
<1>7. CASE bulkInStarted /\ buffer_tx_ix = 0 /\ ~ idnQuery
  <2> DEFINE len == Min({Len(buffer), msgReqLen})
  <2>1. buffer_tx_ix' = len /\ bulkIn' = Part(0, len)
    BY <1>7 DEF Transmit
  <2>2. buffer \in Seq(TmcUnits) /\ Len(buffer) < BufferSize /\ msgReqLen \in 0 .. BufferSize
    BY Zenon DEF TmcInv, TmcStored, TmcTypeOK
  <2>3. len \in Nat /\ len <= Len(buffer) /\ len \in 0 .. BufferSize /\ Len(buffer) \in Nat
    <3>1. Len(buffer) \in Nat /\ msgReqLen \in Nat
      BY <2>2, TmcConstants
    <3>2. len = IF Len(buffer) <= msgReqLen THEN Len(buffer) ELSE msgReqLen
      BY <3>1, MinOfTwo
    <3> HIDE DEF len
    <3> QED
      BY <2>2, <3>1, <3>2, TmcConstants
  <2> HIDE DEF len
  <2>4. bulkIn' = [data |-> SubSeq(buffer, 1, len), eom |-> len = Len(buffer)]
    <3>1. 0 + 1 = 1 /\ 0 + len = len
      BY <2>3
    <3>2. Part(0, len) = [data |-> SubSeq(buffer, 0 + 1, 0 + len), eom |-> 0 + len = Len(buffer)]
      BY DEF Part
    <3> QED
      BY <2>1, <3>1, <3>2
  <2>5. bulkIn'.data = SubSeq(buffer, 1, len) /\ bulkIn'.eom \in BOOLEAN /\ (bulkIn'.eom <=> len = Len(buffer))
    BY <2>4
  <2>6. TmcTypeOK'
    BY <1>1, <1>2, <2>1, <2>3, <2>5, Zenon DEF TmcInv, TmcTypeOK, query, host
  <2>7. ASSUME polite PROVE TmcPolite'
    <3>1. tmcHost = "reading" /\ message.kind # "delay" /\ message.length > 0
          /\ buffer = Text(message) /\ idnQuery = (message.kind = "idn") /\ SentInOrder
      BY <1>7, <2>7 DEF TmcInv, TmcPolite
    <3>2. Len(buffer) = message.length /\ message \in Message
      BY <3>1, TextFacts DEF TmcInv, TmcStored
    <3>3. message.kind # "idn" /\ got \in Seq(TmcUnits) /\ bulkIn = NoData
          /\ got \o NoData.data = SubSeq(buffer, 1, 0)
      <4>1. /\ message.kind # "idn" /\ got \in Seq(TmcUnits)
            /\ bulkIn # NoData => buffer_tx_ix > 0
            /\ got \o bulkIn.data = SubSeq(buffer, 1, buffer_tx_ix)
        BY <1>7, <3>1 DEF SentInOrder
      <4> QED
        BY <1>7, <4>1
    <3>4. got = << >>
      BY <2>2, <3>3, UnitsWhole DEF NoData
    <3>5. SubSeq(buffer, 1, len) \in Seq(TmcUnits) /\ Len(SubSeq(buffer, 1, len)) = len
      <4>1. 0 + 1 = 1 /\ 0 + len = len /\ 0 \in Nat
        BY <2>3
      <4> QED
        BY <2>2, <2>3, <4>1, UnitsTaken
    <3>6. got \o bulkIn'.data = SubSeq(buffer, 1, len)
      BY <2>5, <3>4, <3>5, UnitsWhole
    <3>7. bulkIn' \in [data : Seq(TmcUnits), eom : BOOLEAN]
      BY <2>4, <2>5, <3>5
    <3>8. bulkIn' = NoData => len < message.length
      <4>1. bulkIn' = NoData => ~ bulkIn'.eom
        BY DEF NoData
      <4> QED
        BY <2>3, <2>5, <3>2, <4>1
    <3>9. len = 0 => bulkIn' = NoData
      <4>1. len = 0 => SubSeq(buffer, 1, len) = << >> /\ (len = Len(buffer)) = FALSE
        BY <2>2, <2>3, <3>1, <3>2, UnitsWhole
      <4> QED
        BY <2>4, <4>1 DEF NoData
    <3>10. SentInOrder'
      BY <1>1, <2>1, <2>3, <2>5, <3>2, <3>3, <3>4, <3>6, <3>7, <3>8, <3>9 DEF SentInOrder, host
    <3>11. UNCHANGED <<tmcHost, message, buffer, idnQuery>>
      BY <1>1 DEF query, host
    <3> QED
      BY <1>4, <3>1, <3>10, <3>11 DEF TmcPolite
  <2>8. polite' = polite
    BY <1>1 DEF host
  <2> QED
    BY <1>3, <2>6, <2>7, <2>8 DEF TmcInv
<1> QED
  BY <1>5, <1>6, <1>7 DEF Transmit

LEMMA TmcTaskStep == TmcInv /\ usbtmc_app_task_iter => TmcInv'
<1> SUFFICES ASSUME TmcInv, usbtmc_app_task_iter, ~ Transmit PROVE TmcInv'
  BY TransmitStep
<1>1. /\ UNCHANGED <<idnQuery, stored, msgReqLen, busRead, bulkIn, host>>
      /\ (bulkInStarted' = bulkInStarted \/ bulkInStarted' = FALSE) /\ status' \in {status, status \cup {"MAV", "SRQ"}}
  BY DEF usbtmc_app_task_iter, StartIteration, FirstDelay, SecondDelay, EndIdnQuery, Answerable
<1>2. queryState' \in 0 .. 4
  <2>1. queryState \in 0 .. 4
    BY Zenon DEF TmcInv, TmcTypeOK
  <2>2. queryState' \in {0, 2, 3, 4, queryState}
    BY Zenon DEF usbtmc_app_task_iter, StartIteration, FirstDelay, SecondDelay, EndIdnQuery, Answerable
  <2> QED
    BY <2>1, <2>2
<1>3. tmcTask' \in {"loop", "delay 1", "delay 3", "transmit", "sent idn", "idn ended"}
  BY DEF usbtmc_app_task_iter, StartIteration, FirstDelay, SecondDelay, EndIdnQuery, Answerable
<1>4. bulkInStarted' \in BOOLEAN /\ status' \subseteq {"MAV", "SRQ"} /\ (bulkInStarted' => bulkInStarted)
  <2>1. bulkInStarted \in BOOLEAN /\ status \subseteq {"MAV", "SRQ"}
    BY Zenon DEF TmcInv, TmcTypeOK
  <2>2. bulkInStarted' \in BOOLEAN /\ (bulkInStarted' => bulkInStarted)
    <3>1. CASE bulkInStarted' = FALSE
      BY <3>1
    <3>2. CASE bulkInStarted' = bulkInStarted
      BY <2>1, <3>2, Zenon
    <3> QED
      BY <1>1, <3>1, <3>2
  <2>3. status' \subseteq {"MAV", "SRQ"}
    BY <1>1, <2>1
  <2> QED
    BY <2>2, <2>3
<1>5. TmcTypeOK'
  BY <1>1, <1>2, <1>3, <1>4, Zenon DEF TmcInv, TmcTypeOK, stored, host
<1>6. TmcStored'
  BY <1>1, Zenon DEF TmcInv, TmcStored, stored, host
<1>7. polite' => TmcPolite'
  BY <1>1, <1>4, Zenon DEF TmcInv, TmcPolite, SentInOrder, IdnPart, Text, stored, host
<1> QED
  BY <1>5, <1>6, <1>7 DEF TmcInv

ControlRequest ==
  \/ tud_usbtmc_initiate_clear_cb \/ tud_usbtmc_check_clear_cb
  \/ tud_usbtmc_bulkOut_clearFeature_cb
  \/ tud_usbtmc_initiate_abort_bulk_in_cb \/ tud_usbtmc_initiate_abort_bulk_out_cb \/ CheckAbort
  \/ tud_usbtmc_msg_trigger_cb \/ tud_usbtmc_get_stb_cb

LEMMA ControlRequestStep == TmcInv /\ ControlRequest => TmcInv'
<1> SUFFICES ASSUME TmcInv, ControlRequest PROVE TmcInv'
  OBVIOUS
<1>1. /\ clears \in 0 .. MaxClears /\ triggers \in 0 .. MaxTriggers
      /\ status \subseteq {"MAV", "SRQ"}
  BY Zenon DEF TmcInv, TmcTypeOK
<1>2. (clears < MaxClears => clears + 1 \in 0 .. MaxClears) /\ (triggers < MaxTriggers => triggers + 1 \in 0 .. MaxTriggers)
  BY <1>1, TmcConstants
<1>3. status \cup {"SRQ"} \subseteq {"MAV", "SRQ"} /\ status \ {"SRQ"} \subseteq {"MAV", "SRQ"}
  BY <1>1
<1>4. 0 \in 0 .. BufferSize /\ 0 \in 0 .. 4 /\ << >> \in Seq(TmcUnits) /\ Len(<< >>) < BufferSize
  BY TmcConstants
<1>5. NoData.eom \in BOOLEAN /\ {} \subseteq {"MAV", "SRQ"}
  BY DEF NoData
<1>6. ASSUME tud_usbtmc_initiate_clear_cb PROVE TmcInv'
  <2>1. TmcTypeOK'
    BY <1>2, <1>4, <1>5, <1>6, Zenon DEF tud_usbtmc_initiate_clear_cb, TmcInv, TmcTypeOK, stored
  <2>2. TmcStored' /\ ~ polite'
    BY <1>6 DEF tud_usbtmc_initiate_clear_cb, TmcInv, TmcStored, stored
  <2> QED
    BY <2>1, <2>2 DEF TmcInv
<1>7. ASSUME tud_usbtmc_check_clear_cb PROVE TmcInv'
  <2>1. TmcTypeOK'
    BY <1>4, <1>5, <1>7, Zenon DEF tud_usbtmc_check_clear_cb, TmcInv, TmcTypeOK
  <2>2. TmcStored' /\ ~ polite'
    BY <1>4, <1>7 DEF tud_usbtmc_check_clear_cb, TmcInv, TmcStored, TmcPolite
  <2> QED
    BY <2>1, <2>2 DEF TmcInv
<1>8. ASSUME tud_usbtmc_bulkOut_clearFeature_cb PROVE TmcInv'
  <2>1. TmcTypeOK'
    BY <1>8, Zenon DEF tud_usbtmc_bulkOut_clearFeature_cb, TmcInv, TmcTypeOK, query, stored
  <2>2. TmcStored' /\ (polite' => TmcPolite')
    BY <1>8 DEF tud_usbtmc_bulkOut_clearFeature_cb, TmcInv, TmcStored, TmcPolite, query, stored
  <2> QED
    BY <2>1, <2>2 DEF TmcInv
<1>9. ASSUME tud_usbtmc_initiate_abort_bulk_in_cb PROVE TmcInv'
  <2>1. TmcTypeOK'
    BY <1>2, <1>5, <1>9, Zenon DEF tud_usbtmc_initiate_abort_bulk_in_cb, TmcInv, TmcTypeOK, stored
  <2>2. TmcStored' /\ ~ polite'
    BY <1>9 DEF tud_usbtmc_initiate_abort_bulk_in_cb, TmcInv, TmcStored, stored
  <2> QED
    BY <2>1, <2>2 DEF TmcInv
<1>10. ASSUME tud_usbtmc_initiate_abort_bulk_out_cb PROVE TmcInv'
  <2>1. TmcTypeOK'
    BY <1>2, <1>4, <1>10, Zenon DEF tud_usbtmc_initiate_abort_bulk_out_cb, TmcInv, TmcTypeOK, query, stored
  <2>2. TmcStored' /\ ~ polite'
    BY <1>10 DEF tud_usbtmc_initiate_abort_bulk_out_cb, TmcInv, TmcStored, stored
  <2> QED
    BY <2>1, <2>2 DEF TmcInv
<1>11. ASSUME CheckAbort PROVE TmcInv'
  <2>1. TmcTypeOK'
    BY <1>11, Zenon DEF CheckAbort, TmcInv, TmcTypeOK, query, stored
  <2>2. TmcStored' /\ ~ polite'
    BY <1>11 DEF CheckAbort, TmcInv, TmcStored, TmcPolite, stored
  <2> QED
    BY <2>1, <2>2 DEF TmcInv
<1>12. ASSUME tud_usbtmc_msg_trigger_cb \/ tud_usbtmc_get_stb_cb PROVE TmcInv'
  <2>1. /\ UNCHANGED <<query, stored, msgReqLen, tmcTask, busRead, bulkIn, tmcHost, message, rest,
                       got, polite, messages, clears>>
        /\ triggers' \in 0 .. MaxTriggers /\ status' \subseteq {"MAV", "SRQ"}
    BY <1>2, <1>3, <1>12, Zenon DEF tud_usbtmc_msg_trigger_cb, tud_usbtmc_get_stb_cb
  <2>2. TmcTypeOK'
    BY <2>1, Zenon DEF TmcInv, TmcTypeOK, query, stored
  <2>3. TmcStored'
    BY <2>1, Zenon DEF TmcInv, TmcStored, query, stored
  <2>4. polite' => TmcPolite'
    BY <2>1, Zenon DEF TmcInv, TmcPolite, SentInOrder, IdnPart, Text, query, stored
  <2> QED
    BY <2>2, <2>3, <2>4 DEF TmcInv
<1> QED
  BY <1>6, <1>7, <1>8, <1>9, <1>10, <1>11, <1>12 DEF ControlRequest

LEMMA TmcStep == TmcInv /\ [TmcNext]_tmcVars => TmcInv'
<1>1. ASSUME TmcInv, UNCHANGED tmcVars PROVE TmcInv'
  <2>1. TmcTypeOK'
    BY <1>1, Zenon DEF TmcInv, TmcTypeOK, tmcVars
  <2>2. TmcStored'
    BY <1>1, Zenon DEF TmcInv, TmcStored, tmcVars
  <2>3. polite' => TmcPolite'
    BY <1>1, Zenon DEF TmcInv, TmcPolite, SentInOrder, IdnPart, Text, tmcVars
  <2> QED
    BY <2>1, <2>2, <2>3 DEF TmcInv
<1> QED
  BY <1>1, SendMessageStep, SendPacketStep, RequestStep, CompleteStep, TmcTaskStep, ControlRequestStep
  DEF TmcNext, ControlRequest

LEMMA TmcInitInv == TmcInit => TmcInv
<1> SUFFICES ASSUME TmcInit PROVE TmcInv
  OBVIOUS
<1>1. /\ 0 \in 0 .. BufferSize /\ 0 \in 0 .. BufferSize + 1 /\ 0 \in 0 .. 4 /\ 0 \in Nat
      /\ 0 \in 0 .. MaxMessages /\ 0 \in 0 .. MaxClears /\ 0 \in 0 .. MaxTriggers
      /\ << >> \in Seq(TmcUnits) /\ Len(<< >>) < BufferSize
  BY TmcConstants
<1>2. message.kind \in Kinds /\ message.length = 0 /\ message.number = 0 /\ message \in Message
  BY <1>1 DEF TmcInit, Kinds, Message
<1>3. bulkIn.eom \in BOOLEAN /\ status \subseteq {"MAV", "SRQ"}
  BY DEF TmcInit, NoData
<1>4. message.length \in 0 .. BufferSize + 1
  BY <1>1, <1>2
<1>5. TmcTypeOK
  BY <1>1, <1>2, <1>3, <1>4, Zenon DEF TmcInit, TmcTypeOK
<1>6. TmcStored /\ TmcPolite
  BY <1>1, <1>2 DEF TmcInit, TmcStored, TmcPolite
<1> QED
  BY <1>5, <1>6 DEF TmcInv

LEMMA TmcSafe == TmcInv => TmcTypeOK /\ AnswerWhole
<1> DEFINE answered == got \o bulkIn.data
<1> SUFFICES ASSUME TmcInv, polite, bulkIn # NoData
             PROVE  /\ tmcHost = "reading" /\ IsPrefix(answered, Expected)
                    /\ answered = Expected => bulkIn.eom
                    /\ bulkIn.eom => answered = Expected \/ (message.kind = "idn" /\ Len(answered) = msgReqLen)
  BY DEF TmcInv, AnswerWhole
<1>1. tmcHost = "reading" /\ message.kind # "delay" /\ message.length > 0
      /\ buffer = Text(message) /\ SentInOrder
  BY DEF TmcInv, TmcPolite
<1>2. Len(buffer) = message.length /\ buffer \in Seq(TmcUnits) /\ message.length \in Nat
  BY <1>1, TextFacts, TmcConstants DEF TmcInv, TmcStored, Message
<1>3. CASE message.kind = "idn"
  <2>0. TmcTypeOK
    BY DEF TmcInv
  <2> DEFINE n == Min({Len(idn), msgReqLen})
  <2>1. idn \in Seq(TmcUnits) /\ Len(idn) \in Nat /\ n \in Nat /\ n <= Len(idn) /\ n \in {Len(idn), msgReqLen}
    BY <2>0, IdnFacts
  <2>2. got = << >> /\ bulkIn.data = SubSeq(idn, 1, n) /\ bulkIn.eom /\ Expected = idn
    <3>1. got = << >> /\ bulkIn \in {NoData, IdnPart}
      BY <1>1, <1>3 DEF SentInOrder
    <3>2. bulkIn = IdnPart
      BY <3>1
    <3>3. IdnPart.data = SubSeq(idn, 1, n) /\ IdnPart.eom
      BY DEF IdnPart
    <3> QED
      BY <3>1, <3>2, <3>3, <1>3, Zenon DEF Expected
  <2> HIDE DEF n
  <2>3. SubSeq(idn, 1, n) \in Seq(TmcUnits) /\ Len(SubSeq(idn, 1, n)) = n
    <3>1. 0 + 1 = 1 /\ 0 + n = n /\ 0 \in Nat
      BY <2>1
    <3> QED
      BY <2>1, <3>1, UnitsTaken
  <2>4. answered = SubSeq(idn, 1, n)
    BY <2>2, <2>3, UnitsWhole
  <2>5. IsPrefix(SubSeq(idn, 1, n), idn) /\ (SubSeq(idn, 1, n) = idn <=> n = Len(idn))
    BY <2>1, UnitsPrefix
  <2> HIDE DEF answered
  <2> QED
    BY <1>1, <1>3, <2>1, <2>2, <2>3, <2>4, <2>5
<1>4. CASE message.kind # "idn"
  <2>1. /\ answered = SubSeq(buffer, 1, buffer_tx_ix) /\ buffer_tx_ix <= message.length
        /\ (bulkIn.eom <=> buffer_tx_ix = message.length) /\ Expected = buffer
    BY <1>1, <1>4 DEF SentInOrder, Expected
  <2>2. buffer_tx_ix \in Nat
    <3>1. buffer_tx_ix \in 0 .. BufferSize
      BY Zenon DEF TmcInv, TmcTypeOK
    <3> QED
      BY <3>1, TmcConstants
  <2> HIDE DEF answered
  <2> QED
    BY <1>1, <1>2, <2>1, <2>2, UnitsPrefix
<1> QED
  BY <1>3, <1>4

\* Whatever the sizes and the order of the application task, the packets and the requests: a
\* host that is polite gets the answer to its last message, in order and without a gap, and
\* its end is marked exactly there, or where a request for *idn? ended before
\* (usbtmc's tud_usbtmc_msg_data_cb to usbtmc_app_task_iter).
THEOREM AnswersWhole == TmcSpec => [](TmcTypeOK /\ AnswerWhole)
BY TmcInitInv, TmcStep, TmcSafe, PTL DEF TmcSpec

-----------------------------------------------------------------------------
(* MIDI                                                                     *)

MidiMessages == [on : BOOLEAN, note : ToSet(note_sequence)]

\* Does a note sound once the host has heard the messages under way?
SoundsAfter(messagesLeft, sounding, note) ==
  \/ \E i \in 1 .. Len(messagesLeft) :
       /\ messagesLeft[i].note = note /\ messagesLeft[i].on
       /\ \A j \in i + 1 .. Len(messagesLeft) : messagesLeft[j].note # note
  \/ note \in sounding /\ \A j \in 1 .. Len(messagesLeft) : messagesLeft[j].note # note
WillSound(note) == SoundsAfter(midiFifo, ringing, note)

\* The note played d steps before the one the task is at.
NoteAgo(d) == note_sequence[(IF d <= note_pos THEN note_pos - d ELSE note_pos - d + Len(note_sequence)) + 1]

\* With no message lost since, a note that was turned off will not sound, unless it is the
\* one played last or now; and that one will.
QuietSince ==
  IF midi_task_at = "off"
  THEN /\ \A d \in 2 .. Len(note_sequence) :
            2 * d - 2 <= kept /\ NoteAgo(d) \notin {NoteAgo(1), note_sequence[note_pos + 1]} =>
              ~ WillSound(NoteAgo(d))
       /\ kept >= 1 => WillSound(note_sequence[note_pos + 1])
  ELSE /\ \A d \in 2 .. Len(note_sequence) :
            2 * d - 3 <= kept /\ NoteAgo(d) # NoteAgo(1) => ~ WillSound(NoteAgo(d))
       /\ kept >= 2 => WillSound(NoteAgo(1))

MidiInv == MidiTypeOK /\ midiFifo \in Seq(MidiMessages) /\ QuietSince

LEMMA MelodyFacts ==
  /\ Len(note_sequence) \in Nat /\ Len(note_sequence) > 1
  /\ \A i \in 1 .. Len(note_sequence) : note_sequence[i] \in 0 .. 127
  /\ note_sequence[1] # note_sequence[Len(note_sequence)]
  /\ \A i \in 2 .. Len(note_sequence) : note_sequence[i] # note_sequence[i - 1]
  /\ MidiFifoSize \in Nat /\ MidiFifoSize > 0 /\ MaxMidiEvents \in Nat
<1>1. /\ note_sequence \in Seq(0 .. 127) /\ Len(note_sequence) > 1
      /\ \A i \in 2 .. Len(note_sequence) : note_sequence[i] # note_sequence[i - 1]
      /\ note_sequence[1] # note_sequence[Len(note_sequence)]
  BY MidiAssumption
<1>2. MidiFifoSize \in Nat /\ MidiFifoSize > 0 /\ MaxMidiEvents \in Nat
  BY MidiAssumption
<1>3. Len(note_sequence) \in Nat /\ \A i \in 1 .. Len(note_sequence) : note_sequence[i] \in 0 .. 127
  <2>1. ASSUME NEW S, NEW s \in Seq(S)
        PROVE  Len(s) \in Nat /\ \A i \in 1 .. Len(s) : s[i] \in S
    OBVIOUS
  <2> QED
    BY <1>1, <2>1, Zenon
<1> QED
  BY <1>1, <1>2, <1>3

\* A message behind the others decides about its note, and about no other.
LEMMA MessageAdded ==
  ASSUME NEW f \in Seq(MidiMessages), NEW m \in MidiMessages, NEW r, NEW v
  PROVE  SoundsAfter(Append(f, m), r, v) <=> (IF m.note = v THEN m.on ELSE SoundsAfter(f, r, v))
<1> DEFINE g == Append(f, m)
<1>1. /\ Len(f) \in Nat /\ Len(g) = Len(f) + 1 /\ g[Len(f) + 1] = m
      /\ \A i \in 1 .. Len(f) : g[i] = f[i]
  OBVIOUS
<1> HIDE DEF g
<1>2. CASE m.note = v
  BY <1>1, <1>2 DEF SoundsAfter
<1>3. CASE m.note # v
  BY <1>1, <1>3 DEF SoundsAfter
<1> QED
  BY <1>2, <1>3 DEF g

\* What a note will do does not change when the host hears a message.
LEMMA MessageHeard ==
  ASSUME NEW f \in Seq(MidiMessages), f # << >>, NEW r, NEW v
  PROVE  SoundsAfter(Tail(f), IF Head(f).on THEN r \cup {Head(f).note} ELSE r \ {Head(f).note}, v)
           <=> SoundsAfter(f, r, v)
<1> DEFINE g == Tail(f)
           heard == IF Head(f).on THEN r \cup {Head(f).note} ELSE r \ {Head(f).note}
<1>1. /\ Len(f) \in Nat /\ Len(f) > 0 /\ Len(g) = Len(f) - 1 /\ Head(f) = f[1]
      /\ \A i \in 1 .. Len(g) : g[i] = f[i + 1]
      /\ \A i \in 2 .. Len(f) : f[i] = g[i - 1]
  OBVIOUS
<1>2. v \in heard <=> IF f[1].note = v THEN f[1].on ELSE v \in r
  BY <1>1
<1> HIDE DEF g, heard
<1>3. (\A j \in 1 .. Len(g) : g[j].note # v) <=> (\A j \in 2 .. Len(f) : f[j].note # v)
  BY <1>1
<1>4. (\A j \in 1 .. Len(f) : f[j].note # v) <=> f[1].note # v /\ (\A j \in 2 .. Len(f) : f[j].note # v)
  BY <1>1
<1>5. (\E i \in 1 .. Len(g) : g[i].note = v /\ g[i].on /\ \A j \in i + 1 .. Len(g) : g[j].note # v)
      <=> (\E i \in 2 .. Len(f) : f[i].note = v /\ f[i].on /\ \A j \in i + 1 .. Len(f) : f[j].note # v)
  <2>1. ASSUME NEW i \in 1 .. Len(g), g[i].note = v, g[i].on, \A j \in i + 1 .. Len(g) : g[j].note # v
        PROVE  \E k \in 2 .. Len(f) : f[k].note = v /\ f[k].on /\ \A j \in k + 1 .. Len(f) : f[j].note # v
    <3>1. i + 1 \in 2 .. Len(f) /\ f[i + 1] = g[i]
      BY <1>1
    <3>2. \A j \in (i + 1) + 1 .. Len(f) : f[j].note # v
      BY <1>1, <2>1
    <3> QED
      BY <2>1, <3>1, <3>2
  <2>2. ASSUME NEW i \in 2 .. Len(f), f[i].note = v, f[i].on, \A j \in i + 1 .. Len(f) : f[j].note # v
        PROVE  \E k \in 1 .. Len(g) : g[k].note = v /\ g[k].on /\ \A j \in k + 1 .. Len(g) : g[j].note # v
    <3>1. i - 1 \in 1 .. Len(g) /\ g[i - 1] = f[i]
      BY <1>1
    <3>2. \A j \in (i - 1) + 1 .. Len(g) : g[j].note # v
      BY <1>1, <2>2
    <3> QED
      BY <2>2, <3>1, <3>2
  <2> QED
    BY <2>1, <2>2
<1>6. (\E i \in 1 .. Len(f) : f[i].note = v /\ f[i].on /\ \A j \in i + 1 .. Len(f) : f[j].note # v)
      <=> \/ f[1].note = v /\ f[1].on /\ \A j \in 2 .. Len(f) : f[j].note # v
          \/ \E i \in 2 .. Len(f) : f[i].note = v /\ f[i].on /\ \A j \in i + 1 .. Len(f) : f[j].note # v
  BY <1>1
<1> QED
  BY <1>2, <1>3, <1>4, <1>5, <1>6, Zenon DEF SoundsAfter, g, heard

\* The notes played a step ago were played a step less ago before it.
LEMMA StepAgo ==
  ASSUME note_pos \in 0 .. Len(note_sequence) - 1
  PROVE  /\ \A d \in 1 .. Len(note_sequence) : NoteAgo(d) \in 0 .. 127
         /\ NoteAgo(1) = note_sequence[Previous + 1] /\ NoteAgo(1) # note_sequence[note_pos + 1]
         /\ (note_pos + 1) % Len(note_sequence) \in 0 .. Len(note_sequence) - 1
         /\ note_pos' = (note_pos + 1) % Len(note_sequence) =>
              /\ NoteAgo(1)' = note_sequence[note_pos + 1]
              /\ \A d \in 2 .. Len(note_sequence) : NoteAgo(d)' = NoteAgo(d - 1)
<1> DEFINE n == Len(note_sequence)
           q == (note_pos + 1) % n
<1>1. n \in Nat /\ n > 1 /\ note_pos \in Nat /\ note_pos < n
  BY MelodyFacts
<1>2. q = IF note_pos + 1 = n THEN 0 ELSE note_pos + 1
  BY <1>1
<1>3. \A d \in 1 .. n : NoteAgo(d) \in 0 .. 127
  <2>1. \A d \in 1 .. n : (IF d <= note_pos THEN note_pos - d ELSE note_pos - d + n) + 1 \in 1 .. n
    BY <1>1
  <2> QED
    BY <2>1, MelodyFacts DEF NoteAgo
<1>4. NoteAgo(1) = note_sequence[Previous + 1]
  <2>1. (IF 1 <= note_pos THEN note_pos - 1 ELSE note_pos - 1 + n) = Previous
    BY <1>1 DEF Previous
  <2> QED
    BY <2>1 DEF NoteAgo
<1>5. NoteAgo(1) # note_sequence[note_pos + 1]
  BY <1>1, MelodyFacts DEF NoteAgo
<1> HIDE DEF q
<1>6. ASSUME note_pos' = q PROVE NoteAgo(1)' = note_sequence[note_pos + 1]
  BY <1>1, <1>2, <1>6 DEF NoteAgo
<1>7. ASSUME note_pos' = q, NEW d \in 2 .. n PROVE NoteAgo(d)' = NoteAgo(d - 1)
  <2>1. (IF d <= q THEN q - d ELSE q - d + n) = (IF d - 1 <= note_pos THEN note_pos - (d - 1) ELSE note_pos - (d - 1) + n)
    BY <1>1, <1>2
  <2> QED
    BY <1>7, <2>1 DEF NoteAgo
<1>8. q \in 0 .. n - 1
  BY <1>1, <1>2
<1> QED
  BY <1>3, <1>4, <1>5, <1>6, <1>7, <1>8 DEF q

LEMMA MelodyNotes == \A i \in 1 .. Len(note_sequence) : note_sequence[i] \in ToSet(note_sequence)
<1>1. ASSUME NEW S, NEW s \in Seq(S) PROVE \A i \in 1 .. Len(s) : s[i] \in ToSet(s)
  BY DEF ToSet
<1>2. note_sequence \in Seq(0 .. 127)
  BY MidiAssumption
<1> QED
  BY <1>1, <1>2, Zenon

\* A message finds room behind the others, or is lost, which starts the count again.
LEMMA MessageWritten ==
  ASSUME MidiInv, NEW m \in MidiMessages, ringing' = ringing,
         \/ /\ Len(midiFifo) < MidiFifoSize /\ midiFifo' = Append(midiFifo, m)
            /\ kept' = Min({kept + 1, MelodyRound})
         \/ kept' = 0 /\ midiFifo' = midiFifo
  PROVE  /\ midiFifo' \in Seq(MidiMessages) /\ Len(midiFifo') <= MidiFifoSize
         /\ kept' \in 0 .. MelodyRound /\ kept' <= kept + 1 /\ kept \in Nat
         /\ kept' # 0 =>
              \A v : SoundsAfter(midiFifo', ringing', v)
                      <=> (IF m.note = v THEN m.on ELSE SoundsAfter(midiFifo, ringing, v))
<1>1. /\ midiFifo \in Seq(MidiMessages) /\ Len(midiFifo) <= MidiFifoSize /\ kept \in 0 .. MelodyRound
      /\ MelodyRound \in Nat /\ MelodyRound > 0 /\ kept \in Nat
  <2>1. MelodyRound \in Nat /\ MelodyRound > 0
    BY MelodyFacts DEF MelodyRound
  <2>2. midiFifo \in Seq(MidiMessages) /\ Len(midiFifo) <= MidiFifoSize /\ kept \in 0 .. MelodyRound
    BY Zenon DEF MidiInv, MidiTypeOK
  <2> QED
    BY <2>1, <2>2
<1>2. CASE Len(midiFifo) < MidiFifoSize /\ midiFifo' = Append(midiFifo, m)
           /\ kept' = Min({kept + 1, MelodyRound})
  <2>1. kept' = IF kept + 1 <= MelodyRound THEN kept + 1 ELSE MelodyRound
    BY <1>1, <1>2, MinOfTwo
  <2>2. \A v : SoundsAfter(midiFifo', ringing', v)
                 <=> (IF m.note = v THEN m.on ELSE SoundsAfter(midiFifo, ringing, v))
    BY <1>1, <1>2, MessageAdded
  <2>3. midiFifo' \in Seq(MidiMessages) /\ Len(midiFifo') = Len(midiFifo) + 1 /\ Len(midiFifo) \in Nat
    BY <1>1, <1>2
  <2> QED
    BY <1>1, <1>2, <2>1, <2>2, <2>3, MelodyFacts
<1>3. CASE kept' = 0 /\ midiFifo' = midiFifo
  BY <1>1, <1>3
<1> QED
  BY <1>2, <1>3

LEMMA NoteOnStep == MidiInv /\ NoteOn => MidiInv'
<1> SUFFICES ASSUME MidiInv, NoteOn PROVE MidiInv'
  OBVIOUS
<1> DEFINE now == note_sequence[note_pos + 1]
           n == Len(note_sequence)
<1>1. /\ midi_task_at = "on" /\ midi_task_at' = "off" /\ StreamWrite(TRUE, now)
      /\ UNCHANGED <<note_pos, midiMounted, midiEvents, ringing>>
  BY DEF NoteOn
<1>2. note_pos \in 0 .. n - 1 /\ note_pos + 1 \in 1 .. n /\ now \in ToSet(note_sequence)
  BY MelodyFacts, MelodyNotes DEF MidiInv, MidiTypeOK
<1>3. /\ midiFifo' \in Seq(MidiMessages) /\ Len(midiFifo') <= MidiFifoSize
      /\ kept' \in 0 .. MelodyRound /\ kept' <= kept + 1 /\ kept \in Nat
      /\ kept' # 0 => \A v : /\ now = v => SoundsAfter(midiFifo', ringing', v)
                             /\ now # v => (SoundsAfter(midiFifo', ringing', v) <=> WillSound(v))
  <2> DEFINE m == [on |-> TRUE, note |-> now]
  <2>1. \/ /\ Len(midiFifo) < MidiFifoSize /\ midiFifo' = Append(midiFifo, m)
           /\ kept' = Min({kept + 1, MelodyRound})
        \/ kept' = 0 /\ midiFifo' = midiFifo
    BY <1>1 DEF StreamWrite
  <2> HIDE DEF now
  <2>2. m \in MidiMessages /\ m.on /\ m.note = now
    BY <1>2 DEF MidiMessages
  <2> HIDE DEF m
  <2>3. /\ midiFifo' \in Seq(MidiMessages) /\ Len(midiFifo') <= MidiFifoSize
        /\ kept' \in 0 .. MelodyRound /\ kept' <= kept + 1 /\ kept \in Nat
        /\ kept' # 0 =>
             \A v : SoundsAfter(midiFifo', ringing', v)
                     <=> (IF m.note = v THEN m.on ELSE SoundsAfter(midiFifo, ringing, v))
    BY <1>1, <2>1, <2>2, MessageWritten
  <2> QED
    BY <2>2, <2>3 DEF WillSound
<1>4. MidiTypeOK'
  <2>1. midi_task_at' \in {"wait", "on", "off"}
    BY <1>1
  <2> QED
    BY <1>1, <1>3, <2>1, Zenon DEF MidiInv, MidiTypeOK
<1>5. \A d : NoteAgo(d)' = NoteAgo(d)
  BY <1>1 DEF NoteAgo
<1>6. now' = now
  BY <1>1
<1>7. \A d \in 2 .. n : 2 * d - 3 <= kept /\ NoteAgo(d) # NoteAgo(1) => ~ WillSound(NoteAgo(d))
  BY <1>1 DEF MidiInv, QuietSince
<1> HIDE DEF now
<1>8. ASSUME NEW d \in 2 .. n, 2 * d - 2 <= kept', NoteAgo(d) # NoteAgo(1), NoteAgo(d) # now
      PROVE  ~ WillSound(NoteAgo(d))'
  <2>1. d \in Int /\ d >= 2 /\ kept' \in Int /\ 2 * d - 3 <= kept /\ kept' # 0
    BY <1>3, <1>8, MelodyFacts
  <2>2. ~ WillSound(NoteAgo(d))
    BY <1>7, <1>8, <2>1
  <2>3. \A v : now # v => (SoundsAfter(midiFifo', ringing', v) <=> WillSound(v))
    BY <1>3, <2>1
  <2>4. WillSound(NoteAgo(d))' <=> SoundsAfter(midiFifo', ringing', NoteAgo(d))
    BY <1>5, Zenon DEF WillSound
  <2> QED
    BY <1>8, <2>2, <2>3, <2>4
<1>9. kept' >= 1 => WillSound(now)'
  BY <1>3, <1>6 DEF WillSound
<1> QED
  BY <1>1, <1>3, <1>4, <1>5, <1>6, <1>8, <1>9 DEF MidiInv, QuietSince, now

LEMMA NoteOffStep == MidiInv /\ NoteOff => MidiInv'
<1> SUFFICES ASSUME MidiInv, NoteOff PROVE MidiInv'
  OBVIOUS
<1> DEFINE now == note_sequence[note_pos + 1]
           ended == NoteAgo(1)
           n == Len(note_sequence)
<1>1. /\ midi_task_at = "off" /\ midi_task_at' = "wait" /\ StreamWrite(FALSE, note_sequence[Previous + 1])
      /\ note_pos' = (note_pos + 1) % n
      /\ UNCHANGED <<midiMounted, midiEvents, ringing>>
  BY DEF NoteOff
<1>2. note_pos \in 0 .. n - 1 /\ Previous + 1 \in 1 .. n /\ note_sequence[Previous + 1] \in ToSet(note_sequence)
  <2>1. note_pos \in 0 .. n - 1
    BY Zenon DEF MidiInv, MidiTypeOK
  <2>2. Previous + 1 \in 1 .. n
    BY <2>1, MelodyFacts DEF Previous
  <2> QED
    BY <2>1, <2>2, MelodyNotes
<1>3. /\ ended = note_sequence[Previous + 1] /\ ended # now /\ note_pos' \in 0 .. n - 1
      /\ NoteAgo(1)' = now /\ \A d \in 2 .. n : NoteAgo(d)' = NoteAgo(d - 1)
  BY <1>1, <1>2, StepAgo
<1>4. /\ midiFifo' \in Seq(MidiMessages) /\ Len(midiFifo') <= MidiFifoSize
      /\ kept' \in 0 .. MelodyRound /\ kept' <= kept + 1 /\ kept \in Nat
      /\ kept' # 0 => \A v : /\ ended = v => ~ SoundsAfter(midiFifo', ringing', v)
                             /\ ended # v => (SoundsAfter(midiFifo', ringing', v) <=> WillSound(v))
  <2> DEFINE m == [on |-> FALSE, note |-> note_sequence[Previous + 1]]
  <2>1. \/ /\ Len(midiFifo) < MidiFifoSize /\ midiFifo' = Append(midiFifo, m)
           /\ kept' = Min({kept + 1, MelodyRound})
        \/ kept' = 0 /\ midiFifo' = midiFifo
    BY <1>1 DEF StreamWrite
  <2>2. m \in MidiMessages /\ ~ m.on /\ m.note = note_sequence[Previous + 1]
    BY <1>2 DEF MidiMessages
  <2> HIDE DEF m, ended
  <2>3. /\ midiFifo' \in Seq(MidiMessages) /\ Len(midiFifo') <= MidiFifoSize
        /\ kept' \in 0 .. MelodyRound /\ kept' <= kept + 1 /\ kept \in Nat
        /\ kept' # 0 =>
             \A v : SoundsAfter(midiFifo', ringing', v)
                     <=> (IF m.note = v THEN m.on ELSE SoundsAfter(midiFifo, ringing, v))
    BY <1>1, <2>1, <2>2, MessageWritten
  <2> QED
    BY <1>3, <2>2, <2>3 DEF WillSound
<1>5. MidiTypeOK'
  <2>1. midi_task_at' \in {"wait", "on", "off"}
    BY <1>1
  <2> QED
    BY <1>1, <1>3, <1>4, <2>1, Zenon DEF MidiInv, MidiTypeOK
<1>6. /\ \A d \in 2 .. n : 2 * d - 2 <= kept /\ NoteAgo(d) \notin {ended, now} => ~ WillSound(NoteAgo(d))
      /\ kept >= 1 => WillSound(now)
  BY <1>1 DEF MidiInv, QuietSince
<1> HIDE DEF now, ended
<1>7. ASSUME NEW d \in 2 .. n, 2 * d - 3 <= kept', NoteAgo(d)' # now
      PROVE  ~ WillSound(NoteAgo(d))'
  <2>1. d \in Int /\ d >= 2 /\ d <= n /\ n \in Nat /\ kept' \in Int /\ 2 * (d - 1) - 2 <= kept /\ kept' # 0
    BY <1>4, <1>7, MelodyFacts
  <2>2. WillSound(NoteAgo(d))' <=> SoundsAfter(midiFifo', ringing', NoteAgo(d - 1))
    BY <1>3, Zenon DEF WillSound
  <2>3. NoteAgo(d - 1) # now
    BY <1>3, <1>7
  <2>4. CASE NoteAgo(d - 1) = ended
    BY <1>4, <2>1, <2>2, <2>4
  <2>5. CASE NoteAgo(d - 1) # ended
    <3>1. d - 1 \in 2 .. n
      <4>1. d # 2
        BY <2>5 DEF ended
      <4> QED
        BY <2>1, <4>1
    <3>2. ~ WillSound(NoteAgo(d - 1))
      BY <1>6, <2>1, <2>3, <2>5, <3>1
    <3> QED
      BY <1>4, <2>1, <2>2, <2>5, <3>2
  <2> QED
    BY <2>4, <2>5
<1>8. ASSUME kept' >= 2 PROVE WillSound(NoteAgo(1))'
  <2>1. kept >= 1 /\ kept' # 0
    BY <1>4, <1>8
  <2>2. WillSound(NoteAgo(1))' <=> SoundsAfter(midiFifo', ringing', now)
    BY <1>3, Zenon DEF WillSound
  <2> QED
    BY <1>3, <1>4, <1>6, <2>1, <2>2
<1>9. QuietSince'
  BY <1>1, <1>3, <1>7, <1>8 DEF QuietSince
<1> QED
  BY <1>4, <1>5, <1>9 DEF MidiInv

LEMMA HearStep == MidiInv /\ HearMessage => MidiInv'
<1> SUFFICES ASSUME MidiInv, HearMessage PROVE MidiInv'
  OBVIOUS
<1>1. /\ midiFifo # << >> /\ midiFifo' = Tail(midiFifo)
      /\ ringing' = IF Head(midiFifo).on THEN ringing \cup {Head(midiFifo).note} ELSE ringing \ {Head(midiFifo).note}
      /\ UNCHANGED <<note_pos, midi_task_at, midiMounted, midiEvents, kept>>
  BY DEF HearMessage
<1>2. midiFifo \in Seq(MidiMessages) /\ Len(midiFifo) <= MidiFifoSize /\ ringing \subseteq ToSet(note_sequence)
  BY Zenon DEF MidiInv, MidiTypeOK
<1>3. /\ midiFifo' \in Seq(MidiMessages) /\ Len(midiFifo') <= MidiFifoSize
      /\ Head(midiFifo) \in MidiMessages
  BY <1>1, <1>2, MelodyFacts
<1>4. ringing' \subseteq ToSet(note_sequence)
  BY <1>1, <1>2, <1>3 DEF MidiMessages
<1>5. MidiTypeOK'
  BY <1>1, <1>3, <1>4, Zenon DEF MidiInv, MidiTypeOK
<1>6. \A v : SoundsAfter(midiFifo', ringing', v) <=> SoundsAfter(midiFifo, ringing, v)
  BY <1>1, <1>2, MessageHeard
<1>7. QuietSince'
  <2>1. \A d : NoteAgo(d)' = NoteAgo(d)
    BY <1>1 DEF NoteAgo
  <2>2. \A d : WillSound(NoteAgo(d))' <=> WillSound(NoteAgo(d))
    BY <1>6, <2>1, Zenon DEF WillSound
  <2>3. WillSound(note_sequence[note_pos + 1])' <=> WillSound(note_sequence[note_pos + 1])
    BY <1>1, <1>6, Zenon DEF WillSound
  <2> QED
    BY <1>1, <2>1, <2>2, <2>3, Zenon DEF MidiInv, QuietSince
<1> QED
  BY <1>3, <1>5, <1>7 DEF MidiInv

LEMMA MidiMountStep == MidiInv /\ MidiMountOrUnmount => MidiInv'
<1> SUFFICES ASSUME MidiInv, MidiMountOrUnmount PROVE MidiInv'
  OBVIOUS
<1>1. /\ midiEvents < MaxMidiEvents /\ midiEvents' = midiEvents + 1 /\ midiMounted' = ~ midiMounted
      /\ kept' = IF midiFifo # << >> THEN 0 ELSE kept
      /\ midiFifo' = << >> /\ UNCHANGED <<note_pos, midi_task_at, ringing>>
  BY DEF MidiMountOrUnmount
<1>2. midiEvents \in 0 .. MaxMidiEvents /\ kept \in 0 .. MelodyRound
  BY Zenon DEF MidiInv, MidiTypeOK
<1>3. midiEvents' \in 0 .. MaxMidiEvents /\ kept' \in 0 .. MelodyRound
      /\ << >> \in Seq(MidiMessages) /\ Len(<< >>) <= MidiFifoSize
  BY <1>1, <1>2, MelodyFacts DEF MelodyRound
<1>4. midiMounted' \in BOOLEAN
  BY <1>1
<1>5. MidiTypeOK'
  BY <1>1, <1>3, <1>4, Zenon DEF MidiInv, MidiTypeOK
<1>6. QuietSince'
  <2>1. CASE midiFifo # << >>
    BY <1>1, <2>1, MelodyFacts DEF QuietSince
  <2>2. CASE midiFifo = << >>
    BY <1>1, <2>2, Zenon DEF MidiInv, QuietSince, WillSound, NoteAgo
  <2> QED
    BY <2>1, <2>2
<1> QED
  BY <1>1, <1>3, <1>5, <1>6 DEF MidiInv

LEMMA MidiStep == MidiInv /\ [MidiNext]_midiVars => MidiInv'
<1>1. ASSUME MidiInv, NextNote \/ UNCHANGED midiVars PROVE MidiInv'
  <2>1. /\ UNCHANGED <<note_pos, midiMounted, midiEvents, midiFifo, ringing, kept>>
        /\ midi_task_at' = midi_task_at \/ (midi_task_at = "wait" /\ midi_task_at' = "on")
    BY <1>1 DEF NextNote, midiVars
  <2>2. midi_task_at' \in {"wait", "on", "off"}
    BY <1>1, <2>1 DEF MidiInv, MidiTypeOK
  <2>3. MidiTypeOK'
    BY <1>1, <2>1, <2>2, Zenon DEF MidiInv, MidiTypeOK
  <2>4. midi_task_at' = "off" <=> midi_task_at = "off"
    BY <2>1
  <2>5. QuietSince'
    BY <1>1, <2>1, <2>4, Zenon DEF MidiInv, QuietSince, WillSound, NoteAgo
  <2> QED
    BY <1>1, <2>1, <2>3, <2>5 DEF MidiInv
<1> QED
  BY <1>1, NoteOnStep, NoteOffStep, HearStep, MidiMountStep DEF MidiNext

LEMMA MidiInitInv == MidiInit => MidiInv
<1> SUFFICES ASSUME MidiInit PROVE MidiInv
  OBVIOUS
<1>1. /\ 0 \in 0 .. Len(note_sequence) - 1 /\ 0 \in 0 .. MaxMidiEvents /\ 0 \in 0 .. MelodyRound
      /\ << >> \in Seq(MidiMessages) /\ Len(<< >>) <= MidiFifoSize
  BY MelodyFacts DEF MelodyRound
<1>2. ringing \subseteq ToSet(note_sequence)
  BY DEF MidiInit
<1>3. MidiTypeOK
  BY <1>1, <1>2, Zenon DEF MidiInit, MidiTypeOK
<1>4. QuietSince
  BY MelodyFacts DEF MidiInit, QuietSince
<1> QED
  BY <1>1, <1>3, <1>4 DEF MidiInit, MidiInv

LEMMA MidiSafe == MidiInv => MidiTypeOK /\ LostNotesEnd
<1> SUFFICES ASSUME MidiInv, midi_task_at = "wait", kept = MelodyRound, midiFifo = << >>
             PROVE  ringing = {note_sequence[Previous + 1]}
  BY DEF MidiInv, LostNotesEnd
<1> DEFINE n == Len(note_sequence)
<1>1. /\ note_pos \in 0 .. n - 1 /\ ringing \subseteq ToSet(note_sequence)
      /\ n \in Nat /\ n > 1 /\ kept = 2 * n
  <2>1. note_pos \in 0 .. n - 1 /\ ringing \subseteq ToSet(note_sequence)
    BY Zenon DEF MidiInv, MidiTypeOK
  <2> QED
    BY <2>1, MelodyFacts DEF MelodyRound
<1>2. \A v : WillSound(v) <=> v \in ringing
  BY DEF WillSound, SoundsAfter
<1>3. NoteAgo(1) = note_sequence[Previous + 1]
  BY <1>1, StepAgo
<1>4. /\ \A d \in 2 .. n : NoteAgo(d) # NoteAgo(1) => ~ WillSound(NoteAgo(d))
      /\ WillSound(NoteAgo(1))
  BY <1>1 DEF MidiInv, QuietSince
<1>5. ASSUME NEW v \in ringing PROVE v = NoteAgo(1)
  <2>1. PICK i \in 1 .. n : v = note_sequence[i]
    <3>1. ASSUME NEW S, NEW s \in Seq(S), NEW x \in ToSet(s) PROVE \E i \in 1 .. Len(s) : x = s[i]
      BY DEF ToSet
    <3>2. note_sequence \in Seq(0 .. 127)
      BY MidiAssumption
    <3> QED
      BY <1>1, <1>5, <3>1, <3>2
  <2> DEFINE d == IF i - 1 < note_pos THEN note_pos - (i - 1) ELSE note_pos - (i - 1) + n
  <2>2. d \in 1 .. n /\ (IF d <= note_pos THEN note_pos - d ELSE note_pos - d + n) + 1 = i
    BY <1>1, <2>1
  <2> HIDE DEF d
  <2>3. NoteAgo(d) = v
    BY <2>1, <2>2 DEF NoteAgo
  <2>4. d = 1 \/ d \in 2 .. n
    BY <1>1, <2>2
  <2> QED
    BY <1>2, <1>4, <1>5, <2>3, <2>4
<1> QED
  BY <1>2, <1>3, <1>4, <1>5

\* For every melody in which no note follows itself, every size of the FIFO and every order of
\* task, host and bus: a round of the melody without a lost message ends every note but the
\* one it is at (midi_task).
THEOREM NotesEnd == MidiSpec => [](MidiTypeOK /\ LostNotesEnd)
BY MidiInitInv, MidiStep, MidiSafe, PTL DEF MidiSpec

-----------------------------------------------------------------------------
(* HID: which reports are ever sent                                         *)

\* What a task checks or sends, and what an endpoint holds, is the report of a function; so
\* the host only ever hears of keys.
HidInv ==
  /\ HidTypeOK
  /\ hid_task.place # "delay" => hid_task.report \in Reports
  /\ usb_task.place = "send" => usb_task.report \in Reports
  /\ \A e \in Endpoints : endpoint[e] = Empty \/ endpoint[e].report \in Reports

LEMMA ReportFacts ==
  /\ Reports = {"keyboard", "mouse", "consumer", "gamepad"}
  /\ \A i \in 1 .. 4 : Chain[i] \in Reports
  /\ \A r \in Reports : EndpointOf(r) \in Endpoints
<1>1. Reports = {Chain[1], Chain[2], Chain[3], Chain[4]}
  BY DEF Reports
<1> QED
  BY <1>1 DEF Chain, Endpoints, EndpointOf

\* A report that is sent may come to hold its endpoint, and its key to count as told.
LEMMA SendFacts ==
  ASSUME HidInv, NEW r \in Reports, NEW pressing \in BOOLEAN, Send(r, pressing)
  PROVE  /\ has_key' \subseteq Reports \ {"mouse"}
         /\ endpoint' \in [Endpoints -> [report : Reports \cup {"none"}, pressed : BOOLEAN]]
         /\ \A e \in Endpoints : endpoint'[e] = Empty \/ endpoint'[e].report \in Reports
<1> DEFINE Held == [report : Reports \cup {"none"}, pressed : BOOLEAN]
           Good(n) == n \in [Endpoints -> Held]
                      /\ \A e \in Endpoints : n[e] = Empty \/ n[e].report \in Reports
<1>1. Good(endpoint) /\ has_key \subseteq Reports \ {"mouse"}
  BY DEF HidInv, HidTypeOK
<1>2. ASSUME NEW s \in Reports, NEW on \in BOOLEAN, Queue(s, on)
      PROVE  Good(endpoint')
  <2>1. EndpointOf(s) \in Endpoints
    BY ReportFacts
  <2>2. \/ endpoint' = endpoint
        \/ endpoint' = [endpoint EXCEPT ![EndpointOf(s)] = [report |-> s, pressed |-> on]]
    BY <1>2 DEF Queue
  <2>3. [report |-> s, pressed |-> on] \in Held /\ [report |-> s, pressed |-> on].report \in Reports
    OBVIOUS
  <2> QED
    BY <1>1, <2>1, <2>2, <2>3
<1>3. "mouse" \in Reports
  BY ReportFacts
<1>4. CASE r = "mouse"
  <2>1. has_key' = has_key /\ (Queue("mouse", TRUE) \/ endpoint' = endpoint)
    BY <1>4 DEF Send, SendMouseReport
  <2> QED
    BY <1>1, <1>2, <1>3, <2>1
<1>5. CASE r # "mouse"
  <2>1. /\ has_key' = (IF pressing THEN has_key \cup {r} ELSE has_key \ {r})
        /\ Queue(r, pressing) \/ endpoint' = endpoint
    BY <1>5 DEF Send, SendKeyReport
  <2> QED
    BY <1>1, <1>2, <1>5, <2>1
<1> QED
  BY <1>4, <1>5

LEMMA HidTaskSteps == HidInv /\ UNCHANGED halted /\ HidTask => HidInv'
<1> SUFFICES ASSUME HidInv, UNCHANGED halted, HidTask
             PROVE  HidInv'
  OBVIOUS
<1> DEFINE HidPlaces == [place : {"delay", "check", "send"}, report : Reports \cup {"none"},
                         btn : BOOLEAN]
           GoodPlace(h) == h \in HidPlaces /\ (h.place # "delay" => h.report \in Reports)
<1>0. HidTypeOK
  BY DEF HidInv
<1>1. CASE PollButton
  <2>1. "keyboard" \in Reports
    BY ReportFacts
  <2>2. hid_task' \in {hid_task, [place |-> "check", report |-> "keyboard", btn |-> FALSE]}
    BY <1>1 DEF PollButton, At
  <2>3. bus' \in {bus, "mounted"} /\ blink' \in {blink, "MOUNTED"}
    BY <1>1 DEF PollButton
  <2>4. GoodPlace(hid_task')
    <3>1. GoodPlace(hid_task)
      BY <1>0 DEF HidInv, HidTypeOK
    <3>2. GoodPlace([place |-> "check", report |-> "keyboard", btn |-> FALSE])
      BY <2>1
    <3> QED
      BY <2>2, <3>1, <3>2
  <2>5. bus' \in {"unmounted", "mounted", "suspended"}
        /\ blink' \in {"NOT_MOUNTED", "MOUNTED", "SUSPENDED", "zero"} /\ hid_btn' \in BOOLEAN
    BY <1>0, <1>1, <2>3 DEF PollButton, HidTypeOK
  <2> QED
    BY <1>1, <2>4, <2>5 DEF PollButton, HidInv, HidTypeOK, Empty
<1>2. \A r \in Reports : GoodPlace(AfterReport(r))
  <2>1. "mouse" \in Reports
    BY ReportFacts
  <2>2. GoodPlace([place |-> "check", report |-> "mouse", btn |-> FALSE])
        /\ GoodPlace([place |-> "delay", report |-> "none", btn |-> FALSE])
    BY <2>1
  <2> QED
    BY <2>2 DEF AfterReport, At
<1>4. CASE CheckReady
  <2>1. hid_task.report \in Reports
    BY <1>4 DEF CheckReady, HidInv
  <2>2. hid_task' \in {[hid_task EXCEPT !.place = "send"], AfterReport(hid_task.report)}
    BY <1>4 DEF CheckReady
  <2>3. GoodPlace([hid_task EXCEPT !.place = "send"])
    BY <1>0, <2>1 DEF HidTypeOK
  <2>4. GoodPlace(hid_task')
    BY <1>2, <2>1, <2>2, <2>3
  <2> QED
    BY <1>4, <2>4 DEF CheckReady, HidInv, HidTypeOK, Empty
<1>5. CASE SendFromTask
  <2>1. hid_task.report \in Reports /\ hid_btn \in BOOLEAN
    BY <1>0, <1>5 DEF SendFromTask, HidInv, HidTypeOK
  <2>2. hid_task' = AfterReport(hid_task.report)
    BY <1>5 DEF SendFromTask
  <2>4. GoodPlace(hid_task')
    BY <1>2, <2>1, <2>2
  <2>3. /\ has_key' \subseteq Reports \ {"mouse"}
        /\ endpoint' \in [Endpoints -> [report : Reports \cup {"none"}, pressed : BOOLEAN]]
        /\ \A e \in Endpoints : endpoint'[e] = Empty \/ endpoint'[e].report \in Reports
    BY <1>5, <2>1, SendFacts DEF SendFromTask
  <2> QED
    BY <1>5, <2>3, <2>4 DEF SendFromTask, HidInv, HidTypeOK, Empty
<1> QED
  BY <1>1, <1>4, <1>5 DEF HidTask

LEMMA HidUsbSteps == HidInv /\ UNCHANGED halted /\ UsbTask => HidInv'
<1> SUFFICES ASSUME HidInv, UNCHANGED halted, UsbTask
             PROVE  HidInv'
  OBVIOUS
<1> DEFINE UsbPlaces == [place : {"idle", "complete", "send"}, report : Reports \cup {"none"},
                         btn : BOOLEAN]
<1>0. HidTypeOK
  BY DEF HidInv
<1>1. ASSUME NEW e \in Endpoints, Transfer(e)
      PROVE  HidInv'
  <2> DEFINE sent == endpoint[e]
  <2>1. sent.report \in Reports /\ sent.pressed \in BOOLEAN
    BY <1>0, <1>1 DEF Transfer, HidInv, HidTypeOK
  <2>2. hostKeys' \subseteq Reports \ {"mouse"}
    BY <1>0, <1>1, <2>1 DEF Transfer, HidTypeOK
  <2>3. usb_task' = [place |-> "complete", report |-> sent.report, btn |-> FALSE]
    BY <1>1 DEF Transfer, At
  <2>4. endpoint' = [endpoint EXCEPT ![e] = Empty]
        /\ Empty \in [report : Reports \cup {"none"}, pressed : BOOLEAN]
    BY <1>1 DEF Transfer, Empty
  <2>5. /\ endpoint' \in [Endpoints -> [report : Reports \cup {"none"}, pressed : BOOLEAN]]
        /\ \A d \in Endpoints : endpoint'[d] = Empty \/ endpoint'[d].report \in Reports
    BY <1>0, <2>4 DEF HidInv, HidTypeOK
  <2>6. usb_task' \in UsbPlaces /\ usb_task'.place # "send"
    BY <2>1, <2>3
  <2> QED
    BY <1>1, <2>2, <2>5, <2>6 DEF Transfer, HidInv, HidTypeOK, Empty
<1>2. Idle \in UsbPlaces /\ Idle.place = "idle"
  BY DEF Idle, At
<1>3. CASE ReportComplete
  <2>1. usb_task' = Idle \/ \E i \in 1 .. 3 : usb_task' = At("send", Chain[i + 1], button)
    BY <1>3 DEF ReportComplete
  <2>2. \A i \in 1 .. 3 : Chain[i + 1] \in Reports
    BY ReportFacts
  <2>3. usb_task' \in UsbPlaces /\ (usb_task'.place = "send" => usb_task'.report \in Reports)
    BY <1>0, <1>2, <2>1, <2>2 DEF HidTypeOK, At
  <2> QED
    BY <1>3, <2>3 DEF ReportComplete, HidInv, HidTypeOK, Empty
<1>4. CASE SendFromCallback
  <2>1. usb_task.report \in Reports /\ usb_task.btn \in BOOLEAN
    BY <1>0, <1>4 DEF SendFromCallback, HidInv, HidTypeOK
  <2>2. /\ has_key' \subseteq Reports \ {"mouse"}
        /\ endpoint' \in [Endpoints -> [report : Reports \cup {"none"}, pressed : BOOLEAN]]
        /\ \A e \in Endpoints : endpoint'[e] = Empty \/ endpoint'[e].report \in Reports
    BY <1>4, <2>1, SendFacts DEF SendFromCallback
  <2>3. usb_task' = Idle
    BY <1>4 DEF SendFromCallback
  <2> QED
    BY <1>2, <1>4, <2>2, <2>3 DEF SendFromCallback, HidInv, HidTypeOK, Empty
<1> QED
  BY <1>1, <1>3, <1>4 DEF UsbTask

LEMMA HidHostSteps == HidInv /\ UNCHANGED halted /\ (Host \/ PressOrRelease) => HidInv'
<1> SUFFICES ASSUME HidInv, UNCHANGED halted, Host \/ PressOrRelease
             PROVE  HidInv'
  OBVIOUS
<1>0. HidTypeOK /\ MaxPresses \in Nat /\ MaxBusEvents \in Nat
  BY HidAssumption DEF HidInv
<1>1. ASSUME NEW from, NEW to \in {"unmounted", "mounted", "suspended"},
             NEW pattern \in {"NOT_MOUNTED", "MOUNTED", "SUSPENDED"}, BusEvent(from, to, pattern)
      PROVE  HidInv'
  <2>1. busEvents' \in 0 .. MaxBusEvents
    BY <1>0, <1>1 DEF BusEvent, HidTypeOK
  <2>2. /\ endpoint' \in [Endpoints -> [report : Reports \cup {"none"}, pressed : BOOLEAN]]
        /\ \A e \in Endpoints : endpoint'[e] = Empty \/ endpoint'[e].report \in Reports
    <3>1. Empty \in [report : Reports \cup {"none"}, pressed : BOOLEAN]
      BY DEF Empty
    <3> QED
      BY <1>0, <1>1, <3>1 DEF BusEvent, HidInv, HidTypeOK
  <2>3. hostKeys' \subseteq Reports \ {"mouse"}
    BY <1>0, <1>1 DEF BusEvent, HidTypeOK
  <2> QED
    BY <1>1, <2>1, <2>2, <2>3 DEF BusEvent, HidInv, HidTypeOK, Empty
<1>2. CASE tud_hid_set_report_cb
  <2>1. busEvents' \in 0 .. MaxBusEvents
    BY <1>0, <1>2 DEF tud_hid_set_report_cb, HidTypeOK
  <2>2. blink' \in {"NOT_MOUNTED", "MOUNTED", "SUSPENDED", "zero"}
    BY <1>0, <1>2 DEF tud_hid_set_report_cb, HidTypeOK
  <2> QED
    BY <1>2, <2>1, <2>2 DEF tud_hid_set_report_cb, HidInv, HidTypeOK, Empty
<1>3. CASE PressOrRelease
  <2>1. presses' \in 0 .. MaxPresses
    BY <1>0, <1>3 DEF PressOrRelease, HidTypeOK
  <2>2. button' \in BOOLEAN
    BY <1>3 DEF PressOrRelease
  <2> QED
    BY <1>3, <2>1, <2>2 DEF PressOrRelease, HidInv, HidTypeOK, Empty
<1> QED
  BY <1>1, <1>2, <1>3 DEF Host, tud_mount_cb, tud_umount_cb, tud_suspend_cb, tud_resume_cb

LEMMA HidStep == HidInv /\ [HidNext]_hidVars => HidInv'
<1>1. HidInv /\ UNCHANGED hidVars => HidInv'
  BY Zenon DEF hidVars, HidInv, HidTypeOK, Endpoints, Reports, Empty
<1>2. HidInv /\ led_blinky_task => HidInv'
  BY DEF led_blinky_task, HidInv, HidTypeOK, Empty
<1> QED
  BY <1>1, <1>2, HidTaskSteps, HidUsbSteps, HidHostSteps DEF HidNext

LEMMA HidInitInv == HidInit => HidInv
<1> SUFFICES ASSUME HidInit
             PROVE  HidInv
  OBVIOUS
<1>1. MaxPresses \in Nat /\ MaxBusEvents \in Nat
  BY HidAssumption
<1>2. endpoint \in [Endpoints -> [report : Reports \cup {"none"}, pressed : BOOLEAN]]
      /\ \A e \in Endpoints : endpoint[e] = Empty
  BY DEF HidInit, Empty
<1>3. /\ hid_task \in [place : {"delay", "check", "send"}, report : Reports \cup {"none"},
                      btn : BOOLEAN]
      /\ usb_task \in [place : {"idle", "complete", "send"}, report : Reports \cup {"none"},
                      btn : BOOLEAN]
      /\ hid_task.place = "delay" /\ usb_task.place = "idle"
  BY DEF HidInit, At, Idle
<1> QED
  <2>1. presses \in 0 .. MaxPresses /\ busEvents \in 0 .. MaxBusEvents
    BY <1>1 DEF HidInit
  <2>2. has_key \subseteq Reports \ {"mouse"} /\ hostKeys \subseteq Reports \ {"mouse"}
    BY DEF HidInit
  <2>3. /\ button \in BOOLEAN /\ bus \in {"unmounted", "mounted", "suspended"}
        /\ hid_btn \in BOOLEAN /\ halted \in BOOLEAN /\ hidDemo \in HidDemos
        /\ blink \in {"NOT_MOUNTED", "MOUNTED", "SUSPENDED", "zero"}
    BY DEF HidInit
  <2> QED
    BY <1>2, <1>3, <2>1, <2>2, <2>3, Zenon DEF HidInv, HidTypeOK

-----------------------------------------------------------------------------
(* The firmware that is flashed                                             *)

\* A step of the demo that is flashed changes nothing of the others.
LEMMA OwnSteps ==
  [UsbNext]_usbVars =>
    /\ demo' = demo /\ [HidNext]_hidVars /\ [EchoNext]_echoVars
    /\ [TmcNext]_tmcVars /\ [RtNext]_rtVars /\ [AudioNext]_audioVars /\ [VideoNext]_videoVars
    /\ [MidiNext]_midiVars /\ [DiskNext]_diskVars /\ [AudioControlNext]_audioControlVars
    /\ [EnumNext]_enumVars
<1>1. ASSUME UNCHANGED usbVars
      PROVE  /\ demo' = demo /\ UNCHANGED hidVars /\ UNCHANGED echoVars
             /\ UNCHANGED tmcVars /\ UNCHANGED rtVars /\ UNCHANGED audioVars /\ UNCHANGED videoVars
             /\ UNCHANGED midiVars /\ UNCHANGED diskVars /\ UNCHANGED audioControlVars
             /\ UNCHANGED enumVars
  BY <1>1, Zenon DEF usbVars
<1>2. ASSUME UsbNext
      PROVE  /\ demo' = demo /\ [HidNext]_hidVars /\ [EchoNext]_echoVars
             /\ [TmcNext]_tmcVars /\ [RtNext]_rtVars /\ [AudioNext]_audioVars
             /\ [VideoNext]_videoVars /\ [MidiNext]_midiVars /\ [DiskNext]_diskVars
             /\ [AudioControlNext]_audioControlVars /\ [EnumNext]_enumVars
  <2>1. /\ demo = "hid" => HidNext
        /\ demo = "serial" => EchoNext
        /\ demo = "usbtmc" => TmcNext
        /\ demo = "dfu_runtime" => RtNext
        /\ demo = "audio" => AudioNext
        /\ demo = "video" => VideoNext
        /\ demo = "midi" => MidiNext
        /\ demo = "disk" => DiskNext
        /\ demo = "controls" => AudioControlNext
        /\ demo = "bus" => EnumNext
    BY <1>2 DEF UsbNext
  <2>2. NotIn(demo) /\ demo' = demo
    BY <1>2 DEF UsbNext
  <2> QED
    BY <2>1, <2>2, Zenon DEF NotIn
<1> QED
  BY <1>1, <1>2

\* Whichever firmware is flashed or plugged in, each of the components keeps its promise: the
\* answers of the instrument, the stored images, the audio, its settings, the video frames, the
\* notes, the disks, the characters echoed and the LED that follows the bus.
THEOREM UsbKeepsPromises ==
  UsbSpec =>
    /\ [](AnswerWhole /\ NoAudioTwice /\ TornByOneAtMost /\ LostNotesEnd)
    /\ [](DiskAsTold /\ SettingsHeard /\ EchoFaithful /\ BlinkTellsBus)
    /\ ListedImagesKept
<1>1. UsbInit => /\ TmcInit /\ RtInit /\ AudioInit /\ VideoInit /\ MidiInit
                 /\ DiskInit /\ AudioControlInit /\ EnumInit /\ EchoInit
  BY DEF UsbInit
<1>2. UsbSpec => [](TmcInv /\ MidiInv)
  BY <1>1, OwnSteps, TmcInitInv, TmcStep, MidiInitInv, MidiStep, PTL DEF UsbSpec
<1>3. UsbSpec => [](AudioTypeOK /\ NoAudioTwice)
  BY <1>1, OwnSteps, AudioOnce, PTL DEF UsbSpec, AudioSpec
<1>4. UsbSpec => [](VideoTypeOK /\ TornByOneAtMost)
  BY <1>1, OwnSteps, FramesBarelyTorn, PTL DEF UsbSpec, VideoSpec
<1>5. UsbSpec => [](DiskTypeOK /\ DiskAsTold)
  BY <1>1, OwnSteps, DisksAsTold, PTL DEF UsbSpec, DiskSpec
<1>6. UsbSpec => [](AudioControlTypeOK /\ SettingsHeard)
  BY <1>1, OwnSteps, SettingsAsHeard, PTL DEF UsbSpec, AudioControlSpec
<1>7. UsbSpec => []RtTypeOK /\ ListedImagesKept
  BY <1>1, OwnSteps, ImagesSurvive, PTL DEF UsbSpec, RtSpec
<1>8. UsbSpec => []EnumInv
  BY <1>1, OwnSteps, EnumInitInv, EnumStep, PTL DEF UsbSpec
<1>9. EnumInv => BlinkTellsBus
  BY DEF EnumInv
<1>10. UsbSpec => [](EchoTypeOK /\ EchoFaithful)
  BY <1>1, OwnSteps, EchoesFaithful, PTL DEF UsbSpec, EchoSpec
<1> QED
  BY <1>2, <1>3, <1>4, <1>5, <1>6, <1>7, <1>8, <1>9, <1>10, TmcSafe, MidiSafe, PTL

\* Whichever firmware is flashed or plugged in, every variable of every component keeps to the
\* values declared for it.
THEOREM UsbTyped == UsbSpec => []UsbTypeOK
<1>1. UsbInit => /\ HidInit /\ TmcInit /\ RtInit /\ AudioInit /\ EchoInit /\ VideoInit
                 /\ MidiInit /\ DiskInit /\ AudioControlInit /\ EnumInit /\ demo \in DemoNames
  BY DEF UsbInit
<1>2. UsbSpec => [](HidInv /\ TmcInv /\ MidiInv /\ EnumInv)
  BY <1>1, OwnSteps, HidInitInv, HidStep, TmcInitInv, TmcStep, MidiInitInv, MidiStep,
     EnumInitInv, EnumStep, PTL DEF UsbSpec
<1>3. UsbSpec => [](demo \in DemoNames)
  <2>1. demo \in DemoNames /\ demo' = demo => (demo \in DemoNames)'
    OBVIOUS
  <2> QED
    BY <1>1, <2>1, OwnSteps, PTL DEF UsbSpec
<1>4. UsbSpec => RtSpec
  BY <1>1, OwnSteps, PTL DEF UsbSpec, RtSpec
<1>5. UsbSpec => AudioSpec /\ EchoSpec
  BY <1>1, OwnSteps, PTL DEF UsbSpec, AudioSpec, EchoSpec
<1>6. UsbSpec => VideoSpec /\ DiskSpec
  BY <1>1, OwnSteps, PTL DEF UsbSpec, VideoSpec, DiskSpec
<1>7. UsbSpec => AudioControlSpec
  BY <1>1, OwnSteps, PTL DEF UsbSpec, AudioControlSpec
<1>8. HidInv => HidTypeOK
  BY DEF HidInv
<1>9. EnumInv => EnumTypeOK
  BY DEF EnumInv
<1>10. /\ demo \in DemoNames
       /\ HidTypeOK /\ TmcTypeOK /\ RtTypeOK /\ AudioTypeOK /\ EchoTypeOK /\ VideoTypeOK
       /\ MidiTypeOK /\ DiskTypeOK /\ AudioControlTypeOK /\ EnumTypeOK
       => UsbTypeOK
  BY Zenon DEF UsbTypeOK
<1> QED
  BY <1>2, <1>3, <1>4, <1>5, <1>6, <1>7, <1>8, <1>9, <1>10, TmcSafe, MidiSafe, ImagesSurvive,
     AudioOnce, EchoesFaithful, FramesBarelyTorn, DisksAsTold, SettingsAsHeard, PTL
=============================================================================
