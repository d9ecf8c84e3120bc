-------------------------- MODULE BoardDemosProofs --------------------------
(***************************************************************************)
(* Proofs about the applications of BoardDemos, for every value of their    *)
(* constants: what each component promises of its own specification.       *)
(***************************************************************************)
EXTENDS BoardDemos, MqttClientProofs, DeviceControlProofs, TLAPS

-----------------------------------------------------------------------------
(* File I/O: what arrives is the input with both gains                      *)

\* The block under way as the host gave it, after one gain and after both.
Original == BlockRead(b)
Once == Gain(Original)
Doubled == Gain(Once)

\* The block under way is in the k-th place on its way from link1 to the queue, with the
\* gains of the stages it has passed, and in no other; nothing is under way for k = 0.
BlockAt(k) ==
  /\ link1 = IF k = 1 THEN Block(Original) ELSE NoBlock
  /\ IF k = 2 THEN stage1 = Block(Once) ELSE stage1 \in {NoBlock, Ready}
  /\ stageQueue = IF k = 3 THEN Block(Once) ELSE NoBlock
  /\ stage2 = IF k = 4 THEN Block(Doubled) ELSE NoBlock
  /\ link2 = IF k = 5 THEN Block(Doubled) ELSE NoBlock
  /\ IF k = 6 THEN stage3 = Block(Doubled) ELSE stage3 \in {NoBlock, Ready}
  /\ fileio_queue = IF k = 7 THEN Block(Doubled) ELSE NoBlock

\* A block is under way exactly while xscope_fileio waits for it: the file's next, if
\* there is one.
FlowInv ==
  /\ fileio = "receive" => \E k \in 1 .. 7 : BlockAt(k)
  /\ fileio # "receive" => BlockAt(0)
  /\ fileio \in {"send", "receive"} => b < block_count
  /\ fileio = "send" => in_buf = Original

Holds(place) == IF place = NoBlock THEN 0 ELSE 1

\* Each stage that holds a frame, or a buffer for one, has it on its tile's heap.
HeapInv ==
  heap = [tile0 |-> Holds(stage3), tile1 |-> Holds(stage1) + Holds(stageQueue) + Holds(stage2)]

\* The header was written when the files were opened, and the last block ends the loop.
HeaderInv ==
  /\ header \in Nat
  /\ fileio \in {"read", "send", "receive", "closed"} =>
       header = wav_get_frame_start(block_count)
  /\ fileio = "closed" => b = block_count

FioInv ==
  /\ infile \in Files /\ b \in 0 .. block_count /\ in_buf \in Blocks
  /\ fileio \in {"open", "read", "send", "receive", "closed", "failed"}
  /\ out \in Seq(Samples) /\ OutputFollowsInput
  /\ FlowInv /\ HeapInv /\ HeaderInv

-----------------------------------------------------------------------------
(* File I/O: facts about places, frames and blocks                          *)

\* What a place holds tells itself apart.
LEMMA Places ==
  /\ Ready # NoBlock
  /\ \A s : Block(s) # NoBlock /\ Block(s) # Ready /\ Block(s)[2] = s
<1>1. Len(<<"ready">>) = 1 /\ Len(<< >>) = 0
  OBVIOUS
<1>2. \A s : Len(<<"block", s>>) = 2 /\ <<"block", s>>[2] = s
  OBVIOUS
<1> QED
  BY <1>1, <1>2, Zenon DEF NoBlock, Ready, Block

\* The frames of whole blocks.
LEMMA Frames ==
  /\ wav_get_frame_start(0) = 0
  /\ \A k \in Nat : /\ wav_get_frame_start(k) \in Nat
                    /\ wav_get_frame_start(k + 1) = wav_get_frame_start(k) + FRAME_ADVANCE
<1>1. FRAME_ADVANCE \in Nat
  BY FilesAssumption
<1> QED
  BY <1>1 DEF wav_get_frame_start

\* The blocks leave less than one of the frames that the header tells.
LEMMA BlockCount ==
  ASSUME infile \in Files
  PROVE  /\ block_count \in Nat
         /\ wav_get_frame_start(block_count) <= infile.frames
         /\ infile.frames < wav_get_frame_start(block_count) + FRAME_ADVANCE
<1>1. FRAME_ADVANCE \in Nat /\ FRAME_ADVANCE > 0
  BY FilesAssumption
<1>2. infile.frames \in Nat
  BY FilesAssumption
<1> DEFINE frames == infile.frames
<1> HIDE DEF frames
<1>3. frames \in Nat
  BY <1>2 DEF frames
<1>4. PICK q \in Nat : q = frames \div FRAME_ADVANCE
  BY <1>1, <1>3
<1>5. FRAME_ADVANCE * q <= frames /\ frames < FRAME_ADVANCE * q + FRAME_ADVANCE
  BY <1>1, <1>3, <1>4
<1>6. FRAME_ADVANCE * q = q * FRAME_ADVANCE
  BY <1>1
<1>7. block_count = q
  BY <1>4, Zenon DEF block_count, frames
<1>8. wav_get_frame_start(q) = q * FRAME_ADVANCE
  BY DEF wav_get_frame_start
<1> QED
  BY <1>1, <1>3, <1>5, <1>6, <1>7, <1>8 DEF frames

\* A gain keeps a sample in its bits, silence silent, and a block a block.
LEMMA GainKeepsBlocks ==
  /\ \A x \in Int : Twice(x) \in Samples
  /\ 0 \in Samples
  /\ \A block \in Blocks : Gain(block) \in Blocks
<1>1. HalfRange \in Nat /\ HalfRange > 0
  BY FilesAssumption
<1>2. 0 \in Samples /\ Samples \subseteq Int
  BY <1>1 DEF Samples
<1>3. \A x \in Int : Twice(x) \in Samples
  BY <1>1 DEF Twice, Samples
<1> QED
  BY <1>2, <1>3 DEF Gain, Blocks

LEMMA BlocksOfFile ==
  ASSUME infile \in Files, b \in Nat
  PROVE  Original \in Blocks /\ Once \in Blocks /\ Doubled \in Blocks
<1>1. infile.data \in Seq(Samples)
  BY FilesAssumption
<1>2. wav_get_frame_start(b) \in Nat /\ FRAME_ADVANCE \in Nat
  BY Frames, FilesAssumption
<1>3. Original \in Blocks
  <2> SUFFICES ASSUME NEW i \in 1 .. FRAME_ADVANCE
               PROVE  (IF wav_get_frame_start(b) + i <= Len(infile.data)
                       THEN infile.data[wav_get_frame_start(b) + i] ELSE 0) \in Samples
    BY DEF Original, BlockRead, Blocks
  <2> QED
    BY <1>1, <1>2, GainKeepsBlocks
<1> QED
  BY <1>3, GainKeepsBlocks DEF Once, Doubled

\* The block under way stays what it is while neither the file nor its number changes.
LEMMA SameBlock ==
  UNCHANGED <<infile, b>> =>
    /\ Original' = Original /\ Once' = Once /\ Doubled' = Doubled
    /\ block_count' = block_count
BY DEF Original, Once, Doubled, Gain, BlockRead, wav_get_frame_start, block_count

\* A place that holds a block says where the block under way is.
LEMMA WhereItIs ==
  ASSUME FlowInv
  PROVE  /\ link1 # NoBlock => fileio = "receive" /\ BlockAt(1)
         /\ stage1 \notin {NoBlock, Ready} => fileio = "receive" /\ BlockAt(2)
         /\ stageQueue # NoBlock => fileio = "receive" /\ BlockAt(3)
         /\ stage2 # NoBlock => fileio = "receive" /\ BlockAt(4)
         /\ link2 # NoBlock => fileio = "receive" /\ BlockAt(5)
         /\ stage3 \notin {NoBlock, Ready} => fileio = "receive" /\ BlockAt(6)
         /\ fileio_queue # NoBlock => fileio = "receive" /\ BlockAt(7)
<1>1. CASE fileio = "receive"
  <2>1. PICK k \in 1 .. 7 : BlockAt(k)
    BY <1>1 DEF FlowInv
  <2>2. /\ link1 # NoBlock => k = 1
        /\ stage1 \notin {NoBlock, Ready} => k = 2
        /\ stageQueue # NoBlock => k = 3
        /\ stage2 # NoBlock => k = 4
        /\ link2 # NoBlock => k = 5
        /\ stage3 \notin {NoBlock, Ready} => k = 6
        /\ fileio_queue # NoBlock => k = 7
    BY <2>1 DEF BlockAt
  <2> QED
    BY <1>1, <2>1, <2>2, Zenon
<1>2. CASE fileio # "receive"
  <2>1. BlockAt(0)
    BY <1>2 DEF FlowInv
  <2> QED
    BY <2>1 DEF BlockAt
<1> QED
  BY <1>1, <1>2

\* What the stages leave alone.
LEMMA StageFrame ==
  ASSUME FioInv, UNCHANGED fileioVars
  PROVE  /\ infile' \in Files /\ b' \in 0 .. block_count' /\ in_buf' \in Blocks
         /\ fileio' = fileio /\ fileio' \in {"open", "read", "send", "receive", "closed", "failed"}
         /\ out' \in Seq(Samples) /\ OutputFollowsInput' /\ HeaderInv'
         /\ fileio' \in {"send", "receive"} => b' < block_count'
         /\ fileio' = "send" => in_buf' = Original'
<1>1. UNCHANGED <<infile, fileio, b, in_buf, header, out>>
  BY DEF fileioVars
<1>2. block_count' = block_count /\ Original' = Original
  BY <1>1, SameBlock
<1>3. infile' \in Files /\ b' \in 0 .. block_count' /\ in_buf' \in Blocks
  BY <1>1, <1>2, Zenon DEF FioInv
<1>4. OutputFollowsInput'
  BY <1>1 DEF FioInv, OutputFollowsInput, Expected, Twice
<1>5. HeaderInv'
  BY <1>1, <1>2, Zenon DEF FioInv, HeaderInv, wav_get_frame_start
<1> QED
  BY <1>1, <1>2, <1>3, <1>4, <1>5, Zenon DEF FioInv, FlowInv

\* A stage that takes a block from place k - 1 moves the one that is under way.
LEMMA StageMove ==
  ASSUME FioInv, UNCHANGED fileioVars, fileio = "receive", NEW k \in 1 .. 7, BlockAt(k)', HeapInv'
  PROVE  FioInv'
<1>1. FlowInv'
  BY StageFrame DEF FlowInv
<1> QED
  BY <1>1, StageFrame DEF FioInv

-----------------------------------------------------------------------------
(* File I/O: the stages                                                     *)

\* A stage prepares its buffer while the block is anywhere else, or nowhere.
LEMMA AllocateStep == FioInv /\ (Allocate1 \/ Allocate3) => FioInv'
<1> SUFFICES ASSUME FioInv, Allocate1 \/ Allocate3 PROVE FioInv'
  OBVIOUS
<1>1. UNCHANGED fileioVars /\ UNCHANGED <<infile, b>>
  BY DEF Allocate1, Allocate3, fileioVars
<1>2. Original' = Original /\ Once' = Once /\ Doubled' = Doubled
  BY <1>1, SameBlock
<1>3. \A k \in 0 .. 7 : BlockAt(k) => BlockAt(k)'
  <2> SUFFICES ASSUME NEW k \in 0 .. 7, BlockAt(k) PROVE BlockAt(k)'
    OBVIOUS
  <2>1. CASE Allocate1
    <3>1. k # 2 /\ stage1' = Ready /\ UNCHANGED <<link1, stageQueue, stage2, link2, stage3, fileio_queue>>
      BY <2>1, Places DEF BlockAt, Allocate1
    <3> QED
      BY <1>2, <3>1 DEF BlockAt
  <2>2. CASE Allocate3
    <3>1. k # 6 /\ stage3' = Ready /\ UNCHANGED <<link1, stage1, stageQueue, stage2, link2, fileio_queue>>
      BY <2>2, Places DEF BlockAt, Allocate3, tile1Stages
    <3> QED
      BY <1>2, <3>1 DEF BlockAt
  <2> QED
    BY <2>1, <2>2
<1>4. HeapInv'
  BY Places DEF FioInv, HeapInv, Holds, Allocate1, Allocate3, tile1Stages
<1>5. FlowInv'
  BY <1>1, <1>3, StageFrame DEF FioInv, FlowInv
<1> QED
  BY <1>1, <1>4, <1>5, StageFrame DEF FioInv

\* The stages of tile 1 apply the first gain, pass the block on, apply the second and
\* send it back.
LEMMA Tile1Step ==
  FioInv /\ (Stage1Receive \/ Stage1Pass \/ Stage2Receive \/ Stage2Send) => FioInv'
<1> SUFFICES ASSUME FioInv PROVE Stage1Receive \/ Stage1Pass \/ Stage2Receive \/ Stage2Send => FioInv'
  OBVIOUS
<1>0. FlowInv /\ HeapInv
  BY DEF FioInv
<1>1. ASSUME Stage1Receive PROVE FioInv'
  <2>1. /\ link1' = NoBlock /\ stage1' = Block(Gain(link1[2])) /\ link1 # NoBlock /\ stage1 = Ready
        /\ UNCHANGED fileioVars /\ UNCHANGED <<infile, b>>
        /\ UNCHANGED <<stageQueue, stage2, link2, stage3, fileio_queue, heap>>
    BY <1>1 DEF Stage1Receive, fileioVars
  <2>2. fileio = "receive" /\ BlockAt(1) /\ link1 = Block(Original)
    BY <1>0, <2>1, WhereItIs DEF BlockAt
  <2>3. stage1' = Block(Once)'
    BY <2>1, <2>2, Places, SameBlock, Zenon DEF Once, Block
  <2>4. BlockAt(2)'
    BY <2>1, <2>2, <2>3 DEF BlockAt, Block, NoBlock, Ready
  <2>5. HeapInv'
    BY <1>0, <2>1, <2>3, Places DEF HeapInv, Holds, Block
  <2> QED
    BY <2>1, <2>2, <2>4, <2>5, StageMove
<1>2. ASSUME Stage1Pass PROVE FioInv'
  <2>1. /\ stageQueue' = stage1 /\ stage1' = NoBlock /\ stageQueue = NoBlock /\ stage1 \notin {NoBlock, Ready}
        /\ UNCHANGED fileioVars /\ UNCHANGED <<infile, b>>
        /\ UNCHANGED <<link1, stage2, link2, stage3, fileio_queue, heap>>
    BY <1>2 DEF Stage1Pass, fileioVars
  <2>2. fileio = "receive" /\ BlockAt(2)
    BY <1>0, <2>1, WhereItIs
  <2>3. BlockAt(3)'
    BY <2>1, <2>2, SameBlock DEF BlockAt, Block, NoBlock, Ready
  <2>4. HeapInv'
    BY <1>0, <2>1 DEF HeapInv, Holds
  <2> QED
    BY <2>1, <2>2, <2>3, <2>4, StageMove
<1>3. ASSUME Stage2Receive PROVE FioInv'
  <2>1. /\ stage2' = Block(Gain(stageQueue[2])) /\ stageQueue' = NoBlock /\ stage2 = NoBlock
        /\ stageQueue # NoBlock
        /\ UNCHANGED fileioVars /\ UNCHANGED <<infile, b>>
        /\ UNCHANGED <<link1, stage1, link2, stage3, fileio_queue, heap>>
    BY <1>3 DEF Stage2Receive, fileioVars
  <2>2. fileio = "receive" /\ BlockAt(3) /\ stageQueue = Block(Once)
    BY <1>0, <2>1, WhereItIs DEF BlockAt
  <2>3. stage2' = Block(Doubled)'
    BY <2>1, <2>2, Places, SameBlock, Zenon DEF Doubled, Block
  <2>4. BlockAt(4)'
    BY <2>1, <2>2, <2>3 DEF BlockAt, Block, NoBlock, Ready
  <2>5. HeapInv'
    BY <1>0, <2>1, <2>3, Places DEF HeapInv, Holds, Block
  <2> QED
    BY <2>1, <2>2, <2>4, <2>5, StageMove
<1>4. ASSUME Stage2Send PROVE FioInv'
  <2>1. /\ link2' = stage2 /\ stage2' = NoBlock /\ stage2 # NoBlock /\ link2 = NoBlock
        /\ heap' = [heap EXCEPT !.tile1 = @ - 1]
        /\ UNCHANGED fileioVars /\ UNCHANGED <<infile, b>>
        /\ UNCHANGED <<link1, stage1, stageQueue, stage3, fileio_queue>>
    BY <1>4 DEF Stage2Send, fileioVars
  <2>2. fileio = "receive" /\ BlockAt(4)
    BY <1>0, <2>1, WhereItIs
  <2>3. BlockAt(5)'
    BY <2>1, <2>2, SameBlock DEF BlockAt, Block, NoBlock, Ready
  <2>4. HeapInv'
    BY <1>0, <2>1 DEF HeapInv, Holds
  <2> QED
    BY <2>1, <2>2, <2>3, <2>4, StageMove
<1> QED
  BY <1>1, <1>2, <1>3, <1>4

\* The stage of tile 0 takes the block from the link and puts it into the queue.
LEMMA Tile0Step == FioInv /\ (Stage3Receive \/ xscope_fileio_tx_to_host) => FioInv'
<1> SUFFICES ASSUME FioInv PROVE Stage3Receive \/ xscope_fileio_tx_to_host => FioInv'
  OBVIOUS
<1>0. FlowInv /\ HeapInv
  BY DEF FioInv
<1>1. ASSUME Stage3Receive PROVE FioInv'
  <2>1. /\ stage3' = link2 /\ link2' = NoBlock /\ stage3 = Ready /\ link2 # NoBlock
        /\ UNCHANGED fileioVars /\ UNCHANGED <<infile, b>>
        /\ UNCHANGED <<link1, stage1, stageQueue, stage2, fileio_queue, heap>>
    BY <1>1 DEF Stage3Receive, fileioVars, tile1Stages
  <2>2. fileio = "receive" /\ BlockAt(5)
    BY <1>0, <2>1, WhereItIs
  <2>3. BlockAt(6)'
    BY <2>1, <2>2, SameBlock DEF BlockAt, Block, NoBlock, Ready
  <2>4. HeapInv'
    BY <1>0, <2>1, Places DEF HeapInv, Holds
  <2> QED
    BY <2>1, <2>2, <2>3, <2>4, StageMove
<1>2. ASSUME xscope_fileio_tx_to_host PROVE FioInv'
  <2>1. /\ fileio_queue' = stage3 /\ stage3' = NoBlock /\ stage3 \notin {NoBlock, Ready}
        /\ fileio_queue = NoBlock /\ heap' = [heap EXCEPT !.tile0 = @ - 1]
        /\ UNCHANGED fileioVars /\ UNCHANGED <<infile, b>>
        /\ UNCHANGED <<link1, stage1, stageQueue, stage2, link2>>
    BY <1>2 DEF xscope_fileio_tx_to_host, fileioVars, tile1Stages
  <2>2. fileio = "receive" /\ BlockAt(6)
    BY <1>0, <2>1, WhereItIs
  <2>3. BlockAt(7)'
    BY <2>1, <2>2, SameBlock DEF BlockAt, Block, NoBlock, Ready
  <2>4. HeapInv'
    BY <1>0, <2>1 DEF HeapInv, Holds
  <2> QED
    BY <2>1, <2>2, <2>3, <2>4, StageMove
<1> QED
  BY <1>1, <1>2

-----------------------------------------------------------------------------
(* File I/O: the task that reads and writes the files                       *)

\* Opening, reading and closing leave the stages and what has been written alone.
LEMMA HostStep ==
  ASSUME FioInv, OpenFiles \/ ReadBlock \/ CloseFiles
  PROVE  FioInv'
<1>1. /\ UNCHANGED <<infile, b>> /\ UNCHANGED <<out, link1, stage1, stageQueue, stage2, link2, stage3>>
      /\ UNCHANGED <<fileio_queue, heap>> /\ fileio \in {"open", "read"}
      /\ fileio' \in {"read", "failed", "send", "closed"}
  BY DEF OpenFiles, ReadBlock, CloseFiles, tile1Stages
<1>2. /\ Original' = Original /\ Once' = Once /\ Doubled' = Doubled /\ block_count' = block_count
  BY <1>1, SameBlock
<1>3. BlockAt(0)'
  <2>1. BlockAt(0)
    BY <1>1 DEF FioInv, FlowInv
  <2> QED
    BY <1>1, <2>1 DEF BlockAt, NoBlock, Ready
<1>4. HeapInv' /\ OutputFollowsInput' /\ infile' \in Files /\ b' \in 0 .. block_count' /\ out' \in Seq(Samples)
  BY <1>1, <1>2 DEF FioInv, HeapInv, Holds, OutputFollowsInput, Expected, Twice, NoBlock
<1>5. block_count \in Nat /\ wav_get_frame_start(block_count) \in Nat
  BY BlockCount, Frames DEF FioInv
<1>6. /\ in_buf' \in Blocks
      /\ fileio' \in {"send", "receive"} => b' < block_count'
      /\ fileio' = "send" => in_buf' = Original'
  <2>1. CASE ReadBlock
    <3>1. in_buf' = Original /\ b < block_count
      BY <2>1 DEF ReadBlock, Original
    <3> QED
      BY <1>1, <1>2, <1>4, <1>5, <3>1, BlocksOfFile DEF FioInv
  <2>2. CASE OpenFiles \/ CloseFiles
    <3>1. in_buf' = in_buf /\ fileio' \notin {"send", "receive"}
      BY <2>2 DEF OpenFiles, CloseFiles
    <3> QED
      BY <3>1 DEF FioInv
  <2> QED
    BY <2>1, <2>2
<1>7. HeaderInv'
  <2>1. wav_get_frame_start(block_count)' = wav_get_frame_start(block_count)
    BY <1>2 DEF wav_get_frame_start
  <2>2. HeaderInv
    BY DEF FioInv
  <2>3. CASE OpenFiles
    <3>1. \/ fileio' = "read" /\ header' = wav_get_frame_start(block_count)
          \/ fileio' = "failed" /\ header' = header
      BY <2>3 DEF OpenFiles, wav_get_frame_start
    <3> QED
      BY <1>5, <2>1, <2>2, <3>1 DEF HeaderInv
  <2>4. CASE ReadBlock
    <3>1. header' = header /\ fileio = "read" /\ fileio' = "send"
      BY <2>4 DEF ReadBlock
    <3> QED
      BY <2>1, <2>2, <3>1 DEF HeaderInv
  <2>5. CASE CloseFiles
    <3>1. header' = header /\ fileio = "read" /\ b = block_count
      BY <2>5 DEF CloseFiles
    <3> QED
      BY <1>1, <1>2, <2>1, <2>2, <3>1 DEF HeaderInv
  <2> QED
    BY <2>3, <2>4, <2>5
<1> QED
  BY <1>1, <1>3, <1>4, <1>6, <1>7 DEF FioInv, FlowInv

LEMMA SendStep == FioInv /\ SendBlock => FioInv'
<1> SUFFICES ASSUME FioInv, SendBlock PROVE FioInv'
  OBVIOUS
<1>1. /\ fileio = "send" /\ fileio' = "receive" /\ link1' = Block(in_buf)
      /\ UNCHANGED <<infile, b>> /\ UNCHANGED <<in_buf, header, out, stage1, stageQueue, stage2>>
      /\ UNCHANGED <<link2, stage3, fileio_queue, heap>>
  BY DEF SendBlock, tile1Stages
<1>2. Original' = Original /\ Once' = Once /\ Doubled' = Doubled /\ block_count' = block_count
  BY <1>1, SameBlock
<1>3. BlockAt(0) /\ in_buf = Original /\ b < block_count
  BY <1>1 DEF FioInv, FlowInv
<1>4. BlockAt(1)'
  BY <1>1, <1>2, <1>3 DEF BlockAt, NoBlock, Ready, Block
<1>5. FlowInv'
  BY <1>1, <1>2, <1>3, <1>4 DEF FlowInv
<1>6. HeaderInv' /\ HeapInv' /\ OutputFollowsInput'
  BY <1>1, <1>2 DEF FioInv, HeaderInv, HeapInv, Holds, NoBlock, OutputFollowsInput, Expected, Twice,
                   wav_get_frame_start
<1> QED
  BY <1>1, <1>2, <1>5, <1>6 DEF FioInv

\* The block taken from the queue is the file's next with both gains.
LEMMA WriteStep == FioInv /\ WriteBlock => FioInv'
<1> SUFFICES ASSUME FioInv, WriteBlock PROVE FioInv'
  OBVIOUS
<1>1. /\ fileio = "receive" /\ fileio' = "read" /\ fileio_queue # NoBlock /\ fileio_queue' = NoBlock
      /\ b' = b + 1 /\ out' = out \o fileio_queue[2]
      /\ UNCHANGED <<infile, in_buf, header, link1, stage1, stageQueue, stage2, link2, stage3, heap>>
  BY DEF WriteBlock, tile1Stages
<1>2. BlockAt(7) /\ b < block_count /\ fileio_queue[2] = Doubled
  <2>1. BlockAt(7) /\ b < block_count
    BY <1>1, WhereItIs DEF FioInv, FlowInv
  <2> QED
    BY <2>1, Places DEF BlockAt
<1>3. BlockAt(0)'
  BY <1>1, <1>2 DEF BlockAt, NoBlock, Ready
<1>4. b \in Nat /\ block_count \in Nat /\ block_count' = block_count /\ b' \in 0 .. block_count'
  <2>1. block_count \in Nat /\ block_count' = block_count /\ b \in 0 .. block_count
    BY <1>1, BlockCount DEF FioInv, block_count
  <2> QED
    BY <1>1, <1>2, <2>1
<1>5. FRAME_ADVANCE \in Nat /\ wav_get_frame_start(b) \in Nat
      /\ wav_get_frame_start(b + 1) = wav_get_frame_start(b) + FRAME_ADVANCE
  BY <1>4, Frames, FilesAssumption
<1>6. Doubled \in Seq(Samples) /\ Len(Doubled) = FRAME_ADVANCE /\ DOMAIN Doubled = 1 .. FRAME_ADVANCE
  <2>1. Doubled \in Blocks
    BY <1>4, BlocksOfFile DEF FioInv
  <2> QED
    BY <1>5, <2>1 DEF Blocks
<1>7. \A i \in 1 .. FRAME_ADVANCE : Doubled[i] = Expected(wav_get_frame_start(b) + i)
  BY DEF Doubled, Once, Original, Gain, BlockRead, Expected
<1>8. out \in Seq(Samples) /\ Len(out) = wav_get_frame_start(b) /\ \A i \in DOMAIN out : out[i] = Expected(i)
  BY DEF FioInv, OutputFollowsInput, wav_get_frame_start
<1>9. out' = out \o Doubled /\ out' \in Seq(Samples)
  BY <1>1, <1>2, <1>6, <1>8
<1>10. Len(out') = wav_get_frame_start(b + 1)
  <2>1. \A s, t \in Seq(Samples) : Len(s \o t) = Len(s) + Len(t)
    OBVIOUS
  <2> QED
    BY <1>5, <1>6, <1>8, <1>9, <2>1, Zenon
<1>11. \A i \in 1 .. Len(out') : out'[i] = Expected(i)
  <2> TAKE i \in 1 .. Len(out')
  <2>1. CASE i <= Len(out)
    <3>1. i \in DOMAIN out /\ out'[i] = out[i]
      BY <1>5, <1>6, <1>8, <1>9, <1>10, <2>1
    <3> QED
      BY <1>8, <3>1
  <2>2. CASE i > Len(out)
    <3>1. i - Len(out) \in 1 .. FRAME_ADVANCE /\ out'[i] = Doubled[i - Len(out)]
      BY <1>5, <1>6, <1>8, <1>9, <1>10, <2>2
    <3>2. wav_get_frame_start(b) + (i - Len(out)) = i
      BY <1>5, <1>8
    <3> QED
      BY <1>7, <3>1, <3>2
  <2> QED
    BY <1>8, <2>1, <2>2
<1>12. OutputFollowsInput'
  <2>1. Len(out') = b' * FRAME_ADVANCE
    BY <1>1, <1>10 DEF wav_get_frame_start
  <2>2. \A i \in 1 .. Len(out') : out'[i] = Expected(i)'
    BY <1>1, <1>11, Zenon DEF Expected, Twice
  <2> QED
    BY <1>9, <2>1, <2>2 DEF OutputFollowsInput
<1>13. HeapInv' /\ HeaderInv'
  BY <1>1, <1>4 DEF FioInv, HeapInv, Holds, NoBlock, HeaderInv, wav_get_frame_start
<1>14. FlowInv'
  BY <1>1, <1>3 DEF FlowInv
<1> QED
  BY <1>1, <1>4, <1>9, <1>12, <1>13, <1>14 DEF FioInv

LEMMA FioStep == FioInv /\ [FioNext]_fioVars => FioInv'
<1>1. ASSUME FioInv, UNCHANGED fioVars PROVE FioInv'
  <2>1. UNCHANGED <<infile, fileio, b, in_buf, link1, stage1, stageQueue, stage2, link2, stage3,
                    fileio_queue, heap, header, out>>
    BY <1>1 DEF fioVars
  <2>2. /\ UNCHANGED fileioVars
    BY <2>1 DEF fileioVars
  <2>3. Original' = Original /\ Once' = Once /\ Doubled' = Doubled
    BY <2>1, SameBlock
  <2>4. \A k \in 0 .. 7 : BlockAt(k) => BlockAt(k)'
    BY <2>1, <2>3 DEF BlockAt, NoBlock, Ready, Block
  <2>5. FlowInv'
    BY <1>1, <2>1, <2>2, <2>4, StageFrame DEF FioInv, FlowInv
  <2>6. HeapInv'
    BY <1>1, <2>1 DEF FioInv, HeapInv, Holds, NoBlock
  <2> QED
    BY <1>1, <2>2, <2>5, <2>6, StageFrame DEF FioInv
<1> QED
  BY <1>1, HostStep, SendStep, WriteStep, AllocateStep, Tile1Step, Tile0Step
     DEF FioNext, xscope_fileio, stages

LEMMA FioInitInv == FioInit => FioInv
<1> SUFFICES ASSUME FioInit PROVE FioInv
  OBVIOUS
<1>1. /\ infile \in Files /\ fileio = "open" /\ b = 0 /\ in_buf = Zeros /\ header = 0 /\ out = << >>
      /\ link1 = NoBlock /\ stage1 = NoBlock /\ stageQueue = NoBlock /\ stage2 = NoBlock
      /\ link2 = NoBlock /\ stage3 = NoBlock /\ fileio_queue = NoBlock
      /\ heap = [tile0 |-> 0, tile1 |-> 0]
  BY DEF FioInit
<1>2. b \in 0 .. block_count
  BY <1>1, BlockCount
<1>3. in_buf \in Blocks
  BY <1>1, GainKeepsBlocks DEF Zeros, Blocks
<1>4. OutputFollowsInput /\ out \in Seq(Samples)
  BY <1>1, FilesAssumption DEF OutputFollowsInput
<1>5. BlockAt(0) /\ HeapInv
  BY <1>1 DEF BlockAt, HeapInv, Holds
<1> QED
  BY <1>1, <1>2, <1>3, <1>4, <1>5 DEF FioInv, FlowInv, HeaderInv

-----------------------------------------------------------------------------
(* File I/O: what the demo promises                                         *)

LEMMA FioInvTyped == FioInv => FioTypeOK
<1> SUFFICES ASSUME FioInv PROVE FioTypeOK
  OBVIOUS
<1>1. b \in Nat
  BY BlockCount DEF FioInv
<1>2. Once \in Blocks /\ Doubled \in Blocks /\ Original \in Blocks
  BY <1>1, BlocksOfFile DEF FioInv
<1>3. PICK k \in 0 .. 7 : BlockAt(k)
  BY DEF FioInv, FlowInv
<1>4. /\ \A place \in {link1, stageQueue, stage2, link2, fileio_queue} :
           place = NoBlock \/ place[2] \in Blocks
      /\ \A place \in {stage1, stage3} : place \in {NoBlock, Ready} \/ place[2] \in Blocks
  BY <1>2, <1>3, Places DEF BlockAt
<1>5. heap \in [tile0 : 0 .. 1, tile1 : 0 .. 2]
  <2>1. Holds(stage3) \in 0 .. 1 /\ Holds(stage1) + Holds(stageQueue) + Holds(stage2) \in 0 .. 2
    BY <1>3 DEF Holds, BlockAt
  <2> QED
    BY <2>1 DEF FioInv, HeapInv
<1> QED
  BY <1>4, <1>5 DEF FioInv, FioTypeOK, HeaderInv

LEMMA FioInvRight == FioInv => OutputRight
<1> SUFFICES ASSUME FioInv, fileio = "closed"
             PROVE  /\ header = Len(out)
                    /\ Len(out) \in (infile.frames - FRAME_ADVANCE + 1) .. infile.frames
  BY DEF FioInv, OutputRight, OutputLength
<1>1. header = wav_get_frame_start(block_count) /\ b = block_count
  BY DEF FioInv, HeaderInv
<1>2. Len(out) = wav_get_frame_start(block_count)
  BY <1>1, Zenon DEF FioInv, OutputFollowsInput, wav_get_frame_start
<1>3. /\ wav_get_frame_start(block_count) \in Nat
      /\ wav_get_frame_start(block_count) <= infile.frames
      /\ infile.frames < wav_get_frame_start(block_count) + FRAME_ADVANCE
  BY BlockCount, Frames DEF FioInv
<1>4. infile.frames \in Nat /\ FRAME_ADVANCE \in Nat
  BY FilesAssumption DEF FioInv
<1> DEFINE frames == infile.frames
<1> HIDE DEF frames
<1>5. wav_get_frame_start(block_count) \in (frames - FRAME_ADVANCE + 1) .. frames
  BY <1>3, <1>4 DEF frames
<1> QED
  BY <1>1, <1>2, <1>5 DEF frames

\* For every input file and every length of a block, the blocks reach the output file in
\* order, once each and with both gains, as many as the header says; and the pipelines
\* never need more than two frames on tile 1 and one on tile 0.
THEOREM OutputIsRight == FioSpec => [](FioTypeOK /\ OutputRight)
BY FioInitInv, FioStep, FioInvTyped, FioInvRight, PTL DEF FioSpec

-----------------------------------------------------------------------------
(* WiFi: the firmware that is loaded is the file                             *)

\* While the driver reads, the file is open, and at the driver's position or beyond it:
\* it is beyond when the download began in the middle of a file left open.
WifiReadInv ==
  driver = "read" =>
    /\ fileOpen /\ wf200_fw_size = FileSize /\ dlSize = FileSize
    /\ dlIndex < FileSize /\ dlIndex <= filePos
    /\ filePos = dlIndex => straight

WifiSizeInv == driver = "size" => straight /\ dlIndex = 0

WifiInv == WifiTypeOK /\ WifiReadInv /\ WifiSizeInv /\ FirmwareWhole

\* What a read wants is at least one byte and no more than is left to load, and it
\* gets no more than is left in the file.
LEMMA ReadBounds ==
  ASSUME WifiInv, driver = "read"
  PROVE  /\ Wanted \in 1 .. (FileSize - dlIndex)
         /\ BytesRead \in 0 .. (FileSize - filePos) /\ BytesRead <= Wanted
<1>1. /\ fileOpen /\ dlSize = FileSize /\ dlIndex < FileSize
      /\ dlIndex \in 0 .. FileSize /\ filePos \in 0 .. FileSize
  BY DEF WifiInv, WifiTypeOK, WifiReadInv
<1>2. FileSize \in Nat /\ BlockSize \in Nat /\ BlockSize > 0
  BY FirmwareAssumption
<1>3. Wanted \in 1 .. (FileSize - dlIndex)
  BY <1>1, <1>2 DEF Wanted, Least
<1>4. BytesRead = Least(Wanted, FileSize - filePos)
  BY <1>1 DEF BytesRead
<1> HIDE DEF Wanted
<1> QED
  BY <1>1, <1>2, <1>3, <1>4 DEF Least

LEMMA WifiReadStep == WifiInv /\ sl_wfx_app_fw_read => WifiInv'
<1> SUFFICES ASSUME WifiInv, sl_wfx_app_fw_read PROVE WifiInv'
  OBVIOUS
<1>1. /\ driver = "read"
      /\ filePos' = filePos + BytesRead
      /\ straight' = (straight /\ filePos = dlIndex /\ BytesRead = Wanted)
      /\ fileOpen' = (fileOpen /\ ~ LastRead)
      /\ wf200_fw_size' = IF LastRead THEN 0 ELSE wf200_fw_size
      /\ UNCHANGED <<wifi_setup, dlSize, manager, faults>>
  BY DEF sl_wfx_app_fw_read
<1>2. /\ fileOpen /\ wf200_fw_size = FileSize /\ dlSize = FileSize
      /\ dlIndex < FileSize /\ dlIndex <= filePos /\ (filePos = dlIndex => straight)
      /\ dlIndex \in 0 .. FileSize /\ filePos \in 0 .. FileSize /\ FileSize \in Nat
  BY <1>1, FirmwareAssumption DEF WifiInv, WifiTypeOK, WifiReadInv
<1>3. /\ Wanted \in 1 .. (FileSize - dlIndex)
      /\ BytesRead \in 0 .. (FileSize - filePos) /\ BytesRead <= Wanted
  BY <1>1, ReadBounds
<1>4. /\ filePos' \in 0 .. FileSize /\ fileOpen' \in BOOLEAN /\ straight' \in BOOLEAN
      /\ wf200_fw_size' \in {0, FileSize}
  BY <1>1, <1>2, <1>3
<1>5. CASE AllRead
  <2>1. BytesRead = Wanted /\ BytesRead # 0
    BY <1>3, <1>5 DEF AllRead
  <2>2. /\ dlIndex' = dlIndex + Wanted
        /\ driver' = IF dlIndex + Wanted = FileSize THEN "loaded" ELSE "read"
    BY <1>2, <1>5 DEF sl_wfx_app_fw_read
  <2>3. dlIndex' \in 0 .. FileSize /\ driver' \in {"off", "size", "read", "loaded"}
    BY <1>2, <1>3, <2>2
  <2>4. WifiTypeOK'
    BY <1>1, <1>4, <2>3 DEF WifiInv, WifiTypeOK
  <2>5. LastRead <=> dlIndex + Wanted >= FileSize
    BY <1>2, <2>1 DEF LastRead
  <2>6. CASE dlIndex + Wanted = FileSize
    <3>1. filePos = dlIndex
      BY <1>2, <1>3, <2>1, <2>6
    <3>2. straight' /\ dlIndex' = FileSize /\ driver' = "loaded"
      BY <1>1, <1>2, <2>1, <2>2, <2>6, <3>1
    <3> QED
      BY <2>4, <3>2 DEF WifiInv, WifiReadInv, WifiSizeInv, FirmwareWhole
  <2>7. CASE dlIndex + Wanted # FileSize
    <3>1. driver' = "read" /\ ~ LastRead
      BY <1>2, <1>3, <2>2, <2>5, <2>7
    <3>2. fileOpen' /\ wf200_fw_size' = FileSize /\ dlSize' = FileSize
      BY <1>1, <1>2, <3>1
    <3>3. dlIndex' < FileSize /\ dlIndex' <= filePos'
      BY <1>1, <1>2, <1>3, <2>1, <2>2, <2>7
    <3>4. filePos' = dlIndex' => straight'
      <4>1. filePos' = dlIndex' => filePos = dlIndex
        BY <1>1, <1>2, <1>3, <2>1, <2>2
      <4> QED
        BY <1>1, <1>2, <2>1, <4>1, Zenon
    <3> QED
      BY <2>4, <3>1, <3>2, <3>3, <3>4 DEF WifiInv, WifiReadInv, WifiSizeInv, FirmwareWhole
  <2> QED
    BY <2>6, <2>7
<1>6. CASE ~ AllRead
  <2>1. driver' = "off" /\ dlIndex' = dlIndex
    BY <1>6 DEF sl_wfx_app_fw_read
  <2>2. WifiTypeOK'
    BY <1>1, <1>2, <1>4, <2>1 DEF WifiInv, WifiTypeOK
  <2> QED
    BY <2>1, <2>2 DEF WifiInv, WifiReadInv, WifiSizeInv, FirmwareWhole
<1> QED
  BY <1>5, <1>6

\* Asking for the size opens the file, or finds it open where it was left.
LEMMA WifiSizeStep == WifiInv /\ sl_wfx_app_fw_size => WifiInv'
<1> SUFFICES ASSUME WifiInv, sl_wfx_app_fw_size PROVE WifiInv'
  OBVIOUS
<1>1. /\ driver = "size" /\ UNCHANGED <<wifi_setup, dlIndex, straight, manager>>
      /\ straight /\ dlIndex = 0 /\ FileSize \in Nat \ {0} /\ MaxFaults \in Nat
      /\ filePos \in 0 .. FileSize /\ fileOpen \in BOOLEAN /\ faults \in 0 .. MaxFaults
  BY FirmwareAssumption DEF sl_wfx_app_fw_size, WifiInv, WifiTypeOK, WifiSizeInv
<1>2. CASE /\ fileOpen' = TRUE /\ filePos' = IF fileOpen THEN filePos ELSE 0
           /\ wf200_fw_size' = FileSize /\ driver' = "read" /\ dlSize' = FileSize
           /\ UNCHANGED faults
  <2>1. filePos' \in 0 .. FileSize
    BY <1>1, <1>2
  <2>2. WifiTypeOK'
    BY <1>1, <1>2, <2>1 DEF WifiInv, WifiTypeOK
  <2>3. WifiReadInv'
    BY <1>1, <1>2, <2>1 DEF WifiReadInv
  <2> QED
    BY <1>2, <2>2, <2>3 DEF WifiInv, WifiSizeInv, FirmwareWhole
<1>3. CASE /\ ~ fileOpen /\ faults < MaxFaults /\ faults' = faults + 1
           /\ wf200_fw_size' = 0 /\ driver' = "off" /\ dlSize' = 0
           /\ UNCHANGED <<fileOpen, filePos>>
  <2>1. faults' \in 0 .. MaxFaults
    BY <1>1, <1>3
  <2>2. WifiTypeOK'
    BY <1>1, <1>3, <2>1 DEF WifiInv, WifiTypeOK
  <2> QED
    BY <1>3, <2>2 DEF WifiInv, WifiReadInv, WifiSizeInv, FirmwareWhole
<1> QED
  BY <1>2, <1>3 DEF sl_wfx_app_fw_size

\* The set-up task, the start of a download, one given up and the manager's events.
LEMMA WifiOtherSteps ==
  /\ WifiInv /\ (wifi_setup_task \/ BeginDownload \/ GiveUp) => WifiInv'
  /\ WifiInv /\ ((\E event \in DOMAIN During : ManagerEvent(event)) \/ scan) => WifiInv'
<1>1. ASSUME WifiInv, wifi_setup_task PROVE WifiInv'
  <2>1. UNCHANGED <<fileOpen, filePos, wf200_fw_size, driver, dlSize, dlIndex, straight, manager, faults>>
    BY <1>1 DEF wifi_setup_task, firmwareFile
  <2>2. \E i \in 1 .. 5 : wifi_setup' = Steps[i]
    <3>1. PICK i \in 1 .. 4 : wifi_setup' = Steps[i + 1]
      BY <1>1 DEF wifi_setup_task
    <3> QED
      BY <3>1
  <2> QED
    BY <1>1, <2>1, <2>2 DEF WifiInv, WifiTypeOK, WifiReadInv, WifiSizeInv, FirmwareWhole
<1>2. ASSUME WifiInv, BeginDownload PROVE WifiInv'
  <2>1. /\ driver' = "size" /\ dlIndex' = 0 /\ straight' = TRUE /\ manager' = "startup"
        /\ UNCHANGED <<wifi_setup, fileOpen, filePos, wf200_fw_size, dlSize, faults>>
    BY <1>2 DEF BeginDownload, firmwareFile
  <2>2. dlIndex' \in 0 .. FileSize
    BY <2>1, FirmwareAssumption
  <2>3. WifiTypeOK'
    BY <1>2, <2>1, <2>2, Zenon DEF WifiInv, WifiTypeOK
  <2> QED
    BY <2>1, <2>3 DEF WifiInv, WifiReadInv, WifiSizeInv, FirmwareWhole
<1>3. ASSUME WifiInv, GiveUp PROVE WifiInv'
  <2>1. /\ driver' = "off" /\ faults < MaxFaults /\ faults' = faults + 1
        /\ UNCHANGED <<wifi_setup, fileOpen, filePos, wf200_fw_size, dlSize, dlIndex, straight, manager>>
    BY <1>3 DEF GiveUp, firmwareFile
  <2>2. faults' \in 0 .. MaxFaults
    <3>1. faults \in 0 .. MaxFaults /\ MaxFaults \in Nat
      BY <1>3, FirmwareAssumption, Zenon DEF WifiInv, WifiTypeOK
    <3> QED
      BY <2>1, <3>1
  <2>3. WifiTypeOK'
    BY <1>3, <2>1, <2>2, Zenon DEF WifiInv, WifiTypeOK
  <2> QED
    BY <2>1, <2>3 DEF WifiInv, WifiReadInv, WifiSizeInv, FirmwareWhole
<1>4. ASSUME WifiInv, (\E event \in DOMAIN During : ManagerEvent(event)) \/ scan PROVE WifiInv'
  <2>1. UNCHANGED <<wifi_setup, fileOpen, filePos, wf200_fw_size, driver, dlSize, dlIndex, straight, faults>>
    BY <1>4 DEF ManagerEvent, scan, firmwareFile
  <2>2. manager' \in {"startup", "connecting", "connected", "scanning", "starting AP", "soft AP"}
    BY <1>4 DEF ManagerEvent, scan, InMode, wifi_conn_mgr_event_cb
  <2> QED
    BY <1>4, <2>1, <2>2 DEF WifiInv, WifiTypeOK, WifiReadInv, WifiSizeInv, FirmwareWhole
<1> QED
  BY <1>1, <1>2, <1>3, <1>4

LEMMA WifiStep == WifiInv /\ [WifiNext]_wifiVars => WifiInv'
<1>1. WifiInv /\ UNCHANGED wifiVars => WifiInv'
  <2> SUFFICES ASSUME WifiInv, UNCHANGED wifiVars PROVE WifiInv'
    OBVIOUS
  <2>1. UNCHANGED <<wifi_setup, fileOpen, filePos, wf200_fw_size, driver, dlSize, dlIndex,
                    straight, manager, faults>>
    BY DEF wifiVars
  <2>2. WifiTypeOK' /\ WifiReadInv' /\ WifiSizeInv' /\ FirmwareWhole'
    BY <2>1 DEF WifiInv, WifiTypeOK, WifiReadInv, WifiSizeInv, FirmwareWhole
  <2> QED
    BY <2>2 DEF WifiInv
<1> QED
  BY <1>1, WifiReadStep, WifiSizeStep, WifiOtherSteps DEF WifiNext, Download

LEMMA WifiInitInv == WifiInit => WifiInv
<1> SUFFICES ASSUME WifiInit PROVE WifiInv
  OBVIOUS
<1>1. wifi_setup = Steps[1]
  BY DEF WifiInit, Steps
<1>2. WifiTypeOK
  <2>1. 1 \in 1 .. 5 /\ 0 \in 0 .. FileSize /\ 0 \in 0 .. MaxFaults
    BY FirmwareAssumption
  <2> QED
    BY <1>1, <2>1, Zenon DEF WifiInit, WifiTypeOK
<1> QED
  BY <1>2 DEF WifiInit, WifiInv, WifiReadInv, WifiSizeInv, FirmwareWhole

\* For every file size, block size and number of faults, firmware loaded to its end is the
\* file, though a download may begin in the middle of a file that an older one left open.
THEOREM FirmwareLoadedWhole == WifiSpec => [](WifiTypeOK /\ FirmwareWhole)
<1>1. WifiInv => WifiTypeOK /\ FirmwareWhole
  BY DEF WifiInv
<1> QED
  BY <1>1, WifiInitInv, WifiStep, PTL DEF WifiSpec
-----------------------------------------------------------------------------
(* Bare metal: the power LED and the gain                                    *)

Rise(k) == k * GAIN_STEP

\* The gain is whole steps above the minimum and below the maximum, so a step that is
\* taken because a limit is not reached does not pass it.
GainOnGrid ==
  /\ gain_db \in Int
  /\ \E k \in Nat : gain_db = MAX_GAIN - Rise(k)
  /\ \E k \in Nat : gain_db = MIN_GAIN + Rise(k)

Lit(level) == IF level > POWER_THRESHOLD THEN 1 ELSE 0

\* The LED port shows the LED value; the frame stage c is about to tell of is the one it
\* heard last; once told, the last byte under way is that frame's.
PowerLedInv ==
  /\ "power" \in p_leds <=> "power" \in led_val
  /\ stage_c = "led" => stage["c"] # NoFrame /\ stage["c"][1] = heard
  /\ stage_c # "led" /\ c_to_gpio # << >> => c_to_gpio[Len(c_to_gpio)] = Lit(heard)

BoardInv == BoardTypeOK /\ GainOnGrid /\ PowerLedInv /\ PowerLedTrue

\* Steps of the gain.
LEMMA Rises ==
  /\ Rise(0) = 0
  /\ \A k \in Nat : Rise(k) \in Nat /\ Rise(k + 1) = Rise(k) + GAIN_STEP
<1>1. GAIN_STEP \in Nat
  BY GainAssumption
<1> QED
  BY <1>1 DEF Rise

\* What leaves no remainder is a whole number of steps.
LEMMA WholeSteps ==
  ASSUME NEW x \in Nat, x % GAIN_STEP = 0
  PROVE  \E k \in Nat : x = Rise(k)
<1> DEFINE s == GAIN_STEP
<1>1. s \in Nat /\ s > 0
  BY GainAssumption
<1> HIDE DEF s
<1>2. x \div s \in Nat
  BY <1>1
<1>3. PICK q \in Nat : q = x \div s
  BY <1>2
<1>4. s * q <= x
  BY <1>1, <1>3
<1>5. x < s * q + s
  BY <1>1, <1>3
<1>6. s * q \in Nat
  BY <1>1
<1>7. PICK r \in 0 .. (s - 1) : x = s * q + r
  <2>1. x - s * q \in 0 .. (s - 1) /\ x = s * q + (x - s * q)
    BY <1>1, <1>4, <1>5, <1>6
  <2> QED
    BY <2>1
<1>8. x % s = r
  BY <1>1, <1>7
<1>9. r = 0
  BY <1>8, Zenon DEF s
<1>10. x = q * s
  BY <1>1, <1>7, <1>9
<1> QED
  BY <1>10 DEF Rise, s

LEMMA NewGainOnGrid ==
  ASSUME GainOnGrid, NEW button \in Buttons
  PROVE  /\ NewGain(button) \in MIN_GAIN .. MAX_GAIN
         /\ \E k \in Nat : NewGain(button) = MAX_GAIN - Rise(k)
         /\ \E k \in Nat : NewGain(button) = MIN_GAIN + Rise(k)
<1> USE Rises
<1>1. MIN_GAIN \in Int /\ MAX_GAIN \in Int /\ GAIN_STEP \in Nat /\ gain_db \in Int
  BY GainAssumption DEF GainOnGrid
<1>2. PICK i \in Nat : gain_db = MAX_GAIN - Rise(i)
  BY DEF GainOnGrid
<1>3. PICK j \in Nat : gain_db = MIN_GAIN + Rise(j)
  BY DEF GainOnGrid
<1>4. CASE button = "A" /\ gain_db < MAX_GAIN
  <2>1. i # 0 /\ i - 1 \in Nat /\ i = (i - 1) + 1
    BY <1>1, <1>2, <1>4
  <2>2. Rise(i) = Rise(i - 1) + GAIN_STEP
    BY <2>1
  <2>3. NewGain(button) = gain_db + GAIN_STEP
    BY <1>1, <1>4 DEF NewGain
  <2>4. NewGain(button) = MAX_GAIN - Rise(i - 1)
    BY <1>1, <1>2, <2>1, <2>2, <2>3
  <2>5. NewGain(button) = MIN_GAIN + Rise(j + 1)
    BY <1>1, <1>3, <2>3
  <2> QED
    BY <1>1, <2>1, <2>4, <2>5
<1>5. CASE button = "B" /\ gain_db > MIN_GAIN
  <2>1. j # 0 /\ j - 1 \in Nat /\ j = (j - 1) + 1
    BY <1>1, <1>3, <1>5
  <2>2. Rise(j) = Rise(j - 1) + GAIN_STEP
    BY <2>1
  <2>3. NewGain(button) = gain_db - GAIN_STEP
    BY <1>1, <1>5 DEF NewGain
  <2>4. NewGain(button) = MIN_GAIN + Rise(j - 1)
    BY <1>1, <1>3, <2>1, <2>2, <2>3
  <2>5. NewGain(button) = MAX_GAIN - Rise(i + 1)
    BY <1>1, <1>2, <2>3
  <2> QED
    BY <1>1, <2>1, <2>4, <2>5
<1>6. CASE ~(button = "A" /\ gain_db < MAX_GAIN) /\ ~(button = "B" /\ gain_db > MIN_GAIN)
  <2>1. NewGain(button) = gain_db
    BY <1>1, <1>6 DEF NewGain, Buttons
  <2>2. gain_db \in MIN_GAIN .. MAX_GAIN
    BY <1>1, <1>2, <1>3
  <2> QED
    BY <1>2, <1>3, <2>1, <2>2
<1> QED
  BY <1>4, <1>5, <1>6

LEMMA BoardInitInv == BoardInit => BoardInv
<1> SUFFICES ASSUME BoardInit PROVE BoardInv
  OBVIOUS
<1>1. /\ INITIAL_GAIN \in MIN_GAIN .. MAX_GAIN /\ MIN_GAIN \in Int /\ MAX_GAIN \in Int
      /\ POWER_THRESHOLD \in Int /\ Capacity \in Nat
  BY GainAssumption, FrameAssumption
<1>2. GainOnGrid
  <2>1. /\ MAX_GAIN - INITIAL_GAIN \in Nat /\ (MAX_GAIN - INITIAL_GAIN) % GAIN_STEP = 0
        /\ INITIAL_GAIN - MIN_GAIN \in Nat /\ (INITIAL_GAIN - MIN_GAIN) % GAIN_STEP = 0
    BY <1>1, GainAssumption
  <2>2. PICK k \in Nat : MAX_GAIN - INITIAL_GAIN = Rise(k)
    BY <2>1, WholeSteps
  <2>3. PICK m \in Nat : INITIAL_GAIN - MIN_GAIN = Rise(m)
    BY <2>1, WholeSteps
  <2>4. gain_db = INITIAL_GAIN
    BY DEF BoardInit
  <2>5. gain_db = MAX_GAIN - Rise(k) /\ gain_db = MIN_GAIN + Rise(m)
    BY <1>1, <2>2, <2>3, <2>4, Rises
  <2> QED
    BY <1>1, <2>4, <2>5 DEF GainOnGrid
<1>3. BoardTypeOK
  BY <1>1 DEF BoardInit, BoardTypeOK, NoFrame, Leds
<1> QED
  BY <1>1, <1>2, <1>3 DEF BoardInit, BoardInv, PowerLedInv, PowerLedTrue

\* Steps that touch neither the LED nor stage c leave what the LED tells as it is.
LEMMA LedAside ==
  ASSUME BoardInv, UNCHANGED <<c_to_gpio, stage_c, heard, stage["c"]>>,
         "power" \in led_val' <=> "power" \in led_val,
         "power" \in p_leds' <=> "power" \in p_leds
  PROVE  PowerLedInv' /\ PowerLedTrue'
BY DEF BoardInv, PowerLedInv, PowerLedTrue, Lit

\* The buttons and the heartbeat.
LEMMA BoardButtonSteps ==
  BoardInv /\ (PressOrRelease \/ event_btn \/ (\E button \in Buttons : HandleButton(button)) \/ event_timer)
    => BoardInv'
<1> SUFFICES ASSUME BoardInv,
                    PressOrRelease \/ event_btn \/ (\E button \in Buttons : HandleButton(button)) \/ event_timer
             PROVE  BoardInv'
  OBVIOUS
<1>1. UNCHANGED <<c_to_gpio, gain_db, stage, stage_c, heard, pace>>
  BY DEF PressOrRelease, event_btn, HandleButton, event_timer, frameVars, serverVars
<1>2. GainOnGrid'
  BY <1>1 DEF BoardInv, GainOnGrid
<1>3. CASE PressOrRelease
  <2>1. pins' \subseteq Buttons /\ UNCHANGED <<trigger, server, led_val, p_leds, c_from_gpio>>
    BY <1>3 DEF PressOrRelease, serverVars, BoardInv, BoardTypeOK
  <2>2. BoardTypeOK'
    BY <1>1, <2>1 DEF BoardInv, BoardTypeOK
  <2> QED
    BY <1>1, <1>2, <2>1, <2>2, LedAside DEF BoardInv
<1>4. CASE event_btn
  <2>1. /\ trigger' = pins /\ server' = "A"
        /\ UNCHANGED <<pins, led_val, p_leds, c_from_gpio>>
    BY <1>4 DEF event_btn
  <2>2. BoardTypeOK'
    BY <1>1, <2>1 DEF BoardInv, BoardTypeOK, Buttons
  <2> QED
    BY <1>1, <1>2, <2>1, <2>2, LedAside DEF BoardInv
<1>5. ASSUME NEW button \in Buttons, HandleButton(button) PROVE BoardInv'
  <2>1. UNCHANGED <<pins, trigger>>
    BY <1>5 DEF HandleButton
  <2>2. c_from_gpio \in Seq(Buttons) /\ Len(c_from_gpio) <= Capacity /\ Capacity \in Nat
    BY FrameAssumption DEF BoardInv, BoardTypeOK
  <2>3. c_from_gpio' \in Seq(Buttons) /\ Len(c_from_gpio') <= Capacity
    BY <1>5, <2>2 DEF HandleButton, CanSend
  <2>4. led_val' = led_val \cup {button} \/ led_val' = led_val \ {button}
    BY <1>5 DEF HandleButton
  <2>5. (p_leds' = led_val' \/ p_leds' = p_leds) /\ server' \in {"wait"} \cup Buttons
    BY <1>5 DEF HandleButton, Buttons
  <2>6. BoardTypeOK'
    BY <1>1, <2>1, <2>3, <2>4, <2>5 DEF BoardInv, BoardTypeOK, Leds
  <2>7. button # "power"
    BY DEF Buttons
  <2>8. "power" \in led_val' <=> "power" \in led_val
    BY <2>4, <2>7
  <2>9. "power" \in p_leds' <=> "power" \in p_leds
    BY <2>5, <2>8 DEF BoardInv, PowerLedInv
  <2> QED
    BY <1>1, <1>2, <2>6, <2>8, <2>9, LedAside DEF BoardInv
<1>6. CASE event_timer
  <2>1. /\ UNCHANGED <<pins, trigger, server, c_from_gpio>>
        /\ led_val' = (led_val \ {"heartbeat"}) \cup ({"heartbeat"} \ led_val)
        /\ p_leds' = led_val'
    BY <1>6 DEF event_timer
  <2>2. BoardTypeOK'
    BY <1>1, <2>1 DEF BoardInv, BoardTypeOK, Leds
  <2>3. "power" \in led_val' <=> "power" \in led_val
    BY <2>1
  <2>4. "power" \in p_leds' <=> "power" \in p_leds
    BY <2>1, <2>3 DEF BoardInv, PowerLedInv
  <2> QED
    BY <1>1, <1>2, <2>2, <2>3, <2>4, LedAside DEF BoardInv
<1> QED
  BY <1>3, <1>4, <1>5, <1>6

\* A byte from stage c: if it is the last one under way it sets the LED as that frame asks.
LEMMA BoardChanStep == BoardInv /\ event_chan => BoardInv'
<1> SUFFICES ASSUME BoardInv, event_chan PROVE BoardInv'
  OBVIOUS
<1>1. /\ c_to_gpio # << >> /\ c_to_gpio' = Tail(c_to_gpio) /\ p_leds' = led_val'
      /\ led_val' = IF Head(c_to_gpio) # 0 THEN led_val \cup {"power"} ELSE led_val \ {"power"}
      /\ UNCHANGED <<pins, trigger, server, c_from_gpio, gain_db, stage, stage_c, heard, pace>>
  BY DEF event_chan, frameVars
<1>2. c_to_gpio \in Seq({0, 1}) /\ Len(c_to_gpio) <= Capacity /\ Capacity \in Nat
  BY FrameAssumption DEF BoardInv, BoardTypeOK
<1>3. /\ c_to_gpio' \in Seq({0, 1}) /\ Len(c_to_gpio') = Len(c_to_gpio) - 1
      /\ Len(c_to_gpio) \in Nat \ {0}
  BY <1>1, <1>2
<1>4. BoardTypeOK'
  <2>1. led_val' \subseteq Leds
    BY <1>1 DEF BoardInv, BoardTypeOK, Leds
  <2>2. Len(c_to_gpio') <= Capacity
    BY <1>2, <1>3
  <2> QED
    BY <1>1, <1>3, <2>1, <2>2 DEF BoardInv, BoardTypeOK
<1>5. GainOnGrid'
  BY <1>1 DEF BoardInv, GainOnGrid
<1>6. /\ "power" \in p_leds' <=> "power" \in led_val'
      /\ stage_c' = "led" => stage'["c"] # NoFrame /\ stage'["c"][1] = heard'
  BY <1>1 DEF BoardInv, PowerLedInv
<1>7. ASSUME stage_c # "led" PROVE c_to_gpio[Len(c_to_gpio)] = Lit(heard)
  BY <1>1, <1>7 DEF BoardInv, PowerLedInv
<1>8. CASE c_to_gpio' = << >>
  <2>1. Len(c_to_gpio) = 1
    BY <1>3, <1>8
  <2>2. Head(c_to_gpio) = c_to_gpio[Len(c_to_gpio)]
    BY <1>1, <1>2, <2>1
  <2>3. stage_c # "led" => ("power" \in led_val' <=> Lit(heard) # 0)
    BY <1>1, <1>7, <2>2
  <2>4. PowerLedTrue'
    BY <1>1, <2>3 DEF PowerLedTrue, Lit
  <2> QED
    BY <1>4, <1>5, <1>6, <1>8, <2>4 DEF BoardInv, PowerLedInv
<1>9. CASE c_to_gpio' # << >>
  <2>1. c_to_gpio'[Len(c_to_gpio')] = c_to_gpio[Len(c_to_gpio)]
    BY <1>1, <1>2, <1>3, <1>9
  <2>2. stage_c' # "led" => c_to_gpio'[Len(c_to_gpio')] = Lit(heard')
    BY <1>1, <1>7, <2>1 DEF Lit
  <2>3. PowerLedInv' /\ PowerLedTrue'
    BY <1>6, <1>9, <2>2 DEF PowerLedInv, PowerLedTrue, Lit
  <2> QED
    BY <1>4, <1>5, <2>3 DEF BoardInv
<1> QED
  BY <1>8, <1>9

\* A frame in a stage is its level.
LEMMA FrameInStage ==
  ASSUME BoardTypeOK, NEW s \in Stages, stage[s] # NoFrame
  PROVE  stage[s][1] \in Int
<1>1. stage[s] \in Seq(Int) /\ Len(stage[s]) # 0
  BY DEF BoardTypeOK, NoFrame
<1> QED
  BY <1>1

\* Stages a and b: a frame captured, a frame scaled, a button served.
LEMMA BoardStageSteps == BoardInv /\ (ap_stage_a \/ ScaleFrame \/ gpio_request) => BoardInv'
<1>1. ASSUME BoardInv, ap_stage_a PROVE BoardInv'
  <2>1. UNCHANGED <<pins, trigger, server, led_val, p_leds, c_from_gpio, c_to_gpio, gain_db, stage_c, heard>>
    BY <1>1 DEF ap_stage_a, serverVars
  <2>6. pace' \in {"kept", "late"}
    BY <1>1 DEF ap_stage_a, BoardInv, BoardTypeOK
  <2>2. PICK level \in Int : stage' = [stage EXCEPT !["a"] = <<level>>]
    BY <1>1, FrameAssumption DEF ap_stage_a
  <2>3. /\ stage \in [Stages -> Seq(Int)] /\ \A s \in Stages : Len(stage[s]) <= 1
        /\ <<level>> \in Seq(Int) /\ Len(<<level>>) = 1
    BY <1>1 DEF BoardInv, BoardTypeOK
  <2>4. /\ stage' \in [Stages -> Seq(Int)] /\ \A s \in Stages : Len(stage'[s]) <= 1
        /\ stage'["c"] = stage["c"]
    BY <2>2, <2>3 DEF Stages
  <2>5. BoardTypeOK' /\ GainOnGrid'
    BY <1>1, <2>1, <2>4, <2>6 DEF BoardInv, BoardTypeOK, GainOnGrid
  <2> QED
    BY <1>1, <2>1, <2>4, <2>5, LedAside DEF BoardInv
<1>2. ASSUME BoardInv, ScaleFrame PROVE BoardInv'
  <2>1. UNCHANGED <<pins, trigger, server, led_val, p_leds, c_from_gpio, c_to_gpio, gain_db, stage_c, heard, pace>>
    BY <1>2 DEF ScaleFrame, serverVars
  <2>2. /\ stage["a"] # NoFrame
        /\ stage' = [stage EXCEPT !["a"] = NoFrame, !["b"] = <<stage["a"][1] + gain_db>>]
    BY <1>2 DEF ScaleFrame
  <2>3. stage["a"][1] + gain_db \in Int
    BY <1>2, <2>2, FrameInStage, GainAssumption DEF Stages, BoardInv, GainOnGrid
  <2>4. /\ stage \in [Stages -> Seq(Int)] /\ \A s \in Stages : Len(stage[s]) <= 1
        /\ <<stage["a"][1] + gain_db>> \in Seq(Int) /\ Len(<<stage["a"][1] + gain_db>>) = 1
        /\ NoFrame \in Seq(Int) /\ Len(NoFrame) = 0
    BY <1>2, <2>3 DEF BoardInv, BoardTypeOK, NoFrame
  <2>5. /\ stage' \in [Stages -> Seq(Int)] /\ \A s \in Stages : Len(stage'[s]) <= 1
        /\ stage'["c"] = stage["c"]
    <3> DEFINE u == <<stage["a"][1] + gain_db>>
    <3>1. u \in Seq(Int) /\ Len(u) = 1
      BY <2>4
    <3>2. stage' = [s \in Stages |-> IF s = "b" THEN u ELSE IF s = "a" THEN NoFrame ELSE stage[s]]
      BY <2>2, <2>4 DEF Stages
    <3> HIDE DEF u
    <3>3. /\ \A s \in Stages : stage[s] \in Seq(Int) /\ Len(stage[s]) <= 1
          /\ NoFrame \in Seq(Int) /\ Len(NoFrame) = 0
      BY <2>4
    <3>4. \A s \in Stages : stage'[s] \in Seq(Int) /\ Len(stage'[s]) <= 1
      <4>1. \A s \in Stages : stage'[s] = u \/ stage'[s] = NoFrame \/ stage'[s] = stage[s]
        BY <3>2
      <4>2. Len(u) <= 1 /\ Len(NoFrame) <= 1
        BY <3>1, <3>3
      <4> QED
        BY <3>1, <3>3, <4>1, <4>2, Zenon
    <3>5. stage' \in [Stages -> Seq(Int)]
      BY <3>2, <3>4
    <3>6. stage'["c"] = stage["c"]
      BY <3>2 DEF Stages
    <3> QED
      BY <3>4, <3>5, <3>6
  <2>6. BoardTypeOK' /\ GainOnGrid'
    BY <1>2, <2>1, <2>5 DEF BoardInv, BoardTypeOK, GainOnGrid
  <2> QED
    BY <1>2, <2>1, <2>5, <2>6, LedAside DEF BoardInv
<1>3. ASSUME BoardInv, gpio_request PROVE BoardInv'
  <2>1. UNCHANGED <<pins, trigger, server, led_val, p_leds, c_to_gpio, stage, stage_c, heard, pace>>
    BY <1>3 DEF gpio_request, serverVars, frameVars
  <2>2. /\ c_from_gpio \in Seq(Buttons) /\ c_from_gpio # << >> /\ Len(c_from_gpio) <= Capacity
        /\ Capacity \in Nat
    BY <1>3, FrameAssumption DEF gpio_request, BoardInv, BoardTypeOK
  <2>3. Head(c_from_gpio) \in Buttons
    BY <2>2
  <2>4. gain_db' = NewGain(Head(c_from_gpio)) /\ c_from_gpio' = Tail(c_from_gpio)
    BY <1>3 DEF gpio_request
  <2>5. c_from_gpio' \in Seq(Buttons) /\ Len(c_from_gpio') <= Capacity
    BY <2>2, <2>4
  <2>6. gain_db' \in MIN_GAIN .. MAX_GAIN /\ GainOnGrid'
    BY <1>3, <2>3, <2>4, NewGainOnGrid, GainAssumption DEF BoardInv, GainOnGrid
  <2>7. BoardTypeOK'
    BY <1>3, <2>1, <2>5, <2>6 DEF BoardInv, BoardTypeOK
  <2> QED
    BY <1>3, <2>1, <2>6, <2>7, LedAside DEF BoardInv
<1> QED
  BY <1>1, <1>2, <1>3

\* Stage c: a frame heard, its byte sent, the frame played.
LEMMA BoardStageCSteps == BoardInv /\ ap_stage_c => BoardInv'
<1>1. ASSUME BoardInv, ReceiveFrame PROVE BoardInv'
  <2>1. UNCHANGED <<pins, trigger, server, led_val, p_leds, c_from_gpio, c_to_gpio, gain_db, pace>>
    BY <1>1 DEF ReceiveFrame, serverVars
  <2>2. /\ stage["b"] # NoFrame /\ stage_c' = "led" /\ heard' = stage["b"][1]
        /\ stage' = [stage EXCEPT !["b"] = NoFrame, !["c"] = stage["b"]]
    BY <1>1 DEF ReceiveFrame
  <2>3. stage["b"][1] \in Int
    BY <1>1, <2>2, FrameInStage DEF Stages, BoardInv
  <2>4. /\ stage \in [Stages -> Seq(Int)] /\ \A s \in Stages : Len(stage[s]) <= 1
        /\ NoFrame \in Seq(Int) /\ Len(NoFrame) = 0
    BY <1>1 DEF BoardInv, BoardTypeOK, NoFrame
  <2>5. /\ stage' \in [Stages -> Seq(Int)] /\ \A s \in Stages : Len(stage'[s]) <= 1
        /\ stage'["c"] = stage["b"]
    <3>1. stage' = [s \in Stages |-> IF s = "c" THEN stage["b"] ELSE IF s = "b" THEN NoFrame ELSE stage[s]]
      BY <2>2, <2>4 DEF Stages
    <3>2. stage["b"] \in Seq(Int) /\ Len(stage["b"]) <= 1
      BY <2>4 DEF Stages
    <3> QED
      BY <2>4, <3>1, <3>2 DEF Stages
  <2>6. BoardTypeOK' /\ GainOnGrid'
    BY <1>1, <2>1, <2>2, <2>3, <2>5 DEF BoardInv, BoardTypeOK, GainOnGrid
  <2>7. PowerLedInv' /\ PowerLedTrue'
    BY <1>1, <2>1, <2>2, <2>5 DEF BoardInv, PowerLedInv, PowerLedTrue
  <2> QED
    BY <2>6, <2>7 DEF BoardInv
<1>2. ASSUME BoardInv, SendLed PROVE BoardInv'
  <2>1. /\ UNCHANGED <<pins, trigger, server, led_val, p_leds, c_from_gpio, gain_db, stage, heard, pace>>
        /\ stage_c = "led" /\ stage_c' = "out" /\ Len(c_to_gpio) < Capacity
        /\ c_to_gpio' = Append(c_to_gpio, led_byte)
    BY <1>2 DEF SendLed, serverVars, CanSend
  <2>2. led_byte = Lit(heard) /\ led_byte \in {0, 1}
    BY <1>2, <2>1 DEF led_byte, Lit, BoardInv, PowerLedInv
  <2>3. c_to_gpio \in Seq({0, 1}) /\ Capacity \in Nat
    BY <1>2, FrameAssumption DEF BoardInv, BoardTypeOK
  <2>4. /\ c_to_gpio' \in Seq({0, 1}) /\ Len(c_to_gpio') <= Capacity
        /\ c_to_gpio' # << >> /\ c_to_gpio'[Len(c_to_gpio')] = led_byte
    BY <2>1, <2>2, <2>3
  <2>5. BoardTypeOK' /\ GainOnGrid'
    BY <1>2, <2>1, <2>4 DEF BoardInv, BoardTypeOK, GainOnGrid
  <2>6. PowerLedInv' /\ PowerLedTrue'
    BY <1>2, <2>1, <2>2, <2>4 DEF BoardInv, PowerLedInv, PowerLedTrue, Lit
  <2> QED
    BY <2>5, <2>6 DEF BoardInv
<1>3. ASSUME BoardInv, OutputFrame PROVE BoardInv'
  <2>1. /\ UNCHANGED <<pins, trigger, server, led_val, p_leds, c_from_gpio, c_to_gpio, gain_db, heard, pace>>
        /\ stage_c = "out" /\ stage_c' = "wait"
        /\ stage' = [stage EXCEPT !["c"] = NoFrame]
    BY <1>3 DEF OutputFrame, serverVars
  <2>2. /\ stage \in [Stages -> Seq(Int)] /\ \A s \in Stages : Len(stage[s]) <= 1
        /\ NoFrame \in Seq(Int) /\ Len(NoFrame) = 0
    BY <1>3 DEF BoardInv, BoardTypeOK, NoFrame
  <2>3. stage' \in [Stages -> Seq(Int)] /\ \A s \in Stages : Len(stage'[s]) <= 1
    BY <2>1, <2>2 DEF Stages
  <2>4. BoardTypeOK' /\ GainOnGrid'
    BY <1>3, <2>1, <2>3 DEF BoardInv, BoardTypeOK, GainOnGrid
  <2>5. PowerLedInv' /\ PowerLedTrue'
    BY <1>3, <2>1 DEF BoardInv, PowerLedInv, PowerLedTrue, Lit
  <2> QED
    BY <2>4, <2>5 DEF BoardInv
<1> QED
  BY <1>1, <1>2, <1>3 DEF ap_stage_c

LEMMA BoardStep == BoardInv /\ [BoardNext]_boardVars => BoardInv'
<1>1. BoardInv /\ UNCHANGED boardVars => BoardInv'
  BY DEF boardVars, BoardInv, BoardTypeOK, GainOnGrid, PowerLedInv, PowerLedTrue, Lit
<1> QED
  BY <1>1, BoardButtonSteps, BoardChanStep, BoardStageSteps, BoardStageCSteps
     DEF BoardNext, gpio_server, ap_stage_b

\* For any levels, channel capacity and gains, however many frames are under way: the gain stays within its
\* limits, and once its byte is served LED 2 tells of the frame heard last.
THEOREM BareMetalSafe == BoardSpec => [](BoardTypeOK /\ PowerLedTrue)
<1>1. BoardInv => BoardTypeOK /\ PowerLedTrue
  BY DEF BoardInv
<1> QED
  BY <1>1, BoardInitInv, BoardStep, PTL DEF BoardSpec
-----------------------------------------------------------------------------
(* Tracealyzer: the chain of subprocesses and the time it takes             *)

\* Since SETUP the subprocesses below Len(ran) have run.  The next one, if one is left, has
\* been notified or is on its way to the mutex, unless the timer has yet to start the
\* chain; the one before may still have to give the mutex back.
ChainInv ==
  /\ Len(ran) <= num_subprocesses /\ \A k \in DOMAIN ran : ran[k] = k - 1
  /\ armed => Len(ran) = 0 /\ runTask = {} /\ \A i \in Insts : subs[i] = "wait"
  /\ \A i \in runTask : i = Len(ran) /\ i < num_subprocesses /\ subs[i] = "wait"
  /\ \A i \in Insts : /\ subs[i] \in {"take", "spin"} =>
                           i = Len(ran) /\ i < num_subprocesses /\ runTask = {}
                      /\ subs[i] = "give" => i + 1 = Len(ran)
  /\ ~armed /\ Len(ran) < num_subprocesses =>
       Len(ran) \in runTask \/ subs[Len(ran)] \in {"take", "spin"}

\* The mutex has one holder.
MutexInv ==
  /\ \A i \in Insts : subs[i] \in {"spin", "give"} => mutex = "subprocess"
  /\ \A i, j \in Insts : subs[i] \in {"spin", "give"} /\ subs[j] \in {"spin", "give"} => i = j
  /\ process_at = "spin" => mutex = "process"

\* The places of the process; a set-up finds the last run's chain at its end.
PlaceInv ==
  /\ process_at \in {"take", "spin"} => process_state = "run"
  /\ process_state = "run" => run_iteration < Iterations
  /\ process_state = "setup" /\ process_at = "switch" => ChainQuiet

ChainTime(n) == n * SubDelay

\* In a run, what the process will find to have passed is the time of the subprocesses
\* run so far and of its own work, if that is done.
TimeInv ==
  LET passed == get_abs_delta(now, last_run_ticks)
  IN /\ process_state = "run" /\ process_at # "switch" => passed <= ChainTime(Len(ran))
     /\ process_state = "run" => passed <= ChainTime(Len(ran)) + RunDelay
     /\ process_state = "timeout" => ChainTime(num_subprocesses) + RunDelay >= Timeout

TraceInv == TraceTypeOK /\ ChainInv /\ MutexInv /\ PlaceInv /\ TimeInv

\* Time only grows: after a spin, wherever the timer wraps, at most the time spun has
\* been added to what had passed.
LEMMA SpinAdds ==
  ASSUME now \in 0 .. (RefPeriod - 1), last_run_ticks \in 0 .. (RefPeriod - 1), NEW ticks \in Nat
  PROVE  /\ spin_ref_tmr_ticks(ticks) \in 0 .. (RefPeriod - 1)
         /\ get_abs_delta(spin_ref_tmr_ticks(ticks), last_run_ticks)
              <= get_abs_delta(now, last_run_ticks) + ticks
<1>1. RefPeriod \in Nat /\ RefPeriod > 0
  BY TimeAssumption
<1>2. (now + 1) % RefPeriod = IF now + 1 = RefPeriod THEN 0 ELSE now + 1
  BY <1>1
<1> DEFINE next == (now + 1) % RefPeriod
<1> HIDE DEF next
<1>3. next = IF now + 1 = RefPeriod THEN 0 ELSE now + 1
  BY <1>2 DEF next
<1>4. spin_ref_tmr_ticks(ticks) = IF now + ticks >= RefPeriod THEN next ELSE now + ticks
  BY DEF spin_ref_tmr_ticks, next
<1> QED
  BY <1>1, <1>3, <1>4 DEF get_abs_delta

LEMMA DeltasAreNumbers ==
  \A current, last \in 0 .. (RefPeriod - 1) : get_abs_delta(current, last) \in Int
<1>1. RefPeriod \in Nat
  BY TimeAssumption
<1> QED
  BY <1>1 DEF get_abs_delta

LEMMA ChainTimes ==
  /\ ChainTime(0) = 0
  /\ \A n \in Nat : ChainTime(n) \in Nat /\ ChainTime(n + 1) = ChainTime(n) + SubDelay
  /\ \A n, m \in Nat : n <= m => ChainTime(n) <= ChainTime(m)
<1>1. SubDelay \in Nat
  BY TimeAssumption
<1>2. ASSUME NEW n \in Nat, NEW m \in Nat, n <= m PROVE n * SubDelay <= m * SubDelay
  <2>1. PICK d \in Nat : m = n + d
    <3>1. m - n \in Nat /\ m = n + (m - n)
      BY <1>2
    <3> QED
      BY <3>1
  <2>2. m * SubDelay = n * SubDelay + d * SubDelay
    BY <1>1, <2>1
  <2>3. d * SubDelay \in Nat /\ n * SubDelay \in Nat
    BY <1>1
  <2> QED
    BY <2>2, <2>3
<1> QED
  BY <1>1, <1>2 DEF ChainTime

\* Numbers and sequences of the state.
LEMMA TraceNumbers ==
  ASSUME TraceInv
  PROVE  /\ num_subprocesses \in 0 .. NumTasks /\ NumTasks \in Nat /\ RunDelay \in Nat
         /\ SubDelay \in Nat /\ Timeout \in Nat /\ Iterations \in Nat /\ Iterations > 0
         /\ now \in 0 .. (RefPeriod - 1) /\ last_run_ticks \in 0 .. (RefPeriod - 1)
         /\ RefPeriod \in Nat /\ RefPeriod > 0
         /\ ran \in Seq(Insts) /\ Len(ran) \in Nat /\ run_iteration \in 0 .. Iterations
         /\ subs \in [Insts -> {"wait", "take", "spin", "give"}] /\ runTask \in SUBSET Insts
         /\ Insts \subseteq Nat /\ \A i \in Nat : i < num_subprocesses => i \in Insts
<1>1. NumTasks \in Nat /\ RunDelay \in Nat /\ SubDelay \in Nat
  BY TimeAssumption
<1>2. /\ Timeout \in Nat /\ Iterations \in Nat /\ Iterations > 0
      /\ RefPeriod \in Nat /\ RefPeriod > 0
  BY TimeAssumption
<1>3. /\ num_subprocesses \in 0 .. NumTasks
      /\ now \in 0 .. (RefPeriod - 1) /\ last_run_ticks \in 0 .. (RefPeriod - 1)
      /\ ran \in Seq(Insts) /\ run_iteration \in 0 .. Iterations
      /\ subs \in [Insts -> {"wait", "take", "spin", "give"}] /\ runTask \in SUBSET Insts
  BY DEF TraceInv, TraceTypeOK
<1>4. Insts \subseteq Nat /\ \A i \in Nat : i < num_subprocesses => i \in Insts
  BY <1>1, <1>3 DEF Insts
<1>5. Len(ran) \in Nat
  BY <1>3
<1> QED
  BY <1>1, <1>2, <1>3, <1>4, <1>5

-----------------------------------------------------------------------------
(* The gpio task and what notifies it, and the process                       *)

\* The buttons, the heartbeat and the gpio task do not touch the run.
LEMMA GpioSteps ==
  TraceInv /\ (button_callback \/ hbeat_tmr_callback \/ gpio_task) => TraceInv'
<1> SUFFICES ASSUME TraceInv, button_callback \/ hbeat_tmr_callback \/ gpio_task PROVE TraceInv'
  OBVIOUS
<1>1. /\ UNCHANGED <<process_state, num_subprocesses, process_at, run_iteration, last_run_ticks, timeouts>>
      /\ UNCHANGED <<now, mutex, armed, subs, runTask, ran>>
  BY DEF button_callback, hbeat_tmr_callback, gpio_task, process, subprocesses
<1>2. ChainInv' /\ MutexInv' /\ PlaceInv' /\ TimeInv'
  BY <1>1 DEF TraceInv, ChainInv, MutexInv, PlaceInv, ChainQuiet, TimeInv, get_abs_delta, ChainTime
<1>3. /\ NumTasks \in Nat /\ num_requested_subprocesses \in 0 .. NumTasks
      /\ notif \in SUBSET NotifBits /\ notified \in BOOLEAN /\ leds \in SUBSET LedNames
      /\ edges \in 0 .. MaxEdges /\ beats \in 0 .. MaxBeats /\ MaxEdges \in Nat /\ MaxBeats \in Nat
  BY TimeAssumption DEF TraceInv, TraceTypeOK
<1>4. /\ num_requested_subprocesses' \in 0 .. NumTasks /\ notif' \in SUBSET NotifBits
      /\ notified' \in BOOLEAN /\ leds' \in SUBSET LedNames /\ edges' \in 0 .. MaxEdges
      /\ beats' \in 0 .. MaxBeats
  <2>1. CASE button_callback
    <3>1. PICK pressed \in SUBSET {"btn0", "btn1"} : notif' = pressed \union {"event"}
      BY <2>1 DEF button_callback
    <3>2. notif' \in SUBSET NotifBits
      BY <3>1 DEF NotifBits
    <3>3. edges' \in 0 .. MaxEdges
      BY <1>3, <2>1 DEF button_callback
    <3> QED
      BY <1>3, <2>1, <3>2, <3>3 DEF button_callback
  <2>2. CASE hbeat_tmr_callback
    <3>1. notif' \in SUBSET NotifBits
      BY <1>3, <2>2 DEF hbeat_tmr_callback, NotifyGpio, NotifBits
    <3>2. beats' \in 0 .. MaxBeats
      BY <1>3, <2>2 DEF hbeat_tmr_callback
    <3> QED
      BY <1>3, <2>2, <3>1, <3>2 DEF hbeat_tmr_callback, NotifyGpio
  <2>3. CASE gpio_task
    <3>1. \A accepted : Requested(accepted) \in 0 .. NumTasks
      BY <1>3 DEF Requested
    <3>2. \A s \in SUBSET LedNames : Toggled(s, "hbeat") \in SUBSET LedNames
                                     /\ Toggled(s, "tmo") \in SUBSET LedNames
      BY DEF Toggled, LedNames
    <3>3. \A quiet \in BOOLEAN : Accepted(quiet) \in SUBSET LedNames
      BY DEF Accepted, LedNames
    <3> DEFINE ticked == IF "hbeat" \in notif THEN Toggled(leds, "hbeat") ELSE leds
               lit == IF "timeout" \in notif THEN Toggled(ticked, "tmo") ELSE ticked
    <3>4. lit \in SUBSET LedNames
      BY <1>3, <3>2
    <3>5. \/ \E quiet \in BOOLEAN :
               /\ leds' = (lit \ {"btn0", "btn1"}) \union Accepted(quiet)
               /\ num_requested_subprocesses' = Requested(Accepted(quiet))
          \/ leds' = lit /\ UNCHANGED num_requested_subprocesses
      BY <2>3 DEF gpio_task
    <3>6. notif' = {} /\ notified' = FALSE /\ UNCHANGED <<edges, beats>>
      BY <2>3 DEF gpio_task
    <3> HIDE DEF lit
    <3>7. leds' \in SUBSET LedNames /\ num_requested_subprocesses' \in 0 .. NumTasks
      BY <1>3, <3>1, <3>3, <3>4, <3>5
    <3> QED
      BY <1>3, <3>6, <3>7
  <2> QED
    BY <2>1, <2>2, <2>3
<1>5. TraceTypeOK'
  BY <1>1, <1>4, Zenon DEF TraceInv, TraceTypeOK
<1> QED
  BY <1>2, <1>5 DEF TraceInv

\* Turns of the process that neither take the mutex nor start a run.
LEMMA TurnSteps == TraceInv /\ (Idle \/ DelayEnd \/ TimedOut) => TraceInv'
<1> SUFFICES ASSUME TraceInv, Idle \/ DelayEnd \/ TimedOut PROVE TraceInv'
  OBVIOUS
<1>1. /\ UNCHANGED <<num_subprocesses, run_iteration, last_run_ticks, now, mutex, armed, subs, runTask, ran>>
      /\ UNCHANGED <<num_requested_subprocesses, leds, edges, beats>>
  BY DEF Idle, DelayEnd, TimedOut, subprocesses, gpio_of_tile0
<1>0. /\ process_at' \in {"delay", "switch"}
      /\ process_at' = "switch" => process_state' = "setup" /\ ChainQuiet
      /\ process_state' = "setup" \/ (process_state' = "timeout" /\ process_state = "timeout")
  BY DEF Idle, DelayEnd, TimedOut
<1>2. notif' \in SUBSET NotifBits /\ notified' \in BOOLEAN /\ timeouts' \in BOOLEAN
  BY DEF Idle, DelayEnd, TimedOut, NotifyGpio, notification, TraceInv, TraceTypeOK, NotifBits
<1>3. TraceTypeOK'
  <2>1. process_state' \in ProcessStates /\ process_at' \in {"switch", "delay", "take", "spin"}
    BY <1>0 DEF ProcessStates
  <2> QED
    BY <1>0, <1>1, <1>2, <2>1, Zenon DEF TraceInv, TraceTypeOK
<1>4. ChainInv' /\ MutexInv' /\ PlaceInv' /\ TimeInv'
  BY <1>0, <1>1 DEF TraceInv, ChainInv, MutexInv, PlaceInv, ChainQuiet, TimeInv, get_abs_delta, ChainTime
<1> QED
  BY <1>3, <1>4 DEF TraceInv

\* A run begins after the last one's chain has come to its end.
LEMMA SetupStep == TraceInv /\ Setup => TraceInv'
<1> SUFFICES ASSUME TraceInv, Setup PROVE TraceInv'
  OBVIOUS
<1>1. /\ process_at = "switch" /\ process_at' = "switch" /\ process_state = "setup" /\ process_state' = "run"
      /\ num_subprocesses' = num_requested_subprocesses /\ armed' = TRUE /\ ran' = << >>
      /\ last_run_ticks' = now /\ run_iteration' = 0
      /\ UNCHANGED <<timeouts, now, mutex, subs, runTask, notif, notified>>
      /\ UNCHANGED <<num_requested_subprocesses, leds, edges, beats>>
  BY DEF Setup, gpio_of_tile0, notification
<1>2. ChainQuiet /\ num_requested_subprocesses \in 0 .. NumTasks
  BY <1>1 DEF TraceInv, PlaceInv, TraceTypeOK
<1>3. TraceTypeOK'
  <2>1. ran' \in Seq(Insts) /\ run_iteration' \in 0 .. Iterations /\ process_state' \in ProcessStates
    BY <1>1, TraceNumbers DEF ProcessStates
  <2> QED
    BY <1>1, <2>1, Zenon DEF TraceInv, TraceTypeOK
<1>4. ChainInv'
  <2>1. Len(ran') = 0 /\ DOMAIN ran' = {}
    BY <1>1
  <2> QED
    BY <1>1, <1>2, <2>1, TraceNumbers DEF ChainInv, ChainQuiet
<1>5. MutexInv' /\ PlaceInv'
  BY <1>1, TraceNumbers DEF TraceInv, MutexInv, PlaceInv
<1>6. TimeInv'
  <2>1. get_abs_delta(now', last_run_ticks') = 0
    BY <1>1, TraceNumbers DEF get_abs_delta
  <2>2. Len(ran') = 0 /\ ChainTime(0) = 0
    BY <1>1, ChainTimes
  <2> QED
    BY <1>1, <2>1, <2>2, TraceNumbers DEF TimeInv, ChainTime, get_abs_delta
<1> QED
  BY <1>3, <1>4, <1>5, <1>6 DEF TraceInv

\* The measurement starts a new span of time, and finds a timeout only if there was time
\* for one.
LEMMA MeasureStep == TraceInv /\ Measure => TraceInv'
<1> SUFFICES ASSUME TraceInv, Measure PROVE TraceInv'
  OBVIOUS
<1>1. /\ process_at = "switch" /\ process_state = "run" /\ last_run_ticks' = now
      /\ UNCHANGED <<num_subprocesses, run_iteration, timeouts, now, mutex, armed, subs, runTask, ran>>
      /\ UNCHANGED <<num_requested_subprocesses, leds, edges, beats, notif, notified>>
  BY DEF Measure, subprocesses, gpio_of_tile0, notification
<1>2. \/ /\ get_abs_delta(now, last_run_ticks) >= Timeout
         /\ process_state' = "timeout" /\ process_at' = "switch"
      \/ process_at' = "take" /\ process_state' = "run"
  BY DEF Measure
<1>3. TraceTypeOK'
  <2>1. process_state' \in ProcessStates /\ process_at' \in {"switch", "delay", "take", "spin"}
    BY <1>2 DEF ProcessStates
  <2> QED
    BY <1>1, <2>1, Zenon DEF TraceInv, TraceTypeOK
<1>4. ChainInv' /\ MutexInv' /\ PlaceInv'
  BY <1>1, <1>2 DEF TraceInv, ChainInv, MutexInv, PlaceInv
<1>5. TimeInv'
  <2> DEFINE chain == ChainTime(Len(ran))
             all == ChainTime(num_subprocesses)
             passed == get_abs_delta(now, last_run_ticks)
  <2>1. chain \in Nat /\ all \in Nat /\ chain <= all
    <3>1. Len(ran) \in Nat /\ num_subprocesses \in Nat /\ Len(ran) <= num_subprocesses
      BY TraceNumbers DEF TraceInv, ChainInv
    <3> QED
      BY <3>1, ChainTimes
  <2>2. passed <= chain + RunDelay /\ passed \in Int
    BY <1>1, TraceNumbers DEF TraceInv, TimeInv, get_abs_delta
  <2>3. get_abs_delta(now', last_run_ticks') = 0
    BY <1>1, TraceNumbers DEF get_abs_delta
  <2>4. ChainTime(Len(ran))' = chain /\ ChainTime(num_subprocesses)' = all
    BY <1>1 DEF ChainTime
  <2>5. process_state' = "timeout" => passed >= Timeout
    BY <1>2
  <2> HIDE DEF chain, all, passed
  <2>6. process_state' = "timeout" => all + RunDelay >= Timeout
    BY <2>1, <2>2, <2>5, TraceNumbers
  <2> QED
    BY <2>1, <2>3, <2>4, <2>6, TraceNumbers DEF TimeInv
<1> QED
  BY <1>3, <1>4, <1>5 DEF TraceInv

LEMMA TakeMutexStep == TraceInv /\ TakeMutex => TraceInv'
<1> SUFFICES ASSUME TraceInv, TakeMutex PROVE TraceInv'
  OBVIOUS
<1>1. /\ process_at = "take" /\ process_at' = "spin" /\ mutex = "free" /\ mutex' = "process"
      /\ UNCHANGED <<process_state, num_subprocesses, run_iteration, last_run_ticks, timeouts, now>>
      /\ UNCHANGED <<armed, subs, runTask, ran>>
      /\ UNCHANGED <<num_requested_subprocesses, leds, edges, beats, notif, notified>>
  BY DEF TakeMutex, subprocesses, gpio_of_tile0, notification
<1>2. TraceTypeOK'
  BY <1>1 DEF TraceInv, TraceTypeOK
<1>3. ChainInv' /\ MutexInv' /\ PlaceInv'
  BY <1>1 DEF TraceInv, ChainInv, MutexInv, PlaceInv
<1>4. TimeInv'
  BY <1>1, Zenon DEF TraceInv, TimeInv, get_abs_delta, ChainTime
<1> QED
  BY <1>2, <1>3, <1>4 DEF TraceInv

LEMMA SpinStep == TraceInv /\ Spin => TraceInv'
<1> SUFFICES ASSUME TraceInv, Spin PROVE TraceInv'
  OBVIOUS
<1>1. /\ process_at = "spin" /\ process_at' = "switch" /\ mutex' = "free"
      /\ now' = spin_ref_tmr_ticks(RunDelay) /\ run_iteration' = run_iteration + 1
      /\ process_state' = IF run_iteration' >= Iterations THEN "idle" ELSE "run"
      /\ UNCHANGED <<num_subprocesses, last_run_ticks, timeouts, armed, subs, runTask, ran>>
      /\ UNCHANGED <<num_requested_subprocesses, leds, edges, beats, notif, notified>>
  BY DEF Spin, subprocesses, gpio_of_tile0, notification
<1>2. mutex = "process" /\ process_state = "run" /\ run_iteration < Iterations
  BY <1>1 DEF TraceInv, MutexInv, PlaceInv
<1>3. /\ now' \in 0 .. (RefPeriod - 1)
      /\ get_abs_delta(now', last_run_ticks) <= get_abs_delta(now, last_run_ticks) + RunDelay
  BY <1>1, SpinAdds, TraceNumbers
<1>4. TraceTypeOK'
  <2>1. /\ process_state' \in ProcessStates /\ run_iteration' \in 0 .. Iterations
    BY <1>1, <1>2, TraceNumbers DEF ProcessStates
  <2> QED
    BY <1>1, <1>3, <2>1 DEF TraceInv, TraceTypeOK
<1>5. ChainInv' /\ MutexInv' /\ PlaceInv'
  <2>1. \A i \in Insts : subs[i] \notin {"spin", "give"}
    BY <1>2 DEF TraceInv, MutexInv
  <2>2. ChainInv' /\ MutexInv'
    BY <1>1, <2>1 DEF TraceInv, ChainInv, MutexInv
  <2>3. PlaceInv'
    BY <1>1, TraceNumbers DEF PlaceInv
  <2> QED
    BY <2>2, <2>3
<1>6. TimeInv'
  <2>1. get_abs_delta(now, last_run_ticks) <= ChainTime(Len(ran))
    BY <1>1, <1>2 DEF TraceInv, TimeInv
  <2>2. ChainTime(Len(ran)) \in Nat
    BY ChainTimes, TraceNumbers
  <2>0. get_abs_delta(now, last_run_ticks) \in Int /\ get_abs_delta(now', last_run_ticks) \in Int
    BY <1>3, TraceNumbers, DeltasAreNumbers
  <2>3. get_abs_delta(now', last_run_ticks') <= ChainTime(Len(ran)) + RunDelay
    <3>1. last_run_ticks' = last_run_ticks
      BY <1>1
    <3>2. RunDelay \in Nat
      BY TraceNumbers
    <3> DEFINE before == get_abs_delta(now, last_run_ticks)
               after == get_abs_delta(now', last_run_ticks)
               chain == ChainTime(Len(ran))
    <3>3. /\ before \in Int /\ after \in Int /\ chain \in Nat
          /\ before <= chain /\ after <= before + RunDelay
      BY <1>3, <2>0, <2>1, <2>2
    <3> HIDE DEF before, after, chain
    <3>4. after <= chain + RunDelay
      BY <3>2, <3>3
    <3> QED
      BY <3>1, <3>4 DEF after, chain
  <2>4. ChainTime(Len(ran))' = ChainTime(Len(ran)) /\ process_state' # "timeout"
    BY <1>1 DEF ChainTime
  <2> QED
    BY <1>1, <2>3, <2>4 DEF TimeInv
<1> QED
  BY <1>4, <1>5, <1>6 DEF TraceInv

-----------------------------------------------------------------------------
(* The chain                                                                *)

\* Steps of the chain in which no time passes leave the process and its times alone.
LEMMA ChainFrame ==
  ASSUME TraceInv, UNCHANGED process, UNCHANGED <<now, ran>>, UNCHANGED gpio_of_tile0,
         UNCHANGED notification, armed' \in BOOLEAN, runTask' \in SUBSET Insts,
         subs' \in [Insts -> {"wait", "take", "spin", "give"}],
         mutex' \in {"free", "process", "subprocess"},
         process_state = "setup" /\ process_at = "switch" => ChainQuiet'
  PROVE  TraceTypeOK' /\ PlaceInv' /\ TimeInv'
<1>1. /\ UNCHANGED <<process_state, num_subprocesses, process_at, run_iteration, last_run_ticks, timeouts>>
      /\ UNCHANGED <<num_requested_subprocesses, leds, edges, beats, notif, notified, now, ran>>
  BY DEF process, gpio_of_tile0, notification
<1>2. TraceTypeOK'
  BY <1>1, Zenon DEF TraceInv, TraceTypeOK
<1>3. PlaceInv'
  BY <1>1 DEF TraceInv, PlaceInv
<1>4. TimeInv'
  BY <1>1, Zenon DEF TraceInv, TimeInv, get_abs_delta, ChainTime
<1> QED
  BY <1>2, <1>3, <1>4

LEMMA TimerStep == TraceInv /\ subprocess_tmr_callback => TraceInv'
<1> SUFFICES ASSUME TraceInv, subprocess_tmr_callback PROVE TraceInv'
  OBVIOUS
<1>1. /\ armed /\ armed' = FALSE
      /\ runTask' = IF num_subprocesses > 0 THEN runTask \union {0} ELSE runTask
      /\ UNCHANGED <<now, mutex, subs, ran, num_subprocesses, process_at>>
      /\ UNCHANGED process /\ UNCHANGED gpio_of_tile0 /\ UNCHANGED notification
  BY DEF subprocess_tmr_callback, process
<1>2. Len(ran) = 0 /\ runTask = {} /\ \A i \in Insts : subs[i] = "wait"
  BY <1>1 DEF TraceInv, ChainInv
<1>3. ~(process_state = "setup" /\ process_at = "switch")
  BY <1>1 DEF TraceInv, PlaceInv, ChainQuiet
<1>4. num_subprocesses > 0 => 0 \in Insts
  BY TraceNumbers
<1>5. ChainInv'
  BY <1>1, <1>2, <1>4, TraceNumbers DEF TraceInv, ChainInv
<1>6. MutexInv'
  BY <1>1 DEF TraceInv, MutexInv
<1>7. runTask' \in SUBSET Insts
  BY <1>1, <1>4, TraceNumbers
<1>8. TraceTypeOK' /\ PlaceInv' /\ TimeInv'
  <2>1. mutex' \in {"free", "process", "subprocess"} /\ armed' \in BOOLEAN
        /\ subs' \in [Insts -> {"wait", "take", "spin", "give"}]
    BY <1>1 DEF TraceInv, TraceTypeOK
  <2> QED
    BY <1>1, <1>3, <1>7, <2>1, ChainFrame
<1> QED
  BY <1>5, <1>6, <1>8 DEF TraceInv

\* A subprocess that has been notified goes for the mutex, takes it, and at last gives it
\* back.
LEMMA SubQuickSteps ==
  ASSUME TraceInv, NEW i \in Insts, SubWake(i) \/ SubTake(i) \/ SubGive(i)
  PROVE  TraceInv'
<1>0. subs \in [Insts -> {"wait", "take", "spin", "give"}] /\ runTask \in SUBSET Insts
      /\ mutex \in {"free", "process", "subprocess"} /\ armed \in BOOLEAN
  BY DEF TraceInv, TraceTypeOK
<1>1. /\ UNCHANGED <<now, ran, armed>> /\ UNCHANGED <<num_subprocesses, process_at>>
      /\ UNCHANGED process /\ UNCHANGED gpio_of_tile0 /\ UNCHANGED notification
  BY DEF SubWake, SubTake, SubGive, process
<1>2. ~(process_state = "setup" /\ process_at = "switch")
  BY DEF SubWake, SubTake, SubGive, TraceInv, PlaceInv, ChainQuiet
<1>3. CASE SubWake(i)
  <2>1. /\ subs[i] = "wait" /\ i \in runTask /\ runTask' = runTask \ {i}
        /\ subs' = [subs EXCEPT ![i] = "take"] /\ mutex' = mutex
    BY <1>3 DEF SubWake
  <2>2. i = Len(ran) /\ i < num_subprocesses /\ runTask' = {} /\ ~armed
    BY <2>1, <1>0 DEF TraceInv, ChainInv
  <2>3. ChainInv'
    BY <1>0, <1>1, <2>1, <2>2, TraceNumbers DEF TraceInv, ChainInv
  <2>4. MutexInv'
    BY <1>0, <1>1, <2>1 DEF TraceInv, MutexInv
  <2>5. runTask' \in SUBSET Insts /\ subs' \in [Insts -> {"wait", "take", "spin", "give"}]
    BY <1>0, <2>1
  <2> QED
    BY <1>0, <1>1, <1>2, <2>1, <2>3, <2>4, <2>5, ChainFrame DEF TraceInv
<1>4. CASE SubTake(i)
  <2>1. /\ subs[i] = "take" /\ mutex = "free" /\ mutex' = "subprocess" /\ runTask' = runTask
        /\ subs' = [subs EXCEPT ![i] = "spin"]
    BY <1>4 DEF SubTake
  <2>2. ChainInv'
    BY <1>0, <1>1, <2>1, TraceNumbers DEF TraceInv, ChainInv
  <2>3. MutexInv'
    BY <1>0, <1>1, <2>1 DEF TraceInv, MutexInv
  <2>4. runTask' \in SUBSET Insts /\ subs' \in [Insts -> {"wait", "take", "spin", "give"}]
    BY <1>0, <2>1
  <2> QED
    BY <1>0, <1>1, <1>2, <2>1, <2>2, <2>3, <2>4, ChainFrame DEF TraceInv
<1>5. CASE SubGive(i)
  <2>1. /\ subs[i] = "give" /\ mutex' = "free" /\ runTask' = runTask
        /\ subs' = [subs EXCEPT ![i] = "wait"]
    BY <1>5 DEF SubGive
  <2>2. ChainInv'
    BY <1>0, <1>1, <2>1, TraceNumbers DEF TraceInv, ChainInv
  <2>3. MutexInv'
    BY <1>0, <1>1, <2>1 DEF TraceInv, MutexInv
  <2>4. runTask' \in SUBSET Insts /\ subs' \in [Insts -> {"wait", "take", "spin", "give"}]
    BY <1>0, <2>1
  <2> QED
    BY <1>0, <1>1, <1>2, <2>1, <2>2, <2>3, <2>4, ChainFrame DEF TraceInv
<1> QED
  BY <1>3, <1>4, <1>5

\* The subprocess whose turn it is runs, and notifies the next one while it still holds
\* the mutex.
LEMMA SubSpinStep ==
  ASSUME TraceInv, NEW i \in Insts, SubSpin(i)
  PROVE  TraceInv'
<1>0. subs \in [Insts -> {"wait", "take", "spin", "give"}] /\ runTask \in SUBSET Insts
      /\ ran \in Seq(Insts) /\ Insts \subseteq Nat
  BY TraceNumbers DEF TraceInv, TraceTypeOK
<1>1. /\ subs[i] = "spin" /\ now' = spin_ref_tmr_ticks(SubDelay) /\ ran' = Append(ran, i)
      /\ runTask' = NotifyNext(i) /\ subs' = [subs EXCEPT ![i] = "give"]
      /\ UNCHANGED <<mutex, armed>>
      /\ UNCHANGED <<process_state, num_subprocesses, process_at, run_iteration, last_run_ticks, timeouts>>
      /\ UNCHANGED <<num_requested_subprocesses, leds, edges, beats, notif, notified>>
  BY DEF SubSpin, process, gpio_of_tile0, notification
<1>2. i = Len(ran) /\ i < num_subprocesses /\ runTask = {} /\ ~armed
  BY <1>1 DEF TraceInv, ChainInv
<1>3. \A j \in Insts : j # i => subs[j] = "wait"
  BY <1>0, <1>1, <1>2 DEF TraceInv, ChainInv, MutexInv
<1>4. \A s \in Seq(Insts), j \in Insts : /\ Append(s, j) \in Seq(Insts) /\ Len(Append(s, j)) = Len(s) + 1
                                         /\ Append(s, j)[Len(s) + 1] = j
                                         /\ \A k \in 1 .. Len(s) : Append(s, j)[k] = s[k]
  OBVIOUS
<1>5. /\ ran' \in Seq(Insts) /\ Len(ran') = i + 1 /\ ran'[i + 1] = i
      /\ \A k \in 1 .. i : ran'[k] = ran[k]
  BY <1>0, <1>1, <1>2, <1>4, Zenon
<1>6. runTask' = IF i + 1 < num_subprocesses THEN {i + 1} ELSE {}
  BY <1>1, <1>2 DEF NotifyNext
<1>7. runTask' \in SUBSET Insts
  BY <1>0, <1>2, <1>6, TraceNumbers
<1>8. subs' = [j \in Insts |-> IF j = i THEN "give" ELSE "wait"]
  BY <1>0, <1>1, <1>3
<1>9. ChainInv'
  <2>1. Len(ran') <= num_subprocesses'
    BY <1>0, <1>1, <1>2, <1>5, TraceNumbers
  <2>2. \A k \in DOMAIN ran' : ran'[k] = k - 1
    <3>1. \A k \in 1 .. i : ran[k] = k - 1
      BY <1>0, <1>2 DEF TraceInv, ChainInv
    <3>2. \A k \in 1 .. (i + 1) : ran'[k] = k - 1
      <4> TAKE k \in 1 .. (i + 1)
      <4>1. i \in Nat
        BY <1>0
      <4>2. CASE k = i + 1
        BY <1>5, <4>1, <4>2
      <4>3. CASE k # i + 1
        <5>1. k \in 1 .. i
          BY <4>1, <4>3
        <5> QED
          BY <1>5, <3>1, <5>1
      <4> QED
        BY <4>2, <4>3
    <3>3. DOMAIN ran' = 1 .. (i + 1)
      BY <1>5
    <3> QED
      BY <3>2, <3>3
  <2>3. \A j \in runTask' : j = Len(ran') /\ j < num_subprocesses' /\ subs'[j] = "wait"
    BY <1>0, <1>1, <1>5, <1>6, <1>7, <1>8
  <2>4. \A j \in Insts : subs'[j] \notin {"take", "spin"} /\ (subs'[j] = "give" => j + 1 = Len(ran'))
    BY <1>5, <1>8
  <2>5. Len(ran') < num_subprocesses' => Len(ran') \in runTask'
    BY <1>1, <1>5, <1>6
  <2>6. ~armed'
    BY <1>1, <1>2, Zenon
  <2> QED
    BY <2>1, <2>2, <2>3, <2>4, <2>5, <2>6 DEF ChainInv
<1>10. MutexInv'
  <2>1. mutex = "subprocess"
    BY <1>1 DEF TraceInv, MutexInv
  <2>2. process_at # "spin"
    BY <2>1 DEF TraceInv, MutexInv
  <2> QED
    BY <1>1, <1>8, <2>1, <2>2 DEF MutexInv
<1>11. PlaceInv'
  <2>1. ~(process_state = "setup" /\ process_at = "switch")
    BY <1>1 DEF TraceInv, PlaceInv, ChainQuiet
  <2> QED
    BY <1>1, <2>1 DEF TraceInv, PlaceInv
<1>12. /\ now' \in 0 .. (RefPeriod - 1)
       /\ get_abs_delta(now', last_run_ticks) <= get_abs_delta(now, last_run_ticks) + SubDelay
  BY <1>1, SpinAdds, TraceNumbers
<1>13. TraceTypeOK'
  <2>1. subs' \in [Insts -> {"wait", "take", "spin", "give"}]
    BY <1>8
  <2> QED
    BY <1>1, <1>5, <1>7, <1>12, <2>1, Zenon DEF TraceInv, TraceTypeOK
<1>14. TimeInv'
  <2> DEFINE before == get_abs_delta(now, last_run_ticks)
             after == get_abs_delta(now', last_run_ticks)
             chain == ChainTime(i)
  <2>1. before \in Int /\ after \in Int
    BY <1>12, TraceNumbers, DeltasAreNumbers
  <2>2. /\ process_state = "run" /\ process_at # "switch" => before <= chain
        /\ process_state = "run" => before <= chain + RunDelay
        /\ process_state = "timeout" => ChainTime(num_subprocesses) + RunDelay >= Timeout
    BY <1>2 DEF TraceInv, TimeInv
  <2>3. chain \in Nat /\ ChainTime(Len(ran')) = chain + SubDelay
    BY <1>0, <1>5, ChainTimes
  <2>4. after <= before + SubDelay
    BY <1>12
  <2>5. get_abs_delta(now, last_run_ticks)' = after /\ ChainTime(Len(ran))' = ChainTime(Len(ran'))
        /\ ChainTime(num_subprocesses)' = ChainTime(num_subprocesses)
    BY <1>1, Zenon DEF get_abs_delta, ChainTime
  <2> HIDE DEF before, after, chain
  <2>6. /\ process_state = "run" /\ process_at # "switch" => after <= chain + SubDelay
        /\ process_state = "run" => after <= chain + SubDelay + RunDelay
    <3>1. SubDelay \in Nat /\ RunDelay \in Nat
      BY TraceNumbers
    <3>2. chain \in Nat
      BY <2>3
    <3> QED
      BY <2>1, <2>2, <2>4, <3>1, <3>2
  <2> QED
    BY <1>1, <2>2, <2>3, <2>5, <2>6 DEF TimeInv
<1> QED
  BY <1>9, <1>10, <1>11, <1>13, <1>14 DEF TraceInv

LEMMA TraceStep == TraceInv /\ [TraceNext]_traceVars => TraceInv'
<1>1. ASSUME TraceInv, UNCHANGED traceVars PROVE TraceInv'
  <2>1. /\ UNCHANGED <<process_state, num_subprocesses, process_at, run_iteration, last_run_ticks, timeouts>>
        /\ UNCHANGED <<now, mutex, armed, subs, runTask, ran>>
        /\ UNCHANGED <<num_requested_subprocesses, leds, edges, beats, notif, notified>>
    BY <1>1 DEF traceVars, process, subprocesses, gpio_of_tile0, notification
  <2>2. TraceTypeOK'
    BY <1>1, <2>1, Zenon DEF TraceInv, TraceTypeOK
  <2>3. ChainInv' /\ MutexInv' /\ PlaceInv' /\ TimeInv'
    BY <1>1, <2>1 DEF TraceInv, ChainInv, MutexInv, PlaceInv, ChainQuiet, TimeInv, get_abs_delta, ChainTime
  <2> QED
    BY <2>2, <2>3 DEF TraceInv
<1> QED
  BY <1>1, GpioSteps, TurnSteps, SetupStep, MeasureStep, TakeMutexStep, SpinStep, TimerStep,
     SubQuickSteps, SubSpinStep DEF TraceNext, process_task, subprocess_task

LEMMA TraceInitInv == TraceInit => TraceInv
<1> SUFFICES ASSUME TraceInit PROVE TraceInv
  OBVIOUS
<1>1. /\ process_state = "idle" /\ num_requested_subprocesses = 0 /\ num_subprocesses = 0
      /\ process_at = "switch" /\ run_iteration = 0 /\ last_run_ticks = 0 /\ now = 0
      /\ armed = FALSE /\ subs = [i \in Insts |-> "wait"] /\ runTask = {} /\ mutex = "free"
      /\ notif = {} /\ notified = FALSE /\ leds = {} /\ edges = 0 /\ beats = 0
      /\ ran = << >> /\ timeouts = FALSE
  BY DEF TraceInit
<1>2. TraceTypeOK
  <2>1. /\ 0 \in 0 .. NumTasks /\ 0 \in 0 .. Iterations /\ 0 \in 0 .. (RefPeriod - 1)
        /\ 0 \in 0 .. MaxEdges /\ 0 \in 0 .. MaxBeats
    BY TimeAssumption
  <2>2. ran \in Seq(Insts) /\ subs \in [Insts -> {"wait", "take", "spin", "give"}]
    BY <1>1
  <2> QED
    BY <1>1, <2>1, <2>2 DEF TraceTypeOK, ProcessStates
<1>3. Len(ran) = 0 /\ DOMAIN ran = {}
  BY <1>1
<1>4. ChainInv /\ MutexInv /\ PlaceInv /\ TimeInv
  BY <1>1, <1>3 DEF ChainInv, MutexInv, PlaceInv, TimeInv
<1> QED
  BY <1>2, <1>4 DEF TraceInv

LEMMA TraceInvRight == TraceInv => TraceTypeOK /\ RequestedRunInOrder
<1> SUFFICES ASSUME TraceInv PROVE TraceTypeOK /\ RequestedRunInOrder
  OBVIOUS
<1>1. Len(ran) \in Nat /\ num_subprocesses \in Nat
  BY TraceNumbers
<1>2. ChainQuiet => Len(ran) = num_subprocesses
  <2>1. Len(ran) < num_subprocesses => Len(ran) \in Insts
    BY <1>1, TraceNumbers
  <2> QED
    BY <1>1, <2>1 DEF TraceInv, ChainInv, ChainQuiet
<1>3. process_state = "timeout" => num_subprocesses * SubDelay + RunDelay >= Timeout
  BY DEF TraceInv, TimeInv, ChainTime
<1> QED
  BY <1>2, <1>3 DEF TraceInv, ChainInv, RequestedRunInOrder

\* For every number of subprocesses, every time they take, every time tolerated and every
\* period of the timer: the subprocesses asked for run once each and in order, all of them
\* have run when the process sets up again, and a timeout means that their time and the
\* process's own amount to what it tolerates.
THEOREM ChainRunsInOrder == TraceSpec => [](TraceTypeOK /\ RequestedRunInOrder)
BY TraceInitInv, TraceStep, TraceInvRight, PTL DEF TraceSpec

-----------------------------------------------------------------------------
(* UART loopback: types                                                      *)

\* The buffers as sequences of bytes of the vector.
UartInv ==
  /\ uartBuffer \in Seq(1 .. MAX_TEST_VECT_SIZE) /\ rx_buf \in Seq(1 .. MAX_TEST_VECT_SIZE)
  /\ UartTypeOK

\* What the bounds of the buffers are.
LEMMA BytesOfVector ==
  ASSUME NEW bytes \in Seq(1 .. MAX_TEST_VECT_SIZE)
  PROVE  Len(bytes) \in Nat /\ \A i \in DOMAIN bytes : bytes[i] \in 1 .. MAX_TEST_VECT_SIZE
<1> DEFINE S == 1 .. MAX_TEST_VECT_SIZE
<1>1. bytes \in Seq(S)
  OBVIOUS
<1> HIDE DEF S
<1>2. Len(bytes) \in Nat /\ \A i \in DOMAIN bytes : bytes[i] \in S
  BY <1>1
<1> QED BY <1>2 DEF S

\* The sender's steps keep the types.
LEMMA SenderTypes == UartInv /\ uart_tx_demo => UartInv'
<1> SUFFICES ASSUME UartInv, uart_tx_demo PROVE UartInv'
  OBVIOUS
<1>0. MAX_TEST_VECT_SIZE \in Nat \ {0} /\ MaxLost \in Nat
  BY UartAssumption
<1>1. CASE Delay500
  BY <1>0, <1>1 DEF Delay500, UartInv, UartTypeOK
<1>2. CASE SendByte
  <2>1. /\ txSent \in 0 .. MAX_TEST_VECT_SIZE /\ lostBytes \in 0 .. MaxLost
        /\ uartBuffer \in Seq(1 .. MAX_TEST_VECT_SIZE) /\ Len(uartBuffer) <= MAX_TEST_VECT_SIZE
    BY DEF UartInv, UartTypeOK
  <2>2. txSent' \in 0 .. MAX_TEST_VECT_SIZE /\ lostBytes' \in 0 .. MaxLost
    BY <1>0, <1>2, <2>1 DEF SendByte
  <2>3. uartBuffer' \in Seq(1 .. MAX_TEST_VECT_SIZE) /\ Len(uartBuffer') <= MAX_TEST_VECT_SIZE
    <3>1. txSent + 1 \in 1 .. MAX_TEST_VECT_SIZE
      BY <1>0, <1>2, <2>1 DEF SendByte
    <3>2. tx_buff[txSent + 1] \in 1 .. MAX_TEST_VECT_SIZE
      BY <3>1 DEF tx_buff
    <3>3. PICK byte \in 1 .. MAX_TEST_VECT_SIZE : byte = tx_buff[txSent + 1]
      BY <3>2
    <3>4. \/ uartBuffer' = uartBuffer
          \/ Len(uartBuffer) < MAX_TEST_VECT_SIZE /\ uartBuffer' = Append(uartBuffer, byte)
      BY <1>2, <3>3 DEF SendByte
    <3> QED BY <1>0, <2>1, <3>4
  <2>4. \A i \in DOMAIN uartBuffer' : uartBuffer'[i] \in 1 .. MAX_TEST_VECT_SIZE
    BY <2>3, BytesOfVector
  <2> QED BY <1>2, <2>2, <2>3, <2>4 DEF SendByte, UartInv, UartTypeOK
<1>3. CASE QueueVector
  <2>1. loopback_queue' \in 0 .. QueueLength
    BY <1>3 DEF QueueVector, UartInv, UartTypeOK, QueueLength
  <2> QED BY <1>3, <2>1 DEF QueueVector, UartInv, UartTypeOK
<1> QED BY <1>1, <1>2, <1>3 DEF uart_tx_demo

\* So do the receiver's.
LEMMA ReceiverTypes == UartInv /\ uart_rx_demo => UartInv'
<1> SUFFICES ASSUME UartInv, uart_rx_demo PROVE UartInv'
  OBVIOUS
<1>0. << >> \in Seq(1 .. MAX_TEST_VECT_SIZE) /\ Len(<< >>) <= MAX_TEST_VECT_SIZE /\ DOMAIN << >> = {}
  BY UartAssumption
<1>1. CASE StartReceiver
  BY <1>1 DEF StartReceiver, UartInv, UartTypeOK
<1>2. CASE TakeVector
  <2>1. loopback_queue' \in 0 .. QueueLength
    BY <1>2 DEF TakeVector, UartInv, UartTypeOK, QueueLength
  <2> QED BY <1>0, <1>2, <2>1 DEF TakeVector, UartInv, UartTypeOK
<1>3. CASE ReadByte
  <2>1. /\ uartBuffer \in Seq(1 .. MAX_TEST_VECT_SIZE) /\ uartBuffer # << >>
        /\ rx_buf \in Seq(1 .. MAX_TEST_VECT_SIZE) /\ Len(rx_buf) < MAX_TEST_VECT_SIZE
        /\ Len(uartBuffer) <= MAX_TEST_VECT_SIZE /\ MAX_TEST_VECT_SIZE \in Nat
        /\ rx_buf' = Append(rx_buf, Head(uartBuffer)) /\ uartBuffer' = Tail(uartBuffer)
    BY <1>3, UartAssumption DEF ReadByte, UartInv, UartTypeOK
  <2>2. uartBuffer' \in Seq(1 .. MAX_TEST_VECT_SIZE) /\ Len(uartBuffer') <= MAX_TEST_VECT_SIZE
    BY <2>1
  <2>3. PICK byte \in 1 .. MAX_TEST_VECT_SIZE : byte = Head(uartBuffer)
    BY <2>1
  <2>4. rx_buf' = Append(rx_buf, byte)
    BY <2>1, <2>3
  <2>5. rx_buf' \in Seq(1 .. MAX_TEST_VECT_SIZE) /\ Len(rx_buf') <= MAX_TEST_VECT_SIZE
    BY <2>1, <2>4
  <2>6. /\ \A i \in DOMAIN uartBuffer' : uartBuffer'[i] \in 1 .. MAX_TEST_VECT_SIZE
        /\ \A i \in DOMAIN rx_buf' : rx_buf'[i] \in 1 .. MAX_TEST_VECT_SIZE
    BY <2>2, <2>5, BytesOfVector
  <2> QED BY <1>3, <2>2, <2>5, <2>6 DEF ReadByte, UartInv, UartTypeOK
<1>4. CASE ReadEnds
  <2>1. uartBuffer' = uartBuffer \/ uartBuffer' = << >>
    BY <1>4 DEF ReadEnds
  <2>2. printed_once' \in BOOLEAN
    BY <1>4 DEF ReadEnds
  <2> QED BY <1>0, <1>4, <2>1, <2>2 DEF ReadEnds, UartInv, UartTypeOK
<1> QED BY <1>1, <1>2, <1>3, <1>4 DEF uart_rx_demo

\* Every step of the demo keeps the invariant, ...
LEMMA UartStep == UartInv /\ [UartNext]_uartVars => UartInv'
<1>1. UartInv /\ UNCHANGED uartVars => UartInv'
  BY DEF uartVars, UartInv, UartTypeOK
<1> QED BY <1>1, SenderTypes, ReceiverTypes DEF UartNext

\* ... which holds at first.
LEMMA UartInitInv == UartInit => UartInv
<1> SUFFICES ASSUME UartInit PROVE UartInv
  OBVIOUS
<1>1. /\ txAt = "delay" /\ txSent = 0 /\ uartBuffer = << >> /\ loopback_queue = 0
      /\ rxAt = "start" /\ rx_buf = << >> /\ printed_once = FALSE /\ lostBytes = 0
  BY DEF UartInit
<1>2. MAX_TEST_VECT_SIZE \in Nat /\ MaxLost \in Nat
  BY UartAssumption
<1>3. << >> \in Seq(1 .. MAX_TEST_VECT_SIZE) /\ Len(<< >>) = 0 /\ DOMAIN << >> = {}
  OBVIOUS
<1>4. uartBuffer \in Seq(1 .. MAX_TEST_VECT_SIZE) /\ rx_buf \in Seq(1 .. MAX_TEST_VECT_SIZE)
  BY <1>1, <1>3
<1>5. \A bytes \in {uartBuffer, rx_buf} :
        /\ Len(bytes) <= MAX_TEST_VECT_SIZE
        /\ \A i \in DOMAIN bytes : bytes[i] \in 1 .. MAX_TEST_VECT_SIZE
  BY <1>1, <1>2, <1>3
<1>6. txSent \in 0 .. MAX_TEST_VECT_SIZE /\ loopback_queue \in 0 .. QueueLength /\ lostBytes \in 0 .. MaxLost
  BY <1>1, <1>2 DEF QueueLength
<1>8. txAt \in {"delay", "write"} /\ rxAt \in {"start", "wait", "read"} /\ printed_once \in BOOLEAN
  BY <1>1, Zenon
<1>7. UartTypeOK
  BY <1>5, <1>6, <1>8, Zenon DEF UartTypeOK
<1> QED BY <1>4, <1>7 DEF UartInv

-----------------------------------------------------------------------------
(* xlink: types                                                              *)

\* No count is more than the tokens that came, nor is one that is about to be stored.
CountsInv ==
  /\ tokens \in 0 .. MaxTokens
  /\ g_data_tokens \in 0 .. tokens /\ g_ctrl_tokens \in 0 .. tokens /\ rxStored \in -1 .. tokens
  /\ reported \in [state : 0 .. 4, bytes : 0 .. tokens, ctrl : 0 .. tokens]
  /\ reported.state = rxState
  /\ rxState \in 0 .. 4 /\ reporter \in {"delay", "full", "zero"} /\ full_rep_cnt \in 0 .. 9

\* What a task may have read of the register.
Reads == {{}, {TRUE}, {FALSE}}
RegisterPlaces == {"delay", "none", "disable", "enable", "reset", "hello"}

\* What each task is doing to the register, and what it has read of it.
RegisterInv ==
  /\ enabled \in BOOLEAN
  /\ op \in [TxTasks -> RegisterPlaces]
  /\ op["reenable"] \in Ops["reenable"] /\ op["transmit"] \in Ops["transmit"]
  /\ read \in [TxTasks -> Reads]
  /\ txState \in 0 .. 5 /\ err_ctr \in 0 .. appconfSEND_CTRL_TOKEN
  /\ g_comm_state \in BOOLEAN /\ c_other_tile \in BOOLEAN

XlinkInv == board \in {"rx", "tx"} /\ RegisterInv /\ CountsInv

\* The invariant is stronger than the types.
LEMMA XlinkInvTyped == XlinkInv => XlinkTypeOK
<1> SUFFICES ASSUME XlinkInv PROVE XlinkTypeOK
  OBVIOUS
<1>1. \A t \in TxTasks : op[t] \in Ops[t] /\ read[t] \in {{}, {TRUE}, {FALSE}}
  BY DEF XlinkInv, RegisterInv, TxTasks, Reads
<1>2. /\ rxStored \in -1 .. MaxTokens /\ tokens \in 0 .. MaxTokens
      /\ g_data_tokens \in 0 .. MaxTokens /\ g_ctrl_tokens \in 0 .. MaxTokens
      /\ reported.bytes \in 0 .. MaxTokens /\ reported.ctrl \in 0 .. MaxTokens
  BY XlinkAssumption DEF XlinkInv, CountsInv
<1> QED BY <1>1, <1>2 DEF XlinkInv, RegisterInv, CountsInv, XlinkTypeOK

\* A register read or written by either task.
LEMMA RegisterSteps ==
  ASSUME RegisterInv, NEW t \in TxTasks
  PROVE  /\ ReadRegister(t) => RegisterInv'
         /\ \A next \in Ops[t] :
              WriteRegister(t, next) =>
                /\ enabled' \in BOOLEAN /\ read' \in [TxTasks -> Reads]
                /\ op' \in [TxTasks -> RegisterPlaces]
                /\ op'["reenable"] \in Ops["reenable"] /\ op'["transmit"] \in Ops["transmit"]
<1>1. enabled \in BOOLEAN /\ read \in [TxTasks -> Reads] /\ op \in [TxTasks -> RegisterPlaces]
      /\ op["reenable"] \in Ops["reenable"] /\ op["transmit"] \in Ops["transmit"]
  BY DEF RegisterInv
<1>2. ASSUME ReadRegister(t) PROVE RegisterInv'
  <2>1. read' = [read EXCEPT ![t] = {enabled}]
        /\ UNCHANGED <<enabled, op, txState, err_ctr, g_comm_state, c_other_tile>>
    BY <1>2 DEF ReadRegister
  <2>2. {enabled} \in Reads
    BY <1>1, Zenon DEF Reads
  <2>3. read' \in [TxTasks -> Reads]
    BY <1>1, <2>1, <2>2
  <2> QED BY <2>1, <2>3, Zenon DEF RegisterInv
<1>3. ASSUME NEW next \in Ops[t], WriteRegister(t, next)
      PROVE  /\ enabled' \in BOOLEAN /\ read' \in [TxTasks -> Reads]
             /\ op' \in [TxTasks -> RegisterPlaces]
             /\ op'["reenable"] \in Ops["reenable"] /\ op'["transmit"] \in Ops["transmit"]
  <2>1. enabled' = EnableBit(t) /\ read' = [read EXCEPT ![t] = {}] /\ op' = [op EXCEPT ![t] = next]
    BY <1>3 DEF WriteRegister
  <2>2. EnableBit(t) \in BOOLEAN
    <3>1. CASE op[t] = "disable"
      BY <3>1 DEF EnableBit
    <3>2. CASE op[t] = "enable"
      BY <3>2 DEF EnableBit
    <3>3. CASE op[t] # "disable" /\ op[t] # "enable"
      <4>1. EnableBit(t) = (TRUE \in read[t])
        BY <3>3 DEF EnableBit
      <4> QED BY <4>1
    <3> QED BY <3>1, <3>2, <3>3
  <2>3. read' \in [TxTasks -> Reads]
    BY <1>1, <2>1 DEF Reads
  <2>4. CASE t = "reenable"
    BY <1>1, <1>3, <2>1, <2>2, <2>3, <2>4 DEF TxTasks, Ops, RegisterPlaces
  <2>5. CASE t = "transmit"
    BY <1>1, <1>3, <2>1, <2>2, <2>3, <2>5 DEF TxTasks, Ops, RegisterPlaces
  <2> QED BY <2>4, <2>5 DEF TxTasks
<1> QED BY <1>2, <1>3

\* The steps of the transmitting board keep the invariant, ...
LEMMA TransmitterTypes == XlinkInv /\ TxNext => XlinkInv'
<1> SUFFICES ASSUME XlinkInv, TxNext PROVE XlinkInv'
  OBVIOUS
<1>1. UNCHANGED <<board, rxStored, tokens, g_data_tokens, g_ctrl_tokens, reported, rxState,
                  reporter, full_rep_cnt>>
  BY DEF TxNext, rxVars
<1>2. CountsInv'
  BY <1>1 DEF XlinkInv, CountsInv
<1>3. RegisterInv /\ "reenable" \in TxTasks /\ "transmit" \in TxTasks /\ board \in {"rx", "tx"} /\ board' \in {"rx", "tx"}
      /\ appconfSEND_CTRL_TOKEN \in Nat
  BY <1>1, XlinkAssumption DEF XlinkInv, TxTasks
<1>4. CASE xlink_tx_reenable
  <2>1. CASE ReadRegister("reenable")
    BY <1>2, <1>3, <2>1, RegisterSteps DEF XlinkInv
  <2>2. CASE /\ WriteRegister("reenable", IF op["reenable"] = "disable" THEN "enable" ELSE "delay")
             /\ UNCHANGED <<txState, err_ctr, g_comm_state, c_other_tile>>
    <3>1. (IF op["reenable"] = "disable" THEN "enable" ELSE "delay") \in Ops["reenable"]
      BY DEF Ops
    <3>2. /\ enabled' \in BOOLEAN /\ read' \in [TxTasks -> Reads]
          /\ op' \in [TxTasks -> RegisterPlaces]
          /\ op'["reenable"] \in Ops["reenable"] /\ op'["transmit"] \in Ops["transmit"]
      BY <1>3, <2>2, <3>1, RegisterSteps
    <3>3. RegisterInv'
      BY <1>3, <2>2, <3>2, Zenon DEF RegisterInv
    <3> QED BY <1>2, <1>3, <3>3 DEF XlinkInv
  <2>3. CASE /\ op["reenable"] = "delay"
             /\ op' = [op EXCEPT !["reenable"] = "disable"] /\ g_comm_state' = TRUE
             /\ UNCHANGED <<enabled, read, txState, err_ctr, c_other_tile>>
    <3>1. /\ op' \in [TxTasks -> RegisterPlaces]
          /\ op'["reenable"] \in Ops["reenable"] /\ op'["transmit"] \in Ops["transmit"]
      BY <1>3, <2>3 DEF RegisterInv, TxTasks, Ops, RegisterPlaces
    <3>2. RegisterInv'
      BY <1>3, <2>3, <3>1, Zenon DEF RegisterInv
    <3> QED BY <1>2, <1>3, <3>2 DEF XlinkInv
  <2> QED BY <1>2, <1>4, <2>1, <2>2, <2>3 DEF xlink_tx_reenable, XlinkInv
<1>5. CASE TransmitLoop
  <2> DEFINE state == IF g_comm_state THEN 4 ELSE txState
  <2>1. /\ Handle(state) /\ state \in 0 .. 5 /\ op["transmit"] = "none"
        /\ g_comm_state' = FALSE /\ UNCHANGED <<enabled, read>>
    BY <1>3, <1>5 DEF TransmitLoop, RegisterInv
  <2> HIDE DEF state
  <2>2. state \in {0, 1, 3} \/ state = 2 \/ state = 4 \/ state = 5
    BY <2>1
  <2>3. /\ txState' = IF state \in {0, 1, 3} THEN state + 1 ELSE state
        /\ err_ctr' = IF state = 5 /\ err_ctr # appconfSEND_CTRL_TOKEN THEN err_ctr + 1
                      ELSE IF state = 5 THEN 0 ELSE err_ctr
        /\ op' = IF state \in {2, 4}
                 THEN [op EXCEPT !["transmit"] = IF state = 2 THEN "disable" ELSE "reset"] ELSE op
    <3>1. CASE state \in {0, 1, 3}
      <4>1. txState' = state + 1 /\ op' = op /\ err_ctr' = err_ctr
        <5>1. CASE state = 0
          BY <2>1, <5>1 DEF Handle
        <5>2. CASE state = 1
          BY <2>1, <5>2 DEF Handle
        <5>3. CASE state = 3
          BY <2>1, <5>3 DEF Handle
        <5> QED BY <3>1, <5>1, <5>2, <5>3
      <4>2. state \notin {2, 4} /\ state # 5
        BY <3>1
      <4> QED BY <3>1, <4>1, <4>2, Zenon
    <3>2. CASE state = 2
      BY <2>1, <3>2 DEF Handle
    <3>3. CASE state = 4
      BY <2>1, <3>3 DEF Handle
    <3>4. CASE state = 5
      BY <2>1, <3>4 DEF Handle
    <3> QED BY <2>2, <3>1, <3>2, <3>3, <3>4
  <2>4. c_other_tile' \in BOOLEAN
    <3>1. c_other_tile \in BOOLEAN
      BY <1>3 DEF RegisterInv
    <3>2. CASE state \in {0, 1, 3}
      BY <2>1, <3>1, <3>2 DEF Handle
    <3>3. CASE state \in {2, 4, 5}
      BY <2>1, <3>1, <3>3 DEF Handle
    <3> QED BY <2>2, <3>2, <3>3
  <2>6. txState' \in 0 .. 5 /\ err_ctr' \in 0 .. appconfSEND_CTRL_TOKEN
    <3>1. state \in 0 .. 5 /\ err_ctr \in 0 .. appconfSEND_CTRL_TOKEN /\ appconfSEND_CTRL_TOKEN \in Nat
      BY <1>3, <2>1 DEF RegisterInv
    <3> QED BY <2>3, <3>1
  <2>5. /\ op' \in [TxTasks -> RegisterPlaces]
        /\ op'["reenable"] \in Ops["reenable"] /\ op'["transmit"] \in Ops["transmit"]
    BY <1>3, <2>1, <2>2, <2>3 DEF RegisterInv, TxTasks, Ops, RegisterPlaces
  <2>7. RegisterInv'
    BY <1>3, <2>1, <2>4, <2>5, <2>6, Zenon DEF RegisterInv
  <2> QED BY <1>2, <1>3, <2>7 DEF XlinkInv
<1>6. CASE SetUpLink
  <2>1. CASE ReadRegister("transmit")
    BY <1>2, <1>3, <2>1, RegisterSteps DEF XlinkInv
  <2>2. CASE \E next \in Ops["transmit"] : WriteRegister("transmit", next)
    <3>1. PICK next \in Ops["transmit"] : WriteRegister("transmit", next)
      BY <2>2
    <3>2. /\ enabled' \in BOOLEAN /\ read' \in [TxTasks -> Reads]
          /\ op' \in [TxTasks -> RegisterPlaces]
          /\ op'["reenable"] \in Ops["reenable"] /\ op'["transmit"] \in Ops["transmit"]
      BY <1>3, <3>1, RegisterSteps
    <3>3. /\ txState' \in 0 .. 5 /\ err_ctr' \in 0 .. appconfSEND_CTRL_TOKEN
          /\ UNCHANGED <<g_comm_state, c_other_tile>>
      BY <1>3, <1>6 DEF SetUpLink, ReadRegister, RegisterInv
    <3> QED BY <1>2, <1>3, <3>2, <3>3 DEF RegisterInv, XlinkInv
  <2>3. ReadRegister("transmit") \/ \E next \in Ops["transmit"] : WriteRegister("transmit", next)
    BY <1>6 DEF SetUpLink, Ops
  <2> QED BY <2>1, <2>2, <2>3
<1>7. CASE OutputRaises
  <2>1. txState' \in 0 .. 5 /\ err_ctr' \in 0 .. appconfSEND_CTRL_TOKEN
    <3>1. txState' = 4 /\ err_ctr' = 0
      BY <1>7 DEF OutputRaises
    <3> QED BY <1>3, <3>1
  <2>3. c_other_tile' \in BOOLEAN
    BY <1>7, Zenon DEF OutputRaises
  <2>2. RegisterInv'
    BY <1>3, <1>7, <2>1, <2>3, Zenon DEF OutputRaises, RegisterInv
  <2> QED BY <1>2, <1>3, <2>2 DEF XlinkInv
<1> QED BY <1>4, <1>5, <1>6, <1>7 DEF TxNext

\* ... so do those of the receiving board ...
LEMMA ReceivingTypes == XlinkInv /\ RxNext => XlinkInv'
<1> SUFFICES ASSUME XlinkInv, RxNext PROVE XlinkInv'
  OBVIOUS
<1>1. UNCHANGED <<board, enabled, op, read, txState, err_ctr, g_comm_state, c_other_tile>>
  BY DEF RxNext, txVars
<1>2. RegisterInv' /\ board' \in {"rx", "tx"}
  BY <1>1 DEF XlinkInv, RegisterInv
<1>3. /\ tokens \in 0 .. MaxTokens /\ MaxTokens \in Nat
      /\ g_data_tokens \in 0 .. tokens /\ g_ctrl_tokens \in 0 .. tokens /\ rxStored \in -1 .. tokens
      /\ reported \in [state : 0 .. 4, bytes : 0 .. tokens, ctrl : 0 .. tokens]
      /\ reported.state = rxState
      /\ rxState \in 0 .. 4 /\ reporter \in {"delay", "full", "zero"} /\ full_rep_cnt \in 0 .. 9
  BY XlinkAssumption DEF XlinkInv, CountsInv
<1>4. CASE SetUpReceiver
  BY <1>2, <1>3, <1>4 DEF SetUpReceiver, GoTo, XlinkInv, CountsInv
<1>5. CASE Transaction
  <2>1. tokens' = tokens + 1 /\ tokens' \in 0 .. MaxTokens
    BY <1>3, <1>5 DEF Transaction
  <2>2. reported' \in [state : 0 .. 4, bytes : 0 .. tokens', ctrl : 0 .. tokens']
    <3>1. \A x \in 0 .. tokens : x \in 0 .. tokens'
      BY <1>3, <2>1
    <3>2. reported' = reported
      BY <1>5 DEF Transaction
    <3> QED BY <1>3, <3>1, <3>2
  <2>3. /\ g_data_tokens' \in 0 .. tokens' /\ g_ctrl_tokens' \in 0 .. tokens'
        /\ rxStored' \in -1 .. tokens'
    BY <1>3, <1>5, <2>1 DEF Transaction
  <2> QED BY <1>2, <1>3, <1>5, <2>1, <2>2, <2>3 DEF Transaction, XlinkInv, CountsInv
<1>6. CASE StoreCount
  BY <1>2, <1>3, <1>6 DEF StoreCount, XlinkInv, CountsInv
<1>7. CASE TimeOut
  BY <1>2, <1>3, <1>7 DEF TimeOut, GoTo, XlinkInv, CountsInv
<1>8. CASE xlink_report_task
  <2>1. /\ reporter' \in {"delay", "full", "zero"} /\ full_rep_cnt' \in 0 .. 9
        /\ g_data_tokens' \in 0 .. tokens
    BY <1>3, <1>8 DEF xlink_report_task
  <2>2. /\ reported' \in [state : 0 .. 4, bytes : 0 .. tokens, ctrl : 0 .. tokens]
        /\ reported'.state = rxState
    BY <1>3, <1>8 DEF xlink_report_task
  <2> QED BY <1>2, <1>3, <1>8, <2>1, <2>2 DEF xlink_report_task, XlinkInv, CountsInv
<1> QED BY <1>4, <1>5, <1>6, <1>7, <1>8 DEF RxNext

\* ... and so every step of either, ...
LEMMA XlinkStep == XlinkInv /\ [XlinkNext]_xlinkVars => XlinkInv'
<1>1. XlinkInv /\ UNCHANGED xlinkVars => XlinkInv'
  BY DEF xlinkVars, txVars, rxVars, XlinkInv, RegisterInv, CountsInv
<1> QED BY <1>1, TransmitterTypes, ReceivingTypes DEF XlinkNext

\* ... and it holds at first.
LEMMA XlinkInitInv == XlinkInit => XlinkInv
<1> SUFFICES ASSUME XlinkInit PROVE XlinkInv
  OBVIOUS
<1>1. CountsInv
  BY XlinkAssumption DEF XlinkInit, CountsInv
<1>2. /\ op \in [TxTasks -> RegisterPlaces] /\ read \in [TxTasks -> Reads]
      /\ op["reenable"] \in Ops["reenable"] /\ op["transmit"] \in Ops["transmit"]
  BY DEF XlinkInit, TxTasks, Ops, RegisterPlaces, Reads
<1>3. txState \in 0 .. 5 /\ err_ctr \in 0 .. appconfSEND_CTRL_TOKEN /\ board \in {"rx", "tx"}
  BY XlinkAssumption DEF XlinkInit
<1>4. enabled \in BOOLEAN /\ g_comm_state \in BOOLEAN /\ c_other_tile \in BOOLEAN
  BY Zenon DEF XlinkInit
<1> QED BY <1>1, <1>2, <1>3, <1>4, Zenon DEF XlinkInv, RegisterInv

-----------------------------------------------------------------------------
(* Bare metal, from power-on: types                                          *)

\* The states as functions, and what the ramp needs: while no byte is lost, the byte on
\* the wire, or else the next to be sent, is the one that is expected.
StartInv ==
  /\ StartTypeOK
  /\ jobs = [t \in 1 .. 2 |-> jobs[t]] /\ DOMAIN codec = {"page", "got"}
  /\ line = << >> \/ \E byte \in 0 .. RampBase - 1 : line = <<byte>>
  /\ dropped = 0 =>
       IF line = << >> THEN expected = tx_data
       ELSE line[1] = expected /\ tx_data = (expected + 1) % RampBase

\* The names of the registers, and the number that the page control has alone.
LEMMA RegisterNumbers ==
  /\ DOMAIN Register = DOMAIN Page0 \cup DOMAIN Page1
  /\ Register.PAGE_CTRL = 0 /\ \A name \in DOMAIN Register : Register[name] = 0 => name = "PAGE_CTRL"
<1>1. \A name \in DOMAIN Page0 : Page0[name] = 0 <=> name = "PAGE_CTRL"
  BY DEF Page0
<1>2. \A name \in DOMAIN Page1 : Page1[name] # 0
  BY DEF Page1
<1>3. "PAGE_CTRL" \in DOMAIN Page0
  BY DEF Page0
<1>4. Register = [name \in DOMAIN Page0 \cup DOMAIN Page1 |->
                    IF name \in DOMAIN Page0 THEN Page0[name] ELSE Page1[name]]
  BY DEF Register
<1> HIDE DEF Page0, Page1, Register
<1>5. Register["PAGE_CTRL"] = 0
  BY <1>1, <1>3, <1>4
<1>6. ASSUME NEW name \in DOMAIN Register, Register[name] = 0 PROVE name = "PAGE_CTRL"
  BY <1>1, <1>2, <1>4, <1>6
<1> QED BY <1>4, <1>5, <1>6

\* Every write is to a register, and what is written to the page control is a page.
LEMMA ProgramWrites ==
  /\ Len(Program) = 38
  /\ \A i \in 1 .. 38 :
       /\ Program[i][1] \in DOMAIN Page0 \cup DOMAIN Page1
       /\ Program[i][1] = "PAGE_CTRL" => Program[i][2] \in {0, 1}
<1>1. /\ Len(SetUp) = 33 /\ SetUp = [i \in 1 .. 33 |-> SetUp[i]]
      /\ Len(PowerUp) = 5 /\ PowerUp = [i \in 1 .. 5 |-> PowerUp[i]]
  BY DEF SetUp, PowerUp
<1>2. \A i \in 1 .. 33 : SetUp[i][1] \in DOMAIN Page0 \cup DOMAIN Page1
  BY DEF SetUp, Page0, Page1
<1>3. \A i \in 1 .. 33 : SetUp[i][1] = "PAGE_CTRL" => SetUp[i][2] \in {0, 1}
  BY DEF SetUp
<1>4. \A i \in 1 .. 5 : /\ PowerUp[i][1] \in DOMAIN Page0 \cup DOMAIN Page1
                        /\ PowerUp[i][1] = "PAGE_CTRL" => PowerUp[i][2] \in {0, 1}
  BY DEF PowerUp, Page0, Page1
<1> HIDE DEF SetUp, PowerUp
<1>5. Len(Program) = 38 /\ \A i \in 1 .. 38 : Program[i] = IF i <= 33 THEN SetUp[i] ELSE PowerUp[i - 33]
  <2> DEFINE S == { SetUp[i] : i \in 1 .. 33 } \cup { PowerUp[i] : i \in 1 .. 5 }
  <2>1. /\ \A i \in 1 .. 33 : SetUp[i] \in S
        /\ \A i \in 1 .. 5 : PowerUp[i] \in S
    OBVIOUS
  <2> HIDE DEF S
  <2>2. SetUp \in Seq(S) /\ PowerUp \in Seq(S)
    BY <1>1, <2>1
  <2> QED BY <1>1, <2>2 DEF Program
<1>6. ASSUME NEW i \in 1 .. 38
      PROVE  /\ Program[i][1] \in DOMAIN Page0 \cup DOMAIN Page1
             /\ Program[i][1] = "PAGE_CTRL" => Program[i][2] \in {0, 1}
  <2>1. CASE i <= 33
    <3>1. i \in 1 .. 33 /\ Program[i] = SetUp[i]
      BY <1>5, <2>1
    <3> QED BY <1>2, <1>3, <3>1, Zenon
  <2>2. CASE ~ (i <= 33)
    <3>1. i - 33 \in 1 .. 5 /\ Program[i] = PowerUp[i - 33]
      BY <1>5, <2>2
    <3> QED BY <1>4, <3>1, Zenon
  <2> QED BY <2>1, <2>2
<1> QED
  BY <1>5, <1>6, Zenon

\* The tiles of the code, 0 and 1, are numbered 1 and 2.
LEMMA TwoTiles == 1 \in 1 .. 2 /\ 2 \in 1 .. 2 /\ \A t \in 1 .. 2 : t = 1 \/ t = 2
  OBVIOUS

\* The first tile, tile 0 of the code, sets the codec up at its sixth step.
LEMMA CodecPlace == \A n \in 1 .. 10 : TileSteps[1][n] = "codec" => n = 6
<1> DEFINE first == <<"from gpio", "to gpio", "mclk", "await reset", "i2c", "codec", "tell",
                      "spi", "flash", "run">>
<1>1. TileSteps[1] = first
  BY DEF TileSteps
<1>2. /\ \A n \in {1, 2, 3, 4, 5} : first[n] # "codec"
      /\ \A n \in {7, 8, 9, 10} : first[n] # "codec"
  OBVIOUS
<1>3. \A n \in 1 .. 10 : n = 6 \/ n \in {1, 2, 3, 4, 5} \/ n \in {7, 8, 9, 10}
  OBVIOUS
<1> HIDE DEF first
<1> QED BY <1>1, <1>2, <1>3

\* A tile that is at a step of the program is at one of its ten places.
LEMMA TilePlaces ==
  ASSUME tile \in [1 .. 2 -> 1 .. 11], NEW t \in 1 .. 2, NEW step, At(t, step)
  PROVE  tile[t] \in 1 .. 10 /\ (t = 1 /\ step = "codec" => tile[t] = 6)
<1>1. tile[t] \in 1 .. 10 /\ TileSteps[t][tile[t]] = step
  BY DEF At
<1> QED BY <1>1, CodecPlace

\* A tile that goes on from such a place has one again, or is past the last.
LEMMA TileAdvances ==
  ASSUME StartInv, NEW t \in 1 .. 2, NEW step, At(t, step), Advance(t)
  PROVE  tile' \in [1 .. 2 -> 1 .. 11]
<1>1. tile \in [1 .. 2 -> 1 .. 11]
  BY DEF StartInv, StartTypeOK
<1>2. tile[t] \in 1 .. 10
  BY <1>1, TilePlaces
<1>3. tile' = [tile EXCEPT ![t] = tile[t] + 1]
  BY DEF Advance
<1> QED BY <1>1, <1>2, <1>3

\* What a tile tells the other is a byte of the hand-shake.
LEMMA BytesTold ==
  ASSUME StartInv, NEW t \in 1 .. 2, NEW byte \in {0, 1}, Tell(t, byte)
  PROVE  between' \in [1 .. 2 -> Seq({0, 1})]
<1>1. between \in [1 .. 2 -> Seq({0, 1})] /\ 3 - t \in 1 .. 2
  BY DEF StartInv, StartTypeOK
<1>2. Append(between[3 - t], byte) \in Seq({0, 1})
  BY <1>1
<1>3. between' = [between EXCEPT ![3 - t] = Append(between[3 - t], byte)]
  BY DEF Tell
<1> QED BY <1>1, <1>2, <1>3

\* The start-up's steps keep the invariant, and leave the demos alone.
LEMMA BootTypes == StartInv /\ BootStep => StartInv'
<1> SUFFICES ASSUME StartInv, BootStep PROVE StartInv'
  OBVIOUS
<1>1. UNCHANGED demoVars
  BY DEF BootStep, EstablishChannel, tile1_setup_dac, SignalReset, aic3204_reg_write, CodecDone,
         TellCodec, InitDevice, AwaitByte, StartJobs
<1> DEFINE Boot == /\ tile \in [1 .. 2 -> 1 .. 11] /\ between \in [1 .. 2 -> Seq({0, 1})]
                   /\ codec.page \in {0, 1} /\ writes \in 0 .. Len(Program)
                   /\ DOMAIN codec = {"page", "got"}
<1>2. Boot
  BY DEF StartInv, StartTypeOK
<1>3. ASSUME Boot', UNCHANGED jobs PROVE StartInv'
  BY <1>1, <1>3 DEF StartInv, StartTypeOK, demoVars
<1>4. CASE EstablishChannel
  <2>1. \A t \in 1 .. 2 : tile[t] \in 1 .. 10
    <3>1. \E c, d \in {"from gpio", "to gpio"} : At(1, c) /\ At(2, d)
      BY <1>4, Zenon DEF EstablishChannel
    <3>2. \A t \in 1 .. 2 : \A step : At(t, step) => tile[t] \in 1 .. 10
      BY <1>2, TilePlaces
    <3> QED BY <3>1, <3>2, TwoTiles, Zenon
  <2>3. tile' = [t \in 1 .. 2 |-> tile[t] + 1] /\ UNCHANGED <<between, codec, writes, jobs>>
    BY <1>4 DEF EstablishChannel
  <2>4. tile' \in [1 .. 2 -> 1 .. 11]
    BY <2>1, <2>3
  <2> QED BY <1>2, <1>3, <2>3, <2>4
<1>5. ASSUME NEW t \in 1 .. 2, InitDevice(t) PROVE StartInv'
  <2>1. tile' \in [1 .. 2 -> 1 .. 11] /\ UNCHANGED <<between, codec, writes, jobs>>
    BY <1>5, TileAdvances DEF InitDevice
  <2> QED BY <1>2, <1>3, <2>1
<1>6. CASE tile1_setup_dac
  <2>1. tile' \in [1 .. 2 -> 1 .. 11] /\ UNCHANGED <<between, writes, jobs>>
    BY <1>6, TileAdvances DEF tile1_setup_dac
  <2>2. codec'.page = 0 /\ DOMAIN codec' = {"page", "got"}
    BY <1>6 DEF tile1_setup_dac, Fresh
  <2> QED BY <1>2, <1>3, <2>1, <2>2
<1>7. CASE SignalReset
  <2>1. tile' \in [1 .. 2 -> 1 .. 11] /\ UNCHANGED <<codec, writes, jobs>>
    BY <1>7, TileAdvances DEF SignalReset
  <2>2. between' \in [1 .. 2 -> Seq({0, 1})]
    BY <1>7, BytesTold DEF SignalReset
  <2> QED BY <1>2, <1>3, <2>1, <2>2
<1>8. ASSUME NEW t \in 1 .. 2, AwaitByte(t) PROVE StartInv'
  <2>1. tile' \in [1 .. 2 -> 1 .. 11] /\ UNCHANGED <<codec, writes, jobs>>
    BY <1>8, TileAdvances DEF AwaitByte
  <2>2. between[t] # << >> /\ between' = [between EXCEPT ![t] = Tail(between[t])]
    BY <1>8 DEF AwaitByte
  <2>3. between' \in [1 .. 2 -> Seq({0, 1})]
    BY <1>2, <2>2
  <2> QED BY <1>2, <1>3, <2>1, <2>3
<1>9. CASE aic3204_reg_write
  <2>0. At(1, "codec") /\ writes < Len(Program) /\ UNCHANGED jobs
    BY <1>9, Zenon DEF aic3204_reg_write
  <2>4. tile[1] = 6
    BY <1>2, <2>0, TilePlaces, TwoTiles
  <2>5. Len(Program) = 38 /\ writes \in 0 .. Len(Program)
    BY <1>2, ProgramWrites, Zenon
  <2>6. writes + 1 \in 1 .. 38
    BY <2>0, <2>5
  <2>1. writes + 1 \in 1 .. 38 /\ tile[1] = 6 /\ UNCHANGED jobs
    BY <2>0, <2>4, <2>6, Zenon
  <2> DEFINE target == Program[writes + 1][1]
             written == Program[writes + 1][2]
  <2>2. CASE /\ codec' = Received(Register[target], written) /\ writes' = writes + 1
             /\ UNCHANGED <<tile, between>>
    <3>1. Register[target] = Register.PAGE_CTRL => written \in {0, 1}
      BY <2>1, ProgramWrites, RegisterNumbers
    <3>2. \/ Register[target] = Register.PAGE_CTRL /\ codec' = [codec EXCEPT !.page = written]
          \/ codec' = Fresh
          \/ codec' = [codec EXCEPT !.got = (<<codec.page, Register[target]>> :> written) @@ codec.got]
      BY <2>2, Zenon DEF Received
    <3> HIDE DEF target, written
    <3>3. codec'.page \in {0, 1} /\ DOMAIN codec' = {"page", "got"}
      BY <1>2, <3>1, <3>2 DEF Fresh
    <3>4. writes' \in 0 .. Len(Program)
      BY <1>2, <2>1, <2>2, ProgramWrites
    <3> QED BY <1>2, <1>3, <2>1, <2>2, <3>3, <3>4
  <2>3. CASE Tell(1, 1) /\ tile' = [tile EXCEPT ![1] = tile[1] + 2] /\ UNCHANGED <<codec, writes>>
    <3>1. between' \in [1 .. 2 -> Seq({0, 1})]
      BY <2>3, BytesTold
    <3>2. tile' \in [1 .. 2 -> 1 .. 11]
      BY <1>2, <2>1, <2>3
    <3> QED BY <1>2, <1>3, <2>1, <2>3, <3>1, <3>2
  <2> QED BY <1>9, <2>2, <2>3 DEF aic3204_reg_write
<1>10. CASE CodecDone
  <2>1. tile' \in [1 .. 2 -> 1 .. 11] /\ UNCHANGED <<between, codec, writes, jobs>>
    BY <1>10, TileAdvances DEF CodecDone
  <2> QED BY <1>2, <1>3, <2>1
<1>11. CASE TellCodec
  <2>1. tile' \in [1 .. 2 -> 1 .. 11] /\ UNCHANGED <<codec, writes, jobs>>
    BY <1>11, TileAdvances DEF TellCodec
  <2>2. between' \in [1 .. 2 -> Seq({0, 1})]
    BY <1>11, BytesTold DEF TellCodec
  <2> QED BY <1>2, <1>3, <2>1, <2>2
<1>12. ASSUME NEW t \in 1 .. 2, StartJobs(t) PROVE StartInv'
  <2>1. tile' \in [1 .. 2 -> 1 .. 11] /\ UNCHANGED <<between, codec, writes>>
    BY <1>12, TileAdvances DEF StartJobs
  <2>2. /\ jobs' = [s \in 1 .. 2 |-> jobs'[s]]
        /\ \A s \in 1 .. 2 : jobs'[s] = jobs[s] \/ s = t
    BY <1>12 DEF StartJobs, StartInv
  <2>3. StartTypeOK'
    BY <1>1, <1>2, <1>12, <2>1, <2>2 DEF StartJobs, StartInv, StartTypeOK, demoVars
  <2> QED BY <1>1, <1>2, <2>1, <2>2, <2>3 DEF StartInv, demoVars
<1> QED BY <1>4, <1>5, <1>6, <1>7, <1>8, <1>9, <1>10, <1>11, <1>12 DEF BootStep

\* The demos' steps keep the invariant.
LEMMA RampTypes == StartInv /\ (SendRamp \/ CheckRamp \/ spi_demo \/ flash_demo) => StartInv'
<1> SUFFICES ASSUME StartInv, SendRamp \/ CheckRamp \/ spi_demo \/ flash_demo PROVE StartInv'
  OBVIOUS
<1>1. UNCHANGED bootVars
  BY DEF SendRamp, CheckRamp, spi_demo, flash_demo
<1>2. /\ tx_data \in 0 .. RampBase - 1 /\ expected \in 0 .. RampBase - 1 /\ RampBase \in Nat \ {0}
      /\ dropped \in 0 .. MaxDropped /\ MaxDropped \in Nat
      /\ ramp_error \in BOOLEAN /\ (ramp_error => dropped > 0)
  BY StartUpAssumption DEF StartInv, StartTypeOK
<1> DEFINE Next1(n) == (n + 1) % RampBase
<1>3. \A n \in 0 .. RampBase - 1 : Next1(n) \in 0 .. RampBase - 1
  BY <1>2
<1>4. CASE SendRamp
  <2>1. /\ line = << >> /\ tx_data' = Next1(tx_data) /\ UNCHANGED <<ramp_error, expected, asked>>
        /\ \/ line' = <<tx_data>> /\ dropped' = dropped
           \/ dropped < MaxDropped /\ dropped' = dropped + 1 /\ line' = line
    BY <1>4 DEF SendRamp
  <2>2. tx_data' \in 0 .. RampBase - 1
    BY <1>2, <1>3, <2>1
  <2>3. dropped = 0 => expected = tx_data
    BY <2>1 DEF StartInv
  <2> HIDE DEF Next1
  <2>4. dropped' \in 0 .. MaxDropped /\ (ramp_error' => dropped' > 0)
    BY <1>2, <2>1
  <2>5. line' = << >> \/ \E byte \in 0 .. RampBase - 1 : line' = <<byte>>
    BY <1>2, <2>1
  <2>6. line' \in Seq(0 .. RampBase - 1)
    <3>1. CASE line' = << >>
      BY <3>1
    <3>2. CASE \E byte \in 0 .. RampBase - 1 : line' = <<byte>>
      <4>1. PICK byte \in 0 .. RampBase - 1 : line' = <<byte>>
        BY <3>2
      <4> QED BY <4>1
    <3> QED BY <2>5, <3>1, <3>2
  <2>7. dropped' = 0 => line' # << >> /\ line'[1] = expected' /\ tx_data' = Next1(expected')
    BY <1>2, <2>1, <2>3
  <2> QED BY <1>1, <1>2, <2>1, <2>2, <2>4, <2>5, <2>6, <2>7
          DEF StartInv, StartTypeOK, bootVars, Next1
<1>5. CASE CheckRamp
  <2>1. /\ line # << >> /\ line' = << >> /\ expected' = Next1(expected)
        /\ ramp_error' = (ramp_error \/ line[1] # expected)
        /\ UNCHANGED <<tx_data, dropped, asked>>
    BY <1>5 DEF CheckRamp
  <2>2. expected' \in 0 .. RampBase - 1
    BY <1>2, <1>3, <2>1
  <2>3. dropped = 0 => line[1] = expected /\ tx_data = Next1(expected)
    BY <2>1 DEF StartInv
  <2> HIDE DEF Next1
  <2>4. ramp_error' => dropped' > 0
    BY <1>2, <2>1, <2>3
  <2>5. ramp_error' \in BOOLEAN
    BY <2>1, Zenon
  <2>6. line' \in Seq(0 .. RampBase - 1)
    BY <2>1
  <2>7. dropped' = 0 => expected' = tx_data'
    BY <2>1, <2>3
  <2> QED BY <1>1, <1>2, <2>1, <2>2, <2>4, <2>5, <2>6, <2>7 DEF StartInv, StartTypeOK, bootVars
<1>6. CASE spi_demo \/ flash_demo
  <2>1. UNCHANGED <<tx_data, line, dropped, ramp_error, expected>> /\ asked' \subseteq {"spi", "flash"}
    BY <1>6 DEF spi_demo, flash_demo, StartInv, StartTypeOK
  <2> QED BY <1>1, <2>1 DEF StartInv, StartTypeOK, bootVars
<1> QED BY <1>4, <1>5, <1>6

\* Every step of the board keeps the invariant, ...
LEMMA StartStep == StartInv /\ [StartNext]_startVars => StartInv'
<1>1. StartInv /\ UNCHANGED startVars => StartInv'
  BY DEF startVars, StartInv, StartTypeOK
<1> QED BY <1>1, BootTypes, RampTypes DEF StartNext

\* ... which holds at first.
LEMMA StartInitInv == StartInit => StartInv
<1> SUFFICES ASSUME StartInit PROVE StartInv
  OBVIOUS
<1>1. /\ tile \in [1 .. 2 -> 1 .. 11] /\ between \in [1 .. 2 -> Seq({0, 1})]
      /\ jobs = [t \in 1 .. 2 |-> {}]
  <2>1. tile = <<1, 1>> /\ between = << << >>, << >> >> /\ jobs = << {}, {} >>
    BY DEF StartInit
  <2>2. tile = [t \in 1 .. 2 |-> 1] /\ between = [t \in 1 .. 2 |-> << >>]
        /\ jobs = [t \in 1 .. 2 |-> {}]
    BY <2>1
  <2>3. << >> \in Seq({0, 1}) /\ 1 \in 1 .. 11
    OBVIOUS
  <2> QED BY <2>2, <2>3
<1>2. codec.page = 0 /\ DOMAIN codec = {"page", "got"} /\ writes \in 0 .. Len(Program)
  BY ProgramWrites DEF StartInit, Fresh
<1>3. /\ {tx_data, expected} \subseteq 0 .. RampBase - 1 /\ dropped \in 0 .. MaxDropped
      /\ line = << >> /\ line \in Seq(0 .. RampBase - 1) /\ ramp_error = FALSE /\ asked = {}
      /\ expected = tx_data
  BY StartUpAssumption DEF StartInit
<1>5. \A t \in 1 .. 2 : jobs[t] = {}
  BY <1>1
<1>6. StartTypeOK
  BY <1>1, <1>2, <1>3, <1>5 DEF StartTypeOK
<1>4. jobs = [t \in 1 .. 2 |-> jobs[t]]
  BY <1>1
<1> QED BY <1>6, <1>1, <1>2, <1>3, <1>4 DEF StartInv

-----------------------------------------------------------------------------
(* The applications together                                                *)

\* A step of the board is a step of the application flashed, and of no other.
LEMMA OwnSteps ==
  [DemosNext]_demosVars =>
    /\ [TraceNext]_traceVars /\ [FioNext]_fioVars /\ [BoardNext]_boardVars
    /\ [Next]_vars /\ [WifiNext]_wifiVars /\ [ControlNext]_controlVars
    /\ [UartNext]_uartVars /\ [XlinkNext]_xlinkVars /\ [StartNext]_startVars
    /\ flashed' = flashed
<1>1. ASSUME UNCHANGED demosVars
      PROVE  UNCHANGED traceVars /\ UNCHANGED fioVars /\ UNCHANGED boardVars /\ UNCHANGED vars
             /\ UNCHANGED wifiVars /\ UNCHANGED controlVars
             /\ UNCHANGED uartVars /\ UNCHANGED xlinkVars /\ UNCHANGED startVars
             /\ UNCHANGED flashed
  BY <1>1, Zenon DEF demosVars
<1>2. ASSUME DemosNext
      PROVE  /\ [TraceNext]_traceVars /\ [FioNext]_fioVars /\ [BoardNext]_boardVars
             /\ [Next]_vars /\ [WifiNext]_wifiVars /\ [ControlNext]_controlVars
             /\ [UartNext]_uartVars /\ [XlinkNext]_xlinkVars /\ [StartNext]_startVars
             /\ flashed' = flashed
  <2>1. /\ flashed = "tracealyzer" => TraceNext
        /\ flashed = "xscope_fileio" => FioNext
        /\ flashed = "bare_metal" => BoardNext
        /\ flashed = "mqtt" => Next
        /\ flashed = "wifi" => WifiNext
        /\ flashed = "device_control" => ControlNext
        /\ flashed = "uart" => UartNext
        /\ flashed = "xlink" => XlinkNext
        /\ flashed = "start_up" => StartNext
        /\ UNCHANGED flashed
    BY <1>2 DEF DemosNext
  <2>2. NotFlashed(flashed)
    BY <1>2 DEF DemosNext
  <2> QED
    BY <2>1, <2>2, Zenon DEF NotFlashed
<1> QED
  BY <1>1, <1>2

\* Whichever application is flashed, each of the applications keeps its promise: the
\* chain of subprocesses, the copied file, the power LED, the WiFi firmware, the values of
\* a command, and the MQTT client's session and waits between its attempts.
THEOREM DemosKeepPromises ==
  DemosSpec =>
    /\ [](RequestedRunInOrder /\ OutputRight /\ PowerLedTrue /\ FirmwareWhole /\ ValuesArrive)
    /\ [](SessionHeldWhileUsed /\ CleanSlate /\ DarkUntilSubscribed)
    /\ BackoffKept
<1>1. DemosInit => TraceInit /\ FioInit /\ BoardInit /\ Init /\ WifiInit /\ ControlInit
  BY DEF DemosInit
<1>2. DemosSpec => []TraceInv
  BY <1>1, OwnSteps, TraceInitInv, TraceStep, PTL DEF DemosSpec
<1>3. DemosSpec => FioSpec
  BY <1>1, OwnSteps, PTL DEF DemosSpec, FioSpec
<1>4. DemosSpec => BoardSpec
  BY <1>1, OwnSteps, PTL DEF DemosSpec, BoardSpec
<1>5. DemosSpec => Spec
  BY <1>1, OwnSteps, PTL DEF DemosSpec, Spec
<1>6. DemosSpec => WifiSpec
  BY <1>1, OwnSteps, PTL DEF DemosSpec, WifiSpec
<1>9. DemosSpec => ControlSpec
  BY <1>1, OwnSteps, PTL DEF DemosSpec, ControlSpec
<1>7. DemosSpec => [](RequestedRunInOrder /\ OutputRight /\ PowerLedTrue /\ FirmwareWhole /\ ValuesArrive)
  BY <1>2, <1>3, <1>4, <1>6, <1>9, TraceInvRight, OutputIsRight, BareMetalSafe, FirmwareLoadedWhole,
     CommandValuesArrive, PTL
<1>8. DemosSpec => [](SessionHeldWhileUsed /\ CleanSlate /\ DarkUntilSubscribed) /\ BackoffKept
  BY <1>5, SessionSafe, AttemptsClean, SessionsDark, BackoffSafe, PTL
<1> QED
  BY <1>7, <1>8

\* Type correctness of every application, and of the state the others would have.
THEOREM DemosTyped == DemosSpec => []DemosTypeOK
<1>1. DemosInit => /\ TraceInit /\ FioInit /\ BoardInit /\ Init /\ WifiInit /\ ControlInit
                   /\ UartInit /\ XlinkInit /\ StartInit /\ flashed \in Applications
  BY DEF DemosInit
<1>2. DemosSpec => []UartInv /\ []XlinkInv /\ []StartInv
  BY <1>1, OwnSteps, UartInitInv, UartStep, XlinkInitInv, XlinkStep, StartInitInv, StartStep, PTL
     DEF DemosSpec
<1>3. DemosSpec => [](flashed \in Applications)
  <2>1. flashed \in Applications /\ flashed' = flashed => (flashed \in Applications)'
    OBVIOUS
  <2> QED BY <1>1, <2>1, OwnSteps, PTL DEF DemosSpec
<1>4. DemosSpec => []TraceInv
  BY <1>1, OwnSteps, TraceInitInv, TraceStep, PTL DEF DemosSpec
<1>5. DemosSpec => FioSpec
  BY <1>1, OwnSteps, PTL DEF DemosSpec, FioSpec
<1>6. DemosSpec => BoardSpec
  BY <1>1, OwnSteps, PTL DEF DemosSpec, BoardSpec
<1>7. DemosSpec => Spec
  BY <1>1, OwnSteps, PTL DEF DemosSpec, Spec
<1>8. DemosSpec => WifiSpec
  BY <1>1, OwnSteps, PTL DEF DemosSpec, WifiSpec
<1>9. DemosSpec => ControlSpec
  BY <1>1, OwnSteps, PTL DEF DemosSpec, ControlSpec
<1>10. /\ UartInv => UartTypeOK
       /\ StartInv => StartTypeOK
  BY Zenon DEF UartInv, StartInv
<1>11. /\ flashed \in Applications
       /\ TraceTypeOK /\ FioTypeOK /\ BoardTypeOK /\ ControlTypeOK /\ TypeOK /\ WifiTypeOK
       /\ UartTypeOK /\ XlinkTypeOK /\ StartTypeOK
       => DemosTypeOK
  BY Zenon DEF DemosTypeOK
<1> QED
  BY <1>2, <1>3, <1>4, <1>5, <1>6, <1>7, <1>8, <1>9, <1>10, <1>11, TraceInvRight, OutputIsRight,
     BareMetalSafe, FirmwareLoadedWhole, CommandValuesArrive, MqttTypeCorrect, XlinkInvTyped, PTL
=============================================================================
