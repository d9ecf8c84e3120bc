---------------------------- MODULE XscopeFileIo ----------------------------
(***************************************************************************)
(* examples/freertos/xscope_fileio: a task on tile 0 reads a WAV file from   *)
(* the host block by block, sends each block through two gain stages on     *)
(* tile 1 and a third stage back on tile 0, takes it from a queue and writes *)
(* it to the output file.  The intertile links and the generic pipeline      *)
(* that runs the stages are outside src/; each holds one message at a time.  *)
(***************************************************************************)
EXTENDS Integers, Sequences, FiniteSets, SequencesExt

CONSTANTS
  FRAME_ADVANCE,  \* appconfFRAME_ADVANCE
  HalfRange,      \* a sample is at least -HalfRange and less than HalfRange, 2^31
  Files           \* the input files

Samples == (-HalfRange) .. (HalfRange - 1)

\* A file: its chunks in order, the bit depth and channels its header tells, the frames
\* its header tells and the samples that are there, which may be fewer.
ASSUME FilesAssumption ==
  /\ FRAME_ADVANCE \in Nat \ {0} /\ HalfRange \in Nat \ {0}
  /\ \A f \in Files : f.frames \in Nat /\ f.data \in Seq(Samples) /\ Len(f.data) <= f.frames

VARIABLES
  infile,            \* the file read
  fileio, b,         \* xscope_fileio: place, block number
  in_buf,            \* the block it has read
  link1,             \* intertile link, tile 0 to tile 1
  stage1, stageQueue, stage2,  \* the frames in the stages of tile 1 and between them
  link2,             \* intertile link, tile 1 to tile 0
  stage3,            \* the frame in the stage of tile 0
  fileio_queue,      \* the queue of length 1
  heap,              \* frames allocated on tiles 0 and 1
  header, out        \* frames in the output header; the samples of the output file

fioVars == <<infile, fileio, b, in_buf, link1, stage1, stageQueue, stage2, link2, stage3,
             fileio_queue, heap, header, out>>
fileioVars == <<infile, fileio, b, in_buf, header, out>>
tile1Stages == <<stage1, stageQueue, stage2>>

\* A place that holds a block or nothing.  A stage has its frame allocated (Ready) before
\* it waits for a block.
NoBlock == << >>
Ready == <<"ready">>
Block(s) == <<"block", s>>

Blocks == [1 .. FRAME_ADVANCE -> Samples]
Zeros == [i \in 1 .. FRAME_ADVANCE |-> 0]

FioInit ==
  /\ infile \in Files
  /\ fileio = "open" /\ b = 0 /\ in_buf = Zeros
  /\ link1 = NoBlock /\ link2 = NoBlock
  /\ stage1 = NoBlock /\ stageQueue = NoBlock /\ stage2 = NoBlock /\ stage3 = NoBlock
  /\ fileio_queue = NoBlock
  /\ heap = [tile0 |-> 0, tile1 |-> 0]
  /\ header = 0 /\ out = << >>

-----------------------------------------------------------------------------
(* The WAV file                                                             *)

\* Accepted are PCM files whose fmt chunk is followed by the data, with a fact chunk
\* between them at most.
get_wav_header_details(f) ==
  \E follow \in {<<"data">>, <<"fact", "data">>} : IsPrefix(<<"fmt">> \o follow, f.chunks)

Supported(f) == get_wav_header_details(f) /\ f.bit_depth = 32 /\ f.num_channels = 1

block_count == infile.frames \div FRAME_ADVANCE

\* (Faulty variant: the block number is not scaled to frames.)
FrameStartUnscaled(block) == block

\* wav_get_frame_start, in frames from the first
wav_get_frame_start(block) == block * FRAME_ADVANCE

\* A block of the file; what is not there reads as zero.
BlockRead(block) ==
  [i \in 1 .. FRAME_ADVANCE |->
     LET at == wav_get_frame_start(block) + i
     IN IF at <= Len(infile.data) THEN infile.data[at] ELSE 0]

-----------------------------------------------------------------------------
(* xscope_fileio, on tile 0                                                 *)

OpenFiles ==
  /\ fileio = "open"
  /\ IF Supported(infile)
     THEN fileio' = "read" /\ header' = block_count * FRAME_ADVANCE
     ELSE fileio' = "failed" /\ UNCHANGED header
  /\ UNCHANGED <<infile, b, in_buf, out, link1, tile1Stages, link2, stage3, fileio_queue, heap>>

ReadBlock ==
  /\ fileio = "read" /\ b < block_count
  /\ in_buf' = BlockRead(b)
  /\ fileio' = "send"
  /\ UNCHANGED <<infile, b, header, out, link1, tile1Stages, link2, stage3, fileio_queue, heap>>

\* rtos_intertile_tx
SendBlock ==
  /\ fileio = "send" /\ link1 = NoBlock
  /\ link1' = Block(in_buf)
  /\ fileio' = "receive"
  /\ UNCHANGED <<infile, b, in_buf, header, out, tile1Stages, link2, stage3, fileio_queue, heap>>

WriteBlock ==
  /\ fileio = "receive" /\ fileio_queue # NoBlock
  /\ out' = out \o fileio_queue[2]
  /\ fileio_queue' = NoBlock
  /\ b' = b + 1 /\ fileio' = "read"
  /\ UNCHANGED <<infile, in_buf, header, link1, tile1Stages, link2, stage3, heap>>

\* After the last block: a delay, the files are closed and the program ends.
CloseFiles ==
  /\ fileio = "read" /\ b = block_count
  /\ fileio' = "closed"
  /\ UNCHANGED <<infile, b, in_buf, header, out, link1, tile1Stages, link2, stage3, fileio_queue, heap>>

xscope_fileio == OpenFiles \/ ReadBlock \/ SendBlock \/ WriteBlock \/ CloseFiles

\* The stages run until the program ends (_Exit).
Running == fileio \notin {"closed", "failed"}

-----------------------------------------------------------------------------
(* The stages on tile 1                                                     *)

\* (Faulty variant: the product of a large sample leaves its range.)
TwiceWide(x) == 2 * x

\* A sample times two, in the bits of a sample.
Twice(x) == ((2 * x + HalfRange) % (2 * HalfRange)) - HalfRange

Gain(block) == [i \in 1 .. FRAME_ADVANCE |-> Twice(block[i])]

Allocate1 ==
  /\ Running /\ stage1 = NoBlock
  /\ stage1' = Ready /\ heap' = [heap EXCEPT !.tile1 = @ + 1]
  /\ UNCHANGED <<fileioVars, link1, stageQueue, stage2, link2, stage3, fileio_queue>>

\* The input of the first stage and stage_preemption_disabled.
Stage1Receive ==
  /\ Running /\ stage1 = Ready /\ link1 # NoBlock
  /\ stage1' = Block(Gain(link1[2])) /\ link1' = NoBlock
  /\ UNCHANGED <<fileioVars, stageQueue, stage2, link2, stage3, fileio_queue, heap>>

Stage1Pass ==
  /\ Running /\ stage1 \notin {NoBlock, Ready} /\ stageQueue = NoBlock
  /\ stageQueue' = stage1 /\ stage1' = NoBlock
  /\ UNCHANGED <<fileioVars, link1, stage2, link2, stage3, fileio_queue, heap>>

\* stage_preemption_enabled
Stage2Receive ==
  /\ Running /\ stage2 = NoBlock /\ stageQueue # NoBlock
  /\ stage2' = Block(Gain(stageQueue[2])) /\ stageQueue' = NoBlock
  /\ UNCHANGED <<fileioVars, link1, stage1, link2, stage3, fileio_queue, heap>>

\* The output of the last stage, after which the pipeline frees the frame.
Stage2Send ==
  /\ Running /\ stage2 # NoBlock /\ link2 = NoBlock
  /\ link2' = stage2 /\ stage2' = NoBlock
  /\ heap' = [heap EXCEPT !.tile1 = @ - 1]
  /\ UNCHANGED <<fileioVars, link1, stage1, stageQueue, stage3, fileio_queue>>

-----------------------------------------------------------------------------
(* The stage on tile 0                                                      *)

Allocate3 ==
  /\ Running /\ stage3 = NoBlock
  /\ stage3' = Ready /\ heap' = [heap EXCEPT !.tile0 = @ + 1]
  /\ UNCHANGED <<fileioVars, link1, tile1Stages, link2, fileio_queue>>

Stage3Receive ==
  /\ Running /\ stage3 = Ready /\ link2 # NoBlock
  /\ stage3' = link2 /\ link2' = NoBlock
  /\ UNCHANGED <<fileioVars, link1, tile1Stages, fileio_queue, heap>>

\* (Faulty variant: the send does not wait and a full queue drops the block.)
Stage3DropBlock ==
  /\ Running /\ stage3 \notin {NoBlock, Ready}
  /\ fileio_queue' \in {fileio_queue, stage3}
  /\ stage3' = NoBlock /\ heap' = [heap EXCEPT !.tile0 = @ - 1]
  /\ UNCHANGED <<fileioVars, link1, tile1Stages, link2>>

\* xscope_fileio_tx_to_host copies the frame into the queue; the pipeline frees it.
xscope_fileio_tx_to_host ==
  /\ Running /\ stage3 \notin {NoBlock, Ready} /\ fileio_queue = NoBlock
  /\ fileio_queue' = stage3
  /\ stage3' = NoBlock /\ heap' = [heap EXCEPT !.tile0 = @ - 1]
  /\ UNCHANGED <<fileioVars, link1, tile1Stages, link2>>

stages == \/ Allocate1 \/ Stage1Receive \/ Stage1Pass \/ Stage2Receive \/ Stage2Send
          \/ Allocate3 \/ Stage3Receive \/ xscope_fileio_tx_to_host

FioNext == xscope_fileio \/ stages

FioSpec == FioInit /\ [][FioNext]_fioVars

-----------------------------------------------------------------------------
(* Properties                                                               *)

\* Type invariant.  A block at a time is under way, so two frames on tile 1 and one on
\* tile 0 are all the heap the pipelines ever need.
FioTypeOK ==
  /\ infile \in Files
  /\ fileio \in {"open", "read", "send", "receive", "closed", "failed"}
  /\ b \in 0 .. block_count /\ in_buf \in Blocks
  /\ \A place \in {link1, stageQueue, stage2, link2, fileio_queue} :
       place = NoBlock \/ place[2] \in Blocks
  /\ \A place \in {stage1, stage3} : place \in {NoBlock, Ready} \/ place[2] \in Blocks
  /\ heap \in [tile0 : 0 .. 1, tile1 : 0 .. 2]
  /\ header \in Nat /\ out \in Seq(Samples)

\* What sample i of the output should be: the input times four, zero where the file ends
\* before its header says.
Expected(i) == Twice(Twice(IF i <= Len(infile.data) THEN infile.data[i] ELSE 0))

\* Sample i of the output is the input's with both gains, and there are whole blocks only.
OutputFollowsInput ==
  /\ Len(out) = b * FRAME_ADVANCE
  /\ \A i \in DOMAIN out : out[i] = Expected(i)

\* When the files are closed, the header written at the start tells the length of the
\* data, and less than one block of the frames the input announced has been left out.
OutputLength ==
  fileio = "closed" =>
    header = Len(out) /\ Len(out) \in (infile.frames - FRAME_ADVANCE + 1) .. infile.frames

\* Through four tasks, two links and two queues the blocks reach the output file in the
\* order of the input, each exactly once and with both gains, and as many as its header
\* announced before the first of them was read.
OutputRight == OutputFollowsInput /\ OutputLength

\* A supported file is copied to its last block and closed.
SupportedFileCopied == fileio = "read" ~> fileio = "closed"
=============================================================================
