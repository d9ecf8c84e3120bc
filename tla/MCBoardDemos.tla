----------------------------- MODULE MCBoardDemos -----------------------------
(* Tracealyzer: two subprocesses of two time units against a tolerance of four, so that  *)
(* both are needed for a timeout, and a timer that wraps within two runs.  File I/O:     *)
(* blocks of two samples of four bits; files that end with a block or within one, that   *)
(* are shorter than their header says, whose samples overflow, and files of an           *)
(* unsupported layout, depth or number of channels.  Bare metal: a level below the   *)
(* threshold with the lower of two gains and above it with the other, channels of one    *)
(* byte.  Device control: bytes of four values, a widest type of two bytes, commands of  *)
(* each kind, signed and not, and one for a resource that nobody serves.                 *)
EXTENDS BoardDemos
File(chunks, depth, channels, frames, data) ==
  [chunks |-> chunks, bit_depth |-> depth, num_channels |-> channels, frames |-> frames,
   data |-> data]
Plain == <<"fmt", "data">>
MCFiles == { File(Plain, 32, 1, 6, <<1, 2, -1, 3, -2, 1>>),
             File(<<"fmt", "fact", "data", "LIST">>, 32, 1, 5, <<7, -8, 1, 2, 5>>),
             File(Plain, 32, 1, 6, <<1, 2, 3>>),
             File(Plain, 32, 1, 1, <<1>>),
             File(<<"fmt", "LIST", "data">>, 32, 1, 4, <<1, 2, 3, 1>>),
             File(Plain, 16, 1, 4, <<1, 2, 3, 1>>),
             File(Plain, 32, 2, 4, <<1, 2, 3, 1>>) }
MCLevels == {0}
Command(resid, cmd, bytes, signed, rw, num) ==
  [resid |-> resid, cmd |-> cmd, bytes |-> bytes, signed |-> signed, rw |-> rw, num_values |-> num]
MCCommands == [ test_cmd |-> Command(3, 3, 2, TRUE, "CMD_RW", 1),
                pair |-> Command(51, 2, 1, FALSE, "CMD_RO", 2),
                wo |-> Command(51, 1, 1, TRUE, "CMD_WO", 2),
                count |-> Command(3, 4, 2, FALSE, "CMD_RW", 1),
                level |-> Command(51, 3, 1, FALSE, "CMD_WO", 1),
                nobody |-> Command(9, 0, 1, FALSE, "CMD_RW", 1) ]
MCArgs == {-5, 1, 17}
MCLeds == 0..1
=============================================================================
