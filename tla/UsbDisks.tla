------------------------------- MODULE UsbDisks -------------------------------
(***************************************************************************)
(* The RAM disks of examples/freertos/usb/tinyusb_demos: msc_dual_lun has    *)
(* two, cdc_msc one that can be ejected.  The USB task calls back once per   *)
(* block of a command (the endpoint's buffer holds one block), the host may  *)
(* give a command up between two blocks, and without power the disks are     *)
(* what they were built with: a FAT12 file system with a README.             *)
(***************************************************************************)
EXTENDS Integers

CONSTANTS
  DiskDemos,         \* the demos that may be flashed
  DISK_BLOCK_NUM,    \* blocks of a disk
  MaxCommands        \* bound: reads and writes of the host

ASSUME DiskAssumption ==
  /\ DiskDemos \subseteq {"msc_dual_lun", "cdc_msc"}
  /\ DISK_BLOCK_NUM \in Nat /\ DISK_BLOCK_NUM > 3 /\ MaxCommands \in Nat

VARIABLES
  diskDemo,
  disk,        \* msc_disk0 and msc_disk1, or msc_disk as the first
  ejected,
  sense,       \* why the last command that failed did
  command,     \* the command being served
  commands,    \* how many there have been
  told,        \* what the host takes each block to hold, "unknown" when it cannot tell
  found        \* what the host found for the README of each disk

diskVars == <<diskDemo, disk, ejected, sense, command, commands, told, found>>

NoCommand == [op |-> "none", lun |-> 0, from |-> 0, lba |-> 0, left |-> 0]
DiskBlocks == 0 .. DISK_BLOCK_NUM - 1
LunNumbers == {0, 1}
tud_msc_get_maxlun_cb == IF diskDemo = "msc_dual_lun" THEN 2 ELSE 1

-----------------------------------------------------------------------------
(* What a disk is built with                                                *)

BootSector == [kind |-> "boot", reserved |-> 1, fats |-> 1, rootBlocks |-> 1,
               sectorsPerFat |-> 1, sectorsPerCluster |-> 1]
\* The first two entries are the medium's; the README is one cluster, the last of its chain.
FatTable == [kind |-> "fat", next |-> [cluster \in {2} |-> "end"]]
RootDirectory == [kind |-> "root", readme |-> 2]
Readme(lun) == [kind |-> "readme", lun |-> lun]
Zeros == [kind |-> "zeros"]

msc_disk(lun) ==
  [b \in DiskBlocks |-> CASE b = 0 -> BootSector [] b = 1 -> FatTable
                      [] b = 2 -> RootDirectory [] b = 3 -> Readme(lun) [] OTHER -> Zeros]

Data(n) == [kind |-> "data", command |-> n]
Unknown == [kind |-> "unknown"]
Nothing == [kind |-> "nothing"]

DiskInit ==
  /\ diskDemo \in DiskDemos
  /\ disk = [lun \in LunNumbers |-> msc_disk(lun)] /\ told = disk
  /\ ejected = FALSE /\ sense = "none"
  /\ command = NoCommand /\ commands = 0
  /\ found = [lun \in LunNumbers |-> Nothing]

-----------------------------------------------------------------------------
(* Reads and writes                                                         *)

Listening == command = NoCommand /\ sense = "none"

\* The host sends a command; what it writes is not to be relied on until it has passed.
BeginCommand(op, lun, lba, count) ==
  /\ Listening /\ commands < MaxCommands /\ lun < tud_msc_get_maxlun_cb
  /\ command' = [op |-> op, lun |-> lun, from |-> lba, lba |-> lba, left |-> count]
  /\ commands' = commands + 1
  /\ told' = IF op = "write"
             THEN [told EXCEPT ![lun] = [b \in DiskBlocks |->
                     IF b \in lba .. lba + count - 1 THEN Unknown ELSE @[b]]]
             ELSE told
  /\ UNCHANGED <<diskDemo, disk, ejected, sense, found>>

\* (Faulty variant: a block beyond the disk goes to its last one.)
BlockOrLast(lba) == IF lba >= DISK_BLOCK_NUM THEN DISK_BLOCK_NUM - 1 ELSE lba

\* The block of a disk a callback copies from or to; there is none beyond the disk.
BlockOf(lba) == IF lba >= DISK_BLOCK_NUM THEN -1 ELSE lba

\* The next block of a command, or its end: it fails at the first block that is not there.
ServeBlock(op) ==
  /\ command.op = op
  /\ IF BlockOf(command.lba) = -1
     THEN command' = NoCommand /\ sense' = "failed"
     ELSE /\ command' = IF command.left = 1 THEN NoCommand
                        ELSE [command EXCEPT !.lba = @ + 1, !.left = @ - 1]
          /\ UNCHANGED sense
  /\ UNCHANGED <<diskDemo, ejected, commands, found>>

\* The host has read a block: it knows what it holds.
tud_msc_read10_cb ==
  /\ ServeBlock("read")
  /\ told' = IF BlockOf(command.lba) = -1 THEN told
             ELSE [told EXCEPT ![command.lun][BlockOf(command.lba)] =
                                 disk[command.lun][BlockOf(command.lba)]]
  /\ UNCHANGED disk

\* The host knows what it wrote once the last block has been.
tud_msc_write10_cb ==
  /\ ServeBlock("write")
  /\ disk' = IF BlockOf(command.lba) = -1 THEN disk
             ELSE [disk EXCEPT ![command.lun][BlockOf(command.lba)] = Data(commands)]
  /\ told' = IF BlockOf(command.lba) # -1 /\ command.left = 1
             THEN [told EXCEPT ![command.lun] = [b \in DiskBlocks |->
                     IF b \in command.from .. command.lba THEN Data(commands) ELSE @[b]]]
             ELSE told

\* A bus reset or a host that gives up: the rest of the command does not come.
AbandonCommand ==
  /\ command # NoCommand /\ command' = NoCommand
  /\ UNCHANGED <<diskDemo, disk, ejected, sense, commands, told, found>>

-----------------------------------------------------------------------------
(* The other commands                                                       *)

\* Only the unloading of a disk is noted, never its loading, and only by cdc_msc.
tud_msc_start_stop_cb(start, load_eject) ==
  /\ Listening
  /\ ejected' = (ejected \/ (diskDemo = "cdc_msc" /\ load_eject /\ ~ start))
  /\ UNCHANGED <<diskDemo, disk, sense, command, commands, told, found>>

\* A host that finds the unit ready mounts the disk: from the boot sector to the FAT, the
\* root directory and the blocks of the README, when it has written none of them.
tud_msc_test_unit_ready_cb(lun) ==
  /\ Listening /\ lun < tud_msc_get_maxlun_cb
  /\ IF ejected THEN sense' = "not ready" /\ UNCHANGED found
     ELSE /\ UNCHANGED sense
          /\ \A b \in 0 .. 3 : told[lun][b] = msc_disk(lun)[b]
          /\ LET boot == disk[lun][0]
                 fat == disk[lun][boot.reserved]
                 root == disk[lun][boot.reserved + boot.fats * boot.sectorsPerFat]
                 first == boot.reserved + boot.fats * boot.sectorsPerFat + boot.rootBlocks
                 file == disk[lun][first + (root.readme - 2) * boot.sectorsPerCluster]
             IN found' = [found EXCEPT ![lun] =
                            IF fat.next[root.readme] = "end" THEN file ELSE Unknown]
  /\ UNCHANGED <<diskDemo, disk, ejected, command, commands, told>>

\* Every command without a callback of its own is refused.
tud_msc_scsi_cb ==
  /\ Listening /\ sense' = "illegal request"
  /\ UNCHANGED <<diskDemo, disk, ejected, command, commands, told, found>>

\* The host asks why a command failed before it sends the next one.
RequestSense ==
  /\ sense # "none" /\ sense' = "none"
  /\ UNCHANGED <<diskDemo, disk, ejected, command, commands, told, found>>

\* The disks are in RAM, and the host that comes back reads them anew.
PowerCycle ==
  /\ disk' = [lun \in LunNumbers |-> msc_disk(lun)] /\ told' = disk'
  /\ ejected' = FALSE /\ sense' = "none" /\ command' = NoCommand
  /\ UNCHANGED <<diskDemo, commands, found>>

DiskNext ==
  \/ \E op \in {"read", "write"}, lun \in LunNumbers, lba \in 0 .. DISK_BLOCK_NUM, count \in 1 .. 2 :
       BeginCommand(op, lun, lba, count)
  \/ tud_msc_read10_cb \/ tud_msc_write10_cb \/ AbandonCommand
  \/ \E start, load_eject \in BOOLEAN : tud_msc_start_stop_cb(start, load_eject)
  \/ \E lun \in LunNumbers : tud_msc_test_unit_ready_cb(lun)
  \/ tud_msc_scsi_cb \/ RequestSense \/ PowerCycle

DiskSpec == DiskInit /\ [][DiskNext]_diskVars

-----------------------------------------------------------------------------
(* Properties                                                               *)

DiskTypeOK ==
  /\ diskDemo \in DiskDemos
  /\ DOMAIN disk = LunNumbers /\ DOMAIN told = LunNumbers
  /\ ejected \in BOOLEAN /\ commands \in 0 .. MaxCommands
  /\ sense \in {"none", "failed", "not ready", "illegal request"}
  /\ command \in [op : {"none", "read", "write"}, lun : LunNumbers, from : 0 .. DISK_BLOCK_NUM,
                  lba : 0 .. DISK_BLOCK_NUM, left : 0 .. 2]

\* A block is what the host takes it to be, whatever it wrote to this disk and the other,
\* gave up in the middle or sent beyond the end; and a host that mounts a disk as it was
\* built finds that disk's README where the boot sector, the FAT and the root directory say.
DiskAsTold ==
  /\ \A lun \in LunNumbers, b \in DiskBlocks : told[lun][b] \in {Unknown, disk[lun][b]}
  /\ \A lun \in LunNumbers : found[lun] \in {Nothing, Readme(lun)}
=============================================================================
