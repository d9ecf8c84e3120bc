---------------------------- MODULE DfuDownload -----------------------------
(***************************************************************************)
(* The USB DFU callbacks of examples/freertos/dfu (src/usb/app_dfu.c) over  *)
(* the flash they program, the TinyUSB DFU class that calls them and the   *)
(* host that drives the class.  Flash is an array of cells; a cell holds   *)
(* the transfer and offset that wrote it.  The class and the host are not   *)
(* under src/: they are modelled from the comments on the callbacks.  The   *)
(* host may give a transfer up at any block; host.fresh records whether a   *)
(* transfer started with no partition left selected by one given up.       *)
(***************************************************************************)
EXTENDS Integers

CONSTANTS XferBufSize,   \* CFG_TUD_DFU_XFER_BUFSIZE, equal to the flash sector size
          FactoryAddr, FactorySize, \* rtos_dfu_image_get_factory_addr() and _size()
          UpgradeSector, DataSector, FlashSectors,
          ImageLens,     \* lengths of the images the host may send
          MaxTransfers   \* bound: downloads the host starts

ASSUME LayoutAssumption ==
  /\ XferBufSize \in Nat \ {0}
  /\ MaxTransfers \in Nat
  /\ ImageLens \subseteq Nat \ {0}
  /\ FactoryAddr \in Nat /\ FactorySize \in Nat
  /\ FactoryAddr + FactorySize <= UpgradeSector * XferBufSize
  /\ UpgradeSector \in Nat /\ DataSector \in Nat /\ FlashSectors \in Nat
  /\ 0 < UpgradeSector /\ UpgradeSector < DataSector /\ DataSector < FlashSectors

UpgradeAddr == UpgradeSector * XferBufSize \* rtos_dfu_image_get_upgrade_addr()
DataAddr == DataSector * XferBufSize       \* rtos_dfu_image_get_data_partition_addr()
FlashSize == FlashSectors * XferBufSize    \* rtos_qspi_flash_size_get()

VARIABLES
  flash,                                \* the QSPI flash
  dfu_image_ctx,                        \* length of the upgrade image found at boot, or 0
  total_len, bytes_avail, dn_base_addr, \* the file's static variables
  pc, cur_addr, tmp_buf,                \* tud_dfu_download_cb in progress
  dfu,                                  \* the DFU class: state, alternate setting, request
  host                                  \* the host's transfer

vars == <<flash, dfu_image_ctx, total_len, bytes_avail, dn_base_addr, pc, cur_addr, tmp_buf,
          dfu, host>>
statics == <<total_len, bytes_avail, dn_base_addr>>
callback == <<pc, cur_addr, tmp_buf>>

Addresses == 0 .. (FlashSize - 1)
SectorOf(a) == a .. (a + XferBufSize - 1)
Offsets == 0 .. (XferBufSize - 1)
Blank == <<-1, 0, 0>>
Original(a) == <<0, a, 0>>
Byte(h, off) == <<h.id, off, h.len>>
Cell == (-1 .. MaxTransfers) \X Nat \X Nat

NoBuffer == [i \in Offsets |-> Blank]
NoTransfer == [id |-> 0, len |-> 0, sent |-> 0, block |-> 0, alt |-> 0,
               fresh |-> FALSE, phase |-> "none"]
DfuReset(alt) == [state |-> "dfuIDLE", alt |-> alt, block |-> 0, off |-> 0, length |-> 0]

Init ==
  /\ flash = [a \in Addresses |-> Original(a)]
  /\ dfu_image_ctx = 0
  /\ total_len = 0 /\ bytes_avail = 0 /\ dn_base_addr = 0
  /\ pc = "ready" /\ cur_addr = 0 /\ tmp_buf = NoBuffer
  /\ dfu = DfuReset(0)
  /\ host = NoTransfer

-----------------------------------------------------------------------------
(* The host and the DFU class.  The class runs its callbacks to the end     *)
(* before it serves the next request, and in dfuDNBUSY the host waits.      *)

Quiet == pc = "ready" /\ dfu.state \notin {"dfuDNBUSY", "dfuMANIFEST"}

\* DFU_DNLOAD with data: the first block of a new image, or the next block of this one.
Dnload ==
  /\ Quiet
  /\ \E h \in IF dfu.state = "dfuDNLOAD_IDLE" THEN {host}
              ELSE [id : {host.id + 1}, len : ImageLens, sent : {0}, block : {0},
                    alt : {dfu.alt}, fresh : {dn_base_addr = 0}, phase : {"sending"}] :
       LET n == IF h.len - h.sent < XferBufSize THEN h.len - h.sent ELSE XferBufSize
       IN /\ dfu.state \in {"dfuIDLE", "dfuDNLOAD_IDLE"}
          /\ h.id <= MaxTransfers /\ h.sent < h.len
          /\ dfu' = [dfu EXCEPT !.state = "dfuDNBUSY", !.block = h.block,
                                !.off = h.sent, !.length = n]
          /\ host' = [h EXCEPT !.sent = @ + n, !.block = @ + 1]
  /\ UNCHANGED <<flash, dfu_image_ctx, statics, callback>>

\* DFU_DNLOAD with no data: the image is complete.
DnloadEnd ==
  /\ Quiet /\ dfu.state = "dfuDNLOAD_IDLE" /\ host.sent = host.len
  /\ dfu' = [dfu EXCEPT !.state = "dfuMANIFEST"]
  /\ UNCHANGED <<flash, dfu_image_ctx, statics, callback, host>>

\* DFU_ABORT, DFU_CLRSTATUS or SET_INTERFACE, in the middle of a transfer too: the
\* class returns to dfuIDLE.
\* tud_dfu_abort_cb, which only DFU_ABORT calls, changes nothing.
tud_dfu_abort_cb ==
  /\ Quiet
  /\ \E alt \in {0, 1, 2} : dfu' = DfuReset(alt)
  /\ host' = [host EXCEPT !.phase = IF @ = "sending" THEN "none" ELSE @]
  /\ UNCHANGED <<flash, dfu_image_ctx, statics, callback>>

\* tud_dfu_finish_flashing(status), called while the class was in `state`.
finish_flashing(state, status) ==
  CASE status # "OK" -> "dfuERROR"
    [] status = "OK" /\ state = "dfuDNBUSY" -> "dfuDNLOAD_IDLE"
    [] status = "OK" /\ state = "dfuMANIFEST" -> "dfuIDLE"
    [] OTHER -> state

-----------------------------------------------------------------------------
(* tud_dfu_download_cb                                                      *)

\* (Faulty variant: the partition of an upgrade image is taken to reach the flash's end.)
TargetToFlashEnd(alt) ==
  IF dn_base_addr # 0
  THEN [base |-> dn_base_addr, avail |-> bytes_avail, total |-> total_len]
  ELSE LET base == IF alt = 1 THEN UpgradeAddr ELSE DataAddr
       IN [base |-> base, avail |-> FlashSize - base, total |-> 0]

\* The alternate setting selects the partition, but only for a fresh transfer.
TargetOf(alt) ==
  IF dn_base_addr # 0
  THEN [base |-> dn_base_addr, avail |-> bytes_avail, total |-> total_len]
  ELSE IF alt = 1
  THEN [base |-> UpgradeAddr, avail |-> DataAddr - UpgradeAddr, total |-> 0]
  ELSE [base |-> DataAddr, avail |-> FlashSize - DataAddr, total |-> 0]

\* (Faulty variant of the space check: off by one.)
FitsStrictly(t, n) == t.avail - t.total > n

\* The space check: what is left of the partition after the bytes counted so far.
Fits(t, n) == t.avail - t.total >= n

\* (Faulty variant: the address forgets the partition.)
BlockAddrInFlash(t, block) == block * XferBufSize

\* Where a block goes: by its number, not by the bytes counted so far.
BlockAddr(t, block) == t.base + block * XferBufSize

\* (Faulty variant: the sector is not read back before it is patched.)
PatchBlank(a, n) == [i \in Offsets |-> IF i < n THEN Byte(host, dfu.off + i) ELSE Blank]

\* The sector at a with its first n bytes replaced by the block received.
Patched(a, n) == [i \in Offsets |-> IF i < n THEN Byte(host, dfu.off + i) ELSE flash[a + i]]

\* Alternate setting 0: the factory image is read only.
DownloadRefused ==
  /\ pc = "ready" /\ dfu.state = "dfuDNBUSY" /\ dfu.alt = 0
  /\ dfu' = [dfu EXCEPT !.state = finish_flashing(@, "ERR_WRITE")]
  /\ UNCHANGED <<flash, dfu_image_ctx, statics, callback, host>>

\* The partition is chosen; the block fits, its sector is read and patched in RAM.
DownloadRead ==
  /\ pc = "ready" /\ dfu.state = "dfuDNBUSY" /\ dfu.alt \in {1, 2}
  /\ LET t == TargetOf(dfu.alt)
         a == BlockAddr(t, dfu.block)
     IN /\ Fits(t, dfu.length)
        /\ dn_base_addr' = t.base /\ bytes_avail' = t.avail /\ total_len' = t.total
        /\ cur_addr' = a
        /\ tmp_buf' = Patched(a, dfu.length)
  /\ pc' = "erase"
  /\ UNCHANGED <<flash, dfu_image_ctx, dfu, host>>

\* The partition is chosen but the block does not fit: ERR_ADDRESS, then OK.
DownloadNoSpace ==
  /\ pc = "ready" /\ dfu.state = "dfuDNBUSY" /\ dfu.alt \in {1, 2}
  /\ LET t == TargetOf(dfu.alt)
     IN /\ ~Fits(t, dfu.length)
        /\ dn_base_addr' = t.base /\ bytes_avail' = t.avail /\ total_len' = t.total
  /\ dfu' = [dfu EXCEPT !.state = finish_flashing(finish_flashing(@, "ERR_ADDRESS"), "OK")]
  /\ UNCHANGED <<flash, dfu_image_ctx, callback, host>>

\* rtos_qspi_flash_erase of the sector.
DownloadErase ==
  /\ pc = "erase"
  /\ flash' = [a \in Addresses |-> IF a \in SectorOf(cur_addr) THEN Blank ELSE flash[a]]
  /\ pc' = "write"
  /\ UNCHANGED <<dfu_image_ctx, statics, cur_addr, tmp_buf, dfu, host>>

\* rtos_qspi_flash_write of the whole sector, then the block is counted and done.
DownloadWrite ==
  /\ pc = "write"
  /\ flash' = [a \in Addresses |-> IF a \in SectorOf(cur_addr)
                                   THEN tmp_buf[a - cur_addr] ELSE flash[a]]
  /\ total_len' = total_len + dfu.length
  /\ pc' = "ready" /\ cur_addr' = 0 /\ tmp_buf' = NoBuffer
  /\ dfu' = [dfu EXCEPT !.state = finish_flashing(@, "OK")]
  /\ UNCHANGED <<dfu_image_ctx, bytes_avail, dn_base_addr, host>>

tud_dfu_download_cb == DownloadRefused \/ DownloadRead \/ DownloadNoSpace
                       \/ DownloadErase \/ DownloadWrite

\* The image is complete: the next download chooses its partition afresh.
tud_dfu_manifest_cb ==
  /\ pc = "ready" /\ dfu.state = "dfuMANIFEST"
  /\ dn_base_addr' = 0
  /\ dfu' = [dfu EXCEPT !.state = finish_flashing(@, "OK")]
  /\ host' = [host EXCEPT !.phase = "done"]
  /\ UNCHANGED <<flash, dfu_image_ctx, total_len, bytes_avail, callback>>

\* The length in the header of the image that starts at UpgradeAddr, 0 if none does.
UpgradeSize == LET header == flash[UpgradeAddr]
               IN IF header[1] > 0 /\ header[2] = 0 THEN header[3] ELSE 0

\* Power fails, or tud_dfu_detach_cb arms the watchdog: the statics are lost, and
\* rtos_dfu_image_init takes the image information from the flash as it now is.
Reboot ==
  /\ dfu_image_ctx' = UpgradeSize
  /\ total_len' = 0 /\ bytes_avail' = 0 /\ dn_base_addr' = 0
  /\ pc' = "ready" /\ cur_addr' = 0 /\ tmp_buf' = NoBuffer
  /\ dfu' = DfuReset(0)
  /\ host' = [host EXCEPT !.phase = CASE @ = "sending" -> "none"
                                      [] @ = "done" -> "restarted"
                                      [] OTHER -> @]
  /\ UNCHANGED flash

-----------------------------------------------------------------------------
(* tud_dfu_upload_cb                                                        *)

\* Where the uploaded partition starts and ends; an absent image ends at 0.
UploadStart == [alt \in 0 .. 2 |-> CASE alt = 0 -> FactoryAddr
                                     [] alt = 1 -> UpgradeAddr
                                     [] alt = 2 -> DataAddr]
UploadEnd ==
  [alt \in 0 .. 2 |-> CASE alt = 0 /\ FactorySize > 0 -> FactoryAddr + FactorySize
                        [] alt = 1 /\ dfu_image_ctx > 0 -> UpgradeAddr + dfu_image_ctx
                        [] alt = 2 -> FlashSize
                        [] OTHER -> 0]

\* (Faulty variant: a last block that is not whole is not returned.)
UploadWholeBlocks(alt, block) ==
  LET addr == UploadStart[alt] + block * XferBufSize
  IN IF addr + XferBufSize <= UploadEnd[alt] THEN [i \in Offsets |-> flash[addr + i]]
     ELSE << >>

\* The reply to one DFU_UPLOAD: a whole block, or nothing at or beyond the end.
tud_dfu_upload_cb(alt, block) ==
  LET addr == UploadStart[alt] + block * XferBufSize
  IN IF addr < UploadEnd[alt] THEN [i \in Offsets |-> flash[addr + i]] ELSE << >>

-----------------------------------------------------------------------------
Next == \/ Dnload \/ DnloadEnd \/ tud_dfu_abort_cb
        \/ tud_dfu_download_cb \/ tud_dfu_manifest_cb \/ Reboot

Spec == Init /\ [][Next]_vars

-----------------------------------------------------------------------------
PartStart == <<UpgradeAddr, DataAddr>>
PartEnd == <<DataAddr, FlashSize>>
Partition(alt) == PartStart[alt] .. (PartEnd[alt] - 1)

TypeOK ==
  /\ flash \in [Addresses -> Cell]
  /\ dfu_image_ctx \in Nat
  /\ total_len \in Nat /\ bytes_avail \in Nat /\ dn_base_addr \in Nat
  /\ pc \in {"ready", "erase", "write"}
  /\ cur_addr \in Nat
  /\ tmp_buf \in [Offsets -> Cell]
  /\ dfu \in [state : {"dfuIDLE", "dfuDNBUSY", "dfuDNLOAD_IDLE", "dfuMANIFEST", "dfuERROR"},
               alt : 0 .. 2, block : Nat, off : Nat, length : 0 .. XferBufSize]
  /\ host \in [id : 0 .. MaxTransfers, len : Nat, sent : Nat, block : Nat,
                alt : 0 .. 2, fresh : BOOLEAN, phase : {"none", "sending", "done", "restarted"}]

\* The image the device boots when everything else fails is never written, whatever
\* the host does and wherever power fails (alternate setting 0 is refused, and the
\* sector address is computed from a base that abort and error leave behind).
FactoryUntouched == \A a \in Addresses : a < UpgradeAddr => flash[a] = Original(a)

\* The sector being erased and programmed lies in the partition the transfer chose:
\* the space check of tud_dfu_download_cb counts the bytes accepted so far while the
\* address comes from the block number, and after an abort the two drift apart.
SectorInTarget ==
  pc # "ready" =>
    \E alt \in 1 .. 2 : /\ dn_base_addr = PartStart[alt]
                        /\ SectorOf(cur_addr) \subseteq Partition(alt)

\* A fresh download that reached its manifestation can be read back, byte for byte, from
\* the partition the host selected: no byte of it was refused, went elsewhere or lies
\* beyond the last block tud_dfu_upload_cb answers.  An upgrade image can once the device
\* has restarted, which is when its length becomes known; data can at once.
Uploadable == host.phase = "restarted" \/ (host.phase = "done" /\ host.alt # 1)
ReadBack ==
  Uploadable /\ host.fresh => host.alt # 0 /\
    \A i \in 0 .. (host.len - 1) :
      LET reply == tud_dfu_upload_cb(host.alt, i \div XferBufSize)
      IN i % XferBufSize \in DOMAIN reply /\ reply[i % XferBufSize] = Byte(host, i)

\* A download changes only the partition of the alternate setting it was sent to.
OnlySelectedPartition ==
  [][\A a \in Addresses : flash'[a] # flash[a] => dfu.alt # 0 /\ a \in Partition(dfu.alt)]_vars

\* A fresh download is refused only if it is for the factory image or really longer
\* than its partition: a refused block does not leave a shorter image half written.
FittingImageAccepted ==
  [][(dfu.state = "dfuDNBUSY" /\ dfu'.state = "dfuERROR" /\ host.fresh)
       => host.alt = 0 \/ host.len > PartEnd[host.alt] - PartStart[host.alt]]_vars

\* The callbacks implement the partition store: whatever the host gives up, erases
\* and programs stay in the open partition, and a fresh image is laid out in order.
Selected == IF dn_base_addr = UpgradeAddr THEN 1 ELSE 2
OpenNow ==
  IF dn_base_addr = 0 THEN [part |-> 0, img |-> <<0, 0>>, got |-> 0]
  ELSE IF host.fresh
  THEN [part |-> Selected, img |-> <<host.id, host.len>>, got |-> total_len]
  ELSE [part |-> Selected, img |-> <<0, 0>>, got |-> 0]
TornNow ==
  IF pc = "write" THEN [at |-> cur_addr, will |-> tmp_buf, n |-> dfu.length]
  ELSE [at |-> 0, will |-> << >>, n |-> 0]
Store == INSTANCE PartitionStore WITH
  SectorSize <- XferBufSize, Start <- PartStart, End <- PartEnd,
  Images <- (1 .. MaxTransfers) \X ImageLens,
  store <- flash, open <- OpenNow, torn <- TornNow
ImplementsStore == Store!ASpec
=============================================================================
