-------------------------- MODULE DfuDownloadProofs -------------------------
(***************************************************************************)
(* Proofs about DfuDownload for every flash layout, image size and number  *)
(* of transfers.  The facts TLC checks (FactoryUntouched, SectorInTarget)  *)
(* are not inductive: they need how the file's static variables relate to   *)
(* the block the class is serving, in particular after a transfer that was  *)
(* given up, when total_len counts more than this transfer's bytes.         *)
(***************************************************************************)
EXTENDS DfuDownload, TLAPS

\* The static variables name one partition, its size, and no more bytes than it holds.
StaticsInv ==
  /\ dn_base_addr \in {0, UpgradeAddr, DataAddr}
  /\ dn_base_addr = UpgradeAddr => bytes_avail = DataAddr - UpgradeAddr
  /\ dn_base_addr = DataAddr => bytes_avail = FlashSize - DataAddr
  /\ dn_base_addr # 0 => total_len <= bytes_avail

\* Where block b of an image starts in it.
OffsetOf(b) == b * XferBufSize

\* Blocks before the last are whole, so a block's offset is its number times the
\* block size, and the bytes before it have been counted.
BlockInv ==
  /\ dfu.state = "dfuDNLOAD_IDLE" =>
       /\ dn_base_addr # 0 /\ total_len >= host.sent
       /\ host.sent = OffsetOf(host.block) \/ host.sent = host.len
  /\ dfu.state = "dfuDNBUSY" =>
       /\ dfu.length > 0
       /\ dfu.off = OffsetOf(dfu.block)
       /\ host.sent = dfu.off + dfu.length
       /\ host.block = dfu.block + 1
       /\ dfu.length = XferBufSize \/ host.sent = host.len
       /\ IF dn_base_addr = 0 THEN dfu.off = 0 ELSE total_len >= dfu.off
  /\ host.sent <= host.len

\* The callback in progress works on the sector of the block the class handed it.
CallbackInv ==
  pc # "ready" =>
    /\ dfu.state = "dfuDNBUSY"
    /\ dn_base_addr # 0
    /\ cur_addr = dn_base_addr + OffsetOf(dfu.block)
    /\ bytes_avail - total_len >= dfu.length

Inv == TypeOK /\ StaticsInv /\ BlockInv /\ CallbackInv /\ FactoryUntouched
-----------------------------------------------------------------------------
(* Arithmetic of the layout                                                  *)

\* Partitions are made of whole sectors and follow one another after address 0.
LEMMA LayoutFacts ==
  /\ XferBufSize \in Nat \ {0}
  /\ UpgradeAddr \in Nat /\ DataAddr \in Nat /\ FlashSize \in Nat
  /\ 0 < UpgradeAddr /\ UpgradeAddr < DataAddr /\ DataAddr < FlashSize
<1>1. /\ XferBufSize \in Nat \ {0}
      /\ UpgradeSector \in Nat /\ DataSector \in Nat /\ FlashSectors \in Nat
      /\ 0 < UpgradeSector /\ UpgradeSector < DataSector /\ DataSector < FlashSectors
  BY LayoutAssumption
<1>2. \A m, n \in Nat : m < n => m * XferBufSize < n * XferBufSize
  BY <1>1
<1>3. \A n \in Nat : n * XferBufSize \in Nat
  BY <1>1
<1>4. 0 < UpgradeSector * XferBufSize
  BY <1>1, <1>2
<1> QED
  BY <1>1, <1>2, <1>3, <1>4 DEF UpgradeAddr, DataAddr, FlashSize

\* A block that starts inside a partition of whole sectors ends inside it.
LEMMA BlockEndsInside ==
  ASSUME NEW s \in Nat, NEW e \in Nat, NEW b \in Nat,
         b * XferBufSize < e * XferBufSize - s * XferBufSize
  PROVE  s * XferBufSize + b * XferBufSize + XferBufSize <= e * XferBufSize
<1>1. XferBufSize \in Nat \ {0}
  BY LayoutAssumption
<1>2. \A m, n \in Nat : m <= n => m * XferBufSize <= n * XferBufSize
  BY <1>1
<1>3. (s + b) * XferBufSize < e * XferBufSize
  BY <1>1
<1>4. s + b < e
  <2>1. s + b \in Nat /\ ~(s + b < e) => e <= s + b
    OBVIOUS
  <2> QED
    BY <2>1, <1>1, <1>2, <1>3
<1>5. (s + b + 1) * XferBufSize <= e * XferBufSize
  BY <1>2, <1>4
<1> QED
  BY <1>1, <1>5

\* Offsets are natural numbers, and the first block starts at 0.
LEMMA OffsetNat == OffsetOf(0) = 0 /\ \A b \in Nat : OffsetOf(b) \in Nat
BY LayoutFacts DEF OffsetOf

\* The sector of a block that passed the space check is in the partition selected.
LEMMA SpaceCheck ==
  ASSUME NEW base, NEW avail, NEW total \in Nat, NEW b \in Nat, NEW n \in Nat,
         \/ base = UpgradeAddr /\ avail = DataAddr - UpgradeAddr
         \/ base = DataAddr /\ avail = FlashSize - DataAddr,
         n > 0, avail - total >= n, total >= OffsetOf(b)
  PROVE  \E alt \in 1 .. 2 :
           /\ base = PartStart[alt]
           /\ SectorOf(base + OffsetOf(b)) \subseteq Partition(alt)
<1>1. OffsetOf(b) \in Nat
  BY OffsetNat
<1>2. OffsetOf(b) < avail
  BY <1>1, LayoutFacts
<1>3. CASE base = UpgradeAddr /\ avail = DataAddr - UpgradeAddr
  <2>1. base + OffsetOf(b) + XferBufSize <= DataAddr
    BY <1>2, <1>3, BlockEndsInside, LayoutAssumption DEF UpgradeAddr, DataAddr, OffsetOf
  <2>2. SectorOf(base + OffsetOf(b)) \subseteq Partition(1)
    BY <1>1, <1>3, <2>1, LayoutFacts DEF SectorOf, Partition, PartStart, PartEnd
  <2> QED
    BY <1>3, <2>2 DEF PartStart
<1>4. CASE base = DataAddr /\ avail = FlashSize - DataAddr
  <2>1. base + OffsetOf(b) + XferBufSize <= FlashSize
    BY <1>2, <1>4, BlockEndsInside, LayoutAssumption DEF DataAddr, FlashSize, OffsetOf
  <2>2. SectorOf(base + OffsetOf(b)) \subseteq Partition(2)
    BY <1>1, <1>4, <2>1, LayoutFacts DEF SectorOf, Partition, PartStart, PartEnd
  <2> QED
    BY <1>4, <2>2 DEF PartStart
<1> QED
  BY <1>3, <1>4

\* Partitions lie in flash, above the factory image.
LEMMA PartitionInFlash ==
  ASSUME NEW alt \in 1 .. 2, NEW a \in Partition(alt)
  PROVE  a \in Addresses /\ a >= UpgradeAddr
BY LayoutFacts DEF Partition, PartStart, PartEnd, Addresses

\* With the invariant, the sector of the callback in progress is in its partition.
LEMMA CallbackSector == Inv => SectorInTarget
<1> SUFFICES ASSUME Inv, pc # "ready" PROVE SectorInTarget
  BY DEF SectorInTarget
<1>1. /\ total_len \in Nat /\ dfu.block \in Nat /\ dfu.length \in Nat
      /\ dfu.length > 0
      /\ bytes_avail - total_len >= dfu.length
      /\ total_len >= OffsetOf(dfu.block)
      /\ cur_addr = dn_base_addr + OffsetOf(dfu.block)
  BY DEF Inv, TypeOK, BlockInv, CallbackInv
<1>2. \/ dn_base_addr = UpgradeAddr /\ bytes_avail = DataAddr - UpgradeAddr
      \/ dn_base_addr = DataAddr /\ bytes_avail = FlashSize - DataAddr
  BY DEF Inv, StaticsInv, CallbackInv
<1> QED
  BY <1>1, <1>2, SpaceCheck DEF SectorInTarget
-----------------------------------------------------------------------------
(* The invariant                                                             *)

LEMMA InitInv == Init => Inv
<1> SUFFICES ASSUME Init PROVE Inv
  OBVIOUS
<1> USE LayoutFacts DEF Init
<1>1. TypeOK
  <2>1. \A a \in Addresses : Original(a) \in Cell
    BY LayoutAssumption DEF Addresses, Original, Cell
  <2>2. Blank \in Cell
    BY LayoutAssumption DEF Blank, Cell
  <2>3. flash \in [Addresses -> Cell] /\ tmp_buf \in [Offsets -> Cell]
    BY <2>1, <2>2 DEF NoBuffer
  <2>4. dfu \in [state : {"dfuIDLE", "dfuDNBUSY", "dfuDNLOAD_IDLE", "dfuMANIFEST", "dfuERROR"},
                 alt : 0 .. 2, block : Nat, off : Nat, length : 0 .. XferBufSize]
    BY DEF DfuReset
  <2>5. host \in [id : 0 .. MaxTransfers, len : Nat, sent : Nat, block : Nat,
                  alt : 0 .. 2, fresh : BOOLEAN, phase : {"none", "sending", "done", "restarted"}]
    BY LayoutAssumption DEF NoTransfer
  <2> QED
    BY <2>3, <2>4, <2>5 DEF TypeOK
<1>2. StaticsInv
  BY DEF StaticsInv
<1>3. BlockInv /\ CallbackInv /\ FactoryUntouched
  BY DEF BlockInv, CallbackInv, FactoryUntouched, DfuReset, NoTransfer
<1> QED
  BY <1>1, <1>2, <1>3 DEF Inv

HostType == [id : 0 .. MaxTransfers, len : Nat, sent : Nat, block : Nat,
             alt : 0 .. 2, fresh : BOOLEAN, phase : {"none", "sending", "done", "restarted"}]

\* Handing the next n bytes of transfer h to the class keeps the invariant.
LEMMA BlockHandedOver ==
  ASSUME Inv, pc = "ready",
         NEW h \in HostType, NEW n \in 1 .. XferBufSize,
         h.sent = OffsetOf(h.block),
         dn_base_addr = 0 => h.sent = 0,
         dn_base_addr # 0 => total_len >= h.sent,
         h.sent + n <= h.len, n = XferBufSize \/ h.sent + n = h.len,
         dfu' = [dfu EXCEPT !.state = "dfuDNBUSY", !.block = h.block,
                            !.off = h.sent, !.length = n],
         host' = [h EXCEPT !.sent = h.sent + n, !.block = h.block + 1],
         UNCHANGED <<dfu_image_ctx, flash, statics, callback>>
  PROVE  Inv'
<1>1. n \in Nat /\ n > 0 /\ n \in 0 .. XferBufSize
  BY LayoutFacts
<1>2. h.sent + n \in Nat /\ h.block + 1 \in Nat /\ h.sent \in Nat /\ h.block \in Nat
  BY <1>1 DEF HostType
<1>3. dfu' \in [state : {"dfuIDLE", "dfuDNBUSY", "dfuDNLOAD_IDLE", "dfuMANIFEST", "dfuERROR"},
                alt : 0 .. 2, block : Nat, off : Nat, length : 0 .. XferBufSize]
  BY <1>1, <1>2 DEF Inv, TypeOK
<1>4. host' \in HostType
  BY <1>2 DEF HostType
<1>5. TypeOK'
  BY <1>3, <1>4 DEF Inv, TypeOK, HostType, statics, callback
<1>6. StaticsInv' /\ CallbackInv' /\ FactoryUntouched'
  BY DEF Inv, StaticsInv, CallbackInv, FactoryUntouched, statics, callback
<1>7. /\ dfu'.state = "dfuDNBUSY" /\ dfu'.length = n /\ dfu'.off = h.sent
      /\ dfu'.block = h.block
  BY DEF Inv, TypeOK
<1>8. host'.sent = h.sent + n /\ host'.block = h.block + 1 /\ host'.len = h.len
  BY DEF HostType
<1>9. BlockInv'
  BY <1>1, <1>7, <1>8 DEF BlockInv, statics
<1> QED
  BY <1>5, <1>6, <1>9 DEF Inv

LEMMA DnloadInv == Inv /\ Dnload => Inv'
<1> SUFFICES ASSUME Inv, Dnload PROVE Inv'
  OBVIOUS
<1> DEFINE Chunk(h) == IF h.len - h.sent < XferBufSize THEN h.len - h.sent ELSE XferBufSize
           Handed(h) == /\ h.id <= MaxTransfers /\ h.sent < h.len
                        /\ dfu' = [dfu EXCEPT !.state = "dfuDNBUSY", !.block = h.block,
                                              !.off = h.sent, !.length = Chunk(h)]
                        /\ host' = [h EXCEPT !.sent = h.sent + Chunk(h),
                                             !.block = h.block + 1]
           News == [id : {host.id + 1}, len : ImageLens, sent : {0}, block : {0},
                    alt : {dfu.alt}, fresh : {dn_base_addr = 0}, phase : {"sending"}]
<1>1. pc = "ready" /\ UNCHANGED <<dfu_image_ctx, flash, statics, callback>>
  BY DEF Dnload, Quiet
<1>2. ASSUME NEW h \in HostType, Handed(h), h.sent = OffsetOf(h.block),
             dn_base_addr = 0 => h.sent = 0, dn_base_addr # 0 => total_len >= h.sent
      PROVE  Inv'
  <2>1. h.len \in Nat /\ h.sent \in Nat /\ h.sent < h.len
    BY <1>2 DEF HostType
  <2>2. /\ Chunk(h) \in 1 .. XferBufSize /\ h.sent + Chunk(h) <= h.len
        /\ Chunk(h) = XferBufSize \/ h.sent + Chunk(h) = h.len
    BY <2>1, LayoutFacts
  <2> HIDE DEF Chunk
  <2> QED
    BY <1>1, <1>2, <2>2, BlockHandedOver
<1>3. CASE dfu.state = "dfuDNLOAD_IDLE"
  <2>1. Handed(host)
    BY <1>3 DEF Dnload
  <2>2. host \in HostType
    BY DEF Inv, TypeOK, HostType
  <2>3. /\ host.sent = OffsetOf(host.block)
        /\ dn_base_addr # 0 /\ total_len >= host.sent
    BY <1>3, <2>1 DEF Inv, TypeOK, BlockInv
  <2> QED
    BY <1>2, <2>1, <2>2, <2>3
<1>4. CASE dfu.state # "dfuDNLOAD_IDLE"
  <2>1. PICK h \in News : Handed(h)
    BY <1>4 DEF Dnload
  <2>2. /\ h.id = host.id + 1 /\ h.len \in ImageLens /\ h.sent = 0 /\ h.block = 0
        /\ h.alt = dfu.alt /\ h.fresh \in BOOLEAN /\ h.phase = "sending"
    BY <2>1
  <2>3. h.id \in 0 .. MaxTransfers
    BY <2>1, <2>2, LayoutAssumption DEF Inv, TypeOK
  <2>4. h \in HostType
    BY <2>1, <2>2, <2>3, LayoutAssumption DEF Inv, TypeOK, HostType
  <2>5. h.sent = OffsetOf(h.block) /\ (dn_base_addr # 0 => total_len >= h.sent)
    BY <2>2, OffsetNat DEF Inv, TypeOK
  <2> QED
    BY <1>2, <2>1, <2>2, <2>4, <2>5
<1> QED
  BY <1>3, <1>4

\* The partition tud_dfu_download_cb writes, chosen now or left by an earlier block.
LEMMA TargetFacts ==
  ASSUME Inv, NEW alt \in {1, 2}
  PROVE  LET t == TargetOf(alt)
         IN /\ t.total \in Nat /\ t.avail \in Nat /\ t.total <= t.avail
            /\ \/ t.base = UpgradeAddr /\ t.avail = DataAddr - UpgradeAddr
               \/ t.base = DataAddr /\ t.avail = FlashSize - DataAddr
            /\ dn_base_addr # 0 => t.total = total_len
<1> QED
  BY LayoutFacts DEF Inv, TypeOK, StaticsInv, TargetOf

LEMMA DownloadReadInv == Inv /\ DownloadRead => Inv'
<1> SUFFICES ASSUME Inv, DownloadRead PROVE Inv'
  OBVIOUS
<1> DEFINE t == TargetOf(dfu.alt)
           a == t.base + OffsetOf(dfu.block)
<1>1. /\ pc = "ready" /\ dfu.state = "dfuDNBUSY" /\ dfu.alt \in {1, 2}
      /\ t.avail - t.total >= dfu.length
      /\ dn_base_addr' = t.base /\ bytes_avail' = t.avail /\ total_len' = t.total
      /\ cur_addr' = a
      /\ tmp_buf' = [i \in Offsets |-> IF i < dfu.length
                                       THEN Byte(host, dfu.off + i) ELSE flash[a + i]]
      /\ pc' = "erase"
      /\ UNCHANGED <<dfu_image_ctx, flash, dfu, host>>
  BY DEF DownloadRead, BlockAddr, Fits, Patched, OffsetOf
<1>2. /\ t.total \in Nat /\ t.avail \in Nat /\ t.total <= t.avail
      /\ \/ t.base = UpgradeAddr /\ t.avail = DataAddr - UpgradeAddr
         \/ t.base = DataAddr /\ t.avail = FlashSize - DataAddr
      /\ dn_base_addr # 0 => t.total = total_len
  BY <1>1, TargetFacts
<1> HIDE DEF t
<1>3. /\ dfu.block \in Nat /\ dfu.length \in Nat /\ dfu.off \in Nat
      /\ dfu.length > 0 /\ dfu.off = OffsetOf(dfu.block)
      /\ t.total >= dfu.off
  BY <1>1, <1>2 DEF Inv, TypeOK, BlockInv
<1>4. PICK alt \in 1 .. 2 : SectorOf(a) \subseteq Partition(alt)
  BY <1>1, <1>2, <1>3, SpaceCheck
<1>5. \A i \in Offsets : a + i \in Addresses
  <2> SUFFICES ASSUME NEW i \in Offsets PROVE a + i \in Addresses
    OBVIOUS
  <2>1. a \in Nat
    BY <1>2, <1>3, LayoutFacts
  <2>2. a + i \in SectorOf(a)
    BY <2>1, LayoutFacts DEF Offsets, SectorOf
  <2> QED
    BY <2>2, <1>4, PartitionInFlash
<1>6. \A i \in Offsets : Byte(host, dfu.off + i) \in Cell
  <2> SUFFICES ASSUME NEW i \in Offsets PROVE Byte(host, dfu.off + i) \in Cell
    OBVIOUS
  <2>1. host.id \in 0 .. MaxTransfers /\ host.len \in Nat
    BY DEF Inv, TypeOK
  <2>2. dfu.off + i \in Nat
    BY <1>3, LayoutFacts DEF Offsets
  <2> QED
    BY <2>1, <2>2, LayoutAssumption DEF Byte, Cell
<1>7. tmp_buf' \in [Offsets -> Cell]
  BY <1>1, <1>5, <1>6 DEF Inv, TypeOK
<1>8. a \in Nat /\ t.base \in Nat /\ t.base # 0
  BY <1>2, <1>3, LayoutFacts
<1>9. TypeOK'
  BY <1>1, <1>2, <1>7, <1>8 DEF Inv, TypeOK
<1>10. StaticsInv'
  BY <1>1, <1>2, LayoutFacts DEF StaticsInv
<1>11. BlockInv'
  BY <1>1, <1>3, <1>8 DEF Inv, BlockInv
<1>12. CallbackInv'
  BY <1>1, <1>8 DEF CallbackInv
<1>13. FactoryUntouched'
  BY <1>1 DEF Inv, FactoryUntouched
<1> QED
  BY <1>9, <1>10, <1>11, <1>12, <1>13 DEF Inv

LEMMA DownloadNoSpaceInv == Inv /\ DownloadNoSpace => Inv'
<1> SUFFICES ASSUME Inv, DownloadNoSpace PROVE Inv'
  OBVIOUS
<1> DEFINE t == TargetOf(dfu.alt)
<1>1. /\ pc = "ready" /\ dfu.state = "dfuDNBUSY" /\ dfu.alt \in {1, 2}
      /\ dn_base_addr' = t.base /\ bytes_avail' = t.avail /\ total_len' = t.total
      /\ dfu' = [dfu EXCEPT !.state = "dfuERROR"]
      /\ UNCHANGED <<dfu_image_ctx, flash, pc, cur_addr, tmp_buf, host>>
  BY DEF DownloadNoSpace, finish_flashing, callback
<1>2. /\ t.total \in Nat /\ t.avail \in Nat /\ t.total <= t.avail
      /\ \/ t.base = UpgradeAddr /\ t.avail = DataAddr - UpgradeAddr
         \/ t.base = DataAddr /\ t.avail = FlashSize - DataAddr
  BY <1>1, TargetFacts
<1> HIDE DEF t
<1>3. TypeOK'
  BY <1>1, <1>2, LayoutFacts DEF Inv, TypeOK
<1>4. StaticsInv'
  BY <1>1, <1>2, LayoutFacts DEF StaticsInv
<1>5. BlockInv' /\ CallbackInv' /\ FactoryUntouched'
  BY <1>1 DEF Inv, TypeOK, BlockInv, CallbackInv, FactoryUntouched
<1> QED
  BY <1>3, <1>4, <1>5 DEF Inv

\* Erasing or programming the sector of the callback in progress leaves the factory
\* image alone, whatever goes into the sector.
LEMMA SectorWrite ==
  ASSUME Inv, pc # "ready",
         NEW f, \A x \in SectorOf(cur_addr) : f[x] \in Cell,
         flash' = [x \in Addresses |-> IF x \in SectorOf(cur_addr) THEN f[x] ELSE flash[x]]
  PROVE  flash' \in [Addresses -> Cell] /\ FactoryUntouched'
<1>1. SectorInTarget
  BY CallbackSector
<1>2. PICK alt \in 1 .. 2 : SectorOf(cur_addr) \subseteq Partition(alt)
  BY <1>1 DEF SectorInTarget
<1>3. \A x \in SectorOf(cur_addr) : x >= UpgradeAddr
  BY <1>2, PartitionInFlash
<1>4. flash' \in [Addresses -> Cell]
  BY DEF Inv, TypeOK
<1>5. \A x \in Addresses : x < UpgradeAddr => x \notin SectorOf(cur_addr)
  BY <1>3, LayoutFacts DEF Addresses
<1>6. FactoryUntouched'
  BY <1>5 DEF Inv, FactoryUntouched
<1> QED
  BY <1>4, <1>6

LEMMA DownloadEraseInv == Inv /\ DownloadErase => Inv'
<1> SUFFICES ASSUME Inv, DownloadErase PROVE Inv'
  OBVIOUS
<1> DEFINE f == [x \in SectorOf(cur_addr) |-> Blank]
<1>1. Blank \in Cell
  BY LayoutAssumption DEF Blank, Cell
<1>2. \A x \in SectorOf(cur_addr) : f[x] \in Cell
  BY <1>1
<1>3. flash' = [x \in Addresses |-> IF x \in SectorOf(cur_addr) THEN f[x] ELSE flash[x]]
  BY DEF DownloadErase
<1>4. pc = "erase" /\ pc' = "write" /\ UNCHANGED <<dfu_image_ctx, statics, cur_addr, tmp_buf, dfu, host>>
  BY DEF DownloadErase
<1> HIDE DEF f
<1>5. flash' \in [Addresses -> Cell] /\ FactoryUntouched'
  BY <1>2, <1>3, <1>4, SectorWrite
<1>6. TypeOK'
  BY <1>4, <1>5 DEF Inv, TypeOK, statics
<1>7. StaticsInv' /\ BlockInv' /\ CallbackInv'
  BY <1>4 DEF Inv, StaticsInv, BlockInv, CallbackInv, statics
<1> QED
  BY <1>5, <1>6, <1>7 DEF Inv

LEMMA DownloadWriteInv == Inv /\ DownloadWrite => Inv'
<1> SUFFICES ASSUME Inv, DownloadWrite PROVE Inv'
  OBVIOUS
<1> DEFINE f == [x \in SectorOf(cur_addr) |-> tmp_buf[x - cur_addr]]
<1>1. cur_addr \in Nat /\ tmp_buf \in [Offsets -> Cell]
  BY DEF Inv, TypeOK
<1>2. \A x \in SectorOf(cur_addr) : x - cur_addr \in Offsets
  BY <1>1, LayoutFacts DEF SectorOf, Offsets
<1>3. \A x \in SectorOf(cur_addr) : f[x] \in Cell
  BY <1>1, <1>2
<1>4. flash' = [x \in Addresses |-> IF x \in SectorOf(cur_addr) THEN f[x] ELSE flash[x]]
  BY DEF DownloadWrite
<1>5. pc = "write" /\ dfu.state = "dfuDNBUSY" /\ dn_base_addr # 0
  BY DEF DownloadWrite, Inv, CallbackInv
<1>6. /\ total_len' = total_len + dfu.length
      /\ pc' = "ready" /\ cur_addr' = 0 /\ tmp_buf' = NoBuffer
      /\ dfu' = [dfu EXCEPT !.state = "dfuDNLOAD_IDLE"]
      /\ UNCHANGED <<dfu_image_ctx, bytes_avail, dn_base_addr, host>>
  BY <1>5 DEF DownloadWrite, finish_flashing
<1> HIDE DEF f
<1>7. flash' \in [Addresses -> Cell] /\ FactoryUntouched'
  BY <1>3, <1>4, <1>5, SectorWrite
<1>8. /\ total_len \in Nat /\ bytes_avail \in Nat /\ dfu.length \in Nat /\ dfu.off \in Nat
      /\ bytes_avail - total_len >= dfu.length /\ total_len >= dfu.off
      /\ host.sent = dfu.off + dfu.length /\ host.block = dfu.block + 1
      /\ dfu.length = XferBufSize \/ host.sent = host.len
      /\ dfu.off = OffsetOf(dfu.block) /\ dfu.block \in Nat
  BY <1>5 DEF Inv, TypeOK, BlockInv, CallbackInv
<1>9. TypeOK'
  <2>1. NoBuffer \in [Offsets -> Cell]
    <3>1. Blank \in Cell
      BY LayoutAssumption DEF Blank, Cell
    <3> QED
      BY <3>1 DEF NoBuffer
  <2> QED
    BY <1>6, <1>7, <1>8, <2>1 DEF Inv, TypeOK
<1>10. StaticsInv'
  BY <1>6, <1>8 DEF Inv, StaticsInv
<1>11. OffsetOf(dfu.block) + XferBufSize = OffsetOf(dfu.block + 1)
  BY <1>8, LayoutFacts DEF OffsetOf
<1>12. /\ total_len' >= host.sent
       /\ host.sent = OffsetOf(host.block) \/ host.sent = host.len
  BY <1>6, <1>8, <1>11
<1>13. dfu'.state = "dfuDNLOAD_IDLE"
  BY <1>6 DEF Inv, TypeOK
<1>14. BlockInv'
  BY <1>5, <1>6, <1>12, <1>13 DEF Inv, BlockInv
<1>15. CallbackInv'
  BY <1>6 DEF CallbackInv
<1> QED
  BY <1>7, <1>9, <1>10, <1>14, <1>15 DEF Inv

\* Requests that only move the class, the factory refusal and the manifestation.
LEMMA ClassStepInv ==
  Inv /\ (DnloadEnd \/ tud_dfu_abort_cb \/ DownloadRefused \/ tud_dfu_manifest_cb) => Inv'
<1> USE LayoutFacts DEF Inv
<1>1. ASSUME Inv, DnloadEnd PROVE Inv'
  <2> USE <1>1 DEF DnloadEnd, Quiet, statics, callback
  <2>1. TypeOK'
    BY DEF TypeOK
  <2>2. StaticsInv' /\ BlockInv' /\ CallbackInv' /\ FactoryUntouched'
    BY DEF TypeOK, StaticsInv, BlockInv, CallbackInv, FactoryUntouched
  <2> QED
    BY <2>1, <2>2
<1>2. ASSUME Inv, tud_dfu_abort_cb PROVE Inv'
  <2> USE <1>2 DEF tud_dfu_abort_cb, Quiet, statics, callback, DfuReset
  <2>1. TypeOK'
    BY DEF TypeOK
  <2>2. StaticsInv' /\ BlockInv' /\ CallbackInv' /\ FactoryUntouched'
    BY DEF TypeOK, StaticsInv, BlockInv, CallbackInv, FactoryUntouched
  <2> QED
    BY <2>1, <2>2
<1>3. ASSUME Inv, DownloadRefused PROVE Inv'
  <2> USE <1>3 DEF DownloadRefused, finish_flashing, statics, callback
  <2>1. TypeOK'
    BY DEF TypeOK
  <2>2. StaticsInv' /\ BlockInv' /\ CallbackInv' /\ FactoryUntouched'
    BY DEF TypeOK, StaticsInv, BlockInv, CallbackInv, FactoryUntouched
  <2> QED
    BY <2>1, <2>2
<1>4. ASSUME Inv, tud_dfu_manifest_cb PROVE Inv'
  <2> USE <1>4 DEF tud_dfu_manifest_cb, finish_flashing, callback
  <2>1. TypeOK'
    BY DEF TypeOK
  <2>2. StaticsInv' /\ BlockInv' /\ CallbackInv' /\ FactoryUntouched'
    BY DEF TypeOK, StaticsInv, BlockInv, CallbackInv, FactoryUntouched
  <2> QED
    BY <2>1, <2>2
<1> QED
  BY <1>1, <1>2, <1>3, <1>4

\* The length in a header is a number.
LEMMA SizeNat == TypeOK => UpgradeSize \in Nat
<1>1. TypeOK => flash[UpgradeAddr] \in Cell
  BY LayoutFacts DEF TypeOK, Addresses
<1>2. \A c \in Cell : c[3] \in Nat
  BY DEF Cell
<1> QED
  BY <1>1, <1>2 DEF UpgradeSize

\* A power cut in the middle of anything.
LEMMA RebootInv == Inv /\ Reboot => Inv'
<1> SUFFICES ASSUME Inv, Reboot PROVE Inv'
  OBVIOUS
<1> USE LayoutFacts DEF Inv, Reboot
<1>1. NoBuffer \in [Offsets -> Cell]
  <2>1. Blank \in Cell
    BY LayoutAssumption DEF Blank, Cell
  <2> QED
    BY <2>1 DEF NoBuffer
<1>2. TypeOK'
  BY <1>1, SizeNat DEF TypeOK, DfuReset
<1>3. StaticsInv' /\ BlockInv' /\ CallbackInv' /\ FactoryUntouched'
  BY DEF TypeOK, StaticsInv, BlockInv, CallbackInv, FactoryUntouched, DfuReset
<1> QED
  BY <1>2, <1>3

THEOREM Invariance == Spec => []Inv
<1>1. Inv /\ UNCHANGED vars => Inv'
  BY DEF vars, Inv, TypeOK, StaticsInv, BlockInv, CallbackInv, FactoryUntouched
<1>2. Inv /\ [Next]_vars => Inv'
  BY <1>1, DnloadInv, ClassStepInv, DownloadReadInv, DownloadNoSpaceInv, DownloadEraseInv,
     DownloadWriteInv, RebootInv DEF Next, tud_dfu_download_cb
<1> QED
  BY InitInv, <1>2, PTL DEF Spec

-----------------------------------------------------------------------------
(* The results                                                               *)

\* The statics, the callback's locals and the class always have their types.
THEOREM TypeCorrect == Spec => []TypeOK
<1>1. Inv => TypeOK
  BY DEF Inv
<1> QED
  BY <1>1, Invariance, PTL

\* No sequence of downloads, aborts, refusals and power cuts changes a byte below the
\* upgrade partition, whatever the layout and the images.
THEOREM FactorySafe == Spec => []FactoryUntouched
<1>1. Inv => FactoryUntouched
  BY DEF Inv
<1> QED
  BY <1>1, Invariance, PTL

\* What tud_dfu_download_cb erases and programs is inside the partition it selected.
THEOREM TargetSafe == Spec => []SectorInTarget
BY Invariance, CallbackSector, PTL

-----------------------------------------------------------------------------
(***************************************************************************)
(* The refinement of PartitionStore, and what is read back.  Both need,     *)
(* beyond the invariant above, what a transfer that found no partition      *)
(* selected (host.fresh) knows and one that follows an abort does not: its  *)
(* bytes are counted exactly, in the partition the host chose, and the ones *)
(* before the block being served are in flash.                              *)
(***************************************************************************)

\* The class is in the middle of a transfer.
Transferring == dfu.state \in {"dfuDNBUSY", "dfuDNLOAD_IDLE", "dfuMANIFEST"}

\* The bytes of the image before the block the class serves.
Confirmed == IF dfu.state = "dfuDNBUSY" THEN dfu.off ELSE host.sent

\* The first n bytes of the host's image are in flash from address a on.
Laid(a, n) == \A i \in 0 .. (n - 1) : flash[a + i] = Byte(host, i)

\* The transfer under way is one of the host's images; only a fresh one may still have
\* to choose its partition.
HostInv ==
  Transferring =>
    /\ host.phase = "sending" /\ host.id > 0 /\ host.len \in ImageLens
    /\ dn_base_addr = 0 => host.fresh
    /\ host.fresh => host.alt = dfu.alt
    /\ dfu.state = "dfuMANIFEST" => dn_base_addr # 0 /\ host.sent = host.len

\* A fresh transfer is counted exactly and lies in the partition it named.
FreshInv ==
  Transferring /\ host.fresh /\ dn_base_addr # 0 =>
    /\ dfu.alt # 0 /\ dn_base_addr = PartStart[dfu.alt]
    /\ total_len = Confirmed
    /\ Laid(dn_base_addr, Confirmed)

\* The buffer holds the block, and until the erase the rest of its sector.
BufferInv ==
  /\ pc = "erase" => tmp_buf = Patched(cur_addr, dfu.length)
  /\ pc = "write" => \A i \in Offsets : i < dfu.length => tmp_buf[i] = Byte(host, dfu.off + i)

\* A fresh transfer that was manifested is whole in its partition.
DoneInv ==
  host.phase \in {"done", "restarted"} /\ host.fresh =>
    /\ host.id > 0 /\ host.len > 0 /\ host.alt # 0
    /\ host.len <= PartEnd[host.alt] - PartStart[host.alt]
    /\ Laid(PartStart[host.alt], host.len)

StoreInv == Inv /\ HostInv /\ FreshInv /\ BufferInv /\ DoneInv
-----------------------------------------------------------------------------
(* The invariant                                                             *)

\* The two partitions as the host numbers them.
LEMMA PartitionBounds ==
  /\ PartStart[1] = UpgradeAddr /\ PartStart[2] = DataAddr
  /\ PartEnd[1] = DataAddr /\ PartEnd[2] = FlashSize
BY DEF PartStart, PartEnd

LEMMA StoreInitInv == Init => StoreInv
<1> SUFFICES ASSUME Init PROVE StoreInv
  OBVIOUS
<1>1. Inv
  BY InitInv
<1>2. HostInv /\ FreshInv /\ BufferInv /\ DoneInv
  BY DEF Init, HostInv, FreshInv, BufferInv, DoneInv, Transferring, DfuReset, NoTransfer
<1> QED
  BY <1>1, <1>2 DEF StoreInv

\* Another block of the transfer, or the first of a new one.
LEMMA DnloadStoreInv == StoreInv /\ Dnload => StoreInv'
<1> SUFFICES ASSUME StoreInv, Dnload PROVE StoreInv'
  OBVIOUS
<1> DEFINE Chunk(h) == IF h.len - h.sent < XferBufSize THEN h.len - h.sent ELSE XferBufSize
           Handed(h) == /\ h.id <= MaxTransfers /\ h.sent < h.len
                        /\ dfu' = [dfu EXCEPT !.state = "dfuDNBUSY", !.block = h.block,
                                              !.off = h.sent, !.length = Chunk(h)]
                        /\ host' = [h EXCEPT !.sent = h.sent + Chunk(h),
                                             !.block = h.block + 1]
           News == [id : {host.id + 1}, len : ImageLens, sent : {0}, block : {0},
                    alt : {dfu.alt}, fresh : {dn_base_addr = 0}, phase : {"sending"}]
<1>1. pc = "ready" /\ UNCHANGED <<dfu_image_ctx, flash, total_len, bytes_avail, dn_base_addr, pc, cur_addr, tmp_buf>>
  BY DEF Dnload, Quiet, statics, callback
<1>2. Inv' /\ BufferInv'
  BY <1>1, DnloadInv DEF StoreInv, BufferInv
<1>3. CASE dfu.state = "dfuDNLOAD_IDLE"
  <2>1. Handed(host)
    BY <1>3 DEF Dnload
  <2> HIDE DEF Chunk
  <2>2. /\ dfu'.state = "dfuDNBUSY" /\ dfu'.alt = dfu.alt /\ dfu'.off = host.sent
        /\ host'.id = host.id /\ host'.len = host.len /\ host'.alt = host.alt
        /\ host'.fresh = host.fresh /\ host'.phase = host.phase
    BY <2>1 DEF StoreInv, Inv, TypeOK
  <2>3. HostInv'
    BY <1>1, <1>3, <2>2 DEF StoreInv, HostInv, Transferring
  <2>4. FreshInv'
    BY <1>1, <1>3, <2>2 DEF StoreInv, FreshInv, Transferring, Confirmed, Laid, Byte
  <2>5. DoneInv'
    BY <1>3, <2>2 DEF StoreInv, HostInv, Transferring, DoneInv
  <2> QED
    BY <1>2, <2>3, <2>4, <2>5 DEF StoreInv
<1>4. CASE dfu.state # "dfuDNLOAD_IDLE"
  <2>1. PICK h \in News : Handed(h)
    BY <1>4 DEF Dnload
  <2>2. /\ dfu'.state = "dfuDNBUSY" /\ dfu'.alt = dfu.alt
        /\ host'.id = host.id + 1 /\ host'.len \in ImageLens /\ host'.alt = dfu.alt
        /\ (host'.fresh <=> dn_base_addr = 0) /\ host'.phase = "sending"
    BY <2>1 DEF StoreInv, Inv, TypeOK
  <2>3. host.id \in Nat
    BY DEF StoreInv, Inv, TypeOK
  <2>4. HostInv' /\ FreshInv' /\ DoneInv'
    BY <1>1, <2>2, <2>3 DEF HostInv, FreshInv, DoneInv, Transferring
  <2> QED
    BY <1>2, <2>4 DEF StoreInv
<1> QED
  BY <1>3, <1>4

\* Requests that only move the class, the factory refusal and the reboot.
LEMMA ClassStepStoreInv ==
  StoreInv /\ (DnloadEnd \/ tud_dfu_abort_cb \/ DownloadRefused \/ Reboot) => StoreInv'
<1> USE DEF StoreInv
<1>1. ASSUME StoreInv, DnloadEnd PROVE StoreInv'
  <2>1. Inv'
    BY <1>1, ClassStepInv
  <2>2. /\ pc = "ready" /\ dfu.state = "dfuDNLOAD_IDLE" /\ host.sent = host.len
        /\ dfu' = [dfu EXCEPT !.state = "dfuMANIFEST"]
        /\ UNCHANGED <<dfu_image_ctx, flash, total_len, bytes_avail, dn_base_addr, pc, cur_addr, tmp_buf, host>>
    BY <1>1 DEF DnloadEnd, Quiet, statics, callback
  <2>3. dn_base_addr # 0
    BY <1>1, <2>2 DEF Inv, BlockInv
  <2>4. dfu'.state = "dfuMANIFEST" /\ dfu'.alt = dfu.alt
    BY <1>1, <2>2 DEF Inv, TypeOK
  <2>5. HostInv' /\ BufferInv' /\ DoneInv'
    BY <1>1, <2>2, <2>3, <2>4 DEF HostInv, BufferInv, DoneInv, Transferring, Laid, Byte
  <2>6. FreshInv'
    BY <1>1, <2>2, <2>4 DEF FreshInv, Transferring, Confirmed, Laid, Byte
  <2> QED
    BY <2>1, <2>5, <2>6
<1>2. ASSUME StoreInv, tud_dfu_abort_cb \/ Reboot PROVE StoreInv'
  <2>1. Inv'
    BY <1>2, ClassStepInv, RebootInv
  <2>2. /\ dfu'.state = "dfuIDLE" /\ pc' = "ready" /\ flash' = flash
        /\ \/ host' = [host EXCEPT !.phase = IF host.phase = "sending" THEN "none" ELSE host.phase]
           \/ host' = [host EXCEPT !.phase = CASE host.phase = "sending" -> "none"
                                               [] host.phase = "done" -> "restarted"
                                               [] OTHER -> host.phase]
    BY <1>2 DEF tud_dfu_abort_cb, Reboot, Quiet, DfuReset, callback
  <2>3. /\ host'.id = host.id /\ host'.len = host.len /\ host'.alt = host.alt
        /\ host'.fresh = host.fresh
        /\ (host'.phase \in {"done", "restarted"} => host.phase \in {"done", "restarted"})
    BY <1>2, <2>2 DEF Inv, TypeOK
  <2>4. HostInv' /\ FreshInv' /\ BufferInv'
    BY <2>2 DEF HostInv, FreshInv, BufferInv, Transferring
  <2>5. DoneInv'
    BY <1>2, <2>2, <2>3 DEF DoneInv, Laid, Byte
  <2> QED
    BY <2>1, <2>4, <2>5
<1>3. ASSUME StoreInv, DownloadRefused PROVE StoreInv'
  <2>1. Inv'
    BY <1>3, ClassStepInv
  <2>2. /\ pc = "ready" /\ dfu' = [dfu EXCEPT !.state = "dfuERROR"]
        /\ UNCHANGED <<dfu_image_ctx, flash, pc, tmp_buf, host>>
    BY <1>3 DEF DownloadRefused, finish_flashing, callback
  <2>3. dfu'.state = "dfuERROR"
    BY <1>3, <2>2 DEF Inv, TypeOK
  <2>4. HostInv' /\ FreshInv' /\ BufferInv'
    BY <2>2, <2>3 DEF HostInv, FreshInv, BufferInv, Transferring
  <2>5. DoneInv'
    BY <1>3, <2>2 DEF DoneInv, Laid, Byte
  <2> QED
    BY <2>1, <2>4, <2>5
<1> QED
  BY <1>1, <1>2, <1>3

\* Choosing the partition, or going on in the one chosen: the block is patched in RAM.
LEMMA DownloadReadStoreInv == StoreInv /\ DownloadRead => StoreInv'
<1> SUFFICES ASSUME StoreInv, DownloadRead PROVE StoreInv'
  OBVIOUS
<1> DEFINE t == TargetOf(dfu.alt)
<1>1. /\ dfu.state = "dfuDNBUSY" /\ dfu.alt \in {1, 2}
      /\ dn_base_addr' = t.base /\ total_len' = t.total
      /\ cur_addr' = BlockAddr(t, dfu.block)
      /\ tmp_buf' = Patched(cur_addr', dfu.length)
      /\ pc' = "erase"
      /\ UNCHANGED <<dfu_image_ctx, flash, dfu, host>>
  BY DEF DownloadRead
<1>2. t.base # 0
  BY <1>1, TargetFacts, LayoutFacts DEF StoreInv
<1>3. Inv'
  BY DownloadReadInv DEF StoreInv
<1>4. HostInv' /\ DoneInv'
  BY <1>1, <1>2 DEF StoreInv, HostInv, DoneInv, Transferring, Laid, Byte
<1>5. BufferInv'
  BY <1>1 DEF BufferInv, Patched, Byte
<1>6. FreshInv'
  <2> SUFFICES ASSUME host.fresh
               PROVE  /\ t.base = PartStart[dfu.alt] /\ t.total = dfu.off
                      /\ Laid(t.base, dfu.off)
    BY <1>1 DEF FreshInv, Transferring, Confirmed, Laid, Byte
  <2>1. CASE dn_base_addr = 0
    <3>1. dfu.off = 0
      BY <1>1, <2>1 DEF StoreInv, Inv, BlockInv
    <3>2. t.base = PartStart[dfu.alt] /\ t.total = 0
      BY <1>1, <2>1, PartitionBounds DEF TargetOf
    <3> QED
      BY <3>1, <3>2 DEF Laid
  <2>2. CASE dn_base_addr # 0
    <3>1. t.base = dn_base_addr /\ t.total = total_len
      BY <2>2 DEF TargetOf
    <3> QED
      BY <1>1, <2>2, <3>1 DEF StoreInv, FreshInv, Transferring, Confirmed
  <2> QED
    BY <2>1, <2>2
<1> QED
  BY <1>3, <1>4, <1>5, <1>6 DEF StoreInv

\* A block that does not fit ends the transfer.
LEMMA DownloadNoSpaceStoreInv == StoreInv /\ DownloadNoSpace => StoreInv'
<1> SUFFICES ASSUME StoreInv, DownloadNoSpace PROVE StoreInv'
  OBVIOUS
<1>1. /\ dfu' = [dfu EXCEPT !.state = "dfuERROR"]
      /\ pc = "ready" /\ UNCHANGED <<dfu_image_ctx, flash, pc, tmp_buf, host>>
  BY DEF DownloadNoSpace, finish_flashing, callback
<1>2. dfu'.state = "dfuERROR"
  BY <1>1 DEF StoreInv, Inv, TypeOK
<1>3. Inv'
  BY DownloadNoSpaceInv DEF StoreInv
<1>4. HostInv' /\ FreshInv' /\ BufferInv'
  BY <1>1, <1>2 DEF HostInv, FreshInv, BufferInv, Transferring
<1>5. DoneInv'
  BY <1>1 DEF StoreInv, DoneInv, Laid, Byte
<1> QED
  BY <1>3, <1>4, <1>5 DEF StoreInv

\* While the callback works, its sector starts where the confirmed bytes end.
LEMMA SectorAfterConfirmed ==
  ASSUME StoreInv, pc # "ready", host.fresh
  PROVE  /\ dfu.state = "dfuDNBUSY" /\ dfu.alt \in 1 .. 2
         /\ dn_base_addr \in Nat /\ dfu.off \in Nat
         /\ dn_base_addr = PartStart[dfu.alt] /\ total_len = dfu.off
         /\ cur_addr = dn_base_addr + dfu.off
         /\ cur_addr + XferBufSize <= PartEnd[dfu.alt]
<1>1. /\ dfu.state = "dfuDNBUSY" /\ dn_base_addr # 0 /\ dn_base_addr \in Nat
      /\ cur_addr = dn_base_addr + OffsetOf(dfu.block) /\ dfu.off = OffsetOf(dfu.block)
      /\ dfu.alt \in 0 .. 2 /\ dfu.off \in Nat
  BY DEF StoreInv, Inv, TypeOK, CallbackInv, BlockInv
<1>2. dfu.alt # 0 /\ dn_base_addr = PartStart[dfu.alt] /\ total_len = dfu.off
  BY <1>1 DEF StoreInv, FreshInv, Transferring, Confirmed
<1>3. PICK alt \in 1 .. 2 : /\ dn_base_addr = PartStart[alt]
                            /\ SectorOf(cur_addr) \subseteq Partition(alt)
  BY CallbackSector DEF StoreInv, SectorInTarget
<1>4. alt = dfu.alt
  <2>1. (alt = 1 \/ alt = 2) /\ (dfu.alt = 1 \/ dfu.alt = 2)
    BY <1>1, <1>2
  <2>2. UpgradeAddr # DataAddr
    BY LayoutFacts
  <2> QED
    BY <1>2, <1>3, <2>1, <2>2, PartitionBounds, Zenon
<1>5. cur_addr + XferBufSize - 1 \in SectorOf(cur_addr)
  BY <1>1, LayoutFacts DEF SectorOf
<1>6. cur_addr + XferBufSize - 1 <= PartEnd[dfu.alt] - 1 /\ PartEnd[dfu.alt] \in Nat
  BY <1>1, <1>2, <1>3, <1>4, <1>5, PartitionBounds, LayoutFacts DEF Partition
<1> QED
  BY <1>1, <1>2, <1>6, LayoutFacts

\* The flash outside the sector of the callback in progress.
LEMMA OutsideSector ==
  ASSUME StoreInv, pc # "ready",
         NEW f,
         flash' = [a \in Addresses |-> IF a \in SectorOf(cur_addr) THEN f[a] ELSE flash[a]],
         host' = host, host.fresh
  PROVE  \A i \in 0 .. (dfu.off - 1) :
           flash[dn_base_addr + i] = Byte(host, i) => flash'[dn_base_addr + i] = Byte(host, i)
<1> SUFFICES ASSUME NEW i \in 0 .. (dfu.off - 1),
                    flash[dn_base_addr + i] = Byte(host, i)
             PROVE  flash'[dn_base_addr + i] = Byte(host, i)
  OBVIOUS
<1>1. /\ dfu.alt \in 1 .. 2 /\ dn_base_addr \in Nat /\ dfu.off \in Nat
      /\ dn_base_addr = PartStart[dfu.alt]
      /\ cur_addr = dn_base_addr + dfu.off
      /\ cur_addr + XferBufSize <= PartEnd[dfu.alt]
  BY SectorAfterConfirmed
<1>2. dn_base_addr + i \in Partition(dfu.alt)
  BY <1>1, PartitionBounds, LayoutFacts DEF Partition
<1>3. dn_base_addr + i \in Addresses
  BY <1>1, <1>2, PartitionInFlash
<1>4. dn_base_addr + i \notin SectorOf(cur_addr)
  BY <1>1 DEF SectorOf
<1> QED
  BY <1>3, <1>4

LEMMA DownloadEraseStoreInv == StoreInv /\ DownloadErase => StoreInv'
<1> SUFFICES ASSUME StoreInv, DownloadErase PROVE StoreInv'
  OBVIOUS
<1> DEFINE f == [a \in SectorOf(cur_addr) |-> Blank]
<1>1. /\ pc = "erase" /\ pc' = "write"
      /\ UNCHANGED <<dfu_image_ctx, total_len, bytes_avail, dn_base_addr, cur_addr, tmp_buf, dfu, host>>
  BY DEF DownloadErase, statics
<1>2. flash' = [a \in Addresses |-> IF a \in SectorOf(cur_addr) THEN f[a] ELSE flash[a]]
  BY DEF DownloadErase
<1> HIDE DEF f
<1>3. dfu.state = "dfuDNBUSY" /\ Inv'
  BY <1>1, DownloadEraseInv DEF StoreInv, Inv, CallbackInv
<1>4. HostInv'
  BY <1>1 DEF StoreInv, HostInv, Transferring
<1>5. FreshInv'
  <2> SUFFICES ASSUME host.fresh, dn_base_addr # 0
               PROVE  /\ dfu.alt # 0 /\ dn_base_addr = PartStart[dfu.alt]
                      /\ total_len = dfu.off
                      /\ \A i \in 0 .. (dfu.off - 1) : flash'[dn_base_addr + i] = Byte(host, i)
    BY <1>1, <1>3 DEF FreshInv, Transferring, Confirmed, Laid, Byte
  <2>1. /\ dfu.alt # 0 /\ dn_base_addr = PartStart[dfu.alt] /\ total_len = dfu.off
        /\ Laid(dn_base_addr, dfu.off)
    BY <1>3 DEF StoreInv, FreshInv, Transferring, Confirmed
  <2> QED
    BY <1>1, <1>2, <2>1, OutsideSector DEF Laid
<1>6. BufferInv'
  BY <1>1 DEF StoreInv, BufferInv, Patched, Byte
<1>7. DoneInv'
  BY <1>1, <1>3 DEF StoreInv, HostInv, Transferring, DoneInv
<1> QED
  BY <1>3, <1>4, <1>5, <1>6, <1>7 DEF StoreInv

\* Programming the sector puts the block behind the bytes already there.
LEMMA DownloadWriteStoreInv == StoreInv /\ DownloadWrite => StoreInv'
<1> SUFFICES ASSUME StoreInv, DownloadWrite PROVE StoreInv'
  OBVIOUS
<1> DEFINE f == [a \in SectorOf(cur_addr) |-> tmp_buf[a - cur_addr]]
<1>1. pc = "write" /\ dfu.state = "dfuDNBUSY"
  BY DEF DownloadWrite, StoreInv, Inv, CallbackInv
<1>2. flash' = [a \in Addresses |-> IF a \in SectorOf(cur_addr) THEN f[a] ELSE flash[a]]
  BY DEF DownloadWrite
<1>3. \A a \in SectorOf(cur_addr) : f[a] = tmp_buf[a - cur_addr]
  OBVIOUS
<1> HIDE DEF f
<1>4. /\ total_len' = total_len + dfu.length
      /\ pc' = "ready" /\ dfu' = [dfu EXCEPT !.state = "dfuDNLOAD_IDLE"]
      /\ UNCHANGED <<dfu_image_ctx, bytes_avail, dn_base_addr, host>>
  BY <1>1 DEF DownloadWrite, finish_flashing
<1>5. dfu'.state = "dfuDNLOAD_IDLE" /\ dfu'.alt = dfu.alt
  BY <1>4 DEF StoreInv, Inv, TypeOK
<1>6. Inv'
  BY DownloadWriteInv DEF StoreInv
<1>7. HostInv' /\ BufferInv' /\ DoneInv'
  BY <1>1, <1>4, <1>5 DEF StoreInv, HostInv, BufferInv, DoneInv, Transferring
<1>8. FreshInv'
  <2> SUFFICES ASSUME host.fresh, dn_base_addr # 0
               PROVE  /\ dfu.alt # 0 /\ dn_base_addr = PartStart[dfu.alt]
                      /\ total_len + dfu.length = host.sent
                      /\ \A i \in 0 .. (host.sent - 1) : flash'[dn_base_addr + i] = Byte(host, i)
    BY <1>4, <1>5 DEF FreshInv, Transferring, Confirmed, Laid, Byte
  <2>1. /\ dfu.alt # 0 /\ dn_base_addr = PartStart[dfu.alt] /\ total_len = dfu.off
        /\ Laid(dn_base_addr, dfu.off)
    BY <1>1 DEF StoreInv, FreshInv, Transferring, Confirmed
  <2>2. /\ host.sent = dfu.off + dfu.length
        /\ dfu.off \in Nat /\ dfu.length \in 0 .. XferBufSize
    BY <1>1 DEF StoreInv, Inv, TypeOK, BlockInv
  <2>3. /\ dfu.alt \in 1 .. 2 /\ dn_base_addr \in Nat
        /\ cur_addr = dn_base_addr + dfu.off
        /\ cur_addr + XferBufSize <= PartEnd[dfu.alt]
    BY <1>1, SectorAfterConfirmed
  <2>4. \A i \in 0 .. (dfu.off - 1) : flash'[dn_base_addr + i] = Byte(host, i)
    BY <1>1, <1>2, <1>4, <2>1, OutsideSector DEF Laid
  <2>5. ASSUME NEW i \in dfu.off .. (host.sent - 1)
        PROVE  flash'[dn_base_addr + i] = Byte(host, i)
    <3>1. /\ i - dfu.off \in Offsets /\ i - dfu.off < dfu.length
          /\ dn_base_addr + i \in SectorOf(cur_addr)
          /\ (dn_base_addr + i) - cur_addr = i - dfu.off
      BY <2>2, <2>3, LayoutFacts DEF Offsets, SectorOf
    <3>2. SectorOf(cur_addr) \subseteq Partition(dfu.alt)
      BY <2>1, <2>2, <2>3, PartitionBounds, LayoutFacts DEF SectorOf, Partition
    <3>3. dn_base_addr + i \in Addresses
      BY <2>3, <3>1, <3>2, PartitionInFlash
    <3>4. flash'[dn_base_addr + i] = tmp_buf[i - dfu.off]
      <4>1. flash'[dn_base_addr + i] = f[dn_base_addr + i]
        BY <1>2, <3>1, <3>3
      <4>2. f[dn_base_addr + i] = tmp_buf[(dn_base_addr + i) - cur_addr]
        BY <1>3, <3>1
      <4> QED
        BY <4>1, <4>2, <3>1
    <3>5. tmp_buf[i - dfu.off] = Byte(host, dfu.off + (i - dfu.off))
      BY <1>1, <3>1 DEF StoreInv, BufferInv
    <3>6. dfu.off + (i - dfu.off) = i
      BY <2>2
    <3> QED
      BY <3>4, <3>5, <3>6
  <2>6. \A i \in 0 .. (host.sent - 1) :
          i \in 0 .. (dfu.off - 1) \/ i \in dfu.off .. (host.sent - 1)
    BY <2>2
  <2> QED
    BY <2>1, <2>2, <2>4, <2>5, <2>6
<1> QED
  BY <1>6, <1>7, <1>8 DEF StoreInv

\* The manifestation ends the transfer; a fresh one is then whole.
LEMMA ManifestStoreInv == StoreInv /\ tud_dfu_manifest_cb => StoreInv'
<1> SUFFICES ASSUME StoreInv, tud_dfu_manifest_cb PROVE StoreInv'
  OBVIOUS
<1>1. /\ pc = "ready" /\ dfu.state = "dfuMANIFEST" /\ dn_base_addr' = 0
      /\ dfu' = [dfu EXCEPT !.state = "dfuIDLE"]
      /\ host' = [host EXCEPT !.phase = "done"]
      /\ UNCHANGED <<dfu_image_ctx, flash, pc, tmp_buf>>
  BY DEF tud_dfu_manifest_cb, finish_flashing, callback
<1>2. /\ dfu'.state = "dfuIDLE"
      /\ host'.id = host.id /\ host'.len = host.len /\ host'.alt = host.alt
      /\ host'.fresh = host.fresh
      /\ dfu.alt \in 0 .. 2 /\ total_len \in Nat /\ bytes_avail \in Nat
  BY <1>1 DEF StoreInv, Inv, TypeOK
<1>3. Inv'
  BY ClassStepInv DEF StoreInv
<1>4. HostInv' /\ FreshInv' /\ BufferInv'
  BY <1>1, <1>2 DEF HostInv, FreshInv, BufferInv, Transferring
<1>5. DoneInv'
  <2> SUFFICES ASSUME host.fresh
               PROVE  /\ host.id > 0 /\ host.len > 0 /\ host.alt # 0
                      /\ host.len <= PartEnd[host.alt] - PartStart[host.alt]
                      /\ Laid(PartStart[host.alt], host.len)
    BY <1>1, <1>2 DEF DoneInv, Laid, Byte
  <2>1. /\ host.id > 0 /\ host.len \in ImageLens /\ host.alt = dfu.alt
        /\ dn_base_addr # 0 /\ host.sent = host.len
    BY <1>1 DEF StoreInv, HostInv, Transferring
  <2>2. /\ dfu.alt # 0 /\ dn_base_addr = PartStart[dfu.alt]
        /\ total_len = host.len /\ Laid(dn_base_addr, host.len)
    BY <1>1, <2>1 DEF StoreInv, FreshInv, Transferring, Confirmed
  <2>3. total_len <= bytes_avail
    BY <2>1 DEF StoreInv, Inv, StaticsInv
  <2>4. bytes_avail = PartEnd[dfu.alt] - PartStart[dfu.alt]
    <3>1. CASE dfu.alt = 1
      BY <2>1, <2>2, <3>1, PartitionBounds DEF StoreInv, Inv, StaticsInv
    <3>2. CASE dfu.alt = 2
      BY <2>1, <2>2, <3>2, PartitionBounds DEF StoreInv, Inv, StaticsInv
    <3>3. dfu.alt = 1 \/ dfu.alt = 2
      BY <1>2, <2>2
    <3> QED
      BY <3>1, <3>2, <3>3
  <2>5. host.len > 0
    <3>1. host.len \in Nat \ {0}
      BY <2>1, LayoutAssumption
    <3> QED
      BY <3>1
  <2> QED
    BY <2>1, <2>2, <2>3, <2>4, <2>5
<1> QED
  BY <1>3, <1>4, <1>5 DEF StoreInv

THEOREM StoreInvariance == Spec => []StoreInv
<1>1. StoreInv /\ UNCHANGED vars => StoreInv'
  BY DEF vars, StoreInv, Inv, TypeOK, StaticsInv, BlockInv, CallbackInv, FactoryUntouched,
         HostInv, FreshInv, BufferInv, DoneInv, Transferring, Confirmed, Laid, Byte, Patched
<1>2. StoreInv /\ [Next]_vars => StoreInv'
  BY <1>1, DnloadStoreInv, ClassStepStoreInv, DownloadReadStoreInv, DownloadNoSpaceStoreInv,
     DownloadEraseStoreInv, DownloadWriteStoreInv, ManifestStoreInv
     DEF Next, tud_dfu_download_cb
<1> QED
  BY StoreInitInv, <1>2, PTL DEF Spec

-----------------------------------------------------------------------------
(* Reading back                                                              *)

\* Quotient and remainder.
LEMMA DivMod ==
  ASSUME NEW i \in Nat, NEW x \in Nat, x > 0
  PROVE  \E q \in Nat, r \in 0 .. (x - 1) : i \div x = q /\ i % x = r /\ q * x + r = i
<1>1. i \div x \in Nat
  OBVIOUS
<1>2. PICK q \in Nat : q = i \div x
  BY <1>1
<1>3. x * q <= i
  BY <1>2
<1>4. i < x * q + x
  BY <1>2
<1>5. PICK r \in 0 .. (x - 1) : i = x * q + r
  <2>1. x * q \in Nat
    OBVIOUS
  <2>2. i - x * q \in 0 .. (x - 1) /\ i = x * q + (i - x * q)
    BY <1>3, <1>4, <2>1
  <2> QED
    BY <2>2
<1>6. i % x = r
  BY <1>5
<1>7. q * x + r = i
  BY <1>5
<1> QED
  BY <1>2, <1>6, <1>7, Zenon

\* Once the device has restarted, it knows the length of the upgrade image.
KnownInv == host.phase = "restarted" /\ host.fresh /\ host.alt = 1 => dfu_image_ctx = host.len

\* A fresh upgrade image that was manifested has its length in its header.
LEMMA HeaderOfDone ==
  StoreInv /\ host.phase \in {"done", "restarted"} /\ host.fresh /\ host.alt = 1
    => UpgradeSize = host.len
<1> SUFFICES ASSUME StoreInv, host.phase \in {"done", "restarted"}, host.fresh, host.alt = 1
             PROVE  UpgradeSize = host.len
  OBVIOUS
<1>1. host.id > 0 /\ host.len > 0 /\ Laid(PartStart[1], host.len)
  BY DEF StoreInv, DoneInv
<1>2. host.id \in Nat /\ host.len \in Nat
  BY LayoutAssumption DEF StoreInv, Inv, TypeOK
<1>3. flash[UpgradeAddr + 0] = Byte(host, 0)
  BY <1>1, <1>2, PartitionBounds DEF Laid
<1> QED
  BY <1>1, <1>2, <1>3, LayoutFacts DEF UpgradeSize, Byte

\* The restart is the only step that takes the image information, and by then the
\* header is in the flash.
LEMMA KnownStep == StoreInv /\ KnownInv /\ [Next]_vars => KnownInv'
<1> SUFFICES ASSUME StoreInv, KnownInv, [Next]_vars PROVE KnownInv'
  OBVIOUS
<1>1. CASE Dnload
  <2>0. dfu'.state = "dfuDNBUSY"
    BY <1>1 DEF Dnload, StoreInv, Inv, TypeOK
  <2>1. host'.phase = "sending"
    BY <1>1, <2>0, DnloadStoreInv DEF StoreInv, HostInv, Transferring
  <2> QED
    BY <2>1 DEF KnownInv
<1>2. CASE tud_dfu_manifest_cb
  <2>1. host' = [host EXCEPT !.phase = "done"]
    BY <1>2 DEF tud_dfu_manifest_cb
  <2>2. host'.phase = "done"
    BY <2>1 DEF StoreInv, Inv, TypeOK
  <2> QED
    BY <2>2 DEF KnownInv
<1>3. CASE tud_dfu_abort_cb
  <2>1. host' = [host EXCEPT !.phase = IF host.phase = "sending" THEN "none" ELSE host.phase]
        /\ dfu_image_ctx' = dfu_image_ctx
    BY <1>3 DEF tud_dfu_abort_cb
  <2>2. /\ host'.len = host.len /\ host'.alt = host.alt /\ host'.fresh = host.fresh
        /\ host'.phase = "restarted" => host.phase = "restarted"
    BY <2>1 DEF StoreInv, Inv, TypeOK
  <2> QED
    BY <2>1, <2>2 DEF KnownInv
<1>4. CASE Reboot
  <2>1. host' = [host EXCEPT !.phase = CASE host.phase = "sending" -> "none"
                                         [] host.phase = "done" -> "restarted"
                                         [] OTHER -> host.phase]
        /\ dfu_image_ctx' = UpgradeSize
    BY <1>4 DEF Reboot
  <2>2. /\ host'.len = host.len /\ host'.alt = host.alt /\ host'.fresh = host.fresh
        /\ host'.phase = "restarted" => host.phase \in {"done", "restarted"}
    BY <2>1 DEF StoreInv, Inv, TypeOK
  <2> QED
    BY <2>1, <2>2, HeaderOfDone DEF KnownInv
<1>5. CASE DnloadEnd \/ tud_dfu_download_cb \/ UNCHANGED vars
  <2>1. host' = host /\ dfu_image_ctx' = dfu_image_ctx
    BY <1>5 DEF DnloadEnd, tud_dfu_download_cb, DownloadRefused, DownloadRead, DownloadNoSpace,
                DownloadErase, DownloadWrite, vars
  <2> QED
    BY <2>1 DEF KnownInv
<1> QED
  BY <1>1, <1>2, <1>3, <1>4, <1>5 DEF Next

\* A fresh image that was manifested is what tud_dfu_upload_cb returns, an upgrade image
\* once the device has restarted, whatever the layout and the image's length.
LEMMA DoneReadsBack == StoreInv /\ KnownInv => ReadBack
<1> SUFFICES ASSUME StoreInv, KnownInv, Uploadable, host.fresh,
                    NEW i \in 0 .. (host.len - 1)
             PROVE  /\ host.alt # 0
                    /\ LET reply == tud_dfu_upload_cb(host.alt, i \div XferBufSize)
                       IN i % XferBufSize \in DOMAIN reply /\ reply[i % XferBufSize] = Byte(host, i)
  <2>1. StoreInv /\ Uploadable /\ host.fresh => host.alt # 0
    BY DEF StoreInv, DoneInv, Uploadable
  <2> QED
    BY <2>1 DEF ReadBack
<1>0. host.phase \in {"done", "restarted"} /\ (host.alt = 1 => host.phase = "restarted")
  BY DEF Uploadable
<1>1. /\ host.id \in Nat /\ host.len \in Nat /\ host.alt \in 0 .. 2
  BY LayoutAssumption DEF StoreInv, Inv, TypeOK
<1>2. /\ host.id > 0 /\ host.len > 0 /\ host.alt # 0
      /\ host.len <= PartEnd[host.alt] - PartStart[host.alt]
      /\ Laid(PartStart[host.alt], host.len)
  BY <1>0 DEF StoreInv, DoneInv
<1>3. XferBufSize \in Nat /\ XferBufSize > 0
  BY LayoutAssumption
<1>4. PICK q \in Nat, r \in 0 .. (XferBufSize - 1) :
        i \div XferBufSize = q /\ i % XferBufSize = r /\ q * XferBufSize + r = i
  BY <1>1, <1>3, DivMod
<1> DEFINE addr == PartStart[host.alt] + OffsetOf(q)
<1>5. OffsetOf(q) \in Nat /\ OffsetOf(q) + r = i
  BY <1>4, OffsetNat DEF OffsetOf
<1>6. /\ host.alt \in 0 .. 2 /\ UploadStart[host.alt] = PartStart[host.alt]
      /\ addr < UploadEnd[host.alt]
  <2>1. CASE host.alt = 1
    <3>2. dfu_image_ctx = host.len
      BY <1>0, <2>1 DEF KnownInv
    <3>3. UploadEnd[1] = UpgradeAddr + host.len /\ UploadStart[1] = UpgradeAddr
      BY <1>2, <3>2 DEF UploadEnd, UploadStart
    <3> QED
      BY <1>1, <1>5, <2>1, <3>3, PartitionBounds, LayoutFacts
  <2>2. CASE host.alt = 2
    <3>1. UploadEnd[2] = FlashSize /\ UploadStart[2] = DataAddr
      BY DEF UploadEnd, UploadStart
    <3> QED
      BY <1>1, <1>2, <1>5, <2>2, <3>1, PartitionBounds, LayoutFacts
  <2> QED
    BY <1>1, <1>2, <2>1, <2>2
<1>7. tud_dfu_upload_cb(host.alt, q) = [k \in Offsets |-> flash[addr + k]]
  BY <1>6 DEF tud_dfu_upload_cb, OffsetOf
<1>8. PartStart[host.alt] \in Nat
  BY <1>1, <1>2, PartitionBounds, LayoutFacts
<1>9. addr + r = PartStart[host.alt] + i
  BY <1>5, <1>8
<1>10. r \in Offsets
  BY DEF Offsets
<1>11. flash[PartStart[host.alt] + i] = Byte(host, i)
  BY <1>2 DEF Laid
<1> HIDE DEF addr
<1>12. /\ r \in DOMAIN tud_dfu_upload_cb(host.alt, q)
       /\ tud_dfu_upload_cb(host.alt, q)[r] = Byte(host, i)
  BY <1>7, <1>9, <1>10, <1>11
<1> QED
  BY <1>2, <1>4, <1>12, Zenon

\* A fresh download that was manifested can be read back from the partition the host
\* selected, for every layout, image length and history before it.
THEOREM FreshReadsBack == Spec => []ReadBack
<1>1. Init => KnownInv
  BY DEF Init, KnownInv, NoTransfer
<1>2. StoreInv /\ KnownInv => ReadBack
  BY DoneReadsBack
<1> QED
  BY <1>1, <1>2, KnownStep, StoreInvariance, PTL DEF Spec
-----------------------------------------------------------------------------
(* Refusals                                                                  *)

\* What an error in dfuDNBUSY says of a fresh transfer.
RefusalJust ==
  (dfu.state = "dfuDNBUSY" /\ dfu'.state = "dfuERROR" /\ host.fresh)
    => host.alt = 0 \/ host.len > PartEnd[host.alt] - PartStart[host.alt]

LEMMA RefusalStep == StoreInv /\ [Next]_vars => RefusalJust
<1> SUFFICES ASSUME StoreInv, [Next]_vars,
                    dfu.state = "dfuDNBUSY", dfu'.state = "dfuERROR", host.fresh,
                    host.alt # 0
             PROVE  host.len > PartEnd[host.alt] - PartStart[host.alt]
  BY DEF RefusalJust
<1>1. dfu.alt = host.alt /\ dfu.alt \in 1 .. 2
  BY DEF StoreInv, Inv, TypeOK, HostInv, Transferring
<1>2. CASE DownloadNoSpace
  <2> DEFINE t == TargetOf(dfu.alt)
  <2>1. ~(t.avail - t.total >= dfu.length)
    BY <1>2 DEF DownloadNoSpace, Fits
  <2>2. t.total = dfu.off /\ t.avail = PartEnd[dfu.alt] - PartStart[dfu.alt]
    <3>1. CASE dn_base_addr = 0
      <4>1. dfu.off = 0
        BY <3>1 DEF StoreInv, Inv, BlockInv
      <4>2. dfu.alt = 1 \/ dfu.alt = 2
        BY <1>1
      <4> QED
        BY <3>1, <4>1, <4>2, PartitionBounds DEF TargetOf
    <3>2. CASE dn_base_addr # 0
      <4>1. dn_base_addr = PartStart[dfu.alt] /\ total_len = dfu.off
        BY <3>2 DEF StoreInv, FreshInv, Transferring, Confirmed
      <4>2. t.total = total_len /\ t.avail = bytes_avail
        BY <3>2 DEF TargetOf
      <4>3. CASE dfu.alt = 1
        BY <3>2, <4>1, <4>2, <4>3, PartitionBounds DEF StoreInv, Inv, StaticsInv
      <4>4. CASE dfu.alt = 2
        BY <3>2, <4>1, <4>2, <4>4, PartitionBounds DEF StoreInv, Inv, StaticsInv
      <4> QED
        BY <1>1, <4>3, <4>4
    <3> QED
      BY <3>1, <3>2
  <2> HIDE DEF t
  <2>3. /\ host.sent = dfu.off + dfu.length /\ host.sent <= host.len
        /\ dfu.off \in Nat /\ dfu.length \in Nat /\ host.sent \in Nat /\ host.len \in Nat
    BY DEF StoreInv, Inv, TypeOK, BlockInv
  <2>4. PartEnd[dfu.alt] - PartStart[dfu.alt] \in Int
    BY <1>1, PartitionBounds, LayoutFacts
  <2> QED
    BY <1>1, <2>1, <2>2, <2>3, <2>4
<1>3. CASE DownloadRefused
  BY <1>1, <1>3 DEF DownloadRefused
<1>4. CASE Dnload \/ DnloadEnd \/ tud_dfu_abort_cb
  BY <1>4 DEF Dnload, DnloadEnd, tud_dfu_abort_cb, Quiet
<1>5. CASE DownloadRead \/ DownloadErase
  BY <1>5 DEF DownloadRead, DownloadErase
<1>6. CASE DownloadWrite
  <2>1. dfu' = [dfu EXCEPT !.state = "dfuDNLOAD_IDLE"]
    BY <1>6 DEF DownloadWrite, finish_flashing
  <2>2. dfu'.state = "dfuDNLOAD_IDLE"
    BY <2>1 DEF StoreInv, Inv, TypeOK
  <2> QED
    BY <2>2
<1>7. CASE tud_dfu_manifest_cb
  BY <1>7 DEF tud_dfu_manifest_cb
<1>8. CASE Reboot
  BY <1>8 DEF Reboot, DfuReset
<1>9. CASE UNCHANGED vars
  BY <1>9 DEF vars
<1> QED
  BY <1>2, <1>3, <1>4, <1>5, <1>6, <1>7, <1>8, <1>9 DEF Next, tud_dfu_download_cb

\* A fresh download ends in an error only if it is for the factory image or longer than
\* its partition: for every layout and image the space check refuses nothing else.
THEOREM FittingAccepted == Spec => FittingImageAccepted
<1>1. StoreInv /\ [Next]_vars =>
        [(dfu.state = "dfuDNBUSY" /\ dfu'.state = "dfuERROR" /\ host.fresh)
           => host.alt = 0 \/ host.len > PartEnd[host.alt] - PartStart[host.alt]]_vars
  BY RefusalStep DEF RefusalJust
<1> QED
  BY StoreInvariance, <1>1, PTL DEF Spec, FittingImageAccepted
-----------------------------------------------------------------------------
(* The refinement                                                            *)

mapped == <<flash, OpenNow, TornNow>>

\* An open partition is one of the two.
LEMMA SelectedFacts ==
  ASSUME StoreInv, dn_base_addr # 0
  PROVE  /\ Selected \in 1 .. 2 /\ PartStart[Selected] = dn_base_addr
         /\ OpenNow.part = Selected /\ OpenNow # Store!Closed
<1>1. dn_base_addr = UpgradeAddr \/ dn_base_addr = DataAddr
  BY DEF StoreInv, Inv, StaticsInv
<1>2. Selected \in 1 .. 2 /\ PartStart[Selected] = dn_base_addr
  BY <1>1, PartitionBounds DEF Selected
<1>3. OpenNow.part = Selected
  BY DEF OpenNow
<1>4. Store!Closed.part = 0
  BY DEF Store!Closed
<1> QED
  BY <1>2, <1>3, <1>4

\* Nothing is open and nothing is torn when the device starts.
LEMMA InitMaps == Init => Store!AInit
BY DEF Init, Store!AInit, Store!Closed, Store!Intact, Store!Stray, OpenNow, TornNow

\* A request that leaves the statics and the transfer alone is a stutter.
LEMMA DnloadMaps == StoreInv /\ Dnload => [Store!ANext]_mapped
<1> SUFFICES ASSUME StoreInv, Dnload PROVE [Store!ANext]_mapped
  OBVIOUS
<1>1. pc = "ready" /\ UNCHANGED <<dfu_image_ctx, flash, total_len, bytes_avail, dn_base_addr, pc, cur_addr, tmp_buf>>
  BY DEF Dnload, Quiet, statics, callback
<1>2. TornNow = Store!Intact /\ TornNow' = Store!Intact
  BY <1>1 DEF TornNow, Store!Intact
<1>3. CASE dfu.state = "dfuDNLOAD_IDLE"
  <2>1. host'.id = host.id /\ host'.len = host.len /\ host'.fresh = host.fresh
    BY <1>3 DEF Dnload, StoreInv, Inv, TypeOK
  <2>2. OpenNow' = OpenNow
    BY <1>1, <2>1 DEF OpenNow, Selected
  <2> QED
    BY <1>1, <1>2, <2>2 DEF mapped
<1>4. CASE dfu.state # "dfuDNLOAD_IDLE" /\ dn_base_addr = 0
  <2>1. OpenNow' = OpenNow
    BY <1>1, <1>4 DEF OpenNow
  <2> QED
    BY <1>1, <1>2, <2>1 DEF mapped
<1>5. CASE dfu.state # "dfuDNLOAD_IDLE" /\ dn_base_addr # 0
  <2>1. ~host'.fresh
    BY <1>5 DEF Dnload
  <2>2. OpenNow' = [part |-> Selected, img |-> <<0, 0>>, got |-> 0]
    BY <1>1, <1>5, <2>1 DEF OpenNow, Selected
  <2>3. OpenNow # Store!Closed
    BY <1>5, SelectedFacts
  <2>4. OpenNow' = [part |-> OpenNow.part, img |-> Store!Stray, got |-> 0]
    BY <1>5, <2>2, SelectedFacts DEF Store!Stray
  <2>5. Store!GiveUp
    BY <1>1, <1>2, <2>3, <2>4 DEF Store!GiveUp
  <2> QED
    BY <2>5 DEF Store!ANext
<1> QED
  BY <1>3, <1>4, <1>5

LEMMA ClassStepMaps ==
  StoreInv /\ (DnloadEnd \/ tud_dfu_abort_cb \/ DownloadRefused) => [Store!ANext]_mapped
<1> SUFFICES ASSUME StoreInv, DnloadEnd \/ tud_dfu_abort_cb \/ DownloadRefused
             PROVE  [Store!ANext]_mapped
  OBVIOUS
<1>1. pc = "ready" /\ UNCHANGED <<dfu_image_ctx, flash, total_len, bytes_avail, dn_base_addr, pc, cur_addr, tmp_buf>>
  BY DEF DnloadEnd, tud_dfu_abort_cb, DownloadRefused, Quiet, statics, callback
<1>2. host'.id = host.id /\ host'.len = host.len /\ host'.fresh = host.fresh
  BY DEF DnloadEnd, tud_dfu_abort_cb, DownloadRefused, StoreInv, Inv, TypeOK
<1>3. OpenNow' = OpenNow /\ TornNow' = TornNow
  BY <1>1, <1>2 DEF OpenNow, Selected, TornNow
<1> QED
  BY <1>1, <1>3 DEF mapped

\* Choosing a partition opens it; going on in the one chosen is a stutter.
LEMMA TargetMaps ==
  StoreInv /\ (DownloadRead \/ DownloadNoSpace) => [Store!ANext]_mapped
<1> SUFFICES ASSUME StoreInv, DownloadRead \/ DownloadNoSpace
             PROVE  [Store!ANext]_mapped
  OBVIOUS
<1> DEFINE t == TargetOf(dfu.alt)
<1>1. /\ pc = "ready" /\ pc' # "write" /\ dfu.state = "dfuDNBUSY" /\ dfu.alt \in {1, 2}
      /\ dn_base_addr' = t.base /\ total_len' = t.total
      /\ UNCHANGED <<dfu_image_ctx, flash, host>>
  BY DEF DownloadRead, DownloadNoSpace, callback
<1>2. TornNow = Store!Intact /\ TornNow' = Store!Intact
  BY <1>1 DEF TornNow, Store!Intact
<1>3. CASE dn_base_addr # 0
  <2>1. dn_base_addr' = dn_base_addr /\ total_len' = total_len
    BY <1>1, <1>3 DEF TargetOf
  <2>2. OpenNow' = OpenNow
    BY <1>1, <2>1 DEF OpenNow, Selected
  <2> QED
    BY <1>1, <1>2, <2>2 DEF mapped
<1>4. CASE dn_base_addr = 0
  <2>1. OpenNow = Store!Closed
    BY <1>4 DEF OpenNow, Store!Closed, Store!Stray
  <2>2. host.fresh /\ host.id > 0 /\ host.len \in ImageLens /\ host.id \in 0 .. MaxTransfers
    BY <1>1, <1>4 DEF StoreInv, Inv, TypeOK, HostInv, Transferring
  <2>3. /\ t.base = PartStart[dfu.alt] /\ t.total = 0
    BY <1>1, <1>4, PartitionBounds DEF TargetOf
  <2>4. t.base # 0 /\ (t.base = UpgradeAddr <=> dfu.alt = 1)
    BY <1>1, <2>3, PartitionBounds, LayoutFacts
  <2> HIDE DEF t
  <2>5. OpenNow' = [part |-> dfu.alt, img |-> <<host.id, host.len>>, got |-> 0]
    BY <1>1, <2>2, <2>3, <2>4 DEF OpenNow, Selected
  <2>6. Store!Open(dfu.alt, <<host.id, host.len>>)
    BY <1>1, <1>2, <2>1, <2>5 DEF Store!Open
  <2>7. dfu.alt \in DOMAIN PartStart
    BY <1>1 DEF PartStart
  <2>8. <<host.id, host.len>> \in (1 .. MaxTransfers) \X ImageLens
    BY <2>2, LayoutAssumption
  <2> QED
    BY <2>6, <2>7, <2>8 DEF Store!ANext
<1> QED
  BY <1>3, <1>4
\* Erasing the sector of the callback in progress tears it.
LEMMA EraseMaps == StoreInv /\ DownloadErase => [Store!ANext]_mapped
<1> SUFFICES ASSUME StoreInv, DownloadErase PROVE Store!ANext
  OBVIOUS
<1>1. /\ pc = "erase" /\ pc' = "write"
      /\ UNCHANGED <<dfu_image_ctx, total_len, bytes_avail, dn_base_addr, cur_addr, tmp_buf, dfu, host>>
      /\ flash' = [a \in Addresses |-> IF a \in SectorOf(cur_addr) THEN Blank ELSE flash[a]]
  BY DEF DownloadErase, statics
<1>2. /\ dfu.state = "dfuDNBUSY" /\ dn_base_addr # 0
      /\ dfu.length \in 1 .. XferBufSize /\ DOMAIN flash = Addresses
      /\ cur_addr = dn_base_addr + OffsetOf(dfu.block)
      /\ dfu.off = OffsetOf(dfu.block) /\ dfu.off \in Nat /\ dn_base_addr \in Nat
  BY <1>1 DEF StoreInv, Inv, TypeOK, CallbackInv, BlockInv
<1>3. /\ OpenNow # Store!Closed /\ OpenNow.part = Selected
      /\ Selected \in 1 .. 2 /\ PartStart[Selected] = dn_base_addr
  BY <1>2, SelectedFacts
<1>4. SectorOf(cur_addr) \subseteq Partition(Selected)
  <2>1. PICK alt \in 1 .. 2 : /\ dn_base_addr = PartStart[alt]
                              /\ SectorOf(cur_addr) \subseteq Partition(alt)
    BY <1>1, CallbackSector DEF StoreInv, SectorInTarget
  <2>2. (alt = 1 \/ alt = 2) /\ (Selected = 1 \/ Selected = 2)
    BY <1>3
  <2>3. UpgradeAddr # DataAddr
    BY LayoutFacts
  <2>4. alt = Selected
    BY <1>3, <2>1, <2>2, <2>3, PartitionBounds, Zenon
  <2> QED
    BY <2>1, <2>4
<1>5. cur_addr \in Addresses /\ dfu.off \in Addresses
  <2>1. cur_addr \in SectorOf(cur_addr)
    BY <1>2, LayoutFacts DEF SectorOf
  <2>2. cur_addr \in Addresses
    BY <1>3, <1>4, <2>1, PartitionInFlash
  <2> QED
    BY <1>2, <2>2, LayoutFacts DEF Addresses
<1>6. TornNow = Store!Intact /\ OpenNow' = OpenNow
  BY <1>1 DEF TornNow, Store!Intact, OpenNow, Selected
<1>7. TornNow' = [at |-> cur_addr, n |-> dfu.length, will |-> tmp_buf]
  BY <1>1 DEF TornNow
<1>8. tmp_buf = [i \in Offsets |-> IF i < dfu.length THEN Byte(host, dfu.off + i)
                                   ELSE flash[cur_addr + i]]
  BY <1>1 DEF StoreInv, BufferInv, Patched
<1>9. flash' = [x \in DOMAIN flash |-> IF x \in Store!SectorAt(cur_addr) THEN Blank ELSE flash[x]]
  BY <1>1, <1>2 DEF SectorOf, Store!SectorAt
<1>10. Store!SectorAt(cur_addr) \subseteq PartStart[OpenNow.part] .. (PartEnd[OpenNow.part] - 1)
  BY <1>3, <1>4 DEF SectorOf, Store!SectorAt, Partition
<1>11. CASE host.fresh
  <2>1. total_len = dfu.off
    BY <1>2, <1>11 DEF StoreInv, FreshInv, Transferring, Confirmed
  <2>2. OpenNow = [part |-> Selected, img |-> <<host.id, host.len>>, got |-> dfu.off]
    BY <1>2, <1>11, <2>1 DEF OpenNow
  <2>3. host.id > 0 /\ host.id \in Nat
    BY <1>2, LayoutAssumption DEF StoreInv, Inv, TypeOK, HostInv, Transferring
  <2>4. OpenNow.img # Store!Stray
    BY <2>2, <2>3 DEF Store!Stray
  <2>5. cur_addr = PartStart[OpenNow.part] + OpenNow.got
    BY <1>2, <1>3, <2>2
  <2>6. tmp_buf = [i \in 0 .. XferBufSize - 1 |->
                     IF i < dfu.length
                     THEN <<OpenNow.img[1], OpenNow.got + i, OpenNow.img[2]>>
                     ELSE flash[cur_addr + i]]
    BY <1>8, <2>2 DEF Offsets, Byte
  <2>7. Store!Tear(cur_addr, dfu.length)
    BY <1>3, <1>6, <1>7, <1>9, <1>10, <2>4, <2>5, <2>6 DEF Store!Tear
  <2> QED
    BY <1>2, <1>5, <2>7 DEF Store!ANext
<1>12. CASE ~host.fresh
  <2>1. OpenNow.img = Store!Stray
    BY <1>2, <1>12 DEF OpenNow, Store!Stray
  <2>2. <<host.id, host.len>> \in (1 .. MaxTransfers) \X ImageLens
    BY <1>2, LayoutAssumption DEF StoreInv, Inv, TypeOK, HostInv, Transferring
  <2> DEFINE m == <<host.id, host.len>>
  <2>3. tmp_buf = [i \in 0 .. XferBufSize - 1 |->
                     IF i < dfu.length THEN <<m[1], dfu.off + i, m[2]>>
                     ELSE flash[cur_addr + i]]
    BY <1>8 DEF Offsets, Byte
  <2> HIDE DEF m
  <2>4. m \in (1 .. MaxTransfers) \X ImageLens /\ dfu.off \in DOMAIN flash
    BY <1>2, <1>5, <2>2 DEF m
  <2>5. Store!Tear(cur_addr, dfu.length)
    BY <1>3, <1>6, <1>7, <1>9, <1>10, <2>1, <2>3, <2>4 DEF Store!Tear
  <2> QED
    BY <1>2, <1>5, <2>5 DEF Store!ANext
<1> QED
  BY <1>11, <1>12

\* Programming the sector fills it and counts the block.
LEMMA WriteMaps == StoreInv /\ DownloadWrite => [Store!ANext]_mapped
<1> SUFFICES ASSUME StoreInv, DownloadWrite PROVE Store!ANext
  OBVIOUS
<1>1. /\ pc = "write" /\ pc' = "ready" /\ total_len' = total_len + dfu.length
      /\ UNCHANGED <<dfu_image_ctx, bytes_avail, dn_base_addr, host>>
      /\ flash' = [a \in Addresses |-> IF a \in SectorOf(cur_addr)
                                       THEN tmp_buf[a - cur_addr] ELSE flash[a]]
  BY DEF DownloadWrite
<1>2. /\ dn_base_addr # 0 /\ dn_base_addr \in Nat /\ DOMAIN flash = Addresses
      /\ cur_addr = dn_base_addr + OffsetOf(dfu.block) /\ dfu.block \in Nat
  BY <1>1 DEF StoreInv, Inv, TypeOK, CallbackInv
<1>3. TornNow = [at |-> cur_addr, will |-> tmp_buf, n |-> dfu.length]
  BY <1>1 DEF TornNow
<1>4. cur_addr # 0
  BY <1>2, OffsetNat
<1>5. TornNow # Store!Intact /\ TornNow' = Store!Intact
  <2>1. TornNow.at # 0 /\ Store!Intact.at = 0
    BY <1>3, <1>4 DEF Store!Intact
  <2>2. TornNow' = Store!Intact
    BY <1>1 DEF TornNow, Store!Intact
  <2> QED
    BY <2>1, <2>2
<1>6. OpenNow' = [OpenNow EXCEPT !.got = IF OpenNow.img = Store!Stray THEN 0
                                        ELSE OpenNow.got + TornNow.n]
  <2>1. CASE host.fresh
    <3>1. dfu.state = "dfuDNBUSY"
      BY <1>1 DEF StoreInv, Inv, CallbackInv
    <3>2. host.id > 0 /\ host.id \in Nat
      BY <3>1, LayoutAssumption DEF StoreInv, Inv, TypeOK, HostInv, Transferring
    <3>3. OpenNow = [part |-> Selected, img |-> <<host.id, host.len>>, got |-> total_len]
      BY <1>2, <2>1 DEF OpenNow
    <3>4. OpenNow' = [part |-> Selected, img |-> <<host.id, host.len>>,
                      got |-> total_len + dfu.length]
      BY <1>1, <1>2, <2>1 DEF OpenNow, Selected
    <3>5. OpenNow.img # Store!Stray /\ OpenNow.got = total_len /\ TornNow.n = dfu.length
      BY <1>3, <3>2, <3>3 DEF Store!Stray
    <3> QED
      BY <3>3, <3>4, <3>5
  <2>2. CASE ~host.fresh
    <3>1. OpenNow = [part |-> Selected, img |-> <<0, 0>>, got |-> 0] /\ OpenNow' = OpenNow
      BY <1>1, <1>2, <2>2 DEF OpenNow, Selected
    <3>2. OpenNow.img = Store!Stray
      BY <3>1 DEF Store!Stray
    <3> QED
      BY <3>1, <3>2
  <2> QED
    BY <2>1, <2>2
<1>7. flash' = [x \in DOMAIN flash |->
                  IF x \in Store!SectorAt(TornNow.at) THEN TornNow.will[x - TornNow.at]
                  ELSE flash[x]]
  BY <1>1, <1>2, <1>3 DEF SectorOf, Store!SectorAt
<1>8. Store!Fill
  BY <1>5, <1>6, <1>7 DEF Store!Fill
<1> QED
  BY <1>8 DEF Store!ANext

\* The manifestation and a power cut close the store.
LEMMA CloseMaps == StoreInv /\ (tud_dfu_manifest_cb \/ Reboot) => [Store!ANext]_mapped
<1> SUFFICES ASSUME tud_dfu_manifest_cb \/ Reboot PROVE Store!ANext
  OBVIOUS
<1>1. dn_base_addr' = 0 /\ pc' = "ready" /\ flash' = flash
  BY DEF tud_dfu_manifest_cb, Reboot, callback
<1>2. OpenNow' = Store!Closed /\ TornNow' = Store!Intact
  BY <1>1 DEF OpenNow, TornNow, Store!Closed, Store!Intact, Store!Stray
<1>3. Store!Close
  BY <1>1, <1>2 DEF Store!Close
<1> QED
  BY <1>3 DEF Store!ANext

\* The callbacks implement the partition store for every layout, image and history: each
\* step of the class, the callback, the host or the power is a step of PartitionStore
\* or leaves it unchanged.
THEOREM StoreImplemented == Spec => ImplementsStore
<1>1. Init => Store!AInit
  BY InitMaps
<1>2. StoreInv /\ [Next]_vars => [Store!ANext]_mapped
  <2>1. UNCHANGED vars => UNCHANGED mapped
    BY DEF vars, mapped, OpenNow, TornNow, Selected
  <2> QED
    BY <2>1, DnloadMaps, ClassStepMaps, TargetMaps, EraseMaps, WriteMaps, CloseMaps
       DEF Next, tud_dfu_download_cb
<1>3. StoreInv /\ [Next]_vars => [Store!ANext]_(Store!storeVars)
  BY <1>2 DEF mapped, Store!storeVars
<1> QED
  BY <1>1, <1>3, StoreInvariance, PTL DEF Spec, ImplementsStore, Store!ASpec
=============================================================================
