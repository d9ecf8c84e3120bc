----------------------------- MODULE DfuRuntime -----------------------------
(***************************************************************************)
(* examples/freertos/usb/tinyusb_demos/dfu_runtime: a boot image manager     *)
(* finds the images in the boot partition at start, and downloaded blocks    *)
(* go behind the last of them, a sector read, erased and written per block.  *)
(* The DFU class is TinyUSB's: as the download callback never finishes the   *)
(* flashing, the class stays busy after one block, the host can only abort   *)
(* or detach, and only a download without data reaches manifestation.  Power  *)
(* may fail at any step.  Addresses are in units of the smallest block of a   *)
(* download.                                                                *)
(***************************************************************************)
EXTENDS Integers, Sequences, SequencesExt

CONSTANTS
  FLASH_PAGE_SIZE,       \* units in a sector
  boot_partition_size,   \* as read from flash
  FlashSize,             \* units of flash
  SizeLimit,             \* 2 ^ 32, the size of an unsigned integer
  FactoryStart, FactorySize,   \* the factory image
  ImageSizes,            \* sizes the headers of upgrade images tell
  Xfer,                  \* CFG_TUD_DFU_XFER_BUFSIZE
  MODE_ADDR,             \* where the mode flag is kept
  MaxStarts              \* bound: how often the device starts

ASSUME RuntimeAssumption ==
  /\ FLASH_PAGE_SIZE \in Nat \ {0} /\ Xfer \in 1 .. FLASH_PAGE_SIZE
  /\ FactoryStart \in Nat \ {0} /\ FactorySize \in Nat \ {0}
  /\ {boot_partition_size, FlashSize, SizeLimit, MODE_ADDR, MaxStarts} \subseteq Nat
  /\ MaxStarts > 0 /\ FactoryStart + FactorySize <= boot_partition_size
  /\ boot_partition_size <= FlashSize /\ FlashSize < SizeLimit
  /\ MODE_ADDR + FLASH_PAGE_SIZE <= FlashSize /\ MODE_ADDR % FLASH_PAGE_SIZE = 0
  /\ \A n \in ImageSizes : n \in Nat /\ n < FlashSize

VARIABLES
  sectors,       \* the units of flash: a header with its size, "data" or "erased"
  img_table,     \* the images found at start
  dn_base_addr, bytes_avail, total_len,
  dfuPlace,      \* "up", "write", "erased", "mode erased" or "off"
  dfuBusy,       \* the class waits for the flashing to finish
  block,         \* the block being written: address, length, units
  uploaded,      \* what the last upload gave: the address and the length
  starts

rtVars == <<sectors, img_table, dn_base_addr, bytes_avail, total_len, dfuPlace, dfuBusy, block,
            uploaded, starts>>
download == <<dn_base_addr, bytes_avail, total_len, dfuBusy, block>>

MAX_IMAGE_CNT == 2
Header(n) == <<"header", n>>
Headers == {Header(n) : n \in ImageSizes \cup {FactorySize}}
Units == Headers \cup {<<"data">>, <<"erased">>, <<"mode">>}
NoUpload == [addr |-> 0, length |-> 0]
NoBlock == [addr |-> 0, length |-> 0, units |-> << >>]

-----------------------------------------------------------------------------
(* The boot image manager                                                   *)

End(image) == image.start + image.size
SectorOf(addr) == addr \div FLASH_PAGE_SIZE
SectorAddress(s) == s * FLASH_PAGE_SIZE

\* (Faulty variant: the last sector of the image is taken to be free.)
FirstFreeEarly(image) == SectorAddress(SectorOf(End(image)))

\* The sector after the one where the image ends.
FirstFree(image) == SectorAddress(SectorOf(End(image)) + 1)

boot_image_find_factory_image == <<[start |-> FactoryStart, size |-> FactorySize]>>

\* The one place where the next image may be, unless that is the last sector.
boot_image_locate_next_image(table) ==
  LET addr == FirstFree(Last(table))
  IN IF /\ SectorOf(addr) # SectorOf(boot_partition_size - 1)
        /\ addr < FlashSize /\ sectors[addr] \in Headers
     THEN Append(table, [start |-> addr, size |-> sectors[addr][2]])
     ELSE table

\* Images are added up to MAX_IMAGE_CNT, which is two.
boot_image_build_table == boot_image_locate_next_image(boot_image_find_factory_image)

\* The last entry of the table, all zero when only the factory image was found.
boot_image_get_last_image ==
  IF Len(img_table) = MAX_IMAGE_CNT THEN Last(img_table) ELSE [start |-> 0, size |-> 0]

\* Where a download goes, and the bytes said to be available: what is left behind the end
\* of the last image, as an unsigned number.
boot_image_locate_available_spot ==
  /\ dn_base_addr' = FirstFree(Last(img_table))
  /\ bytes_avail' = (boot_partition_size - End(Last(img_table))) % SizeLimit
  /\ total_len' = 0

RtInit ==
  /\ sectors \in { [a \in 0 .. FlashSize - 1 |->
                      IF a = FactoryStart THEN Header(FactorySize)
                      ELSE IF a < FactoryStart + FactorySize THEN <<"data">> ELSE <<"erased">>] }
  /\ img_table = boot_image_find_factory_image
  /\ dn_base_addr = 0 /\ bytes_avail = 0 /\ total_len = 0
  /\ dfuPlace = "up" /\ dfuBusy = FALSE /\ block = NoBlock
  /\ uploaded = NoUpload
  /\ starts = 1

-----------------------------------------------------------------------------
(* Callbacks                                                                *)

\* The first units of an upgrade image, or other data.
Blocks == { [i \in 1 .. n |-> IF i = 1 THEN first ELSE <<"data">>] :
              n \in 1 .. Xfer, first \in {Header(s) : s \in ImageSizes} \cup {<<"data">>} }

tud_dfu_download_cb ==
  /\ dfuPlace = "up" /\ ~ dfuBusy
  /\ IF dn_base_addr = 0 THEN boot_image_locate_available_spot
                         ELSE UNCHANGED <<dn_base_addr, bytes_avail, total_len>>
  /\ \E b \in Blocks, block_num \in 0 .. 1 :
       IF (bytes_avail' - total_len') % SizeLimit >= Len(b)
       THEN /\ block' = [addr |-> dn_base_addr' + block_num * FLASH_PAGE_SIZE,
                        length |-> Len(b), units |-> b]
            /\ dfuPlace' = "write"
       ELSE UNCHANGED <<block, dfuPlace>>   \* "Insufficient space"
  /\ dfuBusy' = TRUE /\ uploaded' = NoUpload
  /\ UNCHANGED <<sectors, img_table, starts>>

\* A block of the last entry's image: block after block begins a whole sector further,
\* however short a block is.
tud_dfu_upload_cb ==
  /\ dfuPlace = "up" /\ ~ dfuBusy
  /\ \E block_num \in 0 .. 1, length \in 1 .. Xfer :
       LET image == boot_image_get_last_image
           addr == image.start + block_num * FLASH_PAGE_SIZE
       IN uploaded' = IF addr < End(image) THEN [addr |-> addr, length |-> length] ELSE NoUpload
  /\ UNCHANGED <<sectors, img_table, download, dfuPlace, starts>>

InBlock(a) == block.addr <= a /\ a < block.addr + Len(block.units)
Erased(addr) ==
  [a \in 0 .. FlashSize - 1 |-> IF SectorOf(a) = SectorOf(addr) THEN <<"erased">> ELSE sectors[a]]
Written ==
  [a \in 0 .. FlashSize - 1 |-> IF InBlock(a) THEN block.units[a - block.addr + 1] ELSE sectors[a]]

\* boot_image_write: the sector is erased and then written with the block in it; what
\* else it held is kept in RAM, here in the block.
EraseSector ==
  /\ dfuPlace = "write"
  /\ LET kept == [i \in 1 .. FLASH_PAGE_SIZE |->
                    LET a == block.addr + i - 1
                    IN IF InBlock(a) THEN block.units[i]
                       ELSE IF a < FlashSize THEN sectors[a] ELSE <<"erased">>]
     IN block' = [block EXCEPT !.units = kept]
  /\ sectors' = Erased(block.addr)
  /\ dfuPlace' = "erased"
  /\ UNCHANGED <<img_table, dn_base_addr, bytes_avail, dfuBusy, uploaded, starts, total_len>>

WriteSector ==
  /\ dfuPlace = "erased"
  /\ sectors' = Written
  /\ total_len' = total_len + block.length
  /\ dfuPlace' = "up" /\ block' = NoBlock
  /\ UNCHANGED <<img_table, dn_base_addr, bytes_avail, dfuBusy, uploaded, starts>>

\* Abort, detach, manifestation and the request to restart in DFU mode note a mode in flash,
\* which nothing reads, and reset the device.  The flag's sector is read, erased and written.
tud_dfu_abort_cb ==
  /\ dfuPlace = "up"
  /\ block' = [addr |-> MODE_ADDR, length |-> 0,
               units |-> [i \in 1 .. FLASH_PAGE_SIZE |->
                            IF i = 1 THEN <<"mode">> ELSE sectors[MODE_ADDR + i - 1]]]
  /\ sectors' = Erased(MODE_ADDR)
  /\ dfuPlace' = "mode erased"
  /\ UNCHANGED <<img_table, dn_base_addr, bytes_avail, total_len, dfuBusy, uploaded, starts>>

tud_dfu_manifest_cb == ~ dfuBusy /\ tud_dfu_abort_cb

write_dfu_mode ==
  /\ dfuPlace = "mode erased"
  /\ sectors' = Written
  /\ dfuPlace' = "off"
  /\ UNCHANGED <<img_table, download, uploaded, starts>>

PowerFail ==
  /\ dfuPlace # "off"
  /\ dfuPlace' = "off"
  /\ UNCHANGED <<sectors, img_table, download, uploaded, starts>>

\* create_tinyusb_demo, with every static variable at its initial value.
create_tinyusb_demo ==
  /\ dfuPlace = "off" /\ starts < MaxStarts
  /\ img_table' = boot_image_build_table
  /\ dn_base_addr' = 0 /\ bytes_avail' = 0 /\ total_len' = 0
  /\ dfuPlace' = "up" /\ dfuBusy' = FALSE /\ block' = NoBlock /\ uploaded' = NoUpload
  /\ starts' = starts + 1
  /\ UNCHANGED sectors

RtNext ==
  \/ tud_dfu_download_cb \/ EraseSector \/ WriteSector
  \/ tud_dfu_upload_cb \/ tud_dfu_manifest_cb
  \/ tud_dfu_abort_cb \/ write_dfu_mode \/ PowerFail \/ create_tinyusb_demo

RtSpec == RtInit /\ [][RtNext]_rtVars

-----------------------------------------------------------------------------
(* Properties                                                               *)

RtTypeOK ==
  /\ sectors \in [0 .. FlashSize - 1 -> Units]
  /\ Len(img_table) \in 1 .. MAX_IMAGE_CNT
  /\ dn_base_addr \in Nat /\ bytes_avail \in 0 .. SizeLimit - 1 /\ total_len \in 0 .. Xfer
  /\ dfuPlace \in {"up", "write", "erased", "mode erased", "off"} /\ dfuBusy \in BOOLEAN
  /\ block.addr \in Nat /\ block.length \in 0 .. Xfer
  /\ uploaded.addr \in Nat /\ uploaded.length \in 0 .. Xfer
  /\ starts \in 1 .. MaxStarts

\* Nothing, a power failure between erase and write included, changes what an image the
\* manager found at start occupies, but for the sector of the mode flag, which lies in the
\* partition where images go: a device with a working image keeps it.
ListedImagesKept ==
  [][\A i \in DOMAIN img_table, a \in 0 .. FlashSize - 1 :
       /\ img_table[i].start <= a /\ a < End(img_table[i])
       /\ SectorOf(a) # SectorOf(MODE_ADDR)
       => sectors'[a] = sectors[a]]_rtVars
=============================================================================
