--------------------------- MODULE PartitionStore ---------------------------
(***************************************************************************)
(* What a DFU download promises, without the DFU state machine: a transfer *)
(* opens one partition for one image, the image's bytes land there one     *)
(* after another from the partition's first address, a sector being        *)
(* programmed is blank for a while and keeps the tail it had, and a power  *)
(* cut ends the transfer wherever it is.  When the host gives a transfer    *)
(* up the partition stays open and what is written next is only known to   *)
(* stay inside it.                                                         *)
(***************************************************************************)
EXTENDS Integers

CONSTANTS SectorSize, Start, End, Blank, Images

VARIABLES store,   \* [address -> cell]
          open,    \* Closed, or the partition, the image and the bytes programmed
          torn     \* Intact, or the blanked sector and what goes into it

storeVars == <<store, open, torn>>

Stray == <<0, 0>>
Closed == [part |-> 0, img |-> Stray, got |-> 0]
Intact == [at |-> 0, will |-> << >>, n |-> 0]

SectorAt(a) == a .. (a + SectorSize - 1)

AInit == open = Closed /\ torn = Intact

\* A transfer of image m starts on partition p.
Open(p, m) == /\ open = Closed
              /\ open' = [part |-> p, img |-> m, got |-> 0]
              /\ UNCHANGED <<store, torn>>

\* The host gives the transfer up; the partition stays open.
GiveUp == /\ open # Closed /\ torn = Intact
          /\ open' = [part |-> open.part, img |-> Stray, got |-> 0]
          /\ UNCHANGED <<store, torn>>

\* The sector at a, about to take n bytes, is erased.
Tear(a, n) ==
  /\ open # Closed /\ torn = Intact
  /\ SectorAt(a) \subseteq Start[open.part] .. (End[open.part] - 1)
  /\ \/ /\ open.img # Stray
        /\ a = Start[open.part] + open.got
        /\ torn' = [at |-> a, n |-> n,
                    will |-> [i \in 0 .. SectorSize - 1 |->
                                IF i < n THEN <<open.img[1], open.got + i, open.img[2]>>
                                ELSE store[a + i]]]
     \/ /\ open.img = Stray
        /\ \E m \in Images, off \in DOMAIN store :
             torn' = [at |-> a, n |-> n,
                      will |-> [i \in 0 .. SectorSize - 1 |->
                                  IF i < n THEN <<m[1], off + i, m[2]>> ELSE store[a + i]]]
  /\ store' = [x \in DOMAIN store |-> IF x \in SectorAt(a) THEN Blank ELSE store[x]]
  /\ UNCHANGED open

\* The n bytes are in; the rest of the sector is as it was.
Fill == /\ torn # Intact
        /\ store' = [x \in DOMAIN store |->
                       IF x \in SectorAt(torn.at) THEN torn.will[x - torn.at] ELSE store[x]]
        /\ open' = [open EXCEPT !.got = IF open.img = Stray THEN 0 ELSE @ + torn.n]
        /\ torn' = Intact

\* The transfer ends, or power fails and the device forgets it.
Close == open' = Closed /\ torn' = Intact /\ UNCHANGED store

ANext == \/ \E p \in DOMAIN Start, m \in Images : Open(p, m)
         \/ \E a \in DOMAIN store, n \in 1 .. SectorSize : Tear(a, n)
         \/ GiveUp \/ Fill \/ Close

ASpec == AInit /\ [][ANext]_storeVars
=============================================================================
