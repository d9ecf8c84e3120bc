------------------------ MODULE XscopeToPsfProofs ------------------------
(***************************************************************************)
(* Proofs about XscopeToPsf.  The metadata is recognised by its position and  *)
(* length alone: as long as no event has been taken for it, what was taken of   *)
(* each kind and what waits to be taken is what was sent of it and not lost;     *)
(* from then on every kind not yet complete is one that was lost.  The counters *)
(* of the events are followed through their wrap.                              *)
(***************************************************************************)
EXTENDS XscopeToPsf, TLAPS

Kinds == {"header", "timestamp", "table", "entry"}

Others == [kind : {"$enddefinitions", "other probe", "garbled"}]
MetadataRecords == {[kind |-> k, length |-> Lengths[k]] : k \in DOMAIN Lengths}
Events == [kind : {"event"}, length : EventLengths, core : CoreIds, count : Counts, gap : Counts]
Lines == Others \cup MetadataRecords \cup Events

Waiting == {"starts", "opens", "opened"}

PsfTypeOK ==
  /\ mode \in {"none", "file", "stream", "port"}
  /\ sent \in 0 .. (3 + Slots) /\ cnt \in [CoreIds -> Counts] /\ gap \in [CoreIds -> Counts]
  /\ dropped \in SUBSET Kinds /\ mistaken \in SUBSET Kinds
  /\ over \in BOOLEAN /\ eof \in BOOLEAN /\ running \in BOOLEAN
  /\ input = << >> \/ \E r \in Lines : input = <<r>>
  /\ parsing_state \in {"PARSING_VCD_HEADER", "PARSING_VCD_RECORDS"}
  /\ psf_state \in {"header", "timestamp", "table", "entry", "event"}
  /\ psf_evt_entry \in Nat /\ psf_evt_table \in [slots : Nat, entry : Nat]
  /\ event_cnts \in [Cores -> Counts \cup {None}] /\ event_count \in Counts /\ missing \in Counts
  /\ main \in Waiting \cup {"reads", "ends", "closed"}
  /\ written = << >> \/ written \in [kind : Kinds \cup {"event"}, count : Counts \cup {None}]

\* The records are still processed.
Reading == IF mode = "port" THEN running ELSE main \in Waiting \cup {"reads"}

\* The records of a kind that were sent, that have been taken, and that wait to be.
SentOf(k) == CASE k = "header" -> IF sent >= 1 THEN 1 ELSE 0
               [] k = "timestamp" -> IF sent >= 2 THEN 1 ELSE 0
               [] k = "table" -> IF sent >= 3 THEN 1 ELSE 0
               [] k = "entry" -> IF sent >= 3 THEN sent - 3 ELSE 0
Passed(k) == CASE k = "header" -> psf_state # "header"
               [] k = "timestamp" -> psf_state \notin {"header", "timestamp"}
               [] k = "table" -> psf_state \in {"entry", "event"}
               [] k = "entry" -> psf_state = "event"
TakenOf(k) == IF k = "entry" THEN psf_evt_entry ELSE IF Passed(k) THEN 1 ELSE 0
Waits(k) == IF input # << >> /\ input[1].kind = k THEN 1 ELSE 0
Counted(k) == /\ TakenOf(k) + Waits(k) <= SentOf(k)
              /\ k \in dropped <=> TakenOf(k) + Waits(k) < SentOf(k)

TrueTable == [slots |-> Slots, entry |-> Lengths["entry"]]

EntryCounted ==
  /\ psf_state \in {"header", "timestamp", "table"} => psf_evt_entry = 0
  /\ psf_state # "event" => \A c \in Cores : event_cnts[c] = None

\* Nothing is sent before the input is open, and a file begins with the VCD header.
OpenedFirst ==
  /\ main = "starts" => mode = "none"
  /\ main \in Waiting => input = << >> /\ running
  /\ mode # "port" /\ main = "reads" /\ parsing_state = "PARSING_VCD_HEADER"
       => input = <<[kind |-> "$enddefinitions"]>>

\* While no event has been taken for metadata, the count of each kind is right.
StraightInv ==
  Reading /\ mistaken = {} =>
    /\ \A k \in Kinds : Counted(k)
    /\ psf_state \in {"entry", "event"} => psf_evt_table = TrueTable
    /\ psf_state = "entry" => psf_evt_entry < Slots
    /\ psf_state = "event" => psf_evt_entry = Slots

\* Once one has, all metadata was sent before, and what is still expected was lost.
MisledInv ==
  Reading /\ mistaken # {} =>
    /\ sent = 3 + Slots
    /\ input # << >> => input[1].kind \notin Kinds
    /\ \A k \in Kinds : IF Passed(k) THEN k \in dropped <=> k \in mistaken ELSE k \in dropped

MetadataCounted == StraightInv /\ MisledInv
EventsLast == input # << >> /\ input[1].kind = "event" => sent = 3 + Slots
SoundInv == /\ mistaken \subseteq dropped
            /\ event_count # 0 => mistaken = dropped /\ sent = 3 + Slots

Wrap(n) == IF n < CountValues THEN n ELSE n - CountValues
WholeFrom(c) == input # << >> /\ input[1].kind = "event" /\ ~ TooShort(input[1]) /\ input[1].core = c

\* What the counter of a core has to be, given its last event processed and those lost since.
Follows(n, c, lost) == event_cnts[c] # None => n = Wrap(event_cnts[c] + 1 + lost)
CounterFollowed(c) ==
  IF WholeFrom(c)
  THEN /\ cnt[c] = Wrap(input[1].count + 1) /\ gap[c] = 0
       /\ Follows(input[1].count, c, input[1].gap)
  ELSE Follows(cnt[c], c, gap[c])
CountersFollowed == Reading => \A c \in Cores : CounterFollowed(c)

PsfInv == /\ PsfTypeOK /\ EntryCounted /\ OpenedFirst /\ MetadataCounted /\ EventsLast /\ SoundInv
          /\ CountersFollowed

-----------------------------------------------------------------------------
(* The metadata and the counters                                            *)

LEMMA ConstantFacts ==
  /\ CountValues \in Nat /\ CountValues > 0 /\ Slots \in Nat /\ Slots > 0
  /\ NumCores \in Nat /\ Cores \subseteq CoreIds
  /\ Lengths \in [Kinds -> Nat] /\ DOMAIN Lengths = Kinds
  /\ \A k, l \in Kinds : Lengths[k] = Lengths[l] => k = l
<1>1. /\ CountValues \in Nat /\ CountValues > 0 /\ Slots \in Nat /\ Slots > 0 /\ NumCores \in Nat
  BY LengthsAssumption
<1>2. Lengths \in [Kinds -> Nat] /\ Cores \subseteq CoreIds
  BY LengthsAssumption DEF Kinds
<1>3. DOMAIN Lengths = Kinds
  BY <1>2
<1>4. \A k, l \in DOMAIN Lengths : Lengths[k] = Lengths[l] => k = l
  BY LengthsAssumption, Zenon
<1> QED BY <1>1, <1>2, <1>3, <1>4, Zenon

\* A table of no entries, and the ones that events may be taken for.
LEMMA TableFacts ==
  /\ TrueTable \in [slots : Nat, entry : Nat] /\ TrueTable.slots = Slots /\ TrueTable.entry = Lengths["entry"]
  /\ FalseTables \subseteq [slots : Nat, entry : Nat]
<1>1. Slots \in Nat /\ Lengths["entry"] \in Nat
  BY ConstantFacts DEF Kinds
<1> QED BY <1>1, LengthsAssumption DEF TrueTable

LEMMA MetadataFacts ==
  /\ Len(Metadata) = 3 + Slots
  /\ \A i \in 1 .. (3 + Slots) :
       Metadata[i] = IF i = 1 THEN "header" ELSE IF i = 2 THEN "timestamp" ELSE IF i = 3 THEN "table" ELSE "entry"
<1> DEFINE first == <<"header", "timestamp", "table">>
           entries == [i \in 1 .. Slots |-> "entry"]
<1>1. Slots \in Nat
  BY ConstantFacts
<1>2. first \in Seq(Kinds) /\ Len(first) = 3 /\ first[1] = "header" /\ first[2] = "timestamp" /\ first[3] = "table"
  BY DEF Kinds
<1>3. entries \in Seq(Kinds) /\ Len(entries) = Slots /\ \A i \in 1 .. Slots : entries[i] = "entry"
  BY <1>1 DEF Kinds
<1> HIDE DEF first, entries
<1>4. Metadata = first \o entries
  BY DEF Metadata, first, entries
<1>5. ASSUME NEW S, NEW s \in Seq(S), NEW t \in Seq(S)
      PROVE /\ Len(s \o t) = Len(s) + Len(t)
            /\ \A i \in 1 .. (Len(s) + Len(t)) : (s \o t)[i] = IF i <= Len(s) THEN s[i] ELSE t[i - Len(s)]
  OBVIOUS
<1>6. Len(first \o entries) = Len(first) + Len(entries)
      /\ \A i \in 1 .. (Len(first) + Len(entries)) :
           (first \o entries)[i] = IF i <= Len(first) THEN first[i] ELSE entries[i - Len(first)]
  BY <1>2, <1>3, <1>5, Zenon
<1>7. Len(Metadata) = 3 + Slots
  BY <1>2, <1>3, <1>4, <1>6
<1>8. ASSUME NEW i \in 1 .. (3 + Slots)
      PROVE  Metadata[i] = IF i = 1 THEN "header" ELSE IF i = 2 THEN "timestamp" ELSE IF i = 3 THEN "table" ELSE "entry"
  <2>1. Metadata[i] = IF i <= 3 THEN first[i] ELSE entries[i - 3]
    BY <1>2, <1>3, <1>4, <1>6
  <2>2. CASE i <= 3
    <3>1. i = 1 \/ i = 2 \/ i = 3
      BY <1>1, <2>2
    <3> QED BY <1>2, <2>1, <3>1
  <2>3. CASE ~ (i <= 3)
    <3>1. i - 3 \in 1 .. Slots /\ i # 1 /\ i # 2 /\ i # 3
      BY <1>1, <2>3
    <3> QED BY <1>3, <2>1, <2>3, <3>1
  <2> QED BY <2>2, <2>3
<1> QED BY <1>7, <1>8

\* The target's counter goes back to 0 after its last value.
LEMMA NextCount == \A n \in Counts : (n + 1) % CountValues = Wrap(n + 1) /\ Wrap(n + 1) \in Counts
<1>1. CountValues \in Nat /\ CountValues > 0
  BY ConstantFacts
<1>2. \A m \in Nat, v \in Nat : m < v => m % v = m
  OBVIOUS
<1>3. \A v \in Nat : v > 0 => v % v = 0
  OBVIOUS
<1> SUFFICES ASSUME NEW n \in Counts
             PROVE (n + 1) % CountValues = Wrap(n + 1) /\ Wrap(n + 1) \in Counts
  OBVIOUS
<1>4. CASE n + 1 < CountValues
  <2>1. (n + 1) % CountValues = n + 1
    BY <1>1, <1>2, <1>4 DEF Counts
  <2> QED BY <1>1, <1>4, <2>1 DEF Wrap, Counts
<1>5. CASE n + 1 = CountValues
  <2>1. (n + 1) % CountValues = 0
    BY <1>1, <1>3, <1>5
  <2> QED BY <1>1, <1>5, <2>1 DEF Wrap, Counts
<1> QED BY <1>1, <1>4, <1>5 DEF Counts

\* The difference of two counters is the number of the events in between and the last one.
LEMMA DeltaRight ==
  \A before \in Counts, lost \in Counts :
     /\ Wrap(before + 1 + lost) \in Counts
     /\ event_cnt_delta(Wrap(before + 1 + lost), before) - 1 = lost
BY ConstantFacts DEF Counts, Wrap, event_cnt_delta

LEMMA LossCounted ==
  \A before \in Counts, lost \in Counts :
     lost + 1 \in Counts => Wrap(Wrap(before + 1 + lost) + 1) = Wrap(before + 1 + (lost + 1))
BY ConstantFacts DEF Counts, Wrap

\* What is known of a record by its kind.
LEMMA LineKinds ==
  \A r \in Lines :
    /\ IsTrace(r) <=> r \in MetadataRecords \cup Events
    /\ r \in MetadataRecords <=> r.kind \in Kinds
    /\ r \in Events <=> r.kind = "event"
    /\ r \in MetadataRecords => r.length = Lengths[r.kind]
    /\ r \in Events => /\ r.length \in EventLengths /\ r.core \in CoreIds
                       /\ r.count \in Counts /\ r.gap \in Counts
<1> SUFFICES ASSUME NEW r \in Lines
             PROVE /\ IsTrace(r) <=> r \in MetadataRecords \cup Events
                   /\ r \in MetadataRecords <=> r.kind \in Kinds
                   /\ r \in Events <=> r.kind = "event"
                   /\ r \in MetadataRecords => r.length = Lengths[r.kind]
                   /\ r \in Events => /\ r.length \in EventLengths /\ r.core \in CoreIds
                                      /\ r.count \in Counts /\ r.gap \in Counts
  OBVIOUS
<1>0. DOMAIN Lengths = Kinds
  BY ConstantFacts
<1>1. r \in Others => r.kind \notin Kinds \cup {"event"}
  BY DEF Others, Kinds
<1>2. r \in MetadataRecords => r.kind \in Kinds /\ r.length = Lengths[r.kind]
  BY <1>0 DEF MetadataRecords
<1>3. r \in Events => /\ r.kind = "event" /\ r.length \in EventLengths /\ r.core \in CoreIds
                      /\ r.count \in Counts /\ r.gap \in Counts
  BY DEF Events
<1>4. "event" \notin Kinds
  BY DEF Kinds
<1> QED BY <1>0, <1>1, <1>2, <1>3, <1>4 DEF Lines, IsTrace
-----------------------------------------------------------------------------
(* Processing a record                                                      *)

ProcessTypes == /\ psf_state' \in {"header", "timestamp", "table", "entry", "event"} /\ psf_evt_entry' \in Nat
                /\ psf_evt_table' \in [slots : Nat, entry : Nat] /\ mistaken' \in SUBSET Kinds
                /\ event_cnts' \in [Cores -> Counts \cup {None}] /\ event_count' \in Counts /\ missing' \in Counts
                /\ (written' = written \/ written' \in [kind : Kinds \cup {"event"}, count : Counts \cup {None}])

\* A record of the metadata, or one that is taken for it, moves the state on by one.
LEMMA MetadataTaken ==
  ASSUME PsfTypeOK, EntryCounted, psf_state # "event",
         NEW r \in MetadataRecords \cup Events, process_metadata(r)
  PROVE  ProcessTypes /\ EntryCounted' /\ UNCHANGED <<event_cnts, event_count>>
<1>1. /\ psf_state \in {"header", "timestamp", "table", "entry"} /\ psf_evt_entry \in Nat
      /\ (psf_state # "entry" => psf_evt_entry = 0) /\ mistaken \in SUBSET Kinds
      /\ psf_evt_table \in [slots : Nat, entry : Nat] /\ \A c \in Cores : event_cnts[c] = None
  BY DEF PsfTypeOK, EntryCounted
<1>2. /\ psf_evt_entry' = IF psf_state = "entry" THEN psf_evt_entry + 1 ELSE psf_evt_entry
      /\ psf_state' = NextPsfState /\ missing' = 0 /\ event_cnts' = event_cnts /\ event_count' = event_count
      /\ mistaken' = mistaken \/ mistaken' = mistaken \cup {psf_state}
      /\ TableTaken(r)
      /\ written' = written \/ written' = [kind |-> r.kind, count |-> None]
  BY DEF process_metadata
<1>3. psf_state' \in {"header", "timestamp", "table", "entry", "event"} /\ psf_evt_entry' \in Nat
      /\ (psf_state' \in {"header", "timestamp", "table"} => psf_evt_entry' = 0)
  BY <1>1, <1>2 DEF NextPsfState
<1>4. mistaken' \in SUBSET Kinds
  BY <1>1, <1>2 DEF Kinds
<1>5. psf_evt_table' \in [slots : Nat, entry : Nat]
  BY <1>1, <1>2, TableFacts DEF TableTaken, TrueTable
<1>6. written' = written \/ written' \in [kind : Kinds \cup {"event"}, count : Counts \cup {None}]
  <2>1. r \in Lines
    BY DEF Lines
  <2>2. r.kind \in Kinds \cup {"event"}
    BY <2>1, LineKinds
  <2> QED BY <1>2, <2>2
<1>7. event_cnts \in [Cores -> Counts \cup {None}] /\ event_count \in Counts /\ 0 \in Counts
  BY ConstantFacts DEF PsfTypeOK, Counts
<1>8. EntryCounted'
  BY <1>1, <1>2, <1>3, Zenon DEF EntryCounted
<1> QED BY <1>2, <1>3, <1>4, <1>5, <1>6, <1>7, <1>8, Zenon DEF ProcessTypes

\* A record that is not refused keeps the count of each kind right, or is an event that
\* takes the place of a record that was lost.
LEMMA MetadataAligned ==
  ASSUME PsfInv, Reading, psf_state # "event", NEW r \in MetadataRecords \cup Events,
         input = <<r>>, input' = << >>, process_metadata(r), ~ Refuses(r), UNCHANGED <<sent, dropped>>
  PROVE  StraightInv' /\ MisledInv' /\ SoundInv'
<1>0. input # << >> /\ input[1] = r /\ r \in Lines
  BY DEF Lines
<1>1. /\ r \in MetadataRecords <=> r.kind \in Kinds
      /\ r \in Events <=> r.kind = "event"
      /\ r \in MetadataRecords => r.length = Lengths[r.kind]
  BY <1>0, LineKinds
<1>2. /\ psf_state \in Kinds /\ psf_evt_entry \in Nat /\ mistaken \in SUBSET Kinds /\ dropped \in SUBSET Kinds
      /\ (psf_state # "entry" => psf_evt_entry = 0) /\ sent \in 0 .. (3 + Slots)
  BY DEF PsfInv, PsfTypeOK, EntryCounted, Kinds
<1>3. Slots \in Nat /\ Slots > 0 /\ "event" \notin Kinds
  BY ConstantFacts DEF Kinds
<1>4. r.length = ExpectedLength /\ (psf_state = "header" => r.kind = "header") /\ Compatible(r)
  BY DEF Refuses, Compatible
<1>5. /\ psf_evt_entry' = IF psf_state = "entry" THEN psf_evt_entry + 1 ELSE psf_evt_entry
      /\ psf_state' = NextPsfState /\ TableTaken(r) /\ event_count' = event_count
      /\ mistaken' = IF r.kind = "event" THEN mistaken \cup {psf_state} ELSE mistaken
  BY <1>4 DEF process_metadata
<1>6. StraightInv /\ MisledInv /\ SoundInv /\ EventsLast
  BY Zenon DEF PsfInv, MetadataCounted
<1>7. CASE r.kind \in Kinds
  <2>1. mistaken = {} /\ mistaken' = {}
    BY <1>0, <1>3, <1>5, <1>6, <1>7 DEF MisledInv
  <2>2. /\ \A k \in Kinds : Counted(k)
        /\ psf_state \in {"entry", "event"} => psf_evt_table = TrueTable
        /\ psf_state = "entry" => psf_evt_entry < Slots
    BY <1>6, <2>1, Zenon DEF StraightInv
  <2>3. ExpectedLength = Lengths[psf_state]
    BY <2>2, TableFacts DEF ExpectedLength
  <2>4. r.kind = psf_state
    BY <1>1, <1>2, <1>4, <1>7, <2>3, ConstantFacts
  <2>5. /\ psf_state' \in {"entry", "event"} => psf_evt_table' = TrueTable
        /\ psf_state' = "entry" => psf_evt_entry' < Slots
        /\ psf_state' = "event" => psf_evt_entry' = Slots
    <3>1. CASE psf_state \in {"header", "timestamp"}
      BY <1>5, <3>1 DEF NextPsfState
    <3>2. CASE psf_state = "table"
      BY <1>2, <1>3, <1>4, <1>5, <2>4, <3>2 DEF NextPsfState, TableTaken, TrueTable
    <3>3. CASE psf_state = "entry"
      <4>1. psf_evt_table' = TrueTable /\ psf_evt_table.slots = Slots
        BY <1>5, <2>2, <3>3, TableFacts DEF TableTaken
      <4>2. psf_state' = IF psf_evt_entry' >= Slots THEN "event" ELSE "entry"
        BY <1>5, <3>3, <4>1 DEF NextPsfState
      <4> QED BY <1>2, <1>3, <1>5, <2>2, <3>3, <4>1, <4>2
    <3> QED BY <1>2, <3>1, <3>2, <3>3 DEF Kinds
  <2>6. ASSUME NEW k \in Kinds PROVE Counted(k)'
    <3>1. Waits(k) = (IF k = psf_state THEN 1 ELSE 0) /\ Waits(k)' = 0
      BY <1>0, <2>4 DEF Waits
    <3>2. TakenOf(k)' = IF k = psf_state THEN TakenOf(k) + 1 ELSE TakenOf(k)
      <4>1. CASE psf_state = "header"
        <5>1. psf_state' = "timestamp" /\ psf_evt_entry' = psf_evt_entry
          BY <1>5, <4>1 DEF NextPsfState
        <5>2. Passed(k)' <=> Passed(k) \/ k = "header"
          BY <4>1, <5>1 DEF Passed, Kinds
        <5>3. k = "header" => ~ Passed(k) /\ k # "entry"
          BY <4>1 DEF Passed
        <5> QED BY <4>1, <5>1, <5>2, <5>3 DEF TakenOf
      <4>2. CASE psf_state = "timestamp"
        <5>1. psf_state' = "table" /\ psf_evt_entry' = psf_evt_entry
          BY <1>5, <4>2 DEF NextPsfState
        <5>2. Passed(k)' <=> Passed(k) \/ k = "timestamp"
          BY <4>2, <5>1 DEF Passed, Kinds
        <5>3. k = "timestamp" => ~ Passed(k) /\ k # "entry"
          BY <4>2 DEF Passed
        <5> QED BY <4>2, <5>1, <5>2, <5>3 DEF TakenOf
      <4>3. CASE psf_state = "table"
        <5>1. psf_state' = "entry" /\ psf_evt_entry' = psf_evt_entry
          BY <1>5, <4>3 DEF NextPsfState
        <5>2. Passed(k)' <=> Passed(k) \/ k = "table"
          BY <4>3, <5>1 DEF Passed, Kinds
        <5>3. k = "table" => ~ Passed(k) /\ k # "entry"
          BY <4>3 DEF Passed
        <5> QED BY <4>3, <5>1, <5>2, <5>3 DEF TakenOf
      <4>4. CASE psf_state = "entry"
        <5>1. psf_state' \in {"entry", "event"}
          BY <1>5, <4>4 DEF NextPsfState
        <5> QED BY <1>2, <1>5, <4>4, <5>1 DEF TakenOf, Passed, Kinds
      <4> QED BY <1>2, <4>1, <4>2, <4>3, <4>4 DEF Kinds
    <3>3. TakenOf(k) \in Nat
      BY <1>2 DEF TakenOf
    <3>4. TakenOf(k)' + Waits(k)' = TakenOf(k) + Waits(k)
      BY <3>1, <3>2, <3>3
    <3>5. SentOf(k)' = SentOf(k) /\ dropped' = dropped
      BY DEF SentOf
    <3>6. TakenOf(k) + Waits(k) <= SentOf(k) /\ (k \in dropped <=> TakenOf(k) + Waits(k) < SentOf(k))
      BY <2>2, Zenon DEF Counted
    <3>7. TakenOf(k)' + Waits(k)' <= SentOf(k)' /\ (k \in dropped' <=> TakenOf(k)' + Waits(k)' < SentOf(k)')
      BY <3>4, <3>5, <3>6, Zenon
    <3> QED BY <3>7, Zenon DEF Counted
  <2>7. StraightInv'
    BY <2>5, <2>6, Zenon DEF StraightInv
  <2>8. MisledInv' /\ SoundInv'
    BY <1>5, <1>6, <2>1 DEF MisledInv, SoundInv
  <2> QED BY <2>7, <2>8
<1>8. CASE r.kind = "event"
  <2>1. sent = 3 + Slots /\ psf_state # "header" /\ mistaken' = mistaken \cup {psf_state}
    BY <1>0, <1>4, <1>5, <1>6, <1>8 DEF EventsLast
  <2>2. \A k \in Kinds : IF Passed(k) THEN k \in dropped <=> k \in mistaken ELSE k \in dropped
    <3>1. CASE mistaken # {}
      BY <1>6, <3>1, Zenon DEF MisledInv
    <3>2. CASE mistaken = {}
      <4>0. /\ \A k \in Kinds : Counted(k)
            /\ psf_state = "entry" => psf_evt_entry < Slots
        BY <1>6, <3>2, Zenon DEF StraightInv
      <4> SUFFICES ASSUME NEW k \in Kinds PROVE IF Passed(k) THEN k \notin dropped ELSE k \in dropped
        BY <3>2
      <4>1. Waits(k) = 0
        BY <1>0, <1>3, <1>8 DEF Waits
      <4>2. k \in dropped <=> TakenOf(k) + 0 < SentOf(k)
        BY <4>0, <4>1, Zenon DEF Counted
      <4>3. CASE k = "entry"
        <5>1. ~ Passed(k) /\ TakenOf(k) = psf_evt_entry
          BY <4>3 DEF Passed, TakenOf
        <5>2. SentOf(k) = Slots
          BY <1>3, <2>1, <4>3 DEF SentOf
        <5>3. psf_evt_entry + 0 < Slots
          BY <1>2, <1>3, <4>0
        <5> QED BY <4>2, <5>1, <5>2, <5>3
      <4>4. CASE k # "entry"
        <5>1. TakenOf(k) = IF Passed(k) THEN 1 ELSE 0
          BY <4>4 DEF TakenOf
        <5>2. SentOf(k) = 1
          BY <1>3, <2>1, <4>4 DEF SentOf, Kinds
        <5> QED BY <4>2, <5>1, <5>2
      <4> QED BY <4>3, <4>4
    <3> QED BY <3>1, <3>2
  <2>3. ~ Passed(psf_state)
    BY <1>2 DEF Passed, Kinds
  <2>4. psf_state \in dropped
    BY <1>2, <2>2, <2>3
  <2>5. \A k \in Kinds : Passed(k)' <=> Passed(k) \/ (k = psf_state /\ (k = "entry" => psf_state' = "event"))
    <3>1. CASE psf_state \in {"timestamp", "table"}
      BY <1>5, <3>1 DEF Passed, NextPsfState, Kinds
    <3>2. CASE psf_state = "entry"
      <4>1. psf_state' \in {"entry", "event"}
        BY <1>5, <3>2 DEF NextPsfState
      <4> QED BY <3>2, <4>1 DEF Passed, Kinds
    <3> QED BY <1>2, <2>1, <3>1, <3>2 DEF Kinds
  <2>6. \A k \in Kinds : IF Passed(k)' THEN k \in dropped <=> k \in mistaken' ELSE k \in dropped
    BY <2>1, <2>2, <2>4, <2>5
  <2>7. StraightInv' /\ MisledInv'
    BY <2>1, <2>6 DEF StraightInv, MisledInv
  <2>8. SoundInv'
    BY <1>5, <1>6, <2>1, <2>4 DEF SoundInv
  <2> QED BY <2>7, <2>8
<1> QED BY <1>1, <1>7, <1>8

\* An event that is whole leaves its core's counter at its own, and what it reports missing
\* is what was lost since the one before.
LEMMA EventTaken ==
  ASSUME PsfTypeOK, NEW r \in Events, process_trace_event(r),
         r.core \in Cores /\ ~ TooShort(r) => Follows(r.count, r.core, r.gap)
  PROVE  /\ event_cnts' \in [Cores -> Counts \cup {None}] /\ event_count' \in Counts
         /\ missing' \in Counts /\ written' \in [kind : Kinds \cup {"event"}, count : Counts \cup {None}]
         /\ TooShort(r) => UNCHANGED <<event_cnts, event_count>>
         /\ ~ TooShort(r) => event_cnts' = IF r.core \in Cores THEN [event_cnts EXCEPT ![r.core] = r.count]
                                           ELSE event_cnts
         /\ ~ TooShort(r) /\ r.core \in Cores /\ event_cnts[r.core] # None => missing' = r.gap
<1>1. event_cnts \in [Cores -> Counts \cup {None}] /\ event_count \in Counts
  BY DEF PsfTypeOK
<1>2. r.count \in Counts /\ r.gap \in Counts
  BY DEF Events
<1>3. 0 \in Counts
  BY ConstantFacts DEF Counts
<1>6. r.kind = "event"
  BY DEF Events
<1>4. CASE TooShort(r)
  BY <1>1, <1>3, <1>4, <1>6 DEF process_trace_event
<1>5. CASE ~ TooShort(r)
  <2>1. /\ detect_missing_events(r) /\ written' = [kind |-> r.kind, count |-> event_count]
        /\ event_count' = (event_count + 1) % CountValues
    BY <1>5 DEF process_trace_event
  <2>2. event_count' \in Counts
    BY <1>1, <2>1, NextCount
  <2>3. written' \in [kind : Kinds \cup {"event"}, count : Counts \cup {None}]
    BY <1>1, <1>6, <2>1
  <2>4. CASE r.core \notin Cores
    BY <1>1, <1>3, <1>5, <2>1, <2>2, <2>3, <2>4 DEF detect_missing_events
  <2>5. CASE r.core \in Cores
    <3>1. event_cnts' = [event_cnts EXCEPT ![r.core] = r.count]
      BY <2>1, <2>5 DEF detect_missing_events
    <3>2. event_cnts' \in [Cores -> Counts \cup {None}]
      BY <1>1, <1>2, <3>1
    <3>3. CASE event_cnts[r.core] = None
      <4>1. missing' = 0
        BY <2>1, <2>5, <3>3 DEF detect_missing_events
      <4> QED BY <1>3, <1>5, <2>2, <2>3, <2>5, <3>1, <3>2, <3>3, <4>1
    <3>4. CASE event_cnts[r.core] # None
      <4>1. missing' = event_cnt_delta(r.count, event_cnts[r.core]) - 1
        BY <2>1, <2>5, <3>4 DEF detect_missing_events
      <4>2. event_cnts[r.core] \in Counts
        BY <1>1, <2>5, <3>4
      <4>3. r.count = Wrap(event_cnts[r.core] + 1 + r.gap)
        BY <1>5, <2>5, <3>4 DEF Follows
      <4>4. missing' = r.gap
        BY <1>2, <4>1, <4>2, <4>3, DeltaRight
      <4> QED BY <1>2, <1>5, <2>2, <2>3, <2>5, <3>1, <3>2, <3>4, <4>4
    <3> QED BY <3>3, <3>4
  <2> QED BY <2>4, <2>5
<1> QED BY <1>4, <1>5
-----------------------------------------------------------------------------
(* The record that is read                                                  *)

\* When events are processed all metadata was sent, and what was lost of it was mistaken.
LEMMA EventState ==
  ASSUME PsfInv, Reading, psf_state = "event"
  PROVE  sent = 3 + Slots /\ mistaken = dropped /\ \A k \in Kinds : Waits(k) = 0
<1>1. StraightInv /\ MisledInv
  BY Zenon DEF PsfInv, MetadataCounted
<1>2. mistaken \in SUBSET Kinds /\ dropped \in SUBSET Kinds /\ sent \in 0 .. (3 + Slots)
  BY DEF PsfInv, PsfTypeOK
<1>3. Slots \in Nat /\ Slots > 0
  BY ConstantFacts
<1>4. \A k \in Kinds : Passed(k)
  BY DEF Kinds, Passed
<1>5. CASE mistaken # {}
  <2>1. /\ sent = 3 + Slots
        /\ input # << >> => input[1].kind \notin Kinds
        /\ \A k \in Kinds : IF Passed(k) THEN k \in dropped <=> k \in mistaken ELSE k \in dropped
    BY <1>1, <1>5, Zenon DEF MisledInv
  <2>2. \A k \in Kinds : k \in dropped <=> k \in mistaken
    BY <1>4, <2>1, Zenon
  <2>3. mistaken = dropped
    BY <1>2, <2>2
  <2>4. \A k \in Kinds : Waits(k) = 0
    BY <2>1 DEF Waits
  <2> QED BY <2>1, <2>3, <2>4
<1>6. CASE mistaken = {}
  <2>1. (\A k \in Kinds : Counted(k)) /\ psf_evt_entry = Slots
    BY <1>1, <1>6, Zenon DEF StraightInv
  <2>2. \A k \in Kinds : Waits(k) \in {0, 1}
    BY DEF Waits
  <2>3. sent = 3 + Slots /\ Waits("entry") = 0
    <3>1. TakenOf("entry") = Slots /\ TakenOf("entry") + Waits("entry") <= SentOf("entry")
      BY <2>1 DEF Counted, TakenOf, Kinds
    <3>2. SentOf("entry") = IF sent >= 3 THEN sent - 3 ELSE 0
      BY DEF SentOf
    <3>3. Waits("entry") \in {0, 1}
      BY <2>2 DEF Kinds
    <3> QED BY <1>2, <1>3, <3>1, <3>2, <3>3
  <2>4. ASSUME NEW k \in Kinds PROVE TakenOf(k) = SentOf(k)
    <3>1. CASE k = "entry"
      <4>1. TakenOf(k) = Slots /\ SentOf(k) = Slots
        BY <1>3, <2>1, <2>3, <3>1 DEF TakenOf, SentOf
      <4> QED BY <4>1
    <3>2. CASE k # "entry"
      <4>1. TakenOf(k) = 1
        BY <1>4, <3>2 DEF TakenOf
      <4>2. SentOf(k) = 1
        BY <1>3, <2>3, <3>2 DEF SentOf, Kinds
      <4> QED BY <4>1, <4>2
    <3> QED BY <3>1, <3>2
  <2>5. ASSUME NEW k \in Kinds PROVE SentOf(k) \in Nat
    BY <1>2, <1>3, <2>3 DEF SentOf, Kinds
  <2>6. ASSUME NEW k \in Kinds PROVE Waits(k) = 0 /\ k \notin dropped
    <3>1. SentOf(k) + Waits(k) <= SentOf(k) /\ (k \in dropped <=> SentOf(k) + Waits(k) < SentOf(k))
      BY <2>1, <2>4 DEF Counted
    <3>2. Waits(k) \in {0, 1} /\ SentOf(k) \in Nat
      BY <2>2, <2>5
    <3>3. Waits(k) = 0
      BY <3>1, <3>2
    <3>4. ~ (SentOf(k) + Waits(k) < SentOf(k))
      BY <3>2, <3>3
    <3> QED BY <3>1, <3>3, <3>4, Zenon
  <2> QED BY <1>2, <1>6, <2>3, <2>6
<1> QED BY <1>5, <1>6

LEMMA RecordProcessed ==
  ASSUME PsfInv, Reading, NEW r \in MetadataRecords \cup Events, input = <<r>>, input' = << >>,
         process_psf_data(r), UNCHANGED <<sent, cnt, gap, dropped>>,
         Reading' => ~ Refuses(r)
  PROVE  /\ ProcessTypes /\ EntryCounted' /\ SoundInv' /\ MetadataCounted' /\ CountersFollowed'
         /\ event_count' # event_count /\ r.core \in Cores /\ event_cnts[r.core] # None => missing' = r.gap
<1>0. input # << >> /\ input[1] = r /\ r \in Lines
  BY DEF Lines
<1>1. /\ r \in MetadataRecords <=> r.kind \in Kinds
      /\ r \in Events <=> r.kind = "event"
  BY <1>0, LineKinds
<1>2. "event" \notin Kinds
  BY DEF Kinds
<1>5. PsfTypeOK /\ EntryCounted /\ SoundInv /\ MetadataCounted
  BY Zenon DEF PsfInv
<1>8. \A c \in Cores : CounterFollowed(c)
  BY Zenon DEF PsfInv, CountersFollowed
<1>10. CASE psf_state # "event"
  <2>1. process_metadata(r)
    BY <1>10 DEF process_psf_data
  <2>2. ProcessTypes /\ EntryCounted' /\ UNCHANGED <<event_cnts, event_count>>
    BY <1>5, <1>10, <2>1, MetadataTaken
  <2>3. SoundInv' /\ MetadataCounted'
    <3>1. CASE ~ Refuses(r)
      <4>1. StraightInv' /\ MisledInv' /\ SoundInv'
        BY <1>10, <2>1, <3>1, MetadataAligned
      <4> QED BY <4>1, Zenon DEF MetadataCounted
    <3>2. CASE Refuses(r)
      <4>1. ~ Reading'
        BY <3>2
      <4>2. MetadataCounted'
        BY <4>1, Zenon DEF MetadataCounted, StraightInv, MisledInv
      <4>3. ~ Compatible(r)
        BY <3>2 DEF Refuses
      <4>4. mistaken' = mistaken
        BY <2>1, <4>3 DEF process_metadata
      <4>5. SoundInv'
        BY <1>5, <2>2, <4>4 DEF SoundInv
      <4> QED BY <4>2, <4>5
    <3> QED BY <3>1, <3>2
  <2>7. ASSUME NEW c \in Cores PROVE CounterFollowed(c)'
    <3>2. ~ WholeFrom(c)'
      BY Zenon DEF WholeFrom
    <3>3. event_cnts[c] = None
      BY <1>5, <1>10 DEF EntryCounted
    <3>4. event_cnts'[c] # None => cnt'[c] = Wrap(event_cnts'[c] + 1 + gap'[c])
      BY <2>2, <3>3, Zenon
    <3> QED BY <3>2, <3>4, Zenon DEF CounterFollowed, Follows
  <2>8. CountersFollowed'
    BY <2>7, Zenon DEF CountersFollowed
  <2>9. event_count' = event_count
    BY <2>2
  <2> QED BY <2>2, <2>3, <2>8, <2>9, Zenon
<1>11. CASE psf_state = "event"
  <2>1. process_trace_event(r) /\ UNCHANGED <<psf_state, psf_evt_entry, psf_evt_table, mistaken>>
    BY <1>11 DEF process_psf_data
  <2>3. sent = 3 + Slots /\ mistaken = dropped /\ \A k \in Kinds : Waits(k) = 0
    BY <1>11, EventState
  <2>2. r \in Events
    <3>1. r.kind \in Kinds => Waits(r.kind) = 1
      BY <1>0 DEF Waits
    <3>2. r.kind \notin Kinds
      BY <2>3, <3>1
    <3> QED BY <1>1, <3>2
  <2>5. ASSUME NEW c \in Cores, r.core = c, ~ TooShort(r)
        PROVE  cnt[c] = Wrap(r.count + 1) /\ gap[c] = 0 /\ Follows(r.count, c, r.gap)
    <3>1. WholeFrom(c)
      BY <1>0, <1>1, <2>2, <2>5, Zenon DEF WholeFrom
    <3> QED BY <1>0, <1>8, <3>1 DEF CounterFollowed
  <2>6. /\ event_cnts' \in [Cores -> Counts \cup {None}] /\ event_count' \in Counts
        /\ missing' \in Counts /\ written' \in [kind : Kinds \cup {"event"}, count : Counts \cup {None}]
        /\ TooShort(r) => UNCHANGED <<event_cnts, event_count>>
        /\ ~ TooShort(r) => event_cnts' = IF r.core \in Cores THEN [event_cnts EXCEPT ![r.core] = r.count]
                                          ELSE event_cnts
        /\ ~ TooShort(r) /\ r.core \in Cores /\ event_cnts[r.core] # None => missing' = r.gap
    <3>1. r.core \in Cores /\ ~ TooShort(r) => Follows(r.count, r.core, r.gap)
      BY <2>5, Zenon
    <3> QED BY <1>5, <2>1, <2>2, <3>1, EventTaken, Zenon
  <2>7. ProcessTypes
    <3>1. /\ psf_state' \in {"header", "timestamp", "table", "entry", "event"} /\ psf_evt_entry' \in Nat
          /\ psf_evt_table' \in [slots : Nat, entry : Nat] /\ mistaken' \in SUBSET Kinds
      BY <1>5, <2>1, Zenon DEF PsfTypeOK
    <3> QED BY <2>6, <3>1, Zenon DEF ProcessTypes
  <2>8. EntryCounted'
    BY <1>11, <2>1 DEF EntryCounted
  <2>9. SoundInv'
    BY <2>1, <2>3 DEF SoundInv
  <2>10. MetadataCounted'
    <3>1. ASSUME NEW k \in Kinds
          PROVE  Passed(k)' = Passed(k) /\ TakenOf(k)' = TakenOf(k) /\ SentOf(k)' = SentOf(k) /\ Waits(k)' = Waits(k)
      BY <2>1, <2>3 DEF Passed, TakenOf, SentOf, Waits
    <3>2. StraightInv'
      <4> SUFFICES ASSUME Reading', mistaken' = {}
                   PROVE  /\ \A k \in Kinds : Counted(k)'
                          /\ psf_state' \in {"entry", "event"} => psf_evt_table' = TrueTable
                          /\ psf_state' = "entry" => psf_evt_entry' < Slots
                          /\ psf_state' = "event" => psf_evt_entry' = Slots
        BY Zenon DEF StraightInv, TrueTable
      <4>1. /\ \A k \in Kinds : Counted(k)
            /\ psf_evt_table = TrueTable /\ psf_evt_entry = Slots
        BY <1>5, <1>11, <2>1 DEF MetadataCounted, StraightInv
      <4>2. \A k \in Kinds : Counted(k)'
        BY <3>1, <4>1, Zenon DEF Counted
      <4> QED BY <1>11, <2>1, <4>1, <4>2
    <3>3. MisledInv'
      <4>1. \A k \in Kinds : Passed(k)'
        BY <1>11, <2>1 DEF Passed, Kinds
      <4>2. sent' = 3 + Slots /\ mistaken' = dropped'
        BY <2>1, <2>3
      <4>3. \A k \in Kinds : IF Passed(k)' THEN k \in dropped' <=> k \in mistaken' ELSE k \in dropped'
        BY <4>1, <4>2, Zenon
      <4> QED BY <4>2, <4>3, Zenon DEF MisledInv
    <3> QED BY <3>2, <3>3, Zenon DEF MetadataCounted
  <2>11. ASSUME NEW c \in Cores PROVE CounterFollowed(c)'
    <3>0. ~ WholeFrom(c)'
      BY Zenon DEF WholeFrom
    <3>1. CASE r.core = c /\ ~ TooShort(r)
      <4>1. event_cnts \in [Cores -> Counts \cup {None}] /\ r.count \in Counts
        BY <2>2 DEF PsfInv, PsfTypeOK, Events
      <4>2. event_cnts'[c] = r.count
        BY <2>6, <3>1, <4>1
      <4>3. cnt'[c] = Wrap(r.count + 1) /\ gap'[c] = 0
        BY <2>5, <3>1
      <4>4. cnt'[c] = Wrap(event_cnts'[c] + 1 + gap'[c])
        <5>1. r.count + 1 = r.count + 1 + 0
          BY <4>1 DEF Counts
        <5> QED BY <4>2, <4>3, <5>1, Zenon
      <4> QED BY <3>0, <4>4, Zenon DEF CounterFollowed, Follows
    <3>2. CASE ~ (r.core = c /\ ~ TooShort(r))
      <4>1. ~ WholeFrom(c)
        BY <1>0, <3>2, Zenon DEF WholeFrom
      <4>2. event_cnts[c] # None => cnt[c] = Wrap(event_cnts[c] + 1 + gap[c])
        BY <1>8, <4>1, Zenon DEF CounterFollowed, Follows
      <4>3. event_cnts \in [Cores -> Counts \cup {None}]
        BY DEF PsfInv, PsfTypeOK
      <4>4. event_cnts'[c] = event_cnts[c]
        BY <2>6, <3>2, <4>3
      <4>5. event_cnts'[c] # None => cnt'[c] = Wrap(event_cnts'[c] + 1 + gap'[c])
        BY <4>2, <4>4, Zenon
      <4> QED BY <3>0, <4>5, Zenon DEF CounterFollowed, Follows
    <3> QED BY <3>1, <3>2, Zenon
  <2>12. CountersFollowed'
    BY <2>11, Zenon DEF CountersFollowed
  <2>13. event_count' # event_count /\ r.core \in Cores /\ event_cnts[r.core] # None => missing' = r.gap
    BY <2>6
  <2> QED BY <2>7, <2>8, <2>9, <2>10, <2>12, <2>13, Zenon
<1> QED BY <1>10, <1>11, Zenon
-----------------------------------------------------------------------------
(* Steps that process nothing                                               *)

Rest == EntryCounted /\ MetadataCounted /\ EventsLast /\ SoundInv /\ CountersFollowed
Idle == input = << >> \/ input[1].kind \notin Kinds \cup {"event"}

LEMMA QuietStep ==
  ASSUME PsfInv, UNCHANGED <<sent, cnt, gap, dropped, psf, written>>, Reading' => Reading,
         input' = input \/ (Idle /\ Idle')
  PROVE  Rest'
<1>0. "event" \notin Kinds
  BY DEF Kinds
<1>1. /\ sent' = sent /\ cnt' = cnt /\ gap' = gap /\ dropped' = dropped /\ mistaken' = mistaken
      /\ psf_state' = psf_state /\ psf_evt_entry' = psf_evt_entry /\ psf_evt_table' = psf_evt_table
      /\ event_cnts' = event_cnts /\ event_count' = event_count
  BY DEF psf
<1>2. EntryCounted /\ SoundInv /\ MetadataCounted /\ EventsLast /\ CountersFollowed
  BY Zenon DEF PsfInv
<1>3. EntryCounted' /\ SoundInv'
  <2>1. EntryCounted'
    BY <1>1, <1>2 DEF EntryCounted
  <2>2. SoundInv'
    BY <1>1, <1>2 DEF SoundInv
  <2> QED BY <2>1, <2>2
<1>4. Idle => (\A k \in Kinds : Waits(k) = 0) /\ \A c \in Cores : ~ WholeFrom(c)
  BY <1>0 DEF Idle, Waits, WholeFrom
<1>5. Idle' => (\A k \in Kinds : Waits(k)' = 0) /\ \A c \in Cores : ~ WholeFrom(c)'
  BY <1>0 DEF Idle, Waits, WholeFrom
<1>6. ASSUME NEW k \in Kinds
      PROVE  Waits(k)' = Waits(k) /\ (Passed(k)' <=> Passed(k)) /\ TakenOf(k)' = TakenOf(k) /\ SentOf(k)' = SentOf(k)
  <2>1. CASE input' = input
    BY <1>1, <2>1 DEF Waits, Passed, TakenOf, SentOf
  <2>2. CASE Idle /\ Idle'
    BY <1>1, <1>4, <1>5, <2>2 DEF Passed, TakenOf, SentOf
  <2> QED BY <2>1, <2>2, Zenon
<1>7. MetadataCounted'
  <2>1. StraightInv'
    <3> SUFFICES ASSUME Reading', mistaken' = {}
                 PROVE  /\ \A k \in Kinds : Counted(k)'
                        /\ psf_state' \in {"entry", "event"} => psf_evt_table' = TrueTable
                        /\ psf_state' = "entry" => psf_evt_entry' < Slots
                        /\ psf_state' = "event" => psf_evt_entry' = Slots
      BY Zenon DEF StraightInv, TrueTable
    <3>1. Reading /\ mistaken = {}
      BY <1>1
    <3>2. /\ \A k \in Kinds : Counted(k)
          /\ psf_state \in {"entry", "event"} => psf_evt_table = TrueTable
          /\ psf_state = "entry" => psf_evt_entry < Slots
          /\ psf_state = "event" => psf_evt_entry = Slots
      BY <1>2, <3>1, Zenon DEF MetadataCounted, StraightInv
    <3>3. \A k \in Kinds : Counted(k)'
      BY <1>1, <1>6, <3>2, Zenon DEF Counted
    <3> QED BY <1>1, <3>2, <3>3
  <2>2. MisledInv'
    <3> SUFFICES ASSUME Reading', mistaken' # {}
                 PROVE  /\ sent' = 3 + Slots
                        /\ input' # << >> => input'[1].kind \notin Kinds
                        /\ \A k \in Kinds : IF Passed(k)' THEN k \in dropped' <=> k \in mistaken' ELSE k \in dropped'
      BY Zenon DEF MisledInv
    <3>1. Reading /\ mistaken # {}
      BY <1>1
    <3>2. /\ sent = 3 + Slots
          /\ input # << >> => input[1].kind \notin Kinds
          /\ \A k \in Kinds : IF Passed(k) THEN k \in dropped <=> k \in mistaken ELSE k \in dropped
      BY <1>2, <3>1, Zenon DEF MetadataCounted, MisledInv
    <3>3. input' # << >> => input'[1].kind \notin Kinds
      BY <3>2 DEF Idle
    <3>4. \A k \in Kinds : IF Passed(k)' THEN k \in dropped' <=> k \in mistaken' ELSE k \in dropped'
      BY <1>1, <1>6, <3>2, Zenon
    <3> QED BY <1>1, <3>2, <3>3, <3>4
  <2> QED BY <2>1, <2>2, Zenon DEF MetadataCounted
<1>8. EventsLast'
  <2>1. CASE input' = input
    BY <1>1, <1>2, <2>1, Zenon DEF EventsLast
  <2>2. CASE Idle'
    BY <2>2, Zenon DEF EventsLast, Idle
  <2> QED BY <2>1, <2>2, Zenon
<1>9. ASSUME Reading', NEW c \in Cores PROVE CounterFollowed(c)'
  <2>0. CounterFollowed(c)
    BY <1>2, <1>9, Zenon DEF CountersFollowed
  <2>1. CASE input' = input
    BY <1>1, <2>0, <2>1, Zenon DEF CounterFollowed, WholeFrom, Follows
  <2>2. CASE Idle /\ Idle'
    <3>1. ~ WholeFrom(c) /\ ~ WholeFrom(c)'
      BY <1>4, <1>5, <2>2, Zenon
    <3>2. Follows(cnt[c], c, gap[c])
      BY <2>0, <3>1, Zenon DEF CounterFollowed
    <3>3. Follows(cnt[c], c, gap[c])'
      BY <1>1, <3>2, Zenon DEF Follows
    <3> QED BY <3>1, <3>3, Zenon DEF CounterFollowed
  <2> QED BY <2>1, <2>2, Zenon
<1>10. CountersFollowed'
  BY <1>9, Zenon DEF CountersFollowed
<1> QED BY <1>3, <1>7, <1>8, <1>10, Zenon DEF Rest

\* What reaches the input when it is empty is a line of its own.
LEMMA InputAlone == input = << >> => \A r : Append(input, r) = <<r>>
OBVIOUS

LEMMA NothingWaits == ASSUME PsfInv, CanSend PROVE input = << >> /\ main \notin Waiting
<1>1. input = << >> \/ \E r \in Lines : input = <<r>>
  BY Zenon DEF PsfInv, PsfTypeOK
<1>2. Len(input) < 1 /\ main \notin Waiting
  BY DEF CanSend, MaxInput, Waiting
<1>3. ASSUME NEW r \in Lines, input = <<r>> PROVE FALSE
  BY <1>2, <1>3
<1> QED BY <1>1, <1>2, <1>3

\* A record of the metadata that is sent counts among those of its kind.
LEMMA NextOfKind ==
  ASSUME PsfTypeOK, sent < 3 + Slots, sent' = sent + 1
  PROVE  /\ Metadata[sent + 1] \in Kinds
         /\ \A k \in Kinds : /\ SentOf(k) \in Nat
                             /\ SentOf(k)' = IF k = Metadata[sent + 1] THEN SentOf(k) + 1 ELSE SentOf(k)
<1>1. Slots \in Nat /\ sent \in 0 .. (3 + Slots)
  BY ConstantFacts DEF PsfTypeOK
<1>2. sent + 1 \in 1 .. (3 + Slots)
  BY <1>1
<1>3. Metadata[sent + 1] = IF sent = 0 THEN "header" ELSE IF sent = 1 THEN "timestamp" ELSE IF sent = 2 THEN "table" ELSE "entry"
  BY <1>1, <1>2, MetadataFacts
<1>4. ASSUME NEW k \in Kinds
      PROVE  /\ SentOf(k) \in Nat
             /\ SentOf(k)' = IF k = Metadata[sent + 1] THEN SentOf(k) + 1 ELSE SentOf(k)
  <2>1. CASE k = "header"
    BY <1>1, <1>3, <2>1 DEF SentOf
  <2>2. CASE k = "timestamp"
    BY <1>1, <1>3, <2>2 DEF SentOf
  <2>3. CASE k = "table"
    BY <1>1, <1>3, <2>3 DEF SentOf
  <2>4. CASE k = "entry"
    <3>1. SentOf(k) = (IF sent >= 3 THEN sent - 3 ELSE 0) /\ SentOf(k)' = (IF sent' >= 3 THEN sent' - 3 ELSE 0)
      BY <2>4 DEF SentOf
    <3>2. k = Metadata[sent + 1] <=> sent >= 3
      BY <1>1, <1>3, <2>4
    <3> QED BY <1>1, <3>1, <3>2
  <2> QED BY <2>1, <2>2, <2>3, <2>4 DEF Kinds
<1>5. Metadata[sent + 1] \in Kinds
  BY <1>3 DEF Kinds
<1> QED BY <1>4, <1>5, Zenon

\* A record of the metadata adds to those that wait, or to those that were lost.
LEMMA SendMetadataStep == ASSUME PsfInv, SendMetadata PROVE PsfInv'
<1>1. input = << >> /\ main \notin Waiting
  BY NothingWaits DEF SendMetadata
<1>2. /\ sent' = sent + 1 /\ sent < 3 + Slots /\ cnt' = cnt /\ gap' = gap
      /\ mode' = mode /\ over' = over /\ eof' = eof /\ parsing_state' = parsing_state
      /\ running' = running /\ main' = main /\ written' = written
      /\ psf_state' = psf_state /\ psf_evt_entry' = psf_evt_entry /\ psf_evt_table' = psf_evt_table
      /\ event_cnts' = event_cnts /\ event_count' = event_count /\ missing' = missing /\ mistaken' = mistaken
  BY MetadataFacts DEF SendMetadata, psf
<1>3. PsfTypeOK /\ OpenedFirst /\ EntryCounted /\ SoundInv /\ MetadataCounted /\ CountersFollowed
  BY Zenon DEF PsfInv
<1>4. sent \in 0 .. (3 + Slots) /\ Slots \in Nat /\ sent' \in 0 .. (3 + Slots) /\ sent # 3 + Slots
  BY <1>2, <1>3, ConstantFacts DEF PsfTypeOK
<1>5. DOMAIN Lengths = Kinds /\ "event" \notin Kinds
  BY ConstantFacts DEF Kinds
<1>6. PICK m \in Kinds :
        /\ \A k \in Kinds : SentOf(k) \in Nat /\ SentOf(k)' = IF k = m THEN SentOf(k) + 1 ELSE SentOf(k)
        /\ \/ input' = <<[kind |-> m, length |-> Lengths[m]]>> /\ dropped' = dropped
           \/ input' = << >> /\ dropped' = dropped \cup {m}
  <2>1. /\ Metadata[sent + 1] \in Kinds
        /\ \A k \in Kinds : SentOf(k) \in Nat /\ SentOf(k)' = IF k = Metadata[sent + 1] THEN SentOf(k) + 1 ELSE SentOf(k)
    BY <1>2, <1>3, NextOfKind
  <2>2. \/ input' = Append(input, [kind |-> Metadata[sent + 1], length |-> Lengths[Metadata[sent + 1]]]) /\ dropped' = dropped
        \/ dropped' = dropped \cup {Metadata[sent + 1]} /\ input' = input
    BY Zenon DEF SendMetadata
  <2>3. \A r : Append(input, r) = <<r>>
    BY <1>1, InputAlone
  <2> QED BY <1>1, <2>1, <2>2, <2>3, Zenon
<1>7. [kind |-> m, length |-> Lengths[m]] \in Lines
  BY <1>5, <1>6 DEF MetadataRecords, Lines
<1>8. PsfTypeOK'
  <2>1. dropped' \in SUBSET Kinds
    <3>1. dropped \in SUBSET Kinds
      BY <1>3, Zenon DEF PsfTypeOK
    <3> QED BY <1>6, <3>1
  <2>2. input' = << >> \/ \E r \in Lines : input' = <<r>>
    BY <1>6, <1>7, Zenon
  <2>3. /\ mode' \in {"none", "file", "stream", "port"} /\ main' \in Waiting \cup {"reads", "ends", "closed"}
        /\ over' \in BOOLEAN /\ eof' \in BOOLEAN /\ running' \in BOOLEAN /\ mistaken' \in SUBSET Kinds
        /\ parsing_state' \in {"PARSING_VCD_HEADER", "PARSING_VCD_RECORDS"}
    BY <1>2, <1>3, Zenon DEF PsfTypeOK
  <2>4. /\ psf_state' \in {"header", "timestamp", "table", "entry", "event"}
        /\ psf_evt_entry' \in Nat /\ psf_evt_table' \in [slots : Nat, entry : Nat]
        /\ event_cnts' \in [Cores -> Counts \cup {None}] /\ event_count' \in Counts /\ missing' \in Counts
        /\ written' = << >> \/ written' \in [kind : Kinds \cup {"event"}, count : Counts \cup {None}]
    BY <1>2, <1>3, Zenon DEF PsfTypeOK
  <2>5. cnt' \in [CoreIds -> Counts] /\ gap' \in [CoreIds -> Counts]
    BY <1>2, <1>3, Zenon DEF PsfTypeOK
  <2> QED BY <1>4, <2>1, <2>2, <2>3, <2>4, <2>5, Zenon DEF PsfTypeOK
<1>9. Reading' <=> Reading
  BY <1>2, Zenon DEF Reading
<1>10. input' # << >> => input'[1].kind = m /\ input'[1].kind # "event" /\ dropped' = dropped
  BY <1>5, <1>6
<1>11. EntryCounted' /\ OpenedFirst'
  <2>1. EntryCounted'
    BY <1>2, <1>3, Zenon DEF EntryCounted
  <2>2. OpenedFirst'
    <3>1. ~ (mode # "port" /\ main = "reads" /\ parsing_state = "PARSING_VCD_HEADER")
      BY <1>1, <1>3 DEF OpenedFirst
    <3>2. main = "starts" => mode = "none"
      BY <1>3, Zenon DEF OpenedFirst
    <3> QED BY <1>1, <1>2, <3>1, <3>2, Zenon DEF OpenedFirst
  <2> QED BY <2>1, <2>2
<1>12. EventsLast'
  BY <1>10, Zenon DEF EventsLast
<1>13. SoundInv'
  <2>1. mistaken \subseteq dropped /\ event_count = 0
    BY <1>3, <1>4 DEF SoundInv
  <2>2. dropped \subseteq dropped'
    BY <1>6
  <2> QED BY <1>2, <2>1, <2>2 DEF SoundInv
<1>14. MetadataCounted'
  <2>1. Reading => mistaken = {}
    BY <1>3, <1>4, Zenon DEF MetadataCounted, MisledInv
  <2>2. MisledInv'
    BY <1>2, <1>9, <2>1, Zenon DEF MisledInv
  <2>3. StraightInv'
    <3> SUFFICES ASSUME Reading'
                 PROVE  /\ \A k \in Kinds : Counted(k)'
                        /\ psf_state' \in {"entry", "event"} => psf_evt_table' = TrueTable
                        /\ psf_state' = "entry" => psf_evt_entry' < Slots
                        /\ psf_state' = "event" => psf_evt_entry' = Slots
      BY Zenon DEF StraightInv, TrueTable
    <3>1. /\ \A k \in Kinds : Counted(k)
          /\ psf_state \in {"entry", "event"} => psf_evt_table = TrueTable
          /\ psf_state = "entry" => psf_evt_entry < Slots
          /\ psf_state = "event" => psf_evt_entry = Slots
      BY <1>3, <1>9, <2>1, Zenon DEF MetadataCounted, StraightInv
    <3>2. ASSUME NEW k \in Kinds PROVE Counted(k)'
      <4>1. Waits(k) = 0 /\ TakenOf(k)' = TakenOf(k)
        BY <1>1, <1>2 DEF Waits, TakenOf, Passed
      <4>2. TakenOf(k) \in Nat /\ SentOf(k) \in Nat
        BY <1>3, <1>6 DEF TakenOf, PsfTypeOK
      <4>3. TakenOf(k) + 0 <= SentOf(k) /\ (k \in dropped <=> TakenOf(k) + 0 < SentOf(k))
        BY <3>1, <4>1, Zenon DEF Counted
      <4>4. TakenOf(k) <= SentOf(k) /\ (k \in dropped <=> TakenOf(k) < SentOf(k))
        BY <4>2, <4>3
      <4>5. CASE k # m
        <5>1. Waits(k)' = 0
          BY <1>10, <4>5 DEF Waits
        <5>2. SentOf(k)' = SentOf(k) /\ (k \in dropped' <=> k \in dropped)
          BY <1>6, <4>5
        <5>3. TakenOf(k)' + Waits(k)' <= SentOf(k)' /\ (k \in dropped' <=> TakenOf(k)' + Waits(k)' < SentOf(k)')
          BY <4>1, <4>3, <5>1, <5>2, Zenon
        <5> QED BY <5>3, Zenon DEF Counted
      <4>6. CASE k = m
        <5>1. SentOf(k)' = SentOf(k) + 1
          BY <1>6, <4>6
        <5>2. CASE input' = <<[kind |-> m, length |-> Lengths[m]]>> /\ dropped' = dropped
          <6>1. Waits(k)' = 1
            BY <4>6, <5>2 DEF Waits
          <6>2. TakenOf(k) + 1 <= SentOf(k) + 1 /\ (TakenOf(k) + 1 < SentOf(k) + 1 <=> TakenOf(k) < SentOf(k))
            BY <4>2, <4>4
          <6>3. TakenOf(k)' + Waits(k)' <= SentOf(k)' /\ (k \in dropped' <=> TakenOf(k)' + Waits(k)' < SentOf(k)')
            BY <4>1, <4>4, <5>1, <5>2, <6>1, <6>2, Zenon
          <6> QED BY <6>3, Zenon DEF Counted
        <5>3. CASE input' = << >> /\ dropped' = dropped \cup {m}
          <6>1. Waits(k)' = 0 /\ k \in dropped'
            BY <4>6, <5>3 DEF Waits
          <6>2. TakenOf(k) + 0 <= SentOf(k) + 1 /\ TakenOf(k) + 0 < SentOf(k) + 1
            BY <4>2, <4>4
          <6>3. TakenOf(k)' + Waits(k)' <= SentOf(k)' /\ (k \in dropped' <=> TakenOf(k)' + Waits(k)' < SentOf(k)')
            BY <4>1, <5>1, <6>1, <6>2, Zenon
          <6> QED BY <6>3, Zenon DEF Counted
        <5> QED BY <1>6, <5>2, <5>3, Zenon
      <4> QED BY <4>5, <4>6
    <3> QED BY <1>2, <3>1, <3>2
  <2> QED BY <2>2, <2>3, Zenon DEF MetadataCounted
<1>15. CountersFollowed'
  <2> SUFFICES ASSUME Reading', NEW c \in Cores PROVE CounterFollowed(c)'
    BY Zenon DEF CountersFollowed
  <2>1. ~ WholeFrom(c)
    BY <1>1, Zenon DEF WholeFrom
  <2>2. ~ WholeFrom(c)'
    BY <1>10, Zenon DEF WholeFrom
  <2>3. Follows(cnt[c], c, gap[c])
    BY <1>3, <1>9, <2>1, Zenon DEF CountersFollowed, CounterFollowed
  <2>4. Follows(cnt[c], c, gap[c])'
    BY <1>2, <2>3, Zenon DEF Follows
  <2> QED BY <2>2, <2>4, Zenon DEF CounterFollowed
<1> QED BY <1>8, <1>11, <1>12, <1>13, <1>14, <1>15, Zenon DEF PsfInv
\* A lost event, or one cut short, adds to what the next whole one has to report.
LEMMA SendEventStep == ASSUME PsfInv, NEW k \in CoreIds, SendEvent(k) PROVE PsfInv'
<1>1. input = << >> /\ main \notin Waiting
  BY NothingWaits DEF SendEvent
<1>2. /\ sent = Len(Metadata) /\ sent' = sent /\ dropped' = dropped
      /\ mode' = mode /\ over' = over /\ eof' = eof /\ parsing_state' = parsing_state
      /\ running' = running /\ main' = main /\ written' = written
      /\ psf_state' = psf_state /\ psf_evt_entry' = psf_evt_entry /\ psf_evt_table' = psf_evt_table
      /\ event_cnts' = event_cnts /\ event_count' = event_count /\ missing' = missing /\ mistaken' = mistaken
  BY DEF SendEvent, psf
<1>3. PsfTypeOK /\ OpenedFirst /\ EntryCounted /\ SoundInv /\ MetadataCounted /\ CountersFollowed
  BY Zenon DEF PsfInv
<1>4. cnt \in [CoreIds -> Counts] /\ gap \in [CoreIds -> Counts] /\ event_cnts \in [Cores -> Counts \cup {None}]
  BY <1>3, Zenon DEF PsfTypeOK
<1>5. CountValues \in Nat /\ CountValues > 0 /\ 0 \in Counts /\ Cores \subseteq CoreIds
  BY ConstantFacts DEF Counts
<1>6. cnt' = [cnt EXCEPT ![k] = Wrap(cnt[k] + 1)] /\ cnt' \in [CoreIds -> Counts]
  <2>1. cnt' = [cnt EXCEPT ![k] = (cnt[k] + 1) % CountValues]
    BY DEF SendEvent
  <2>2. cnt[k] \in Counts
    BY <1>4
  <2>3. (cnt[k] + 1) % CountValues = Wrap(cnt[k] + 1) /\ Wrap(cnt[k] + 1) \in Counts
    BY <2>2, NextCount
  <2> QED BY <1>4, <2>1, <2>3
<1>7. gap'[k] \in Counts
  BY DEF SendEvent
<1> DEFINE rec(l) == [kind |-> "event", length |-> l, core |-> k, count |-> cnt[k], gap |-> gap[k]]
<1>8. \/ \E l \in EventLengths :
            input' = <<rec(l)>> /\ gap' = [gap EXCEPT ![k] = IF l < 4 THEN gap[k] + 1 ELSE 0]
      \/ gap' = [gap EXCEPT ![k] = gap[k] + 1] /\ input' = input
  <2>1. \/ \E l \in EventLengths :
              input' = Append(input, rec(l)) /\ gap' = [gap EXCEPT ![k] = IF l < 4 THEN gap[k] + 1 ELSE 0]
        \/ gap' = [gap EXCEPT ![k] = gap[k] + 1] /\ input' = input
    BY DEF SendEvent
  <2>2. \A r : Append(input, r) = <<r>>
    BY <1>1, InputAlone
  <2> HIDE DEF rec
  <2> QED BY <2>1, <2>2
<1>9. \A l \in EventLengths : rec(l) \in Events /\ rec(l) \in Lines
  BY <1>4 DEF Events, Lines
<1>10. \A l \in EventLengths : /\ rec(l).kind = "event" /\ rec(l).core = k /\ rec(l).count = cnt[k]
                               /\ rec(l).gap = gap[k] /\ (TooShort(rec(l)) <=> l < 4)
  BY DEF TooShort
<1> HIDE DEF rec
<1>11. gap' \in [CoreIds -> Counts] /\ \A c \in CoreIds : c # k => gap'[c] = gap[c] /\ cnt'[c] = cnt[c]
  BY <1>4, <1>6, <1>7, <1>8
<1>12. PsfTypeOK'
  <2>1. input' = << >> \/ \E r \in Lines : input' = <<r>>
    BY <1>1, <1>8, <1>9, Zenon
  <2>2. sent' \in 0 .. (3 + Slots) /\ dropped' \in SUBSET Kinds
    BY <1>2, <1>3, Zenon DEF PsfTypeOK
  <2>3. /\ mode' \in {"none", "file", "stream", "port"} /\ main' \in Waiting \cup {"reads", "ends", "closed"}
        /\ over' \in BOOLEAN /\ eof' \in BOOLEAN /\ running' \in BOOLEAN /\ mistaken' \in SUBSET Kinds
        /\ parsing_state' \in {"PARSING_VCD_HEADER", "PARSING_VCD_RECORDS"}
    BY <1>2, <1>3, Zenon DEF PsfTypeOK
  <2>4. /\ psf_state' \in {"header", "timestamp", "table", "entry", "event"}
        /\ psf_evt_entry' \in Nat /\ psf_evt_table' \in [slots : Nat, entry : Nat]
        /\ event_cnts' \in [Cores -> Counts \cup {None}] /\ event_count' \in Counts /\ missing' \in Counts
        /\ written' = << >> \/ written' \in [kind : Kinds \cup {"event"}, count : Counts \cup {None}]
    BY <1>2, <1>3, Zenon DEF PsfTypeOK
  <2> QED BY <1>6, <1>11, <2>1, <2>2, <2>3, <2>4, Zenon DEF PsfTypeOK
<1>13. EntryCounted' /\ OpenedFirst' /\ EventsLast' /\ SoundInv'
  <2>1. EntryCounted'
    BY <1>2, <1>3 DEF EntryCounted
  <2>2. OpenedFirst'
    <3>1. ~ (mode # "port" /\ main = "reads" /\ parsing_state = "PARSING_VCD_HEADER")
      BY <1>1, <1>3 DEF OpenedFirst
    <3>2. main = "starts" => mode = "none"
      BY <1>3, Zenon DEF OpenedFirst
    <3> QED BY <1>1, <1>2, <3>1, <3>2, Zenon DEF OpenedFirst
  <2>3. EventsLast'
    BY <1>2, MetadataFacts, Zenon DEF EventsLast
  <2>4. SoundInv'
    BY <1>2, <1>3 DEF SoundInv
  <2> QED BY <2>1, <2>2, <2>3, <2>4
<1>14. /\ Reading' <=> Reading
       /\ \A k1 \in Kinds : Waits(k1) = 0 /\ Waits(k1)' = 0
       /\ input' # << >> => input'[1].kind \notin Kinds
  <2>1. "event" \notin Kinds
    BY DEF Kinds
  <2>2. Reading' <=> Reading
    BY <1>2, Zenon DEF Reading
  <2>3. ASSUME NEW l \in EventLengths, input' = <<rec(l)>> PROVE input'[1].kind \notin Kinds
    BY <1>10, <2>1, <2>3
  <2>4. input' # << >> => input'[1].kind \notin Kinds
    BY <1>1, <1>8, <2>3, Zenon
  <2>5. \A k1 \in Kinds : Waits(k1) = 0 /\ Waits(k1)' = 0
    BY <1>1, <2>4 DEF Waits
  <2> QED BY <2>2, <2>4, <2>5
<1>15. MetadataCounted'
  <2>1. ASSUME NEW k1 \in Kinds
        PROVE  /\ Waits(k1)' = Waits(k1) /\ (Passed(k1)' <=> Passed(k1))
               /\ TakenOf(k1)' = TakenOf(k1) /\ SentOf(k1)' = SentOf(k1)
    BY <1>2, <1>14 DEF Passed, TakenOf, SentOf
  <2>2. StraightInv'
    <3> SUFFICES ASSUME Reading', mistaken' = {}
                 PROVE  /\ \A k1 \in Kinds : Counted(k1)'
                        /\ psf_state' \in {"entry", "event"} => psf_evt_table' = TrueTable
                        /\ psf_state' = "entry" => psf_evt_entry' < Slots
                        /\ psf_state' = "event" => psf_evt_entry' = Slots
      BY Zenon DEF StraightInv, TrueTable
    <3>1. /\ \A k1 \in Kinds : Counted(k1)
          /\ psf_state \in {"entry", "event"} => psf_evt_table = TrueTable
          /\ psf_state = "entry" => psf_evt_entry < Slots
          /\ psf_state = "event" => psf_evt_entry = Slots
      BY <1>2, <1>3, <1>14, Zenon DEF MetadataCounted, StraightInv
    <3>2. \A k1 \in Kinds : Counted(k1)'
      BY <1>2, <2>1, <3>1, Zenon DEF Counted
    <3> QED BY <1>2, <3>1, <3>2
  <2>3. MisledInv'
    <3> SUFFICES ASSUME Reading', mistaken' # {}
                 PROVE  /\ sent' = 3 + Slots
                        /\ input' # << >> => input'[1].kind \notin Kinds
                        /\ \A k1 \in Kinds : IF Passed(k1)' THEN k1 \in dropped' <=> k1 \in mistaken' ELSE k1 \in dropped'
      BY Zenon DEF MisledInv
    <3>1. /\ sent = 3 + Slots
          /\ \A k1 \in Kinds : IF Passed(k1) THEN k1 \in dropped <=> k1 \in mistaken ELSE k1 \in dropped
      BY <1>2, <1>3, <1>14, Zenon DEF MetadataCounted, MisledInv
    <3>2. \A k1 \in Kinds : IF Passed(k1)' THEN k1 \in dropped' <=> k1 \in mistaken' ELSE k1 \in dropped'
      BY <1>2, <2>1, <3>1, Zenon
    <3> QED BY <1>2, <1>14, <3>1, <3>2
  <2> QED BY <2>2, <2>3, Zenon DEF MetadataCounted
<1>16. CountersFollowed'
  <2> SUFFICES ASSUME Reading', NEW c \in Cores PROVE CounterFollowed(c)'
    BY Zenon DEF CountersFollowed
  <2>0. c \in CoreIds /\ event_cnts[c] \in Counts \cup {None} /\ gap[c] \in Counts /\ cnt[c] \in Counts
    BY <1>4, <1>5
  <2>1. ~ WholeFrom(c)
    BY <1>1, Zenon DEF WholeFrom
  <2>2. event_cnts[c] # None => cnt[c] = Wrap(event_cnts[c] + 1 + gap[c])
    BY <1>3, <1>14, <2>1, Zenon DEF CountersFollowed, CounterFollowed, Follows
  <2>3. CASE c # k
    <3>1. ASSUME NEW l \in EventLengths, input' = <<rec(l)>> PROVE ~ WholeFrom(c)'
      <4>1. input'[1].core = k
        BY <1>10, <3>1
      <4> QED BY <2>3, <4>1, Zenon DEF WholeFrom
    <3>2. ASSUME input' = << >> PROVE ~ WholeFrom(c)'
      BY <3>2, Zenon DEF WholeFrom
    <3>3. ~ WholeFrom(c)'
      BY <1>1, <1>8, <3>1, <3>2, Zenon
    <3>4. gap'[c] = gap[c] /\ cnt'[c] = cnt[c]
      BY <1>11, <2>0, <2>3
    <3>5. event_cnts'[c] # None => cnt'[c] = Wrap(event_cnts'[c] + 1 + gap'[c])
      BY <1>2, <2>2, <3>4, Zenon
    <3> QED BY <3>3, <3>5, Zenon DEF CounterFollowed, Follows
  <2>4. CASE c = k
    <3>0. cnt'[c] = Wrap(cnt[c] + 1)
      BY <1>4, <1>6, <2>0, <2>4
    <3>1. ASSUME gap'[c] = gap[c] + 1
          PROVE  event_cnts'[c] # None => cnt'[c] = Wrap(event_cnts'[c] + 1 + gap'[c])
      <4>1. gap[c] + 1 \in Counts
        BY <1>7, <2>4, <3>1
      <4>2. event_cnts[c] # None => Wrap(Wrap(event_cnts[c] + 1 + gap[c]) + 1) = Wrap(event_cnts[c] + 1 + (gap[c] + 1))
        BY <2>0, <4>1, LossCounted
      <4>3. event_cnts[c] # None => cnt'[c] = Wrap(event_cnts[c] + 1 + gap'[c])
        BY <2>2, <3>0, <3>1, <4>2, Zenon
      <4> QED BY <1>2, <4>3, Zenon
    <3>2. CASE gap' = [gap EXCEPT ![k] = gap[k] + 1] /\ input' = input
      <4>1. gap'[c] = gap[c] + 1
        BY <1>4, <2>4, <3>2
      <4>2. ~ WholeFrom(c)'
        BY <2>1, <3>2, Zenon DEF WholeFrom
      <4> QED BY <3>1, <4>1, <4>2, Zenon DEF CounterFollowed, Follows
    <3>3. ASSUME NEW l \in EventLengths, input' = <<rec(l)>>,
                 gap' = [gap EXCEPT ![k] = IF l < 4 THEN gap[k] + 1 ELSE 0]
          PROVE  CounterFollowed(c)'
      <4>0. input' # << >> /\ input'[1] = rec(l)
        BY <3>3
      <4>1. CASE l < 4
        <5>1. gap'[c] = gap[c] + 1
          BY <1>4, <2>4, <3>3, <4>1
        <5>2. ~ WholeFrom(c)'
          BY <1>10, <4>0, <4>1, Zenon DEF WholeFrom, TooShort
        <5> QED BY <3>1, <5>1, <5>2, Zenon DEF CounterFollowed, Follows
      <4>2. CASE ~ (l < 4)
        <5>1. gap'[c] = 0
          BY <1>4, <2>4, <3>3, <4>2
        <5>2. input'[1].count = cnt[c] /\ input'[1].gap = gap[c]
          BY <1>10, <2>4, <4>0
        <5>3. WholeFrom(c)'
          BY <1>10, <2>4, <4>0, <4>2, Zenon DEF WholeFrom, TooShort
        <5>4. cnt'[c] = Wrap(input'[1].count + 1)
          BY <3>0, <5>2, Zenon
        <5>5. event_cnts'[c] # None => input'[1].count = Wrap(event_cnts'[c] + 1 + input'[1].gap)
          BY <1>2, <2>2, <5>2, Zenon
        <5> QED BY <5>1, <5>3, <5>4, <5>5, Zenon DEF CounterFollowed, Follows
      <4> QED BY <4>1, <4>2
    <3> QED BY <1>8, <3>2, <3>3, Zenon
  <2> QED BY <2>3, <2>4
<1> QED BY <1>12, <1>13, <1>15, <1>16, Zenon DEF PsfInv
-----------------------------------------------------------------------------
(* The initial state and the steps                                          *)

LEMMA PsfStart == Init => PsfInv
<1> SUFFICES ASSUME Init PROVE PsfInv
  OBVIOUS
<1>1. /\ mode = "none" /\ sent = 0 /\ cnt = [c \in CoreIds |-> 0] /\ gap = [c \in CoreIds |-> 0]
      /\ dropped = {} /\ over = FALSE /\ input = << >> /\ eof = FALSE
      /\ parsing_state = "PARSING_VCD_HEADER" /\ psf_state = "header" /\ psf_evt_entry = 0
      /\ event_cnts = [c \in Cores |-> None] /\ event_count = 0 /\ running = TRUE
      /\ main = "starts" /\ written = << >> /\ missing = 0
      /\ psf_evt_table = [slots |-> 0, entry |-> 0] /\ mistaken = {}
  BY DEF Init
<1>2. Slots \in Nat /\ 0 \in Counts
  BY ConstantFacts DEF Counts
<1>3. PsfTypeOK
  <2>1. /\ mode \in {"none", "file", "stream", "port"} /\ parsing_state \in {"PARSING_VCD_HEADER", "PARSING_VCD_RECORDS"}
        /\ psf_state \in {"header", "timestamp", "table", "entry", "event"}
        /\ main \in Waiting \cup {"reads", "ends", "closed"}
    BY <1>1 DEF Waiting
  <2>2. sent \in 0 .. (3 + Slots) /\ psf_evt_entry \in Nat /\ event_count \in Counts /\ missing \in Counts
    BY <1>1, <1>2
  <2>3. /\ cnt \in [CoreIds -> Counts] /\ gap \in [CoreIds -> Counts]
        /\ event_cnts \in [Cores -> Counts \cup {None}]
    BY <1>1, <1>2
  <2>4. over \in BOOLEAN /\ eof \in BOOLEAN /\ running \in BOOLEAN
    BY <1>1
  <2>5. dropped \in SUBSET Kinds /\ mistaken \in SUBSET Kinds /\ psf_evt_table \in [slots : Nat, entry : Nat]
    BY <1>1
  <2> QED BY <1>1, <2>1, <2>2, <2>3, <2>4, <2>5, Zenon DEF PsfTypeOK
<1>4. EntryCounted /\ OpenedFirst /\ EventsLast /\ SoundInv
  BY <1>1 DEF EntryCounted, OpenedFirst, EventsLast, SoundInv, Waiting
<1>5. MetadataCounted
  <2>1. ASSUME NEW k \in Kinds PROVE TakenOf(k) = 0 /\ Waits(k) = 0 /\ SentOf(k) = 0
    <3>1. ~ Passed(k)
      BY <1>1 DEF Passed, Kinds
    <3>2. SentOf(k) = 0
      BY <1>1 DEF SentOf, Kinds
    <3> QED BY <1>1, <3>1, <3>2 DEF TakenOf, Waits
  <2>2. \A k \in Kinds : Counted(k)
    BY <1>1, <2>1 DEF Counted
  <2> QED BY <1>1, <2>2 DEF MetadataCounted, StraightInv, MisledInv
<1>6. CountersFollowed
  <2>1. \A c \in Cores : event_cnts[c] = None /\ ~ WholeFrom(c)
    BY <1>1 DEF WholeFrom
  <2> QED BY <2>1, Zenon DEF CountersFollowed, CounterFollowed, Follows
<1> QED BY <1>3, <1>4, <1>5, <1>6, Zenon DEF PsfInv

LEMMA RestOfInv == PsfInv <=> PsfTypeOK /\ OpenedFirst /\ Rest
BY Zenon DEF PsfInv, Rest

\* main comes up, or has to stop; nothing is in the input before but the file's first line.
MainOpens ==
  /\ main \in Waiting /\ main' \in (Waiting \ {"starts"}) \cup {"reads", "closed"}
  /\ mode' \in {"none", "file", "stream", "port"} /\ running' \in BOOLEAN
  /\ input' = << >> \/ input' = <<[kind |-> "$enddefinitions"]>>
  /\ main' # "reads" => input' = input /\ running' = running
  /\ mode' # "port" /\ main' = "reads" => input' = <<[kind |-> "$enddefinitions"]>>

LEMMA OpeningStep == ASSUME PsfInv, Opening PROVE PsfInv'
<1>1. PsfTypeOK /\ OpenedFirst
  BY Zenon DEF PsfInv
<1>2. UNCHANGED <<sent, cnt, gap, dropped, over, psf, written, eof, parsing_state>>
  BY Zenon DEF Opening, StartMain, OpenInput, OpenOutput, target
<1>3. /\ psf_state' = psf_state /\ psf_evt_entry' = psf_evt_entry /\ event_cnts' = event_cnts
      /\ event_count' = event_count /\ missing' = missing /\ psf_evt_table' = psf_evt_table /\ mistaken' = mistaken
  BY <1>2, Zenon DEF psf
<1>4. MainOpens
  <2>0. /\ main \in Waiting => input = << >> /\ running
        /\ running \in BOOLEAN /\ mode \in {"none", "file", "stream", "port"}
    BY <1>1, Zenon DEF OpenedFirst, PsfTypeOK
  <2>1. ASSUME NEW argv \in CommandLines, StartMain(argv)
        PROVE  /\ main = "starts" /\ main' \in {"closed", "opens"} /\ running' = running /\ input' = input
               /\ mode' \in {mode, "file", "stream", "port"}
    BY <2>1 DEF StartMain
  <2>2. ASSUME NEW argv \in CommandLines, StartMain(argv) PROVE MainOpens
    BY <2>0, <2>1, <2>2 DEF MainOpens, Waiting
  <2>3. CASE OpenInput
    BY <2>0, <2>3 DEF OpenInput, MainOpens, Waiting
  <2>4. CASE OpenOutput
    <3>0. main = "opened" /\ mode' = mode
      BY <2>4 DEF OpenOutput
    <3>1. CASE main' = "closed" /\ UNCHANGED <<input, running>>
      BY <2>0, <3>0, <3>1 DEF MainOpens, Waiting
    <3>2. CASE /\ main' = "reads"
               /\ input' = IF mode = "port" THEN << >> ELSE <<[kind |-> "$enddefinitions"]>>
               /\ running' \in (IF mode = "port" THEN BOOLEAN ELSE {TRUE})
      <4>1. running' \in BOOLEAN
        BY <3>2
      <4>2. /\ input' = << >> \/ input' = <<[kind |-> "$enddefinitions"]>>
            /\ mode' # "port" => input' = <<[kind |-> "$enddefinitions"]>>
        BY <3>0, <3>2
      <4> QED BY <2>0, <3>0, <3>2, <4>1, <4>2 DEF MainOpens, Waiting
    <3> QED BY <2>4, <3>1, <3>2 DEF OpenOutput
  <2> QED BY <2>2, <2>3, <2>4 DEF Opening
<1>5. /\ main \in Waiting /\ main' \in (Waiting \ {"starts"}) \cup {"reads", "closed"}
      /\ mode' \in {"none", "file", "stream", "port"} /\ running' \in BOOLEAN
      /\ input' = << >> \/ input' = <<[kind |-> "$enddefinitions"]>>
      /\ main' # "reads" => input' = input /\ running' = running
      /\ mode' # "port" /\ main' = "reads" => input' = <<[kind |-> "$enddefinitions"]>>
  BY <1>4, Zenon DEF MainOpens
<1>6. input = << >> /\ running
  BY <1>1, <1>5, Zenon DEF OpenedFirst
<1>7. [kind |-> "$enddefinitions"] \in Lines
  BY DEF Lines, Others
<1>8. PsfTypeOK'
  <2>1. main' \in Waiting \cup {"reads", "ends", "closed"}
    BY <1>5
  <2>2. input' = << >> \/ \E r \in Lines : input' = <<r>>
    BY <1>5, <1>7, Zenon
  <2> QED BY <1>1, <1>2, <1>3, <1>5, <2>1, <2>2, Zenon DEF PsfTypeOK
<1>9. OpenedFirst'
  <2>1. main' # "starts" /\ (main' \in Waiting => main' # "reads")
    BY <1>5 DEF Waiting
  <2> QED BY <1>5, <1>6, <2>1, Zenon DEF OpenedFirst
<1>10. Idle /\ Idle'
  <2>1. "$enddefinitions" \notin Kinds \cup {"event"}
    BY DEF Kinds
  <2>2. <<[kind |-> "$enddefinitions"]>>[1].kind = "$enddefinitions"
    OBVIOUS
  <2>3. CASE input' = << >>
    BY <1>6, <2>3, Zenon DEF Idle
  <2>4. CASE input' = <<[kind |-> "$enddefinitions"]>>
    BY <1>6, <2>1, <2>2, <2>4, Zenon DEF Idle
  <2> QED BY <1>5, <2>3, <2>4, Zenon
<1>11. Reading
  BY <1>5, <1>6, Zenon DEF Reading
<1>12. Rest'
  BY <1>2, <1>10, <1>11, QuietStep, Zenon
<1> QED BY <1>8, <1>9, <1>12, Zenon DEF PsfInv, Rest

\* The other lines of a file, or of other probes.
LEMMA SendOtherStep == ASSUME PsfInv, SendOther PROVE PsfInv'
<1>1. input = << >> /\ main \notin Waiting
  BY NothingWaits DEF SendOther
<1>2. /\ UNCHANGED <<mode, sent, cnt, gap, dropped, over, eof, parsing_state, psf, running, main, written>>
  BY Zenon DEF SendOther, target
<1>3. PsfTypeOK /\ OpenedFirst
  BY Zenon DEF PsfInv
<1>4. PICK kind \in {"other probe", "garbled"} : input' = <<[kind |-> kind]>>
  <2>1. PICK kind \in {"other probe", "garbled"} : input' = Append(input, [kind |-> kind])
    BY Zenon DEF SendOther
  <2> QED BY <1>1, <2>1, InputAlone
<1>5. [kind |-> kind] \in Lines /\ input'[1].kind \notin Kinds \cup {"event"}
  BY <1>4 DEF Lines, Others, Kinds
<1>6. Rest'
  <2>1. Idle /\ Idle'
    BY <1>1, <1>5, Zenon DEF Idle
  <2>2. Reading' => Reading
    BY <1>2, Zenon DEF Reading
  <2> QED BY <1>2, <2>1, <2>2, QuietStep, Zenon
<1>7. PsfTypeOK'
  <2>1. input' = << >> \/ \E r \in Lines : input' = <<r>>
    BY <1>4, <1>5, Zenon
  <2>2. /\ psf_state' = psf_state /\ psf_evt_entry' = psf_evt_entry /\ event_cnts' = event_cnts
        /\ event_count' = event_count /\ missing' = missing /\ psf_evt_table' = psf_evt_table /\ mistaken' = mistaken
    BY <1>2, Zenon DEF psf
  <2>3. /\ mode' = mode /\ sent' = sent /\ cnt' = cnt /\ gap' = gap /\ dropped' = dropped
        /\ over' = over /\ eof' = eof /\ parsing_state' = parsing_state
        /\ running' = running /\ main' = main /\ written' = written
    BY <1>2, Zenon
  <2>4. over' \in BOOLEAN /\ eof' \in BOOLEAN /\ running' \in BOOLEAN
    BY <1>3, <2>3, Zenon DEF PsfTypeOK
  <2> QED BY <1>3, <2>1, <2>2, <2>3, <2>4, Zenon DEF PsfTypeOK
<1>8. OpenedFirst'
  <2>1. ~ (mode # "port" /\ main = "reads" /\ parsing_state = "PARSING_VCD_HEADER")
    BY <1>1, <1>3 DEF OpenedFirst
  <2> QED BY <1>1, <1>2, <1>3, <2>1, Zenon DEF OpenedFirst
<1> QED BY <1>6, <1>7, <1>8, Zenon DEF PsfInv, Rest

\* What only moves main, the end-of-file indicator or the end of the run.
LEMMA FlagStep ==
  ASSUME PsfInv,
         Stop \/ EndOfFile \/ xscope_exit_cb \/ NotRunning \/ CloseFiles \/ UNCHANGED vars
  PROVE  PsfInv'
<1>1. UNCHANGED <<mode, input, sent, cnt, gap, dropped, psf, parsing_state, written>>
  BY Zenon DEF Stop, EndOfFile, xscope_exit_cb, NotRunning, CloseFiles, vars, target, psf
<1>2. PsfTypeOK /\ OpenedFirst
  BY Zenon DEF PsfInv
<1>3. over' \in BOOLEAN /\ eof' \in BOOLEAN /\ running' \in BOOLEAN
  <2>1. over' \in {TRUE, over} /\ eof' \in {TRUE, eof} /\ running' \in {FALSE, running}
    BY DEF Stop, EndOfFile, xscope_exit_cb, NotRunning, CloseFiles, vars, target
  <2>2. over \in BOOLEAN /\ eof \in BOOLEAN /\ running \in BOOLEAN
    BY <1>2, Zenon DEF PsfTypeOK
  <2> QED BY <2>1, <2>2
<1>4. \/ main' = main
      \/ main = "reads" /\ main' = "ends"
      \/ main = "ends" /\ main' = "closed"
  BY DEF Stop, EndOfFile, xscope_exit_cb, NotRunning, CloseFiles, vars
<1>5. \/ running' = running
      \/ main = "reads" /\ main' = "reads" /\ mode = "port" /\ ~ running'
  <2>1. ASSUME xscope_exit_cb PROVE main = "reads" /\ main' = "reads" /\ mode = "port" /\ ~ running'
    BY <2>1 DEF xscope_exit_cb
  <2>2. ASSUME ~ xscope_exit_cb PROVE running' = running
    BY <2>2, Zenon DEF Stop, EndOfFile, NotRunning, CloseFiles, vars, target, psf
  <2> QED BY <2>1, <2>2, Zenon
<1>6. PsfTypeOK'
  <2>1. main' \in Waiting \cup {"reads", "ends", "closed"}
    BY <1>2, <1>4 DEF PsfTypeOK
  <2> QED BY <1>1, <1>2, <1>3, <2>1, Zenon DEF PsfTypeOK, psf
<1>7. OpenedFirst'
  <2>1. /\ main' = "starts" => main = "starts"
        /\ main' \in Waiting => main \in Waiting /\ main # "reads"
        /\ main' = "reads" => main = "reads"
    BY <1>4 DEF Waiting
  <2> QED BY <1>1, <1>2, <1>5, <2>1, Zenon DEF OpenedFirst
<1>8. Reading' => Reading
  <2>1. main' \in Waiting \cup {"reads"} => main \in Waiting \cup {"reads"}
    BY <1>4 DEF Waiting
  <2>2. mode' = mode
    BY <1>1
  <2>3. CASE mode = "port"
    <3>1. running' => running
      BY <1>5, Zenon
    <3>2. (Reading <=> running) /\ (Reading' <=> running')
      BY <2>2, <2>3 DEF Reading
    <3> QED BY <3>1, <3>2, Zenon
  <2>4. CASE mode # "port"
    BY <2>1, <2>2, <2>4, Zenon DEF Reading
  <2> QED BY <2>3, <2>4, Zenon
<1>9. Rest'
  BY <1>1, <1>8, QuietStep, Zenon
<1> QED BY <1>6, <1>7, <1>9, Zenon DEF PsfInv, Rest

\* What a reader of the input does with the record r that waits in it.
Takes(r) ==
  /\ r \in Lines /\ input = <<r>> /\ input' = << >>
  /\ UNCHANGED <<mode, sent, cnt, gap, dropped, over, eof>>
  /\ running' \in BOOLEAN /\ (mode # "port" => running' = running)
  /\ main' = main \/ (main = "reads" /\ main' = "ends")
  /\ main \notin Waiting
  /\ parsing_state' \in {"PARSING_VCD_HEADER", "PARSING_VCD_RECORDS"}
  /\ mode # "port" => parsing_state' = "PARSING_VCD_RECORDS"
  /\ Reading' => Reading

LEMMA LineTaken ==
  ASSUME PsfInv, ReadLine
  PROVE  \E r \in Lines :
           /\ Takes(r)
           /\ \/ /\ IsTrace(r) /\ process_psf_data(r) /\ Reading
                 /\ (Reading' => ~ Refuses(r))
              \/ UNCHANGED <<psf, written>> /\ r.kind \notin Kinds \cup {"event"}
<1>1. PsfTypeOK /\ OpenedFirst
  BY Zenon DEF PsfInv
<1>2. /\ mode # "port" /\ main = "reads" /\ input # << >> /\ input' = Tail(input)
      /\ UNCHANGED <<mode, sent, cnt, gap, dropped, over, eof, running>>
  BY DEF ReadLine, target
<1>3. PICK r \in Lines : input = <<r>>
  BY <1>1, <1>2, Zenon DEF PsfTypeOK
<1>4. Head(input) = r /\ input' = << >>
  BY <1>2, <1>3
<1>5. Reading /\ running \in BOOLEAN /\ "reads" \notin Waiting
  BY <1>1, <1>2 DEF Reading, PsfTypeOK, Waiting
<1>6. DOMAIN Lengths = Kinds /\ "event" \notin Kinds
  BY ConstantFacts DEF Kinds
<1>7. CASE parsing_state = "PARSING_VCD_HEADER"
  <2>1. <<r>> = <<[kind |-> "$enddefinitions"]>>
    BY <1>1, <1>2, <1>3, <1>7, Zenon DEF OpenedFirst
  <2>2. r = [kind |-> "$enddefinitions"]
    BY <2>1
  <2>3. r.kind = "$enddefinitions" /\ r.kind \notin Kinds \cup {"event"}
    BY <2>2 DEF Kinds
  <2>4. parsing_state' = "PARSING_VCD_RECORDS" /\ UNCHANGED <<psf, written, main>>
    BY <1>4, <1>7, <2>3 DEF ReadLine
  <2>5. Takes(r)
    BY <1>2, <1>3, <1>4, <1>5, <2>4 DEF Takes
  <2> QED BY <2>3, <2>4, <2>5
<1>8. CASE parsing_state # "PARSING_VCD_HEADER"
  <2>1. parsing_state' = "PARSING_VCD_RECORDS"
    BY <1>1, <1>8 DEF ReadLine, PsfTypeOK
  <2>2. CASE IsTrace(r)
    <3>1. process_psf_data(r) /\ main' = IF Refuses(r) THEN "ends" ELSE main
      BY <1>4, <1>8, <2>2 DEF ReadLine
    <3>2. Takes(r)
      BY <1>2, <1>3, <1>4, <1>5, <2>1, <3>1 DEF Takes
    <3>3. Reading' => ~ Refuses(r)
      BY <1>2, <3>1 DEF Reading, Waiting
    <3> QED BY <1>5, <2>2, <3>1, <3>2, <3>3
  <2>3. CASE ~ IsTrace(r)
    <3>1. UNCHANGED <<psf, written, main>>
      BY <1>4, <1>8, <2>3 DEF ReadLine
    <3>2. Takes(r)
      BY <1>2, <1>3, <1>4, <1>5, <2>1, <3>1 DEF Takes
    <3>3. r.kind \notin Kinds \cup {"event"}
      BY <1>6, <2>3 DEF IsTrace
    <3> QED BY <3>1, <3>2, <3>3
  <2> QED BY <2>2, <2>3
<1> QED BY <1>7, <1>8

LEMMA RecordTaken ==
  ASSUME PsfInv, xscope_record_cb
  PROVE  \E r \in Lines :
           /\ Takes(r)
           /\ \/ /\ IsTrace(r) /\ process_psf_data(r) /\ Reading
                 /\ (Reading' => ~ Refuses(r))
              \/ UNCHANGED <<psf, written>> /\ (r.kind \notin Kinds \cup {"event"} \/ ~ Reading')
<1>1. PsfTypeOK
  BY Zenon DEF PsfInv
<1>2. /\ mode = "port" /\ main \in {"reads", "ends"} /\ input # << >> /\ input' = Tail(input)
      /\ UNCHANGED <<mode, sent, cnt, gap, dropped, over, eof, main, parsing_state>>
  BY DEF xscope_record_cb, target
<1>3. PICK r \in Lines : input = <<r>>
  BY <1>1, <1>2, Zenon DEF PsfTypeOK
<1>4. Head(input) = r /\ input' = << >> /\ main \notin Waiting
  BY <1>2, <1>3 DEF Waiting
<1>5. /\ running \in BOOLEAN /\ parsing_state \in {"PARSING_VCD_HEADER", "PARSING_VCD_RECORDS"}
      /\ (Reading <=> running) /\ (Reading' <=> running')
  <2>1. running \in BOOLEAN /\ parsing_state \in {"PARSING_VCD_HEADER", "PARSING_VCD_RECORDS"}
    BY <1>1, Zenon DEF PsfTypeOK
  <2>2. (Reading <=> running) /\ (Reading' <=> running')
    BY <1>2 DEF Reading
  <2> QED BY <2>1, <2>2
<1>6. DOMAIN Lengths = Kinds
  BY ConstantFacts
<1>7. CASE running /\ IsTrace(r)
  <2>1. process_psf_data(r) /\ (running' <=> ~ Refuses(r)) /\ running' \in BOOLEAN
    BY <1>4, <1>7 DEF xscope_record_cb
  <2>2. Takes(r)
    BY <1>2, <1>3, <1>4, <1>5, <1>7, <2>1, Zenon DEF Takes
  <2> QED BY <1>5, <1>7, <2>1, <2>2, Zenon
<1>8. CASE ~ (running /\ IsTrace(r))
  <2>1. UNCHANGED <<psf, written, running>>
    BY <1>4, <1>8, Zenon DEF xscope_record_cb
  <2>2. Takes(r)
    BY <1>2, <1>3, <1>4, <1>5, <2>1, Zenon DEF Takes
  <2>3. r.kind \notin Kinds \cup {"event"} \/ ~ Reading'
    BY <1>5, <1>6, <1>8, <2>1, Zenon DEF IsTrace
  <2> QED BY <2>1, <2>2, <2>3, Zenon
<1> QED BY <1>7, <1>8, Zenon
\* What MissingReported says of a step.
ReportsGap ==
  LET c == Head(input).core
  IN event_count' # event_count /\ c \in Cores /\ event_cnts[c] # None => missing' = Head(input).gap

LEMMA TakesStep ==
  ASSUME PsfInv, NEW r \in Lines, Takes(r),
         \/ /\ IsTrace(r) /\ process_psf_data(r) /\ Reading
            /\ (Reading' => ~ Refuses(r))
         \/ UNCHANGED <<psf, written>> /\ (r.kind \notin Kinds \cup {"event"} \/ ~ Reading')
  PROVE  PsfInv' /\ ReportsGap
<1>1. /\ input = <<r>> /\ input' = << >> /\ UNCHANGED <<mode, sent, cnt, gap, dropped, over, eof>>
      /\ running' \in BOOLEAN /\ main \notin Waiting /\ (Reading' => Reading)
      /\ parsing_state' \in {"PARSING_VCD_HEADER", "PARSING_VCD_RECORDS"}
      /\ mode # "port" => parsing_state' = "PARSING_VCD_RECORDS"
  BY Zenon DEF Takes
<1>2. PsfTypeOK /\ OpenedFirst
  BY Zenon DEF PsfInv
<1>3. \/ main' = main
      \/ main = "reads" /\ main' = "ends"
  BY Zenon DEF Takes
<1>4. Head(input) = r /\ input[1] = r
  BY <1>1
<1>5. main' \notin Waiting /\ main' \in Waiting \cup {"reads", "ends", "closed"}
  <2>1. main \in Waiting \cup {"reads", "ends", "closed"}
    BY <1>2, Zenon DEF PsfTypeOK
  <2> QED BY <1>1, <1>3, <2>1 DEF Waiting
<1>6. OpenedFirst'
  <2>1. main' # "starts"
    BY <1>5 DEF Waiting
  <2>2. mode' # "port" => parsing_state' # "PARSING_VCD_HEADER"
    BY <1>1
  <2> QED BY <1>5, <2>1, <2>2, Zenon DEF OpenedFirst
<1>7. EventsLast'
  BY <1>1, Zenon DEF EventsLast
<1>8. ASSUME ProcessTypes PROVE PsfTypeOK'
  <2>1. /\ psf_state' \in {"header", "timestamp", "table", "entry", "event"} /\ psf_evt_entry' \in Nat
        /\ psf_evt_table' \in [slots : Nat, entry : Nat] /\ mistaken' \in SUBSET Kinds
        /\ event_cnts' \in [Cores -> Counts \cup {None}] /\ event_count' \in Counts /\ missing' \in Counts
        /\ written' = << >> \/ written' \in [kind : Kinds \cup {"event"}, count : Counts \cup {None}]
    BY <1>2, <1>8, Zenon DEF ProcessTypes, PsfTypeOK
  <2>2. over' \in BOOLEAN /\ eof' \in BOOLEAN
    BY <1>1, <1>2, Zenon DEF PsfTypeOK
  <2>3. /\ mode' \in {"none", "file", "stream", "port"} /\ sent' \in 0 .. (3 + Slots) /\ dropped' \in SUBSET Kinds
        /\ cnt' \in [CoreIds -> Counts] /\ gap' \in [CoreIds -> Counts]
    BY <1>1, <1>2, Zenon DEF PsfTypeOK
  <2> QED BY <1>1, <1>5, <2>1, <2>2, <2>3, Zenon DEF PsfTypeOK
<1>9. CASE /\ IsTrace(r) /\ process_psf_data(r) /\ Reading
           /\ (Reading' => ~ Refuses(r))
  <2>1. r \in MetadataRecords \cup Events
    BY <1>9, LineKinds, Zenon
  <2>2. UNCHANGED <<sent, cnt, gap, dropped>>
    BY <1>1
  <2>3. /\ ProcessTypes /\ EntryCounted' /\ SoundInv' /\ MetadataCounted' /\ CountersFollowed'
        /\ event_count' # event_count /\ r.core \in Cores /\ event_cnts[r.core] # None => missing' = r.gap
    BY <1>1, <1>9, <2>1, <2>2, RecordProcessed, Zenon
  <2>4. ReportsGap
    BY <1>4, <2>3, Zenon DEF ReportsGap
  <2> QED BY <1>6, <1>7, <1>8, <2>3, <2>4, Zenon DEF PsfInv
<1>10. CASE UNCHANGED <<psf, written>> /\ (r.kind \notin Kinds \cup {"event"} \/ ~ Reading')
  <2>1. /\ psf_state' = psf_state /\ psf_evt_entry' = psf_evt_entry /\ event_cnts' = event_cnts
        /\ psf_evt_table' = psf_evt_table /\ mistaken' = mistaken
        /\ event_count' = event_count /\ missing' = missing /\ written' = written
    BY <1>10, Zenon DEF psf
  <2>2. PsfTypeOK'
    <3>1. ProcessTypes
      BY <1>2, <2>1, Zenon DEF ProcessTypes, PsfTypeOK
    <3> QED BY <1>8, <3>1
  <2>3. ReportsGap
    BY <2>1, Zenon DEF ReportsGap
  <2>4. CASE r.kind \notin Kinds \cup {"event"}
    <3>1. Idle /\ Idle'
      BY <1>1, <1>4, <2>4, Zenon DEF Idle
    <3>2. UNCHANGED <<sent, cnt, gap, dropped, psf, written>>
      BY <1>1, <1>10, Zenon
    <3>3. Rest'
      BY <1>1, <3>1, <3>2, QuietStep, Zenon
    <3> QED BY <1>6, <2>2, <2>3, <3>3, Zenon DEF PsfInv, Rest
  <2>5. CASE ~ Reading'
    <3>1. MetadataCounted' /\ CountersFollowed'
      BY <2>5, Zenon DEF MetadataCounted, StraightInv, MisledInv, CountersFollowed
    <3>2. EntryCounted /\ SoundInv
      BY Zenon DEF PsfInv
    <3>3. EntryCounted' /\ SoundInv'
      BY <1>1, <2>1, <3>2 DEF EntryCounted, SoundInv
    <3> QED BY <1>6, <1>7, <2>2, <2>3, <3>1, <3>3, Zenon DEF PsfInv
  <2> QED BY <1>10, <2>4, <2>5, Zenon
<1> QED BY <1>9, <1>10, Zenon

\* Steps that process no record report nothing new.
LEMMA PsfStep == ASSUME PsfInv, [Next]_vars PROVE PsfInv' /\ [ReportsGap]_vars
<1>1. ASSUME event_count' = event_count PROVE ReportsGap
  BY <1>1, Zenon DEF ReportsGap
<1>2. CASE Opening
  <2>1. event_count' = event_count
    BY <1>2, Zenon DEF Opening, StartMain, OpenInput, OpenOutput, psf
  <2> QED BY <1>1, <1>2, <2>1, OpeningStep
<1>3. CASE SendMetadata
  <2>1. event_count' = event_count
    BY <1>3, Zenon DEF SendMetadata, psf
  <2> QED BY <1>1, <1>3, <2>1, SendMetadataStep
<1>4. ASSUME NEW c \in CoreIds, SendEvent(c) PROVE PsfInv' /\ [ReportsGap]_vars
  <2>1. event_count' = event_count
    BY <1>4, Zenon DEF SendEvent, psf
  <2> QED BY <1>1, <1>4, <2>1, SendEventStep
<1>5. CASE SendOther
  <2>1. event_count' = event_count
    BY <1>5, Zenon DEF SendOther, psf
  <2> QED BY <1>1, <1>5, <2>1, SendOtherStep
<1>6. CASE Stop \/ EndOfFile \/ xscope_exit_cb \/ NotRunning \/ CloseFiles \/ UNCHANGED vars
  <2>1. event_count' = event_count
    BY <1>6, Zenon DEF Stop, EndOfFile, xscope_exit_cb, NotRunning, CloseFiles, vars, psf
  <2> QED BY <1>1, <1>6, <2>1, FlagStep
<1>7. CASE ReadLine
  BY <1>7, LineTaken, TakesStep, Zenon
<1>8. CASE xscope_record_cb
  BY <1>8, RecordTaken, TakesStep, Zenon
<1> QED BY <1>2, <1>3, <1>4, <1>5, <1>6, <1>7, <1>8, Zenon DEF Next, process_vcd_file, Callbacks

-----------------------------------------------------------------------------
(* Theorems                                                                 *)

\* Events are processed only when all lost metadata was mistaken in events as long, and only what
\* was lost is ever mistaken (psf_state in process_psf_data, and the lengths the four metadata
\* functions check), for every table, core and length of the events.
THEOREM LossFound == Spec => [](PsfTypeOK /\ MetadataLossDetected)
<1>1. PsfInv => PsfTypeOK /\ MetadataLossDetected
  BY Zenon DEF PsfInv, SoundInv, MetadataLossDetected
<1>2. PsfInv /\ [Next]_vars => PsfInv'
  BY PsfStep
<1> QED BY <1>1, <1>2, PsfStart, PTL DEF Spec

\* The events reported missing are those the core lost or cut short since its last whole one,
\* for every width of the counter (detect_missing_events and event_cnt_delta).
THEOREM MissingCounted == Spec => MissingReported
<1>1. PsfInv /\ [Next]_vars => PsfInv' /\ [ReportsGap]_vars
  BY PsfStep
<1>2. Spec => [][ReportsGap]_vars
  BY <1>1, PsfStart, PTL DEF Spec
<1> QED BY <1>2, PTL DEF MissingReported, ReportsGap
=============================================================================
