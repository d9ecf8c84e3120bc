---------------------------- MODULE XscopeToPsf ----------------------------
(***************************************************************************)
(* examples/freertos/tracealyzer/host/xscope2psf.c: takes the trace records  *)
(* of a target from a VCD file or from the xscope endpoint, checks the       *)
(* metadata they begin with, reports the events missing on each core,        *)
(* renumbers the others in one sequence and writes them to the PSF file.     *)
(* The target, its debugger, stdio and the endpoint library are external.    *)
(***************************************************************************)
EXTENDS Integers, Sequences
LOCAL INSTANCE SequencesExt

CONSTANTS
  CountValues,    \* the values of the event counter, 0x1000
  Slots,          \* uiSlots of the target's event table
  Lengths,        \* the bytes of a record of each kind of metadata
  EventLengths,   \* the bytes of the events; an event of less than 4 was cut short
  FalseTables,    \* what the bytes of an event may say when it is taken for a table's header
  NumCores,       \* uiNumCores
  CoreIds,        \* the cores the target's events name
  CommandLines    \* the arguments the program may be called with

Counts == 0 .. (CountValues - 1)
Cores == 0 .. (NumCores - 1)
Metadata == <<"header", "timestamp", "table">> \o [i \in 1 .. Slots |-> "entry"]

\* Three kinds of records are structures of different sizes, and an entry has none of them;
\* an event has 8 bytes and its data, and may be as long as any of the four.
ASSUME LengthsAssumption ==
  /\ CountValues \in Nat \ {0} /\ Slots \in Nat \ {0} /\ NumCores \in Nat /\ Cores \subseteq CoreIds
  /\ Lengths \in [{"header", "timestamp", "table", "entry"} -> Nat]
  /\ \A k, l \in DOMAIN Lengths : k # l => Lengths[k] # Lengths[l]
  /\ FalseTables # {} /\ FalseTables \subseteq [slots : Nat, entry : Nat]

VARIABLES
  mode,                  \* what is read: a "file", a file as a "stream" (-s), the "port"
  sent, cnt, gap, dropped,  \* target: metadata records sent, each core's counter, the events lost
                         \* since its last whole one, the kinds of metadata records lost
  over,                  \* the target has stopped
  input,                 \* lines of the file not yet read, or records not yet delivered
  eof,                   \* the end-of-file indicator of the input
  parsing_state, psf_state, psf_evt_entry, psf_evt_table,
  event_cnts, event_count,
  running, result,       \* port mode; the error code
  main,                  \* main: "starts", "opens", "opened", "reads", "ends", "closed"
  written, missing,      \* the last record written, with the counter given to it; the events last reported missing
  mistaken               \* the kinds of metadata that an event as long has been taken for

vars == <<mode, sent, cnt, gap, dropped, over, input, eof, parsing_state, psf_state, psf_evt_entry,
          psf_evt_table, event_cnts, event_count, running, result, main, written, missing, mistaken>>
target == <<sent, cnt, gap, dropped, over>>
psf == <<psf_state, psf_evt_entry, psf_evt_table, event_cnts, event_count, missing, mistaken>>

None == -1

Init ==
  /\ mode = "none"
  /\ sent = 0 /\ cnt = [c \in CoreIds |-> 0] /\ gap = [c \in CoreIds |-> 0]
  /\ dropped = {} /\ over = FALSE
  /\ input = << >>
  /\ eof = FALSE /\ parsing_state = "PARSING_VCD_HEADER"
  /\ psf_state = "header" /\ psf_evt_entry = 0 /\ psf_evt_table = [slots |-> 0, entry |-> 0]
  /\ event_cnts = [c \in Cores |-> None] /\ event_count = 0
  /\ running = TRUE /\ result = "ERROR_NONE" /\ main = "starts"
  /\ written = << >> /\ missing = 0 /\ mistaken = {}

-----------------------------------------------------------------------------
(* The command line: process_args                                           *)

Options == {"-h", "--version", "-v", "-s", "-p", "-d", "-i", "-I", "-o", "-x"}
OptionsWithValue == {"-d", "-i", "-I", "-o"}

\* What has been read of the arguments: the option that expects a value, the ones that have
\* taken effect, and why reading has ended before the last argument.
NoSettings == [expects |-> "none", on |-> {}, ended |-> "no"]
Refused(s, error) == [s EXCEPT !.ended = error]

\* A port is given as host:port; another value for it revokes the one given before.
TakeValue(s, value) ==
  CASE s.expects = "-I" -> [s EXCEPT !.expects = "none",
                              !.on = IF value = "host:port" THEN @ \cup {"-I"} ELSE @ \ {"-I"}]
    [] s.expects = "-d" -> IF value = "100" THEN [s EXCEPT !.expects = "none", !.on = @ \cup {"-d"}]
                           ELSE Refused(s, "ERROR_ARG_VALUE_PARSING_FAILURE")
    [] OTHER -> [s EXCEPT !.expects = "none", !.on = @ \cup {s.expects}]

TakeArgument(arg, s) ==
  CASE s.ended # "no" -> s
    [] s.expects # "none" -> IF arg \in Options THEN Refused(s, "ERROR_ARG_VALUE_MISSING") ELSE TakeValue(s, arg)
    [] arg \in {"-h", "--version"} -> Refused(s, "ERROR_NONE")
    [] arg \in OptionsWithValue -> [s EXCEPT !.expects = arg]
    [] arg \in {"-v", "-s", "-p"} -> [s EXCEPT !.on = @ \cup {arg}]
    [] OTHER -> Refused(s, "ERROR_UNKOWN_ARG")

\* The settings, with "no" for an end when the program is to run.
process_args(argv) ==
  LET s == FoldLeft(LAMBDA t, arg : TakeArgument(arg, t), NoSettings, argv)
  IN CASE s.ended # "no" -> s
       [] s.expects # "none" -> Refused(s, "ERROR_ARG_VALUE_MISSING")
       [] {"-i", "-I"} \subseteq s.on -> Refused(s, "ERROR_MUTUALLY_EXCLUSIVE_ARGS")
       [] "-o" \in s.on /\ s.on \cap {"-i", "-I"} # {} -> s
       [] OTHER -> Refused(s, "ERROR_MISSING_ARG")

StartMain(argv) ==
  /\ main = "starts"
  /\ LET s == process_args(argv)
     IN IF s.ended # "no" THEN main' = "closed" /\ result' = s.ended /\ UNCHANGED mode
        ELSE /\ main' = "opens" /\ UNCHANGED result
             /\ mode' = CASE "-I" \in s.on -> "port" [] "-s" \in s.on -> "stream" [] OTHER -> "file"
  /\ UNCHANGED <<target, input, eof, parsing_state, psf, running, written>>

\* A file that is not there is waited for with -s.
OpenInput ==
  /\ main = "opens"
  /\ \/ main' = "opened" /\ UNCHANGED result
     \/ mode = "file" /\ main' = "closed" /\ result' = "ERROR_FILE_SYSTEM"
  /\ UNCHANGED <<mode, target, input, eof, parsing_state, psf, running, written>>

\* The file begins with the VCD header; the connection to the port may fail.
OpenOutput ==
  /\ main = "opened"
  /\ \/ main' = "closed" /\ result' = "ERROR_FILE_SYSTEM" /\ UNCHANGED <<input, running>>
     \/ /\ main' = "reads" /\ UNCHANGED result
        /\ input' = IF mode = "port" THEN << >> ELSE <<[kind |-> "$enddefinitions"]>>
        /\ running' \in (IF mode = "port" THEN BOOLEAN ELSE {TRUE})
  /\ UNCHANGED <<mode, target, eof, parsing_state, psf, written>>

-----------------------------------------------------------------------------
(* The target and its debugger                                              *)

\* What is read does not depend on how far the target is ahead, nor on when it began.
MaxInput == 1
CanSend == ~over /\ Len(input) < MaxInput /\ main \notin {"starts", "opens", "opened"}

\* A record reaches the input, or is lost on the way.
SendMetadata ==
  /\ CanSend /\ sent < Len(Metadata)
  /\ sent' = sent + 1
  /\ \/ /\ input' = Append(input, [kind |-> Metadata[sent + 1], length |-> Lengths[Metadata[sent + 1]]])
        /\ UNCHANGED dropped
     \/ dropped' = dropped \cup {Metadata[sent + 1]} /\ UNCHANGED input
  /\ UNCHANGED <<mode, cnt, gap, over, eof, parsing_state, psf, running, result, main, written>>

\* An event carries its core's counter.  A gap of all the counter's values would not show.
SendEvent(c) ==
  /\ CanSend /\ sent = Len(Metadata)
  /\ cnt' = [cnt EXCEPT ![c] = (@ + 1) % CountValues]
  /\ \/ \E length \in EventLengths :
          /\ input' = Append(input, [kind |-> "event", length |-> length, core |-> c, count |-> cnt[c], gap |-> gap[c]])
          /\ gap' = [gap EXCEPT ![c] = IF length < 4 THEN @ + 1 ELSE 0]
     \/ gap' = [gap EXCEPT ![c] = @ + 1] /\ UNCHANGED input
  /\ gap'[c] \in Counts
  /\ UNCHANGED <<mode, sent, dropped, over, eof, parsing_state, psf, running, result, main, written>>

\* Lines of other probes, or whose encoding is not understood.
SendOther ==
  /\ CanSend /\ \E kind \in {"other probe", "garbled"} : input' = Append(input, [kind |-> kind])
  /\ mode = "port" => input'[1].kind = "other probe"
  /\ UNCHANGED <<mode, target, eof, parsing_state, psf, running, result, main, written>>

Stop ==
  /\ ~over /\ over' = TRUE
  /\ UNCHANGED <<mode, sent, cnt, gap, dropped, input, eof, parsing_state, psf, running, result, main, written>>

-----------------------------------------------------------------------------
(* Processing a record                                                      *)

\* (Faulty variant: equal counters are taken for no gap at all.)
DeltaOrNone(event_cnt, before) ==
  IF event_cnt >= before THEN event_cnt - before ELSE (CountValues - before) + event_cnt

event_cnt_delta(event_cnt, before) ==
  IF event_cnt > before THEN event_cnt - before ELSE (CountValues - before) + event_cnt

detect_missing_events(r) ==
  IF r.core \in Cores
  THEN /\ missing' = IF event_cnts[r.core] = None THEN 0
                     ELSE event_cnt_delta(r.count, event_cnts[r.core]) - 1
       /\ event_cnts' = [event_cnts EXCEPT ![r.core] = r.count]
  ELSE missing' = 0 /\ UNCHANGED event_cnts

\* The record to write: an event's counter is replaced
\* by event_count, of which only the counter's width is written.
TooShort(r) == r.length < 4

process_trace_event(r) ==
  IF TooShort(r)
  THEN missing' = 0 /\ UNCHANGED <<event_cnts, event_count>>
       /\ written' = [kind |-> r.kind, count |-> None]
  ELSE /\ detect_missing_events(r)
       /\ written' = [kind |-> r.kind, count |-> event_count]
       /\ event_count' = (event_count + 1) % CountValues

ExpectedLength == IF psf_state = "entry" THEN psf_evt_table.entry ELSE Lengths[psf_state]

\* process_psf_header, _timestamp, _event_table_header and _event_table_entry: the length, and
\* the mark that only a header begins with.
Compatible(r) == r.length = ExpectedLength /\ (psf_state = "header" => r.kind = "header")

\* (Faulty variant: the entry is counted after the comparison.)
NextPsfStateCountsLate ==
  CASE psf_state = "header" -> "timestamp"
    [] psf_state = "timestamp" -> "table"
    [] psf_state = "table" -> "entry"
    [] psf_state = "entry" -> IF psf_evt_entry >= psf_evt_table.slots THEN "event" ELSE "entry"

NextPsfState ==
  CASE psf_state = "header" -> "timestamp"
    [] psf_state = "timestamp" -> "table"
    [] psf_state = "table" -> "entry"
    [] psf_state = "entry" -> IF psf_evt_entry' >= psf_evt_table.slots THEN "event" ELSE "entry"

\* The table's header says how many entries follow and how long they are.
TableTaken(r) ==
  IF psf_state = "table" /\ Compatible(r)
  THEN psf_evt_table' \in (IF r.kind = "table" THEN {[slots |-> Slots, entry |-> Lengths["entry"]]} ELSE FalseTables)
  ELSE UNCHANGED psf_evt_table

\* The state goes on even when the record is refused; it is then not written.
process_metadata(r) ==
  /\ psf_evt_entry' = IF psf_state = "entry" THEN psf_evt_entry + 1 ELSE psf_evt_entry
  /\ psf_state' = NextPsfState
  /\ TableTaken(r)
  /\ written' = IF Compatible(r) THEN [kind |-> r.kind, count |-> None] ELSE written
  /\ mistaken' = IF Compatible(r) /\ r.kind = "event" THEN mistaken \cup {psf_state} ELSE mistaken
  /\ missing' = 0 /\ UNCHANGED <<event_cnts, event_count>>

process_psf_data(r) ==
  IF psf_state = "event" THEN process_trace_event(r) /\ UNCHANGED <<psf_state, psf_evt_entry, psf_evt_table, mistaken>>
                         ELSE process_metadata(r)

\* Neither ERROR_NONE nor ERROR_DATA_TOO_SHORT is returned.
Refuses(r) == psf_state # "event" /\ ~ Compatible(r)

IsTrace(line) == line.kind \in DOMAIN Lengths \cup {"event"}

-----------------------------------------------------------------------------
(* File mode: process_vcd_file                                              *)

ReadLine ==
  /\ mode # "port" /\ main = "reads" /\ ~eof /\ input # << >>
  /\ input' = Tail(input)
  /\ IF parsing_state = "PARSING_VCD_HEADER"
     THEN /\ parsing_state' = IF Head(input).kind = "$enddefinitions" THEN "PARSING_VCD_RECORDS" ELSE parsing_state
          /\ UNCHANGED <<psf, written, result, main>>
     ELSE /\ UNCHANGED parsing_state
          /\ IF IsTrace(Head(input))
             THEN /\ process_psf_data(Head(input))
                  /\ IF Refuses(Head(input)) THEN main' = "ends" /\ result' = "ERROR_INCOMPATIBLE_VCD"
                                             ELSE UNCHANGED <<main, result>>
             ELSE UNCHANGED <<psf, written, result, main>>
  /\ UNCHANGED <<mode, target, eof, running>>

\* (Faulty variant: more data is waited for without -s as well.)
EndOfFileWaits ==
  /\ mode # "port" /\ main = "reads" /\ ~eof /\ input = << >>
  /\ mode = "file" => over
  /\ eof' = TRUE
  /\ UNCHANGED <<mode, target, input, parsing_state, psf, running, result, main, written>>

\* fgets finds the end of the file and sets its indicator, which makes every later call
\* fail as well.  Without -s the file is complete and the program ends.
EndOfFile ==
  /\ mode # "port" /\ main = "reads" /\ ~eof /\ input = << >>
  /\ mode = "file" => over
  /\ eof' = TRUE
  /\ main' = IF mode = "stream" THEN main ELSE "ends"
  /\ UNCHANGED <<mode, target, input, parsing_state, psf, running, result, written>>

-----------------------------------------------------------------------------
(* Port mode: the callbacks, which the library calls one at a time while      *)
(* main is connected                                                        *)

\* What a callback refuses ends the run, but its error is not the program's.
xscope_record_cb ==
  /\ mode = "port" /\ main \in {"reads", "ends"} /\ input # << >>
  /\ input' = Tail(input)
  /\ IF running /\ IsTrace(Head(input))
     THEN process_psf_data(Head(input)) /\ running' = ~ Refuses(Head(input))
     ELSE UNCHANGED <<psf, written, running>>
  /\ UNCHANGED <<mode, target, eof, parsing_state, result, main>>

xscope_exit_cb ==
  /\ mode = "port" /\ main = "reads" /\ over /\ running
  /\ running' = FALSE
  /\ UNCHANGED <<mode, target, input, eof, parsing_state, psf, result, main, written>>

\* main sees that the callbacks have ended the run.
NotRunning ==
  /\ mode = "port" /\ main = "reads" /\ ~running
  /\ main' = "ends"
  /\ UNCHANGED <<mode, target, input, eof, parsing_state, psf, running, result, written>>

CloseFiles ==
  /\ main = "ends" /\ main' = "closed"
  /\ UNCHANGED <<mode, target, input, eof, parsing_state, psf, running, result, written>>

process_vcd_file == ReadLine \/ EndOfFile
Callbacks == xscope_record_cb \/ xscope_exit_cb

Opening == (\E argv \in CommandLines : StartMain(argv)) \/ OpenInput \/ OpenOutput

Next == \/ Opening \/ SendMetadata \/ (\E c \in CoreIds : SendEvent(c)) \/ SendOther \/ Stop
        \/ process_vcd_file \/ Callbacks \/ NotRunning \/ CloseFiles

Spec == Init /\ [][Next]_vars
\* The program runs, and the library calls back; the target need not do anything.
FairSpec == Spec /\ WF_vars(Opening) /\ WF_vars(process_vcd_file) /\ WF_vars(Callbacks) /\ WF_vars(NotRunning) /\ WF_vars(CloseFiles)

-----------------------------------------------------------------------------
(* Properties                                                               *)

\* Each time a whole event of a core is processed, the number reported missing is that of
\* the core's events that were lost or cut short since its last one: across the wrap of
\* the counter, and whatever the other cores' events in between.
MissingReported ==
  [][ LET c == Head(input).core IN
        event_count' # event_count /\ c \in Cores /\ event_cnts[c] # None => missing' = Head(input).gap ]_vars

\* Events are processed only when no metadata was lost, or when events just as long have taken
\* the place of each kind of it that was: any other loss ends the run before the first event.
\* And no event is ever taken for metadata that was not lost.
MetadataLossDetected == mistaken \subseteq dropped /\ (event_count # 0 => mistaken = dropped)

\* A call that is refused ends, and without -s a run ends and closes its files when the target
\* stops or the trace is refused (xscope2psf.c, main and process_args).
RunEnds == over ~> main = "closed" \/ mode = "stream"

\* What the target adds to the file is read, also when the end of the file has been reached
\* before (xscope2psf.c, -s: "continue to wait for more data").
StreamGoesOn == (mode = "stream" /\ input # << >>) ~> (input = << >> \/ main # "reads")
=============================================================================
