-------------------------------- MODULE Xlink --------------------------------
(***************************************************************************)
(* The two firmwares of examples/freertos/xlink, which join two boards by a   *)
(* link of the switch.  Board 1 (src/xlink_tx) sends tokens while a second     *)
(* task on another core closes and opens the link every few seconds; board 0   *)
(* (src/xlink_rx) counts tokens while a second task reports the counts over    *)
(* I2C.  Both transmitting tasks change the link's control register by        *)
(* reading, changing and writing it (src/link), with no lock.  The switch and  *)
(* the other board are outside src/: credit may come or not whenever it is      *)
(* asked for, a token may come or not, an output may raise an exception.       *)
(***************************************************************************)
EXTENDS Integers

CONSTANTS
  appconfSEND_CTRL_TOKEN,   \* bytes between two control tokens
  MaxTokens                 \* bound: tokens the receiver gets

ASSUME XlinkAssumption == appconfSEND_CTRL_TOKEN \in Nat /\ MaxTokens \in Nat

VARIABLES
  board,          \* "rx" or "tx": the firmware
  enabled,        \* the ENABLE bit of the link's control register
  op, read,       \* by task: what it is doing to the register; {the bit} it has read
  txState, err_ctr,      \* transmit_handler: comm_state, err_ctr
  g_comm_state,
  c_other_tile,          \* is the handler's channel end allocated?
  rxState, rxStored,     \* xlink_rx: comm_state; the count it is about to store, or -1
  g_data_tokens, g_ctrl_tokens,
  reporter, full_rep_cnt,     \* xlink_report_task: where it is; its rounds modulo 10
  reported,              \* what it has sent last for each id
  tokens                 \* tokens received

txVars == <<enabled, op, read, txState, err_ctr, g_comm_state, c_other_tile>>
rxVars == <<rxState, rxStored, g_data_tokens, g_ctrl_tokens, reporter, full_rep_cnt,
            reported, tokens>>
xlinkVars == <<board, txVars, rxVars>>

TxTasks == {"reenable", "transmit"}

\* What each task does to the register, in turn.
Ops == [reenable |-> {"delay", "disable", "enable"},
        transmit |-> {"none", "disable", "enable", "reset", "hello"}]

XlinkInit ==
  /\ board \in {"rx", "tx"}
  /\ enabled \in BOOLEAN   \* as the boot ROM left it
  /\ op = [reenable |-> "delay", transmit |-> "none"] /\ read = [t \in TxTasks |-> {}]
  /\ txState = 0 /\ err_ctr = 0 /\ g_comm_state = FALSE /\ c_other_tile = FALSE
  /\ rxState = 0 /\ rxStored = -1 /\ g_data_tokens = 0 /\ g_ctrl_tokens = 0
  /\ reporter = "delay" /\ full_rep_cnt = 0 /\ tokens = 0
  /\ reported = [state |-> 0, bytes |-> 0, ctrl |-> 0]

-----------------------------------------------------------------------------
(* The register                                                             *)

\* read_sswitch_reg in link_disable, link_enable, link_reset and link_hello
ReadRegister(t) ==
  /\ op[t] \notin {"delay", "none"} /\ read[t] = {}
  /\ read' = [read EXCEPT ![t] = {enabled}]
  /\ UNCHANGED <<enabled, op, txState, err_ctr, g_comm_state, c_other_tile>>

\* (Faulty variant: link_enable leaves the bit as it was.)
EnableForgotten(t) == IF op[t] = "disable" THEN FALSE ELSE TRUE \in read[t]

\* The bit that is written: link_reset and link_hello write it as they read it.
EnableBit(t) ==
  CASE op[t] = "disable" -> FALSE [] op[t] = "enable" -> TRUE [] OTHER -> TRUE \in read[t]

\* write_sswitch_reg, after which the task goes on with next.
WriteRegister(t, next) ==
  /\ op[t] \notin {"delay", "none"} /\ read[t] # {}
  /\ enabled' = EnableBit(t)
  /\ read' = [read EXCEPT ![t] = {}]
  /\ op' = [op EXCEPT ![t] = next]

-----------------------------------------------------------------------------
(* The transmitting board                                                   *)

\* The end of the delay, then link_disable and link_enable.
xlink_tx_reenable ==
  \/ /\ op["reenable"] = "delay"
     /\ op' = [op EXCEPT !["reenable"] = "disable"] /\ g_comm_state' = TRUE
     /\ UNCHANGED <<enabled, read, txState, err_ctr, c_other_tile>>
  \/ ReadRegister("reenable")
  \/ /\ WriteRegister("reenable", IF op["reenable"] = "disable" THEN "enable" ELSE "delay")
     /\ UNCHANGED <<txState, err_ctr, g_comm_state, c_other_tile>>

\* The top of the loop: a request to wait for credits again comes first, then one state.
\* States 0, 1 and 3 set up the direction, the channel end and the route.
Handle(state) ==
  CASE state \in {0, 1, 3} ->
         /\ txState' = state + 1 /\ c_other_tile' = IF state = 1 THEN TRUE ELSE c_other_tile
         /\ UNCHANGED <<op, err_ctr>>
    [] state = 2 ->
         /\ txState' = state /\ op' = [op EXCEPT !["transmit"] = "disable"]
         /\ UNCHANGED <<err_ctr, c_other_tile>>
    [] state = 4 ->
         /\ txState' = state /\ op' = [op EXCEPT !["transmit"] = "reset"]
         /\ UNCHANGED <<err_ctr, c_other_tile>>
    [] state = 5 ->   \* a byte, and after enough of them a control token
         /\ c_other_tile
         /\ txState' = state
         /\ err_ctr' = IF err_ctr = appconfSEND_CTRL_TOKEN THEN 0 ELSE err_ctr + 1
         /\ UNCHANGED <<op, c_other_tile>>

TransmitLoop ==
  /\ op["transmit"] = "none"
  /\ g_comm_state' = FALSE
  /\ Handle(IF g_comm_state THEN 4 ELSE txState)
  /\ UNCHANGED <<enabled, read>>

\* The register's part in state 2 and, until there is credit, in state 4.
SetUpLink ==
  \/ ReadRegister("transmit")
  \/ /\ op["transmit"] = "disable" /\ WriteRegister("transmit", "enable")
     /\ UNCHANGED <<txState, err_ctr, g_comm_state, c_other_tile>>
  \/ /\ op["transmit"] = "enable" /\ WriteRegister("transmit", "none") /\ txState' = 3
     /\ UNCHANGED <<err_ctr, g_comm_state, c_other_tile>>
  \/ /\ op["transmit"] = "reset" /\ WriteRegister("transmit", "hello")
     /\ UNCHANGED <<txState, err_ctr, g_comm_state, c_other_tile>>
  \/ /\ op["transmit"] = "hello"
     /\ \E credit \in BOOLEAN :   \* link_got_credit, 100 ms later
          /\ WriteRegister("transmit", IF credit THEN "none" ELSE "reset")
          /\ txState' = IF credit THEN 5 ELSE 4
          /\ err_ctr' = IF credit THEN 0 ELSE err_ctr
     /\ UNCHANGED <<g_comm_state, c_other_tile>>

\* xlink_tx catches an exception in the output and calls the handler for state 4, whose
\* channel end is then a variable of its own with nothing allocated: the next output has
\* no channel end to go to, outside any TRY, and the task stops there.
OutputRaises ==
  /\ txState = 5 /\ op["transmit"] = "none" /\ c_other_tile /\ ~ g_comm_state
  /\ txState' = 4 /\ err_ctr' = 0 /\ c_other_tile' = FALSE
  /\ UNCHANGED <<enabled, op, read, g_comm_state>>

TxNext ==
  /\ board = "tx"
  /\ xlink_tx_reenable \/ TransmitLoop \/ SetUpLink \/ OutputRaises
  /\ UNCHANGED <<board, rxVars>>

-----------------------------------------------------------------------------
(* The receiving board                                                      *)

\* The receiver's next state, which the top of its loop sends before it is handled.
GoTo(state) == rxState' = state /\ reported' = [reported EXCEPT !.state = state]

\* xlink_rx up to its data loop: direction, channel end, static link, credits.
SetUpReceiver ==
  /\ rxState \in 0 .. 3
  /\ \/ GoTo(rxState + 1)
     \/ rxState = 3 /\ UNCHANGED <<rxState, reported>>   \* no credit: reset and hello again
  /\ UNCHANGED <<rxStored, g_data_tokens, g_ctrl_tokens, reporter, full_rep_cnt, tokens>>

\* A token: g_data_tokens is read here and stored in a later step, as the reporting task
\* runs on another core; only the receiver changes g_ctrl_tokens.
Transaction ==
  /\ rxState = 4 /\ rxStored = -1 /\ tokens < MaxTokens /\ tokens' = tokens + 1
  /\ \/ rxStored' = g_data_tokens + 1 /\ UNCHANGED g_ctrl_tokens
     \/ g_ctrl_tokens' = g_ctrl_tokens + 1 /\ UNCHANGED rxStored
  /\ UNCHANGED <<rxState, g_data_tokens, reporter, full_rep_cnt, reported>>

StoreCount ==
  /\ rxStored # -1
  /\ g_data_tokens' = rxStored /\ rxStored' = -1
  /\ UNCHANGED <<rxState, g_ctrl_tokens, reporter, full_rep_cnt, reported, tokens>>

\* No token for five seconds: the link is set up again from the credits on.
TimeOut ==
  /\ rxState = 4 /\ rxStored = -1
  /\ GoTo(3)
  /\ UNCHANGED <<rxStored, g_data_tokens, g_ctrl_tokens, reporter, full_rep_cnt, tokens>>

\* Every second the bytes are reported, every ten rounds the other counts as well, and
\* then the bytes, and only they, are set to zero.  (g_timeout_cnts is zero for ever.)
xlink_report_task ==
  /\ \/ /\ reporter = "delay" /\ reporter' = "full"
        /\ reported' = [reported EXCEPT !.bytes = g_data_tokens]
        /\ UNCHANGED <<g_data_tokens, full_rep_cnt>>
     \/ /\ reporter = "full" /\ reporter' = "zero"
        /\ full_rep_cnt' = (full_rep_cnt + 1) % 10
        /\ reported' = IF full_rep_cnt = 0 THEN [reported EXCEPT !.ctrl = g_ctrl_tokens] ELSE reported
        /\ UNCHANGED g_data_tokens
     \/ /\ reporter = "zero" /\ reporter' = "delay"
        /\ g_data_tokens' = 0
        /\ UNCHANGED <<full_rep_cnt, reported>>
  /\ UNCHANGED <<rxState, rxStored, g_ctrl_tokens, tokens>>

RxNext ==
  /\ board = "rx"
  /\ SetUpReceiver \/ Transaction \/ StoreCount \/ TimeOut \/ xlink_report_task
  /\ UNCHANGED <<board, txVars>>

XlinkNext == TxNext \/ RxNext

XlinkSpec == XlinkInit /\ [][XlinkNext]_xlinkVars

-----------------------------------------------------------------------------
(* Properties                                                               *)

\* Type invariant.
XlinkTypeOK ==
  /\ board \in {"rx", "tx"} /\ enabled \in BOOLEAN
  /\ \A t \in TxTasks : op[t] \in Ops[t] /\ read[t] \in {{}, {TRUE}, {FALSE}}
  /\ txState \in 0 .. 5 /\ err_ctr \in 0 .. appconfSEND_CTRL_TOKEN
  /\ g_comm_state \in BOOLEAN /\ c_other_tile \in BOOLEAN
  /\ rxState \in 0 .. 4 /\ rxStored \in -1 .. MaxTokens
  /\ g_data_tokens \in 0 .. MaxTokens /\ g_ctrl_tokens \in 0 .. MaxTokens
  /\ reporter \in {"delay", "full", "zero"} /\ full_rep_cnt \in 0 .. 9
  /\ reported.state = rxState /\ reported.bytes \in 0 .. MaxTokens /\ reported.ctrl \in 0 .. MaxTokens
  /\ tokens \in 0 .. MaxTokens

\* Both transmitting tasks write back the register as they read it, so that one can close the
\* link that the other has just opened; but it does not stay closed (xlink_tx_reenable).
LinkComesBack == board = "tx" => []<>enabled
=============================================================================
