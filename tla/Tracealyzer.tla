---------------------------- MODULE Tracealyzer -----------------------------
(***************************************************************************)
(* The tile 0 tasks of examples/freertos/tracealyzer (src/main.c): the       *)
(* process state machine, the chain of subprocesses that takes a mutex from  *)
(* it, the one-shot timer that starts the chain, and the gpio task with the  *)
(* button interrupt and the heartbeat timer.  The tasks run on several cores. *)
(* Time is what tasks spend spinning on the reference timer, which wraps.    *)
(***************************************************************************)
EXTENDS Integers, Sequences

CONSTANTS
  NumTasks,    \* NUM_SUBPROCESS_TASKS
  SubDelay,    \* SUBPROCESS_DELAY_TIME_MS
  RunDelay,    \* PROCESS_RUN_DELAY_MS
  Timeout,     \* PROCESS_TIMEOUT_TICKS, in ms
  Iterations,  \* PROCESS_RUN_ITERATIONS
  RefPeriod,   \* values of the reference timer before it wraps
  MaxEdges,    \* bound: button edges
  MaxBeats     \* bound: heartbeats

ASSUME TimeAssumption ==
  /\ {NumTasks, SubDelay, RunDelay, MaxEdges, MaxBeats} \subseteq Nat
  /\ {Iterations, Timeout, RefPeriod} \subseteq Nat \ {0}

VARIABLES
  process_state, num_requested_subprocesses, num_subprocesses,
  process_at, run_iteration, last_run_ticks,  \* process_task
  now,                                \* get_reference_time()
  armed,                              \* tmr_subprocess is running
  subs, runTask,                      \* the subprocesses; those with a RUN_TASK notification
  mutex,                              \* resource_mutex: "free" or its holder
  notif, notified,                    \* gpio_task's notification value and pending flag
  leds,                               \* led_val: the LEDs lit
  edges, beats,                       \* button edges and heartbeats so far
  ran,                                \* history: the subprocesses run since SETUP
  timeouts                            \* history: is the number of timeouts odd?

process == <<process_state, num_subprocesses, process_at, run_iteration, last_run_ticks, timeouts>>
subprocesses == <<armed, subs, runTask, ran>>
gpio_of_tile0 == <<num_requested_subprocesses, leds, edges, beats>>
notification == <<notif, notified>>
traceVars == <<process, now, mutex, subprocesses, gpio_of_tile0, notification>>

Insts == 0 .. (NumTasks - 1)
ProcessStates == {"idle", "setup", "run", "timeout"}
LedNames == {"btn0", "btn1", "tmo", "hbeat"}
NotifBits == {"event", "btn0", "btn1", "hbeat", "timeout"}   \* of the gpio task

TraceInit ==
  /\ process_state = "idle" /\ num_requested_subprocesses = 0 /\ num_subprocesses = 0
  /\ process_at = "switch" /\ run_iteration = 0 /\ last_run_ticks = 0 /\ now = 0
  /\ armed = FALSE /\ subs = [i \in Insts |-> "wait"] /\ runTask = {} /\ mutex = "free"
  /\ notif = {} /\ notified = FALSE /\ leds = {}
  /\ edges = 0 /\ beats = 0 /\ ran = << >> /\ timeouts = FALSE

\* The time from last to current; one short when the timer has wrapped.
get_abs_delta(current, last) ==
  IF current >= last THEN current - last ELSE (RefPeriod - 1) - last + current

\* spin_ref_tmr_ticks: the time when it returns.  When the stop time lies beyond the wrap
\* it is already exceeded by the time now, and the loop ends at once.
spin_ref_tmr_ticks(ticks) ==
  IF now + ticks >= RefPeriod THEN (now + 1) % RefPeriod ELSE now + ticks

ChainQuiet == ~armed /\ runTask = {} /\ \A i \in Insts : subs[i] = "wait"

-----------------------------------------------------------------------------
(* process_task                                                             *)

Idle ==
  /\ process_at = "switch" /\ process_state = "idle"
  /\ process_state' = "setup" /\ process_at' = "delay"
  /\ UNCHANGED <<num_subprocesses, run_iteration, last_run_ticks, timeouts, now, mutex,
                 subprocesses, gpio_of_tile0, notification>>

\* The end of vTaskDelay in IDLE or TIMEOUT.  These delays, of 500 and 1000 ms, outlast
\* the 100 ms timer and a chain of eight 5 ms subprocesses of higher priority.
DelayEnd ==
  /\ process_at = "delay" /\ ChainQuiet
  /\ process_state' = "setup" /\ process_at' = "switch"
  /\ UNCHANGED <<num_subprocesses, run_iteration, last_run_ticks, timeouts, now, mutex,
                 subprocesses, gpio_of_tile0, notification>>

Setup ==
  /\ process_at = "switch" /\ process_state = "setup"
  /\ num_subprocesses' = num_requested_subprocesses
  /\ armed' = TRUE /\ ran' = << >>
  /\ process_state' = "run" /\ last_run_ticks' = now /\ run_iteration' = 0
  /\ UNCHANGED <<process_at, timeouts, now, mutex, subs, runTask, gpio_of_tile0, notification>>

\* The top of an iteration: how long ago was the last one?
Measure ==
  /\ process_at = "switch" /\ process_state = "run"
  /\ last_run_ticks' = now
  /\ IF get_abs_delta(now, last_run_ticks) >= Timeout
     THEN process_state' = "timeout" /\ UNCHANGED process_at
     ELSE process_at' = "take" /\ UNCHANGED process_state
  /\ UNCHANGED <<num_subprocesses, run_iteration, timeouts, now, mutex, subprocesses, gpio_of_tile0,
                 notification>>

TakeMutex ==
  /\ process_at = "take" /\ mutex = "free"
  /\ mutex' = "process" /\ process_at' = "spin"
  /\ UNCHANGED <<process_state, num_subprocesses, run_iteration, last_run_ticks, timeouts,
                 now, subprocesses, gpio_of_tile0, notification>>

Spin ==
  /\ process_at = "spin"
  /\ now' = spin_ref_tmr_ticks(RunDelay)
  /\ mutex' = "free" /\ process_at' = "switch"
  /\ run_iteration' = run_iteration + 1
  /\ process_state' = IF run_iteration' >= Iterations THEN "idle" ELSE "run"
  /\ UNCHANGED <<num_subprocesses, last_run_ticks, timeouts, subprocesses, gpio_of_tile0, notification>>

\* xTaskNotify(ctx_gpio_task, bit, eSetBits)
NotifyGpio(bit) == notif' = notif \union {bit} /\ notified' = TRUE

TimedOut ==
  /\ process_at = "switch" /\ process_state = "timeout"
  /\ NotifyGpio("timeout") /\ timeouts' = ~timeouts
  /\ process_at' = "delay"
  /\ UNCHANGED <<process_state, num_subprocesses, run_iteration, last_run_ticks, now, mutex,
                 subprocesses, gpio_of_tile0>>

process_task == Idle \/ DelayEnd \/ Setup \/ Measure \/ TakeMutex \/ Spin \/ TimedOut

-----------------------------------------------------------------------------
(* The chain of subprocesses                                                *)

subprocess_tmr_callback ==
  /\ armed /\ armed' = FALSE
  /\ runTask' = IF num_subprocesses > 0 THEN runTask \union {0} ELSE runTask
  /\ UNCHANGED <<process, now, mutex, subs, ran, gpio_of_tile0, notification>>

SubWake(i) ==
  /\ subs[i] = "wait" /\ i \in runTask
  /\ runTask' = runTask \ {i} /\ subs' = [subs EXCEPT ![i] = "take"]
  /\ UNCHANGED <<process, now, mutex, armed, ran, gpio_of_tile0, notification>>

SubTake(i) ==
  /\ subs[i] = "take" /\ mutex = "free"
  /\ mutex' = "subprocess" /\ subs' = [subs EXCEPT ![i] = "spin"]
  /\ UNCHANGED <<process, now, armed, runTask, ran, gpio_of_tile0, notification>>

\* (Faulty variant: one subprocess more than requested is notified.)
NotifyOneMore(i) ==
  IF i + 1 \in Insts /\ i < num_subprocesses THEN runTask \union {i + 1} ELSE runTask

\* The notifications once subprocess i has passed the run on.
NotifyNext(i) == IF i + 1 < num_subprocesses THEN runTask \union {i + 1} ELSE runTask

\* The subprocess spins and notifies the next one while it holds the mutex.
SubSpin(i) ==
  /\ subs[i] = "spin"
  /\ now' = spin_ref_tmr_ticks(SubDelay)
  /\ ran' = Append(ran, i)
  /\ runTask' = NotifyNext(i)
  /\ subs' = [subs EXCEPT ![i] = "give"]
  /\ UNCHANGED <<process, mutex, armed, gpio_of_tile0, notification>>

\* (Faulty variant: the mutex is not given back.)
SubGiveNot(i) ==
  /\ subs[i] = "give"
  /\ subs' = [subs EXCEPT ![i] = "wait"]
  /\ UNCHANGED <<process, now, mutex, armed, runTask, ran, gpio_of_tile0, notification>>

SubGive(i) ==
  /\ subs[i] = "give"
  /\ mutex' = "free" /\ subs' = [subs EXCEPT ![i] = "wait"]
  /\ UNCHANGED <<process, now, armed, runTask, ran, gpio_of_tile0, notification>>

subprocess_task(i) == SubWake(i) \/ SubTake(i) \/ SubSpin(i) \/ SubGive(i)

-----------------------------------------------------------------------------
(* gpio_task and what notifies it                                           *)

\* The interrupt overwrites the notification value with the buttons pressed.
button_callback ==
  /\ edges < MaxEdges /\ edges' = edges + 1
  /\ \E pressed \in SUBSET {"btn0", "btn1"} : notif' = pressed \union {"event"}
  /\ notified' = TRUE
  /\ UNCHANGED <<process, now, mutex, subprocesses, num_requested_subprocesses, leds, beats>>

hbeat_tmr_callback ==
  /\ beats < MaxBeats /\ beats' = beats + 1
  /\ NotifyGpio("hbeat")
  /\ UNCHANGED <<process, now, mutex, subprocesses, num_requested_subprocesses, leds, edges>>

Toggled(s, led) == IF led \in s THEN s \ {led} ELSE s \union {led}

\* on_btn0_event, then on_btn1_event
Requested(accepted) ==
  LET less == IF "btn0" \in accepted /\ num_requested_subprocesses > 0
              THEN num_requested_subprocesses - 1 ELSE num_requested_subprocesses
  IN IF "btn1" \in accepted /\ less < NumTasks THEN less + 1 ELSE less

\* is_btn_stable: a press is accepted when the debounce time has passed.  Each event sets
\* the times of both buttons, pressed or not, so that both have been quiet or neither.
Accepted(quiet) == IF quiet THEN notif \intersect {"btn0", "btn1"} ELSE {}

\* The notification is taken and every bit of it served.
gpio_task ==
  /\ notified /\ notified' = FALSE /\ notif' = {}
  /\ LET ticked == IF "hbeat" \in notif THEN Toggled(leds, "hbeat") ELSE leds
         shown == IF "timeout" \in notif THEN Toggled(ticked, "tmo") ELSE ticked
     IN IF "event" \in notif
        THEN \E quiet \in BOOLEAN :
               /\ leds' = (shown \ {"btn0", "btn1"}) \union Accepted(quiet)
               /\ num_requested_subprocesses' = Requested(Accepted(quiet))
        ELSE leds' = shown /\ UNCHANGED num_requested_subprocesses
  /\ UNCHANGED <<process, now, mutex, subprocesses, edges, beats>>

TraceNext == \/ process_task \/ subprocess_tmr_callback \/ (\E i \in Insts : subprocess_task(i))
        \/ button_callback \/ hbeat_tmr_callback \/ gpio_task

\* Every task runs when it can: there are cores for all of them (configNUM_CORES), none
\* holds the mutex while it waits, and the timer daemon has the highest priority.
TraceFairness == /\ WF_traceVars(process_task) /\ WF_traceVars(subprocess_tmr_callback)
                 /\ \A i \in Insts : WF_traceVars(subprocess_task(i))
                 /\ WF_traceVars(gpio_task)
TraceSpec == TraceInit /\ [][TraceNext]_traceVars /\ TraceFairness

-----------------------------------------------------------------------------
(* Properties                                                               *)

\* Type invariant.
TraceTypeOK ==
  /\ process_state \in ProcessStates
  /\ num_requested_subprocesses \in 0 .. NumTasks /\ num_subprocesses \in 0 .. NumTasks
  /\ process_at \in {"switch", "delay", "take", "spin"}
  /\ run_iteration \in 0 .. Iterations
  /\ last_run_ticks \in 0 .. (RefPeriod - 1) /\ now \in 0 .. (RefPeriod - 1)
  /\ armed \in BOOLEAN /\ subs \in [Insts -> {"wait", "take", "spin", "give"}]
  /\ runTask \in SUBSET Insts /\ mutex \in {"free", "process", "subprocess"}
  /\ notif \in SUBSET NotifBits /\ notified \in BOOLEAN
  /\ leds \in SUBSET LedNames
  /\ edges \in 0 .. MaxEdges /\ beats \in 0 .. MaxBeats
  /\ ran \in Seq(Insts) /\ timeouts \in BOOLEAN

\* In each run the subprocesses asked for at SETUP run once each, in order, and all of
\* them have run by the time the process sets up again; the process times out only in a
\* run whose subprocesses can together hold the mutex for the time it tolerates, whoever
\* gets the mutex when and wherever the timer wraps.
RequestedRunInOrder ==
  /\ process_state = "timeout" => num_subprocesses * SubDelay + RunDelay >= Timeout
  /\ Len(ran) <= num_subprocesses
  /\ \A k \in DOMAIN ran : ran[k] = k - 1
  /\ process_at = "delay" /\ ChainQuiet => Len(ran) = num_subprocesses

\* A run comes to an end: no subprocess keeps the mutex from the process for ever.
RunEnds == process_state = "run" ~> process_state \in {"idle", "timeout"}

\* LED 2 has toggled once for every timeout when no notification is pending
\* (README.rst: "LED 2 should toggle when the main process enters the timeout state").
TimeoutTogglesLed == ~notified => (timeouts <=> "tmo" \in leds)
=============================================================================
