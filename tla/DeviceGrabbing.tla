---------------------------- MODULE DeviceGrabbing ----------------------------
(***************************************************************************)
(* How device_grabber takes and gives back one physical device: its        *)
(* decision (make_grabbable_state), the device's entry with its            *)
(* probable_stuck_events_manager, and iokit_hid_queue_value_monitor, which *)
(* opens and closes the device.                                            *)
(*                                                                         *)
(* Two threads share the monitor.  The dispatcher thread runs the tasks in *)
(* dispatcher_queue, the run-loop thread the blocks in run_loop_queue; the *)
(* monitor's requested and current open options are the only state both    *)
(* touch, under a mutex.  One action is the code between two accesses of   *)
(* that shared state.                                                      *)
(*                                                                         *)
(* The kernel's side (the real open mode of the device, the queue of its   *)
(* values) is external and modelled from how the code uses it.             *)
(***************************************************************************)
EXTENDS Integers, Sequences, FiniteSets, FiniteSetsExt

CONSTANTS
    NumKeys,      \* the keys of the device are 1 .. NumKeys, in momentary_switch_event's order
    ModifierKeys, \* those that are modifier flags
    MaxInputs     \* bound on key presses, releases and changes of the surroundings

ASSUME GrabbingAssumption ==
    /\ NumKeys \in Nat
    /\ ModifierKeys \subseteq 1 .. NumKeys
    /\ MaxInputs \in Nat

Keys == 1 .. NumKeys

\* kIOHIDOptionsTypeNone, kIOHIDOptionsTypeSeizeDevice and std::nullopt.
Options == {"observe", "seize", "none"}

VARIABLES
    \* The kernel.
    held,      \* keys physically down
    opened,    \* how the device is really open
    hid_queue, \* values the monitor's queue_ holds; meaningful while queue_started
    queue_started,
    \* iokit_hid_queue_value_monitor.
    requested, current, \* requested_open_options_, current_open_options_
    run_loop_queue, run_loop, \* blocks to run; the block in progress
    open_timer,         \* open_timer_ is running
    \* The dispatcher thread and the device_grabber it runs.
    dispatcher_queue, dispatching,
    sleeping,   \* system_sleeping_
    ready,      \* virtual_hid_keyboard_ready
    ignored,    \* get_ignore of the device's configuration
    disabled,   \* disabled_ of the entry: a built-in keyboard beside a certain other device
    psm,        \* probable_stuck_events_manager_
    announced,  \* history: device_grabbed was posted after the last device_ungrabbed
    forwarded,  \* history: keys down according to the events posted for the device
    dropped,    \* history: those whose key_up was discarded because the device was disabled
    overtaken,  \* history: since the last close, a request changed between start()'s
                \* two critical sections
    inputs      \* number of inputs so far

kernel == <<held, opened, hid_queue, queue_started>>
surroundings == <<sleeping, ready, ignored, disabled>>
history == <<announced, forwarded, dropped, overtaken>>
vars == <<kernel, requested, current, run_loop_queue, run_loop, open_timer,
          dispatcher_queue, dispatching, surroundings, psm, history, inputs>>

Values == [key : Keys, down : BOOLEAN]

\* Tasks of the dispatcher thread; only values_arrived carries values.
Task(name) == [task |-> name, values |-> <<>>]
ValuesTask(values) == [task |-> "values_arrived", values |-> values]

\* A block in progress on the run-loop thread, with start()'s open_options.
Idle == [at |-> "idle", options |-> "none"]

\* values_arrived in progress: the values left, whether the first of them has
\* been through the stuck events manager, and needs_regrab.
NotDispatching == [values |-> <<>>, updated |-> FALSE, regrab |-> FALSE]

EmptyPsm == [stuck |-> {}, arrived |-> {}, ups |-> {}, exceptional |-> {}]

Init ==
    /\ held \in SUBSET Keys
    /\ opened = "none" /\ hid_queue = <<>> /\ queue_started = FALSE
    /\ requested = "none" /\ current = "none"
    /\ run_loop_queue = <<>> /\ run_loop = Idle /\ open_timer = FALSE
    /\ dispatcher_queue = <<Task("grab")>>   \* async_grab_devices of device_matched
    /\ dispatching = NotDispatching
    /\ sleeping = FALSE /\ ready \in BOOLEAN /\ ignored = FALSE /\ disabled = FALSE
    /\ psm = EmptyPsm
    /\ announced = FALSE /\ forwarded = {} /\ dropped = {}
    /\ overtaken = FALSE /\ inputs = 0

\* seized()
Seized == current = "seize"

-----------------------------------------------------------------------------
(* probable_stuck_events_manager                                           *)

\* find_probable_stuck_event: the first of the ordered set; 0 is std::nullopt.
find_probable_stuck_event(m) == IF m.stuck = {} THEN 0 ELSE Min(m.stuck)

\* A key_down in the observed state interrupts the repeat of the other keys.
KeyDownUpdate(m, k, seized) ==
    [m EXCEPT !.arrived = @ \cup {k},
              !.ups = @ \ {k},
              !.exceptional = @ \ {k},
              !.stuck = IF seized THEN @
                        ELSE {k} \cup (IF k \in ModifierKeys THEN @ ELSE @ \cap ModifierKeys)]

\* A key_up without its key_down was down before the device was seized, unless
\* the device sends such key_ups all the time.
KeyUpUpdate(m, k) ==
    LET again == k \in m.ups
        stuck == ~again /\ k \notin m.arrived \cup m.exceptional
    IN  [m EXCEPT !.exceptional = IF again THEN @ \cup {k} ELSE @,
                  !.stuck = IF stuck THEN @ \cup {k} ELSE @ \ {k},
                  !.ups = @ \cup {k}]

Update(m, v, seized) ==
    IF v.down THEN KeyDownUpdate(m, v.key, seized) ELSE KeyUpUpdate(m, v.key)

\* clear(): exceptional_key_up_events_ survives.
Clear(m) == [EmptyPsm EXCEPT !.exceptional = m.exceptional]

-----------------------------------------------------------------------------
(* Inputs: the user, the power manager, the virtual device, the config.    *)

Input == inputs < MaxInputs /\ inputs' = inputs + 1

\* A started queue gets all values of the open device.
KeyEvent(k, down) ==
    /\ Input
    /\ down # (k \in held)
    /\ held' = IF down THEN held \cup {k} ELSE held \ {k}
    /\ hid_queue' = IF queue_started /\ opened # "none" THEN Append(hid_queue, [key |-> k, down |-> down])
                    ELSE hid_queue
    /\ UNCHANGED <<opened, queue_started, requested, current, run_loop_queue, run_loop,
                   open_timer, dispatcher_queue, dispatching, surroundings, psm, history>>

\* A change of the surroundings is a task of its own on the dispatcher thread
\* and ends with async_grab_devices.
AsyncGrabDevices ==
    /\ Input
    /\ dispatching = NotDispatching
    /\ dispatcher_queue' = Append(dispatcher_queue, Task("grab"))
    /\ UNCHANGED <<kernel, requested, current, run_loop_queue, run_loop, open_timer,
                   dispatching, psm, history>>

\* Mutant: waking up or falling asleep does not reconsider the device.
SetSystemSleepingNoGrab ==
    /\ sleeping' = ~sleeping
    /\ Input
    /\ dispatching = NotDispatching
    /\ UNCHANGED <<kernel, requested, current, run_loop_queue, run_loop, open_timer,
                   dispatcher_queue, dispatching, ready, ignored, disabled, psm, history>>

\* set_system_sleeping, from system_will_sleep, system_will_power_on and the like
SetSystemSleeping ==
    /\ sleeping' = ~sleeping
    /\ AsyncGrabDevices
    /\ UNCHANGED <<ready, ignored, disabled>>

\* virtual_hid_keyboard_ready, with another value than the last one
VirtualHidKeyboardReady ==
    /\ ready' = ~ready
    /\ AsyncGrabDevices
    /\ UNCHANGED <<sleeping, ignored, disabled>>

\* core_configuration_updated with a change of the device's "ignore", or of some
\* device's "disable_built_in_keyboard_if_exists" (update_devices_disabled)
CoreConfigurationUpdated ==
    /\ ignored' \in BOOLEAN /\ disabled' \in BOOLEAN
    /\ <<ignored', disabled'>> # <<ignored, disabled>>
    /\ AsyncGrabDevices
    /\ UNCHANGED <<sleeping, ready>>

\* device_matched or device_terminated of another device, one that disables the
\* built-in keyboard
OtherDeviceChanged ==
    /\ disabled' = ~disabled
    /\ AsyncGrabDevices
    /\ UNCHANGED <<sleeping, ready, ignored>>

-----------------------------------------------------------------------------
(* The dispatcher thread.                                                  *)

\* A disabled device is seized although it is ignored, to discard its events.
needs_to_seize_device == disabled \/ ~ignored

make_grabbable_state ==
    IF ~needs_to_seize_device THEN "ungrabbable_permanently"
    ELSE IF sleeping \/ ~ready \/ find_probable_stuck_event(psm) # 0
         THEN "ungrabbable_temporarily"
         ELSE "grabbable"

\* The options grab_device asks the monitor for: async_start, or async_stop.
Desired ==
    CASE make_grabbable_state = "grabbable" -> "seize"
      [] make_grabbable_state = "ungrabbable_temporarily" -> "observe"
      [] OTHER -> "none"

grab_device ==
    /\ requested' = Desired
    /\ run_loop_queue' = Append(run_loop_queue, IF Desired = "none" THEN "stop" ELSE "arm")

NextTask(name) ==
    /\ dispatching = NotDispatching
    /\ dispatcher_queue # <<>>
    /\ Head(dispatcher_queue).task = name

GrabDevices ==
    /\ NextTask("grab")
    /\ grab_device
    /\ dispatcher_queue' = Tail(dispatcher_queue)
    /\ UNCHANGED <<kernel, current, run_loop, open_timer, dispatching, surroundings, psm,
                   history, inputs>>

\* timer::start calls the function once, by way of the queue, then every interval.
TimerStart ==
    /\ NextTask("timer_start")
    /\ open_timer' = TRUE
    /\ dispatcher_queue' = Append(Tail(dispatcher_queue), Task("timer_call"))
    /\ UNCHANGED <<kernel, requested, current, run_loop_queue, run_loop, dispatching,
                   surroundings, psm, history, inputs>>

TimerStop ==
    /\ NextTask("timer_stop")
    /\ open_timer' = FALSE
    /\ dispatcher_queue' = Tail(dispatcher_queue)
    /\ UNCHANGED <<kernel, requested, current, run_loop_queue, run_loop, dispatching,
                   surroundings, psm, history, inputs>>

\* The interval is over.  Bound: one call of the timer is outstanding at a time.
TimerTick ==
    /\ open_timer /\ dispatching = NotDispatching
    /\ \A i \in DOMAIN dispatcher_queue :
            dispatcher_queue[i].task \notin {"timer_call", "timer_start"}
    /\ \A i \in DOMAIN run_loop_queue : run_loop_queue[i] # "start"
    /\ dispatcher_queue' = Append(dispatcher_queue, Task("timer_call"))
    /\ UNCHANGED <<kernel, requested, current, run_loop_queue, run_loop, open_timer,
                   dispatching, surroundings, psm, history, inputs>>

TimerCall ==
    /\ NextTask("timer_call")
    /\ run_loop_queue' = Append(run_loop_queue, "start")
    /\ dispatcher_queue' = Tail(dispatcher_queue)
    /\ UNCHANGED <<kernel, requested, current, run_loop, open_timer, dispatching,
                   surroundings, psm, history, inputs>>

\* The started signal: the entry's handler, then device_grabber's.
Started ==
    /\ NextTask("started")
    /\ psm' = IF Seized THEN Clear(psm) ELSE psm
    /\ announced' = TRUE
    /\ dispatcher_queue' = Tail(dispatcher_queue)
    /\ UNCHANGED <<kernel, requested, current, run_loop_queue, run_loop, open_timer,
                   dispatching, surroundings, forwarded, dropped, overtaken, inputs>>

\* The stopped signal posts device_ungrabbed, which releases the device's keys.
Stopped ==
    /\ NextTask("stopped")
    /\ announced' = FALSE
    /\ forwarded' = {} /\ dropped' = {}
    /\ dispatcher_queue' = Tail(dispatcher_queue)
    /\ UNCHANGED <<kernel, requested, current, run_loop_queue, run_loop, open_timer,
                   dispatching, surroundings, psm, overtaken, inputs>>

ValuesArrived ==
    /\ NextTask("values_arrived")
    /\ dispatching' = [NotDispatching EXCEPT !.values = Head(dispatcher_queue).values]
    /\ dispatcher_queue' = Tail(dispatcher_queue)
    /\ UNCHANGED <<kernel, requested, current, run_loop_queue, run_loop, open_timer,
                   surroundings, psm, history, inputs>>

\* values_arrived, for the next value: the stuck events manager's update.
UpdateStuckEvents ==
    /\ dispatching.values # <<>> /\ ~dispatching.updated
    /\ psm' = Update(psm, Head(dispatching.values), Seized)
    /\ dispatching' =
            [dispatching EXCEPT
                !.updated = TRUE,
                !.regrab = @ \/ find_probable_stuck_event(psm') # find_probable_stuck_event(psm)]
    /\ UNCHANGED <<kernel, requested, current, run_loop_queue, run_loop, open_timer,
                   dispatcher_queue, surroundings, history, inputs>>

\* Then, if the device is seized and not disabled, the event goes to
\* merged_input_event_queue_.
ForwardValue ==
    LET v == Head(dispatching.values)
        forwards == Seized /\ ~disabled
        discards == Seized /\ disabled /\ ~v.down
    IN  /\ dispatching.values # <<>> /\ dispatching.updated
        /\ forwarded' = IF ~forwards THEN forwarded
                        ELSE IF v.down THEN forwarded \cup {v.key} ELSE forwarded \ {v.key}
        /\ dropped' = IF forwards THEN dropped \ {v.key}
                      ELSE IF discards THEN dropped \cup {v.key} ELSE dropped
        /\ dispatching' = [dispatching EXCEPT !.values = Tail(@), !.updated = FALSE]
        /\ UNCHANGED <<kernel, requested, current, run_loop_queue, run_loop, open_timer,
                       dispatcher_queue, surroundings, psm, announced, overtaken, inputs>>

\* After the last value the device is grabbed again if an update asked for it.
Regrab ==
    /\ dispatching.values = <<>> /\ dispatching.regrab
    /\ grab_device
    /\ dispatching' = NotDispatching
    /\ UNCHANGED <<kernel, current, run_loop, open_timer, dispatcher_queue, surroundings, psm,
                   history, inputs>>

-----------------------------------------------------------------------------
(* The run-loop thread: iokit_hid_queue_value_monitor.                     *)

Block(name) ==
    /\ run_loop = Idle
    /\ run_loop_queue # <<>>
    /\ Head(run_loop_queue) = name

\* async_start's block
ArmOpenTimer ==
    /\ Block("arm")
    /\ run_loop_queue' = Tail(run_loop_queue)
    /\ dispatcher_queue' = Append(dispatcher_queue, Task("timer_start"))
    /\ UNCHANGED <<kernel, requested, current, run_loop, open_timer, dispatching,
                   surroundings, psm, history, inputs>>

\* async_stop's block: stop(), up to the end of its first critical section
StopRead ==
    /\ Block("stop")
    /\ run_loop_queue' = Tail(run_loop_queue)
    /\ run_loop' = IF current # "none" /\ requested = "none"
                   THEN [Idle EXCEPT !.at = "stop"]
                   ELSE Idle
    /\ UNCHANGED <<kernel, requested, current, open_timer, dispatcher_queue, dispatching,
                   surroundings, psm, history, inputs>>

\* Mutant: std::nullopt in requested_open_options_ is not an early return.
StartReadNoCheck ==
    /\ Block("start")
    /\ run_loop_queue' = Tail(run_loop_queue)
    /\ IF requested = current
       THEN /\ dispatcher_queue' = Append(dispatcher_queue, Task("timer_stop"))
            /\ UNCHANGED run_loop
       ELSE /\ run_loop' = [at |-> IF current = "none" THEN "open" ELSE "close",
                            options |-> requested]
            /\ UNCHANGED dispatcher_queue
    /\ UNCHANGED <<kernel, requested, current, open_timer, dispatching, surroundings, psm,
                   history, inputs>>

\* start(), up to the end of its first critical section
StartRead ==
    /\ Block("start")
    /\ run_loop_queue' = Tail(run_loop_queue)
    /\ IF requested \in {"none", current}
       THEN /\ dispatcher_queue' = Append(dispatcher_queue, Task("timer_stop"))
            /\ UNCHANGED run_loop
       ELSE /\ run_loop' = [at |-> IF current = "none" THEN "open" ELSE "close",
                            options |-> requested]
            /\ UNCHANGED dispatcher_queue
    /\ UNCHANGED <<kernel, requested, current, open_timer, dispatching, surroundings, psm,
                   history, inputs>>

\* Mutant: the stopped signal is only sent for async_stop.
CloseDeviceNoSignal ==
    /\ run_loop.at \in {"stop", "close"}
    /\ opened' = "none"
    /\ queue_started' = FALSE /\ hid_queue' = <<>>
    /\ current' = "none"
    /\ dispatcher_queue' = IF run_loop.at = "close" THEN dispatcher_queue
                           ELSE Append(dispatcher_queue, Task("stopped"))
    /\ run_loop' = IF run_loop.at = "stop" THEN Idle ELSE [run_loop EXCEPT !.at = "open"]
    /\ overtaken' = FALSE
    /\ UNCHANGED <<held, requested, run_loop_queue, open_timer, dispatching,
                   surroundings, psm, announced, forwarded, dropped, inputs>>

\* Mutant: the stopped signal runs at once, not by way of the dispatcher.
CloseDeviceSignalsAtOnce ==
    /\ run_loop.at \in {"stop", "close"}
    /\ opened' = "none"
    /\ queue_started' = FALSE /\ hid_queue' = <<>>
    /\ current' = "none"
    /\ announced' = FALSE /\ forwarded' = {} /\ dropped' = {} /\ overtaken' = FALSE
    /\ run_loop' = IF run_loop.at = "stop" THEN Idle ELSE [run_loop EXCEPT !.at = "open"]
    /\ UNCHANGED <<held, requested, run_loop_queue, open_timer, dispatcher_queue,
                   dispatching, surroundings, psm, inputs>>

\* The rest of stop(), called by start() too: stop_queue, IOHIDDeviceClose,
\* current_open_options_ = nullopt and the stopped signal.  Between the close and
\* the assignment the dispatcher thread can only read seized(), as it can before.
CloseDevice ==
    /\ run_loop.at \in {"stop", "close"}
    /\ opened' = "none"
    /\ queue_started' = FALSE /\ hid_queue' = <<>>
    /\ current' = "none"
    /\ dispatcher_queue' = Append(dispatcher_queue, Task("stopped"))
    /\ run_loop' = IF run_loop.at = "stop" THEN Idle ELSE [run_loop EXCEPT !.at = "open"]
    /\ overtaken' = FALSE
    /\ UNCHANGED <<held, requested, run_loop_queue, open_timer, dispatching,
                   surroundings, psm, announced, forwarded, dropped, inputs>>

\* start_queue and a successful IOHIDDeviceOpen
StartOpen ==
    /\ run_loop.at = "open"
    /\ queue_started' = TRUE
    /\ opened' = run_loop.options
    /\ run_loop' = [run_loop EXCEPT !.at = "commit"]
    /\ UNCHANGED <<held, hid_queue, requested, current, run_loop_queue, open_timer,
                   dispatcher_queue, dispatching, surroundings, psm, history, inputs>>

\* Mutant: a failed open is not an early return.
StartOpenFailsGoesOn ==
    /\ run_loop.at = "open"
    /\ queue_started' = TRUE
    /\ run_loop' = [run_loop EXCEPT !.at = "commit"]
    /\ UNCHANGED <<held, opened, hid_queue, requested, current, run_loop_queue,
                   open_timer, dispatcher_queue, dispatching, surroundings, psm, history, inputs>>

\* Mutant: a failed open stops open_timer_.
StartOpenFailsForGood ==
    /\ run_loop.at = "open"
    /\ queue_started' = TRUE
    /\ run_loop' = Idle
    /\ dispatcher_queue' = Append(dispatcher_queue, Task("timer_stop"))
    /\ UNCHANGED <<held, opened, hid_queue, requested, current, run_loop_queue,
                   open_timer, dispatching, surroundings, psm, history, inputs>>

\* IOHIDDeviceOpen failed: open_timer_ keeps running and tries again.
StartOpenFails ==
    /\ run_loop.at = "open"
    /\ queue_started' = TRUE
    /\ run_loop' = Idle
    /\ UNCHANGED <<held, opened, hid_queue, requested, current, run_loop_queue,
                   open_timer, dispatcher_queue, dispatching, surroundings, psm, history, inputs>>

\* start(), second critical section: requested_open_options_ is read once more.
StartCommit ==
    /\ run_loop.at = "commit"
    /\ current' = requested
    /\ dispatcher_queue' = dispatcher_queue \o <<Task("started"), Task("timer_stop")>>
    /\ run_loop' = Idle
    /\ overtaken' = (overtaken \/ requested # run_loop.options)
    /\ UNCHANGED <<kernel, requested, run_loop_queue, open_timer, dispatching, surroundings,
                   psm, announced, forwarded, dropped, inputs>>

\* queue_value_available_callback: the values are dropped while the device is
\* not open as far as the monitor knows.
QueueValueAvailable ==
    /\ run_loop = Idle
    /\ queue_started /\ hid_queue # <<>>
    /\ hid_queue' = <<>>
    /\ dispatcher_queue' = IF current = "none" THEN dispatcher_queue
                           ELSE Append(dispatcher_queue, ValuesTask(hid_queue))
    /\ UNCHANGED <<held, opened, queue_started, requested, current, run_loop_queue,
                   run_loop, open_timer, dispatching, surroundings, psm, history, inputs>>

-----------------------------------------------------------------------------
Inputs ==
    \/ \E k \in Keys, down \in BOOLEAN : KeyEvent(k, down)
    \/ SetSystemSleeping
    \/ VirtualHidKeyboardReady
    \/ CoreConfigurationUpdated
    \/ OtherDeviceChanged

Dispatcher ==
    \/ GrabDevices \/ TimerStart \/ TimerStop \/ TimerCall
    \/ Started \/ Stopped
    \/ ValuesArrived \/ UpdateStuckEvents \/ ForwardValue \/ Regrab

RunLoop ==
    \/ ArmOpenTimer \/ StopRead \/ CloseDevice
    \/ StartRead \/ StartOpen \/ StartOpenFails \/ StartCommit
    \/ QueueValueAvailable

Next == Inputs \/ Dispatcher \/ RunLoop \/ TimerTick

Spec == Init /\ [][Next]_vars

\* Both threads run, the timer ticks, and a device that is opened again and
\* again is opened in the end.
Fairness ==
    /\ WF_vars(Dispatcher)
    /\ WF_vars(RunLoop)
    /\ WF_vars(TimerTick)
    /\ SF_vars(StartOpen)

FairSpec == Spec /\ Fairness

-----------------------------------------------------------------------------
TypeOK ==
    /\ held \subseteq Keys
    /\ opened \in Options /\ requested \in Options /\ current \in Options
    /\ hid_queue \in Seq(Values) /\ queue_started \in BOOLEAN
    /\ run_loop_queue \in Seq({"arm", "start", "stop"})
    /\ run_loop \in [at : {"idle", "stop"}, options : {"none"}]
                    \cup [at : {"close", "open", "commit"}, options : Options \ {"none"}]
    /\ open_timer \in BOOLEAN
    /\ \A i \in DOMAIN dispatcher_queue : dispatcher_queue[i].values \in Seq(Values)
    /\ dispatching \in [values : Seq(Values), updated : BOOLEAN, regrab : BOOLEAN]
    /\ sleeping \in BOOLEAN /\ ready \in BOOLEAN /\ ignored \in BOOLEAN
    /\ disabled \in BOOLEAN
    /\ psm \in [stuck : SUBSET Keys, arrived : SUBSET Keys, ups : SUBSET Keys,
                exceptional : SUBSET Keys]
    /\ announced \in BOOLEAN /\ forwarded \subseteq Keys /\ dropped \subseteq Keys
    /\ overtaken \in BOOLEAN
    /\ inputs \in 0 .. MaxInputs

\* Nothing is under way on either thread.
Quiet ==
    /\ run_loop = Idle /\ run_loop_queue = <<>>
    /\ dispatching = NotDispatching /\ dispatcher_queue = <<>>
    /\ hid_queue = <<>> /\ ~open_timer

(* Events of the device reach merged_input_event_queue_ only between its   *)
(* device_grabbed and device_ungrabbed events, although seized() is asked  *)
(* when the values are dispatched and not when they were read: a key_down  *)
(* after device_ungrabbed would never be released.                         *)
ForwardedOnlyWhileAnnounced == forwarded # {} => announced

(* When everything has settled, a key forwarded as down is physically      *)
(* down, unless its key_up was discarded because the device was disabled   *)
(* while the key was held (update_devices_disabled does not close the      *)
(* device): no reopening, unread value or late answer leaves a key pressed *)
(* on the virtual keyboard.                                                *)
NoForwardedKeyStuck == Quiet => forwarded \ dropped \subseteq held

(* current_open_options_ says how the device is really open whenever the   *)
(* run-loop thread is between two blocks, after failed opens, retries and  *)
(* reopenings; only a request that overtakes start() can break it.         *)
OpenModeKnown == run_loop = Idle /\ ~overtaken => opened = current

(* Once the inputs stop, the device is open in the kernel the way the      *)
(* grabber asked for last, through failed opens and retries; only a        *)
(* request that overtakes start() can be lost, and the next close repairs  *)
(* it.                                                                     *)
MonitorSettles == <>[](overtaken \/ opened = requested)

(* "Therefore, do not grab the device while system is sleeping": when both *)
(* threads have done their work, a device is not seized while the system   *)
(* sleeps.  (It may be: the request to observe it that overtakes start()   *)
(* is recorded as done.)                                                   *)
NotSeizedWhileSleeping == Quiet /\ sleeping => opened # "seize"

(* Once the inputs stop, the grabber asks for what make_grabbable_state    *)
(* calls for, or for less: the started signal empties                      *)
(* probable_stuck_events_ without a new grab_device, which may leave the   *)
(* device observed although it is grabbable, but never the reverse.        *)
GrabberSettles ==
    <>[](requested = Desired \/ (requested = "observe" /\ Desired = "seize"))

=============================================================================
