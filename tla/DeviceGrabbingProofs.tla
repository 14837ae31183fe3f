------------------------- MODULE DeviceGrabbingProofs -------------------------
(***************************************************************************)
(* Proofs about DeviceGrabbing for every number of keys and of inputs.     *)
(*                                                                         *)
(* What happens to a device is decided on the run-loop thread and reaches  *)
(* the dispatcher thread as tasks.  The invariants therefore speak of what *)
(* the tasks in the queue will have done when they have run.               *)
(***************************************************************************)
EXTENDS DeviceGrabbing, SequenceTheorems, TLAPS

Tasks == [task : {"grab", "timer_start", "timer_stop", "timer_call", "started", "stopped",
                  "values_arrived"},
          values : Seq(Values)]

\* The type of the queue itself is needed to say what is left of it.
TypeInv == TypeOK /\ dispatcher_queue \in Seq(Tasks)

-----------------------------------------------------------------------------
(* The open mode.                                                          *)

\* How the device is open, wherever the run-loop thread is.
OpenInv ==
    /\ run_loop.at \in {"open", "commit"} => current = "none"
    /\ run_loop.at = "commit" => queue_started /\ opened = run_loop.options
    /\ run_loop.at # "commit" /\ ~overtaken => opened = current
    /\ current # "none" => queue_started /\ opened # "none"
    /\ hid_queue # <<>> => queue_started /\ opened # "none"

-----------------------------------------------------------------------------
(* The queue of the dispatcher thread.                                     *)

\* No stopped signal among the tasks after the i-th
NoStopped(q, i) == \A j \in 1 .. Len(q) : j > i => q[j].task # "stopped"

\* The device is announced when the tasks before the i-th have run.
AnnouncedAt(q, a, i) ==
    \/ a /\ \A j \in 1 .. Len(q) : j < i => q[j].task # "stopped"
    \/ \E j \in 1 .. Len(q) :
          /\ j < i /\ q[j].task = "started"
          /\ \A n \in 1 .. Len(q) : j < n /\ n < i => q[n].task # "stopped"

\* Values, and an open device, come after the device's announcement.
Announcing(q, a, cur) ==
    /\ \A i \in 1 .. Len(q) : q[i].task = "values_arrived" => AnnouncedAt(q, a, i)
    /\ cur # "none" => AnnouncedAt(q, a, Len(q) + 1)

AnnouncedInv ==
    /\ Announcing(dispatcher_queue, announced, current)
    /\ dispatching.values # <<>> => announced
    /\ ForwardedOnlyWhileAnnounced

-----------------------------------------------------------------------------
(* Values on their way.                                                    *)

Has(s, k) == \E n \in 1 .. Len(s) : s[n].key = k

\* The last value of k among s is a key_down.
LastDown(s, k) ==
    \E n \in 1 .. Len(s) : /\ s[n].key = k /\ s[n].down
                           /\ \A m \in 1 .. Len(s) : m > n => s[m].key # k

\* A task after the i-th has a value of k.
Carried(q, i, k) ==
    \E j \in 1 .. Len(q) : j > i /\ q[j].task = "values_arrived" /\ Has(q[j].values, k)

\* A key whose state is known from before the i-th task is down, or a later
\* value will tell.
Settled(q, i, hid, hd, k) == Carried(q, i, k) \/ Has(hid, k) \/ k \in hd

\* What is not followed by a stopped signal belongs to the device as it is open
\* now; cur is current_open_options_, fw the keys forwarded as down and owed a
\* key_up, dv the values being dispatched, hid those the kernel holds, hd the keys that are down.
Following(q, dv, fw, hid, hd, cur) ==
    /\ NoStopped(q, 0) =>
          /\ fw # {} => cur = "seize"
          /\ dv # <<>> => cur # "none"
          /\ \A k \in fw : Has(dv, k) \/ Settled(q, 0, hid, hd, k)
          /\ \A k \in Keys : LastDown(dv, k) => Settled(q, 0, hid, hd, k)
    /\ \A i \in 1 .. Len(q) : q[i].task = "values_arrived" /\ NoStopped(q, i) =>
          /\ cur # "none"
          /\ \A k \in Keys : LastDown(q[i].values, k) => Settled(q, i, hid, hd, k)
    /\ \A k \in Keys : LastDown(hid, k) => k \in hd

\* A key whose key_up was discarded is owed no other.
Owed == forwarded \ dropped

FollowingInv ==
    Following(dispatcher_queue, dispatching.values, Owed, hid_queue, held, current)

IInv == TypeInv /\ OpenInv /\ AnnouncedInv /\ FollowingInv


-----------------------------------------------------------------------------
(* Types.                                                                  *)

Psm == [stuck : SUBSET Keys, arrived : SUBSET Keys, ups : SUBSET Keys, exceptional : SUBSET Keys]

\* probable_stuck_events_manager keeps sets of the device's keys.
LEMMA UpdateType ==
    ASSUME NEW m \in Psm, NEW v \in Values, NEW seized \in BOOLEAN
    PROVE  Update(m, v, seized) \in Psm
<1>1. v.key \in Keys /\ v.down \in BOOLEAN
  BY DEF Values
<1>2. CASE v.down
  <2>1. KeyDownUpdate(m, v.key, seized) \in Psm
    BY <1>1 DEF KeyDownUpdate, Psm
  <2> QED BY <1>2, <2>1 DEF Update
<1>3. CASE ~v.down
  <2>1. KeyUpUpdate(m, v.key) \in Psm
    BY <1>1 DEF KeyUpUpdate, Psm
  <2> QED BY <1>3, <2>1 DEF Update
<1> QED BY <1>1, <1>2, <1>3

\* The task at the head of the queue is one of Tasks, and so are the others.
LEMMA TailType ==
    ASSUME NEW q \in Seq(Tasks), q # <<>>
    PROVE  /\ Head(q) \in Tasks /\ Head(q) = q[1]
           /\ Tail(q) \in Seq(Tasks)
           /\ Len(Tail(q)) = Len(q) - 1 /\ Len(q) \in Nat \ {0}
           /\ \A i \in 1 .. Len(Tail(q)) : Tail(q)[i] = q[i + 1] /\ i + 1 \in 1 .. Len(q)
BY HeadTailProperties

\* What a queue is after a task was enqueued.
LEMMA AppendType ==
    ASSUME NEW q \in Seq(Tasks), NEW t \in Tasks
    PROVE  /\ Append(q, t) \in Seq(Tasks)
           /\ Len(Append(q, t)) = Len(q) + 1 /\ Len(q) \in Nat
           /\ Append(q, t)[Len(q) + 1] = t
           /\ \A i \in 1 .. Len(q) : Append(q, t)[i] = q[i] /\ i \in 1 .. Len(Append(q, t))
BY AppendProperties

\* The tasks that are made are Tasks.
LEMMA TaskType ==
    /\ \A name \in {"grab", "timer_start", "timer_stop", "timer_call", "started", "stopped"} :
          /\ Task(name) \in Tasks /\ Task(name).task = name
    /\ \A values \in Seq(Values) :
          /\ ValuesTask(values) \in Tasks /\ ValuesTask(values).task = "values_arrived"
          /\ ValuesTask(values).values = values
<1>1. <<>> \in Seq(Values)
  OBVIOUS
<1> QED BY <1>1 DEF Task, ValuesTask, Tasks

\* The part of the type invariant that most steps leave to the queue's type.
LEMMA QueueValues ==
    ASSUME NEW q \in Seq(Tasks)
    PROVE  \A i \in DOMAIN q : q[i].values \in Seq(Values)
<1>1. \A i \in DOMAIN q : q[i] \in Tasks
  OBVIOUS
<1> QED BY <1>1 DEF Tasks

\* In the beginning the device waits to be grabbed.
LEMMA InitType == Init => TypeInv
<1> SUFFICES ASSUME Init PROVE TypeInv
  OBVIOUS
<1>1. dispatcher_queue \in Seq(Tasks)
  BY TaskType DEF Init
<1>2. \A i \in DOMAIN dispatcher_queue : dispatcher_queue[i].values \in Seq(Values)
  BY <1>1, QueueValues
<1>3. psm \in [stuck : SUBSET Keys, arrived : SUBSET Keys, ups : SUBSET Keys,
               exceptional : SUBSET Keys]
  BY DEF Init, EmptyPsm
<1>4. dispatching \in [values : Seq(Values), updated : BOOLEAN, regrab : BOOLEAN]
  BY DEF Init, NotDispatching
<1>5. run_loop \in [at : {"idle", "stop"}, options : {"none"}]
  BY DEF Init, Idle
<1>6. inputs \in 0 .. MaxInputs
  BY GrabbingAssumption DEF Init
<1>7. hid_queue \in Seq(Values) /\ run_loop_queue \in Seq({"arm", "start", "stop"})
  BY DEF Init
<1>8. opened \in Options /\ requested \in Options /\ current \in Options
  BY DEF Init, Options
<1>9. /\ held \subseteq Keys /\ forwarded \subseteq Keys /\ dropped \subseteq Keys
      /\ queue_started \in BOOLEAN /\ open_timer \in BOOLEAN
      /\ sleeping \in BOOLEAN /\ ready \in BOOLEAN /\ ignored \in BOOLEAN
      /\ disabled \in BOOLEAN /\ announced \in BOOLEAN /\ overtaken \in BOOLEAN
  BY DEF Init
<1> QED BY <1>1, <1>2, <1>3, <1>4, <1>5, <1>6, <1>7, <1>8, <1>9 DEF TypeInv, TypeOK


\* What grab_device asks for.
LEMMA DesiredType == Desired \in Options
BY DEF Desired, Options

\* Changes of the surroundings and key events.
LEMMA InputsType == TypeInv /\ Inputs => TypeInv'
<1> SUFFICES ASSUME TypeInv, Inputs PROVE TypeInv'
  OBVIOUS
<1> USE DEF kernel, surroundings, history
<1>1. ASSUME Input PROVE inputs' \in 0 .. MaxInputs
  BY <1>1, GrabbingAssumption DEF Input, TypeInv, TypeOK
<1>2. ASSUME NEW k \in Keys, NEW down \in BOOLEAN, KeyEvent(k, down) PROVE TypeInv'
  <2>1. held' \subseteq Keys
    BY <1>2 DEF KeyEvent, TypeInv, TypeOK
  <2>2. hid_queue' \in Seq(Values)
    <3>1. [key |-> k, down |-> down] \in Values
      BY DEF Values
    <3>2. Append(hid_queue, [key |-> k, down |-> down]) \in Seq(Values)
      BY <3>1 DEF TypeInv, TypeOK
    <3> QED BY <1>2, <3>2 DEF KeyEvent, TypeInv, TypeOK
  <2> QED BY <1>1, <1>2, <2>1, <2>2 DEF KeyEvent, TypeInv, TypeOK
<1>3. CASE \/ SetSystemSleeping \/ VirtualHidKeyboardReady
           \/ CoreConfigurationUpdated \/ OtherDeviceChanged
  <2>1. dispatcher_queue' \in Seq(Tasks)
    BY <1>3, TaskType, AppendType
       DEF SetSystemSleeping, VirtualHidKeyboardReady, CoreConfigurationUpdated,
           OtherDeviceChanged, AsyncGrabDevices, TypeInv
  <2>2. /\ sleeping' \in BOOLEAN /\ ready' \in BOOLEAN
        /\ ignored' \in BOOLEAN /\ disabled' \in BOOLEAN
    BY <1>3 DEF SetSystemSleeping, VirtualHidKeyboardReady, CoreConfigurationUpdated,
                OtherDeviceChanged, TypeInv, TypeOK
  <2> QED BY <1>1, <1>3, <2>1, <2>2, QueueValues
       DEF SetSystemSleeping, VirtualHidKeyboardReady, CoreConfigurationUpdated,
           OtherDeviceChanged, AsyncGrabDevices, TypeInv, TypeOK
<1> QED BY <1>2, <1>3 DEF Inputs

\* The dispatcher thread.
LEMMA DispatcherType == TypeInv /\ (Dispatcher \/ TimerTick) => TypeInv'
<1> SUFFICES ASSUME TypeInv, Dispatcher \/ TimerTick PROVE TypeInv'
  OBVIOUS
<1> USE DEF kernel, surroundings, history
<1>1. CASE GrabDevices
  <2>1. dispatcher_queue' \in Seq(Tasks)
    BY <1>1, TailType DEF GrabDevices, NextTask, TypeInv
  <2>2. requested' \in Options
    BY <1>1, DesiredType DEF GrabDevices, grab_device
  <2>3. run_loop_queue' \in Seq({"arm", "start", "stop"})
    BY <1>1 DEF GrabDevices, grab_device, TypeInv, TypeOK
  <2> QED BY <1>1, <2>1, <2>2, <2>3, QueueValues DEF GrabDevices, TypeInv, TypeOK
<1>2. CASE TimerStart
  <2>1. dispatcher_queue' \in Seq(Tasks)
    BY <1>2, TailType, TaskType, AppendType DEF TimerStart, NextTask, TypeInv
  <2> QED BY <1>2, <2>1, QueueValues, ZenonT(40) DEF TimerStart, TypeInv, TypeOK
<1>3. CASE TimerStop
  <2>1. dispatcher_queue' \in Seq(Tasks)
    BY <1>3, TailType DEF TimerStop, NextTask, TypeInv
  <2> QED BY <1>3, <2>1, QueueValues, ZenonT(40) DEF TimerStop, TypeInv, TypeOK
<1>4. CASE TimerTick
  <2>1. dispatcher_queue' \in Seq(Tasks)
    BY <1>4, TaskType, AppendType DEF TimerTick, TypeInv
  <2> QED BY <1>4, <2>1, QueueValues, ZenonT(40) DEF TimerTick, TypeInv, TypeOK
<1>5. CASE TimerCall
  <2>1. dispatcher_queue' \in Seq(Tasks)
    BY <1>5, TailType DEF TimerCall, NextTask, TypeInv
  <2>2. run_loop_queue' \in Seq({"arm", "start", "stop"})
    BY <1>5 DEF TimerCall, TypeInv, TypeOK
  <2> QED BY <1>5, <2>1, <2>2, QueueValues DEF TimerCall, TypeInv, TypeOK
<1>6. CASE Started
  <2>1. dispatcher_queue' \in Seq(Tasks)
    BY <1>6, TailType DEF Started, NextTask, TypeInv
  <2>2. psm' \in Psm
    BY <1>6 DEF Started, Clear, EmptyPsm, Psm, TypeInv, TypeOK
  <2> QED BY <1>6, <2>1, <2>2, QueueValues DEF Started, TypeInv, TypeOK, Psm
<1>7. CASE Stopped
  <2>1. dispatcher_queue' \in Seq(Tasks)
    BY <1>7, TailType DEF Stopped, NextTask, TypeInv
  <2> QED BY <1>7, <2>1, QueueValues, ZenonT(40) DEF Stopped, TypeInv, TypeOK
<1>8. CASE ValuesArrived
  <2>1. dispatcher_queue' \in Seq(Tasks) /\ Head(dispatcher_queue) \in Tasks
    BY <1>8, TailType DEF ValuesArrived, NextTask, TypeInv
  <2>2. dispatching' \in [values : Seq(Values), updated : BOOLEAN, regrab : BOOLEAN]
    BY <1>8, <2>1 DEF ValuesArrived, NotDispatching, Tasks
  <2> QED BY <1>8, <2>1, <2>2, QueueValues DEF ValuesArrived, TypeInv, TypeOK
<1>9. CASE UpdateStuckEvents
  <2>1. psm' \in Psm
    <3>1. Head(dispatching.values) \in Values
      BY <1>9 DEF UpdateStuckEvents, TypeInv, TypeOK
    <3> QED BY <1>9, <3>1, UpdateType DEF UpdateStuckEvents, Seized, TypeInv, TypeOK, Psm
  <2>2. dispatching' \in [values : Seq(Values), updated : BOOLEAN, regrab : BOOLEAN]
    BY <1>9 DEF UpdateStuckEvents, TypeInv, TypeOK
  <2> QED BY <1>9, <2>1, <2>2 DEF UpdateStuckEvents, TypeInv, TypeOK, Psm
<1>10. CASE ForwardValue
  <2>1. Head(dispatching.values) \in Values /\ Tail(dispatching.values) \in Seq(Values)
    BY <1>10 DEF ForwardValue, TypeInv, TypeOK
  <2>2. forwarded' \subseteq Keys /\ dropped' \subseteq Keys
    BY <1>10, <2>1 DEF ForwardValue, Values, TypeInv, TypeOK
  <2>3. dispatching' \in [values : Seq(Values), updated : BOOLEAN, regrab : BOOLEAN]
    BY <1>10, <2>1 DEF ForwardValue, TypeInv, TypeOK
  <2> QED BY <1>10, <2>2, <2>3 DEF ForwardValue, TypeInv, TypeOK
<1>11. CASE Regrab
  <2>1. requested' \in Options
    BY <1>11, DesiredType DEF Regrab, grab_device
  <2>2. run_loop_queue' \in Seq({"arm", "start", "stop"})
    BY <1>11 DEF Regrab, grab_device, TypeInv, TypeOK
  <2>3. dispatching' \in [values : Seq(Values), updated : BOOLEAN, regrab : BOOLEAN]
    BY <1>11 DEF Regrab, NotDispatching
  <2> QED BY <1>11, <2>1, <2>2, <2>3 DEF Regrab, TypeInv, TypeOK
<1> QED BY <1>1, <1>2, <1>3, <1>4, <1>5, <1>6, <1>7, <1>8, <1>9, <1>10, <1>11 DEF Dispatcher

\* The run-loop thread.
LEMMA RunLoopType == TypeInv /\ RunLoop => TypeInv'
<1> SUFFICES ASSUME TypeInv, RunLoop PROVE TypeInv'
  OBVIOUS
<1> USE DEF kernel, surroundings, history
<1> DEFINE Blocks == [at : {"idle", "stop"}, options : {"none"}]
                     \cup [at : {"close", "open", "commit"}, options : Options \ {"none"}]
<1>1. CASE ArmOpenTimer
  <2>1. dispatcher_queue' \in Seq(Tasks)
    BY <1>1, TaskType, AppendType DEF ArmOpenTimer, TypeInv
  <2>2. run_loop_queue' \in Seq({"arm", "start", "stop"})
    BY <1>1 DEF ArmOpenTimer, Block, TypeInv, TypeOK
  <2>3. \A i \in DOMAIN dispatcher_queue' : dispatcher_queue'[i].values \in Seq(Values)
    BY <2>1, QueueValues
  <2>4. UNCHANGED <<held, opened, hid_queue, queue_started, requested, current, run_loop,
                    open_timer, dispatching, sleeping, ready, ignored, disabled, psm,
                    announced, forwarded, dropped, overtaken, inputs>>
    BY <1>1 DEF ArmOpenTimer
  <2> QED BY <2>1, <2>2, <2>3, <2>4 DEF TypeInv, TypeOK
<1>2. CASE StopRead
  <2>1. run_loop_queue' \in Seq({"arm", "start", "stop"})
    BY <1>2 DEF StopRead, Block, TypeInv, TypeOK
  <2>2. run_loop' \in Blocks
    BY <1>2 DEF StopRead, Idle
  <2> QED BY <1>2, <2>1, <2>2 DEF StopRead, TypeInv, TypeOK
<1>3. CASE StartRead
  <2>1. run_loop_queue' \in Seq({"arm", "start", "stop"})
    BY <1>3 DEF StartRead, Block, TypeInv, TypeOK
  <2>2. run_loop' \in Blocks
    BY <1>3 DEF StartRead, TypeInv, TypeOK
  <2>3. dispatcher_queue' \in Seq(Tasks)
    BY <1>3, TaskType, AppendType DEF StartRead, TypeInv
  <2> QED BY <1>3, <2>1, <2>2, <2>3, QueueValues DEF StartRead, TypeInv, TypeOK
<1>4. CASE CloseDevice
  <2>1. dispatcher_queue' \in Seq(Tasks)
    BY <1>4, TaskType, AppendType DEF CloseDevice, TypeInv
  <2>2. run_loop' \in Blocks
    BY <1>4 DEF CloseDevice, Idle, TypeInv, TypeOK
  <2>3. hid_queue' \in Seq(Values) /\ opened' \in Options /\ current' \in Options
    BY <1>4 DEF CloseDevice, Options
  <2> QED BY <1>4, <2>1, <2>2, <2>3, QueueValues DEF CloseDevice, TypeInv, TypeOK
<1>5. CASE StartOpen
  <2>1. run_loop' \in Blocks /\ opened' \in Options
    BY <1>5 DEF StartOpen, TypeInv, TypeOK
  <2> QED BY <1>5, <2>1 DEF StartOpen, TypeInv, TypeOK
<1>6. CASE StartOpenFails
  <2>1. run_loop' \in Blocks
    BY <1>6 DEF StartOpenFails, Idle
  <2> QED BY <1>6, <2>1 DEF StartOpenFails, TypeInv, TypeOK
<1>7. CASE StartCommit
  <2>1. dispatcher_queue' \in Seq(Tasks)
    <3>1. <<Task("started"), Task("timer_stop")>> \in Seq(Tasks)
      BY TaskType
    <3> QED BY <1>7, <3>1 DEF StartCommit, TypeInv
  <2>2. run_loop' \in Blocks
    BY <1>7 DEF StartCommit, Idle
  <2>3. overtaken' \in BOOLEAN /\ current' \in Options
    BY <1>7 DEF StartCommit, TypeInv, TypeOK
  <2> QED BY <1>7, <2>1, <2>2, <2>3, QueueValues DEF StartCommit, TypeInv, TypeOK
<1>8. CASE QueueValueAvailable
  <2>1. dispatcher_queue' \in Seq(Tasks)
    BY <1>8, TaskType, AppendType DEF QueueValueAvailable, TypeInv, TypeOK
  <2>2. hid_queue' \in Seq(Values)
    BY <1>8 DEF QueueValueAvailable
  <2> QED BY <1>8, <2>1, <2>2, QueueValues, ZenonT(40) DEF QueueValueAvailable, TypeInv, TypeOK
<1> QED BY <1>1, <1>2, <1>3, <1>4, <1>5, <1>6, <1>7, <1>8 DEF RunLoop

-----------------------------------------------------------------------------
(* The open mode.                                                          *)

\* The dispatcher thread never touches what the run-loop thread knows.
LEMMA DispatcherLeaves ==
    ASSUME Dispatcher \/ TimerTick
    PROVE  UNCHANGED <<held, opened, hid_queue, queue_started, current, run_loop, overtaken>>
<1> USE DEF kernel, surroundings, history
<1>1. CASE GrabDevices \/ TimerStart \/ TimerStop \/ TimerCall \/ TimerTick
  BY <1>1 DEF GrabDevices, TimerStart, TimerStop, TimerCall, TimerTick
<1>2. CASE Started \/ Stopped \/ ValuesArrived
  BY <1>2 DEF Started, Stopped, ValuesArrived
<1>3. CASE UpdateStuckEvents \/ ForwardValue \/ Regrab
  BY <1>3 DEF UpdateStuckEvents, ForwardValue, Regrab
<1> QED BY <1>1, <1>2, <1>3 DEF Dispatcher

\* Neither do changes of the surroundings, which only ask for a grab_devices.
LEMMA SurroundingsLeave ==
    ASSUME SetSystemSleeping \/ VirtualHidKeyboardReady \/ CoreConfigurationUpdated
             \/ OtherDeviceChanged
    PROVE  /\ UNCHANGED <<held, opened, hid_queue, queue_started, current, run_loop, overtaken,
                          dispatching, announced, forwarded, dropped>>
           /\ dispatcher_queue' = Append(dispatcher_queue, Task("grab"))
BY DEF SetSystemSleeping, VirtualHidKeyboardReady, CoreConfigurationUpdated,
       OtherDeviceChanged, AsyncGrabDevices, kernel, history

\* OpenInv holds in the beginning and every step keeps it.
LEMMA InitOpen == Init => OpenInv
BY DEF Init, OpenInv, Idle

\* Every step keeps the recorded mode honest.
LEMMA NextOpen == TypeInv /\ OpenInv /\ [Next]_vars => OpenInv'
<1> SUFFICES ASSUME TypeInv, OpenInv, [Next]_vars PROVE OpenInv'
  OBVIOUS
<1> USE DEF kernel, surroundings, history
<1>1. ASSUME UNCHANGED <<opened, hid_queue, queue_started, current, run_loop, overtaken>>
      PROVE  OpenInv'
  BY <1>1 DEF OpenInv
<1>2. CASE Dispatcher \/ TimerTick
  BY <1>1, <1>2, DispatcherLeaves
<1>3. CASE Inputs
  <2>1. ASSUME NEW k \in Keys, NEW down \in BOOLEAN, KeyEvent(k, down) PROVE OpenInv'
    BY <2>1 DEF KeyEvent, OpenInv
  <2>2. CASE \/ SetSystemSleeping \/ VirtualHidKeyboardReady
             \/ CoreConfigurationUpdated \/ OtherDeviceChanged
    BY <1>1, <2>2, SurroundingsLeave
  <2> QED BY <1>3, <2>1, <2>2 DEF Inputs
<1>4. CASE RunLoop
  <2>1. CASE ArmOpenTimer
    BY <1>1, <2>1 DEF ArmOpenTimer
  <2>2. CASE StopRead
    BY <2>2 DEF StopRead, Block, Idle, OpenInv
  <2>3. CASE CloseDevice
    <3>1. run_loop'.at # "commit"
      BY <2>3 DEF CloseDevice, Idle, TypeInv, TypeOK
    <3> QED BY <2>3, <3>1 DEF CloseDevice, OpenInv
  <2>4. CASE StartRead
    BY <2>4 DEF StartRead, Block, Idle, OpenInv, TypeInv, TypeOK
  <2>5. CASE StartOpen
    <3>1. run_loop' = [run_loop EXCEPT !.at = "commit"] /\ run_loop.at = "open"
      BY <2>5 DEF StartOpen
    <3>2. run_loop'.at = "commit" /\ run_loop'.options = run_loop.options /\ run_loop.options # "none"
      BY <3>1 DEF TypeInv, TypeOK
    <3> QED BY <2>5, <3>2 DEF StartOpen, OpenInv
  <2>6. CASE StartOpenFails
    BY <2>6 DEF StartOpenFails, Idle, OpenInv
  <2>7. CASE StartCommit
    <3>1. run_loop.options # "none"
      BY <2>7 DEF StartCommit, TypeInv, TypeOK
    <3> QED BY <2>7, <3>1 DEF StartCommit, Idle, OpenInv
  <2>8. CASE QueueValueAvailable
    BY <2>8 DEF QueueValueAvailable, OpenInv
  <2> QED BY <1>4, <2>1, <2>2, <2>3, <2>4, <2>5, <2>6, <2>7, <2>8 DEF RunLoop
<1>5. CASE UNCHANGED vars
  BY <1>1, <1>5 DEF vars
<1> QED BY <1>2, <1>3, <1>4, <1>5 DEF Next

-----------------------------------------------------------------------------
(* The announcement of the device.                                         *)

\* A task that is no signal changes nothing about the order of the signals.
LEMMA AnnouncingAppend ==
    ASSUME NEW q \in Seq(Tasks), NEW a \in BOOLEAN, NEW cur, Announcing(q, a, cur),
           NEW t \in Tasks, t.task # "stopped",
           t.task = "values_arrived" => cur # "none"
    PROVE  Announcing(Append(q, t), a, cur)
<1> DEFINE n == Append(q, t)
<1>1. /\ n \in Seq(Tasks) /\ Len(n) = Len(q) + 1 /\ Len(q) \in Nat
      /\ n[Len(q) + 1] = t
      /\ \A i \in 1 .. Len(q) : n[i] = q[i]
  BY AppendType
<1> HIDE DEF n
<1>2. ASSUME NEW i \in 1 .. Len(q) + 1, AnnouncedAt(q, a, i) PROVE AnnouncedAt(n, a, i)
  BY <1>1, <1>2 DEF AnnouncedAt
<1>3. ASSUME AnnouncedAt(q, a, Len(q) + 1) PROVE AnnouncedAt(n, a, Len(n) + 1)
  <2>1. CASE a /\ \A j \in 1 .. Len(q) : j < Len(q) + 1 => q[j].task # "stopped"
    <3>1. \A j \in 1 .. Len(n) : n[j].task # "stopped"
      BY <1>1, <2>1
    <3> QED BY <2>1, <3>1 DEF AnnouncedAt
  <2>2. ASSUME NEW j \in 1 .. Len(q), q[j].task = "started",
               \A m \in 1 .. Len(q) : j < m /\ m < Len(q) + 1 => q[m].task # "stopped"
        PROVE  AnnouncedAt(n, a, Len(n) + 1)
    <3>1. j \in 1 .. Len(n) /\ j < Len(n) + 1 /\ n[j].task = "started"
      BY <1>1, <2>2
    <3>2. \A m \in 1 .. Len(n) : j < m => n[m].task # "stopped"
      BY <1>1, <2>2
    <3> QED BY <3>1, <3>2 DEF AnnouncedAt
  <2> QED BY <1>3, <2>1, <2>2 DEF AnnouncedAt
<1>4. Announcing(n, a, cur)
  BY <1>1, <1>2, <1>3 DEF Announcing
<1> QED BY <1>4 DEF n

\* A stopped signal ends what was announced; the device is closed by then.
LEMMA AnnouncingStopped ==
    ASSUME NEW q \in Seq(Tasks), NEW a \in BOOLEAN, NEW cur, Announcing(q, a, cur),
           NEW t \in Tasks, t.task = "stopped"
    PROVE  Announcing(Append(q, t), a, "none")
<1> DEFINE n == Append(q, t)
<1>1. /\ n \in Seq(Tasks) /\ Len(n) = Len(q) + 1 /\ Len(q) \in Nat
      /\ n[Len(q) + 1] = t
      /\ \A i \in 1 .. Len(q) : n[i] = q[i]
  BY AppendType
<1> HIDE DEF n
<1>2. ASSUME NEW i \in 1 .. Len(q), AnnouncedAt(q, a, i) PROVE AnnouncedAt(n, a, i)
  BY <1>1, <1>2 DEF AnnouncedAt
<1>3. Announcing(n, a, "none")
  BY <1>1, <1>2 DEF Announcing
<1> QED BY <1>3 DEF n

\* A started signal announces the device, however it is open afterwards.
LEMMA AnnouncingStarted ==
    ASSUME NEW q \in Seq(Tasks), NEW a \in BOOLEAN, NEW cur, Announcing(q, a, cur),
           NEW t \in Tasks, t.task = "started", NEW new
    PROVE  Announcing(Append(q, t), a, new)
<1> DEFINE n == Append(q, t)
<1>1. /\ n \in Seq(Tasks) /\ Len(n) = Len(q) + 1 /\ Len(q) \in Nat
      /\ n[Len(q) + 1] = t
      /\ \A i \in 1 .. Len(q) : n[i] = q[i]
  BY AppendType
<1> HIDE DEF n
<1>2. ASSUME NEW i \in 1 .. Len(q), AnnouncedAt(q, a, i) PROVE AnnouncedAt(n, a, i)
  BY <1>1, <1>2, SMTT(30) DEF AnnouncedAt
<1>3. AnnouncedAt(n, a, Len(n) + 1)
  BY <1>1 DEF AnnouncedAt
<1>4. Announcing(n, a, new)
  BY <1>1, <1>2, <1>3 DEF Announcing
<1> QED BY <1>4 DEF n

\* The announcement when the first task has run
AfterTask(t, a) == IF t.task = "started" THEN TRUE ELSE IF t.task = "stopped" THEN FALSE ELSE a

\* The first task runs: values arrive only while the device is announced as grabbed.
LEMMA AnnouncingTail ==
    ASSUME NEW q \in Seq(Tasks), q # <<>>, NEW a \in BOOLEAN, NEW cur, Announcing(q, a, cur)
    PROVE  /\ Announcing(Tail(q), AfterTask(Head(q), a), cur)
           /\ Head(q).task = "values_arrived" => a
<1> DEFINE n == Tail(q)
           b == AfterTask(Head(q), a)
<1>1. /\ n \in Seq(Tasks) /\ Len(n) = Len(q) - 1 /\ Len(q) \in Nat \ {0} /\ Head(q) = q[1]
      /\ \A i \in 1 .. Len(n) : n[i] = q[i + 1] /\ i + 1 \in 1 .. Len(q)
  BY TailType
<1>2. b = IF q[1].task = "started" THEN TRUE ELSE IF q[1].task = "stopped" THEN FALSE ELSE a
  BY <1>1 DEF AfterTask
<1> HIDE DEF n, b
<1>3. ASSUME NEW i \in 1 .. Len(q), AnnouncedAt(q, a, i + 1) PROVE AnnouncedAt(n, b, i)
  <2>1. CASE a /\ \A j \in 1 .. Len(q) : j < i + 1 => q[j].task # "stopped"
    <3>1. b
      BY <1>1, <1>2, <2>1
    <3>2. \A j \in 1 .. Len(n) : j < i => n[j].task # "stopped"
      BY <1>1, <2>1, SMTT(30)
    <3> QED BY <3>1, <3>2 DEF AnnouncedAt
  <2>2. ASSUME NEW j \in 1 .. Len(q), j < i + 1, q[j].task = "started",
               \A m \in 1 .. Len(q) : j < m /\ m < i + 1 => q[m].task # "stopped"
        PROVE  AnnouncedAt(n, b, i)
    <3>1. CASE j = 1
      <4>1. b
        BY <1>2, <2>2, <3>1
      <4>2. \A m \in 1 .. Len(n) : m < i => n[m].task # "stopped"
        BY <1>1, <2>2, <3>1
      <4> QED BY <4>1, <4>2 DEF AnnouncedAt
    <3>2. CASE j > 1
      <4>1. j - 1 \in 1 .. Len(n) /\ j - 1 < i /\ n[j - 1].task = "started"
        BY <1>1, <2>2, <3>2
      <4>2. \A m \in 1 .. Len(n) : j - 1 < m /\ m < i => n[m].task # "stopped"
        BY <1>1, <2>2, SMTT(30)
      <4> QED BY <4>1, <4>2 DEF AnnouncedAt
    <3> QED BY <3>1, <3>2
  <2> QED BY <1>3, <2>1, <2>2 DEF AnnouncedAt
<1>4. \A i \in 1 .. Len(n) : n[i].task = "values_arrived" => AnnouncedAt(n, b, i)
  BY <1>1, <1>3 DEF Announcing
<1>5. cur # "none" => AnnouncedAt(n, b, Len(n) + 1)
  BY <1>1, <1>3 DEF Announcing
<1>6. q[1].task = "values_arrived" => a
  BY <1>1 DEF Announcing, AnnouncedAt
<1> QED BY <1>1, <1>4, <1>5, <1>6 DEF Announcing, n, b

-----------------------------------------------------------------------------
(* What the steps do to the dispatcher's queue.                            *)

NeutralTasks == {t \in Tasks : t.task \notin {"started", "stopped", "values_arrived"}}

\* At most a task that is no signal of the device is added.
Adds(q, n) == n = q \/ \E t \in NeutralTasks : n = Append(q, t)

\* The first task runs: its signal, or its values, take effect.
Runs ==
    /\ dispatcher_queue # <<>>
    /\ Adds(Tail(dispatcher_queue), dispatcher_queue')
    /\ dispatching.values = <<>>
    /\ LET t == Head(dispatcher_queue)
       IN  /\ announced' = AfterTask(t, announced)
           /\ forwarded' = IF t.task = "stopped" THEN {} ELSE forwarded
           /\ dropped' = IF t.task = "stopped" THEN {} ELSE dropped
           /\ dispatching'.values = IF t.task = "values_arrived" THEN t.values ELSE <<>>
    /\ UNCHANGED <<hid_queue, held, current>>

\* Nothing that concerns values or signals happens.
Waits ==
    /\ Adds(dispatcher_queue, dispatcher_queue')
    /\ dispatching'.values = dispatching.values
    /\ UNCHANGED <<announced, forwarded, dropped, hid_queue, held, current>>

\* The tasks that only lead to a new decision announce nothing.
LEMMA NeutralTask ==
    \A name \in {"grab", "timer_start", "timer_stop", "timer_call"} : Task(name) \in NeutralTasks
BY TaskType DEF NeutralTasks

\* Every task of the dispatcher thread is one of those.
LEMMA TasksRun ==
    ASSUME TypeInv,
           \/ GrabDevices \/ TimerStart \/ TimerStop \/ TimerCall
           \/ Started \/ Stopped \/ ValuesArrived
    PROVE  Runs
<1> USE DEF kernel, surroundings, history
<1>0. NotDispatching.values = <<>>
  BY DEF NotDispatching
<1>1. CASE GrabDevices
  BY <1>0, <1>1 DEF GrabDevices, NextTask, Runs, Adds, AfterTask
<1>2. CASE TimerStart
  BY <1>0, <1>2, NeutralTask DEF TimerStart, NextTask, Runs, Adds, AfterTask
<1>3. CASE TimerStop
  BY <1>0, <1>3 DEF TimerStop, NextTask, Runs, Adds, AfterTask
<1>4. CASE TimerCall
  BY <1>0, <1>4 DEF TimerCall, NextTask, Runs, Adds, AfterTask
<1>5. CASE Started
  BY <1>0, <1>5 DEF Started, NextTask, Runs, Adds, AfterTask
<1>6. CASE Stopped
  BY <1>0, <1>6 DEF Stopped, NextTask, Runs, Adds, AfterTask
<1>7. CASE ValuesArrived
  <2>1. dispatching'.values = Head(dispatcher_queue).values
    BY <1>7 DEF ValuesArrived, NotDispatching
  <2> QED BY <1>0, <1>7, <2>1 DEF ValuesArrived, NextTask, Runs, Adds, AfterTask
<1> QED BY <1>1, <1>2, <1>3, <1>4, <1>5, <1>6, <1>7

\* The other actions leave the running tasks alone and enqueue at most a neutral one.
LEMMA OthersWait ==
    ASSUME TypeInv,
           \/ SetSystemSleeping \/ VirtualHidKeyboardReady \/ CoreConfigurationUpdated
           \/ OtherDeviceChanged
           \/ TimerTick \/ UpdateStuckEvents \/ Regrab
           \/ ArmOpenTimer \/ StopRead \/ StartRead \/ StartOpen \/ StartOpenFails
    PROVE  Waits
<1> USE DEF kernel, surroundings, history
<1>1. CASE \/ SetSystemSleeping \/ VirtualHidKeyboardReady
           \/ CoreConfigurationUpdated \/ OtherDeviceChanged
  BY <1>1, SurroundingsLeave, NeutralTask DEF Waits, Adds
<1>2. CASE TimerTick
  BY <1>2, NeutralTask DEF TimerTick, Waits, Adds
<1>3. CASE UpdateStuckEvents
  <2>1. dispatching'.values = dispatching.values
    BY <1>3 DEF UpdateStuckEvents, TypeInv, TypeOK
  <2> QED BY <1>3, <2>1 DEF UpdateStuckEvents, Waits, Adds
<1>4. CASE Regrab
  BY <1>4 DEF Regrab, NotDispatching, Waits, Adds
<1>5. CASE ArmOpenTimer
  BY <1>5, NeutralTask DEF ArmOpenTimer, Waits, Adds
<1>6. CASE StartRead
  BY <1>6, NeutralTask DEF StartRead, Waits, Adds
<1>7. CASE StopRead
  BY <1>7 DEF StopRead, Waits, Adds
<1>8. CASE StartOpen
  BY <1>8 DEF StartOpen, Waits, Adds
<1>9. CASE StartOpenFails
  BY <1>9 DEF StartOpenFails, Waits, Adds
<1> QED BY <1>1, <1>2, <1>3, <1>4, <1>5, <1>6, <1>7, <1>8, <1>9

\* start()'s second critical section adds two tasks.
LEMMA TwoTasks ==
    ASSUME NEW q \in Seq(Tasks), NEW t \in Tasks, NEW u \in Tasks
    PROVE  q \o <<t, u>> = Append(Append(q, t), u)
OBVIOUS

\* AnnouncedInv holds in the beginning and every step keeps it.
LEMMA InitAnnounced == Init => AnnouncedInv
<1> SUFFICES ASSUME Init PROVE AnnouncedInv
  OBVIOUS
<1>1. Len(dispatcher_queue) = 1 /\ dispatcher_queue[1].task = "grab"
  BY TaskType DEF Init
<1>2. Announcing(dispatcher_queue, announced, current)
  BY <1>1 DEF Announcing, Init
<1> QED BY <1>2 DEF Init, AnnouncedInv, NotDispatching, ForwardedOnlyWhileAnnounced

\* A neutral task in the queue changes no announcement.
LEMMA AnnouncingAdds ==
    ASSUME NEW q \in Seq(Tasks), NEW a \in BOOLEAN, NEW cur, Announcing(q, a, cur),
           NEW n, Adds(q, n)
    PROVE  Announcing(n, a, cur)
BY AnnouncingAppend DEF Adds, NeutralTasks

\* Every step keeps values between grabbed and ungrabbed.
LEMMA NextAnnounced == TypeInv /\ AnnouncedInv /\ [Next]_vars => AnnouncedInv'
<1> SUFFICES ASSUME TypeInv, AnnouncedInv, [Next]_vars PROVE AnnouncedInv'
  OBVIOUS
<1> USE DEF kernel, surroundings, history
<1>0. dispatcher_queue \in Seq(Tasks) /\ announced \in BOOLEAN
  BY DEF TypeInv, TypeOK
<1>1. ASSUME Waits PROVE AnnouncedInv'
  <2>1. Announcing(dispatcher_queue, announced, current)'
    BY <1>0, <1>1, AnnouncingAdds DEF Waits, AnnouncedInv
  <2> QED BY <1>1, <2>1 DEF Waits, AnnouncedInv, ForwardedOnlyWhileAnnounced
<1>2. ASSUME Runs PROVE AnnouncedInv'
  <2> DEFINE t == Head(dispatcher_queue)
             b == AfterTask(t, announced)
  <2>1. /\ Announcing(Tail(dispatcher_queue), b, current)
        /\ t.task = "values_arrived" => announced
        /\ Tail(dispatcher_queue) \in Seq(Tasks)
        /\ b \in BOOLEAN
    BY <1>0, <1>2, AnnouncingTail, TailType DEF Runs, AnnouncedInv, AfterTask
  <2>2. /\ announced' = b
        /\ forwarded' = IF t.task = "stopped" THEN {} ELSE forwarded
        /\ dispatching'.values = IF t.task = "values_arrived" THEN t.values ELSE <<>>
        /\ Adds(Tail(dispatcher_queue), dispatcher_queue')
        /\ current' = current
    BY <1>2 DEF Runs
  <2>3. b = IF t.task = "started" THEN TRUE ELSE IF t.task = "stopped" THEN FALSE ELSE announced
    BY DEF AfterTask
  <2> HIDE DEF t, b
  <2>4. Announcing(dispatcher_queue', announced', current')
    BY <2>1, <2>2, AnnouncingAdds
  <2> QED BY <2>1, <2>2, <2>3, <2>4 DEF AnnouncedInv, ForwardedOnlyWhileAnnounced
<1>3. CASE Dispatcher \/ TimerTick
  <2>1. CASE ForwardValue
    <3>1. dispatching.values # <<>> /\ UNCHANGED <<dispatcher_queue, announced, current>>
      BY <2>1 DEF ForwardValue
    <3> QED BY <3>1 DEF AnnouncedInv, ForwardedOnlyWhileAnnounced
  <2> QED BY <1>1, <1>2, <1>3, <2>1, TasksRun, OthersWait DEF Dispatcher
<1>4. CASE Inputs
  <2>1. ASSUME NEW k \in Keys, NEW down \in BOOLEAN, KeyEvent(k, down) PROVE AnnouncedInv'
    BY <2>1 DEF KeyEvent, AnnouncedInv, ForwardedOnlyWhileAnnounced
  <2> QED BY <1>1, <1>4, <2>1, OthersWait DEF Inputs
<1>5. CASE RunLoop
  <2>1. CASE CloseDevice
    <3>1. /\ dispatcher_queue' = Append(dispatcher_queue, Task("stopped")) /\ current' = "none"
          /\ UNCHANGED <<dispatching, announced, forwarded>>
      BY <2>1 DEF CloseDevice
    <3>2. Announcing(dispatcher_queue', announced, "none")
      BY <1>0, <3>1, TaskType, AnnouncingStopped DEF AnnouncedInv
    <3> QED BY <3>1, <3>2 DEF AnnouncedInv, ForwardedOnlyWhileAnnounced
  <2>2. CASE StartCommit
    <3> DEFINE s == Append(dispatcher_queue, Task("started"))
    <3>1. /\ dispatcher_queue' = Append(s, Task("timer_stop"))
          /\ UNCHANGED <<dispatching, announced, forwarded>>
      BY <1>0, <2>2, TaskType, TwoTasks DEF StartCommit
    <3>2. Announcing(s, announced, current') /\ s \in Seq(Tasks)
      BY <1>0, TaskType, AnnouncingStarted, AppendType DEF AnnouncedInv
    <3> HIDE DEF s
    <3>3. Announcing(dispatcher_queue', announced, current')
      BY <1>0, <3>1, <3>2, TaskType, AnnouncingAppend
    <3> QED BY <3>1, <3>3 DEF AnnouncedInv, ForwardedOnlyWhileAnnounced
  <2>3. CASE QueueValueAvailable
    <3>1. UNCHANGED <<dispatching, announced, forwarded, current>>
      BY <2>3 DEF QueueValueAvailable
    <3>2. Announcing(dispatcher_queue', announced, current)
      <4>1. CASE current = "none"
        BY <2>3, <4>1 DEF QueueValueAvailable, AnnouncedInv
      <4>2. CASE current # "none"
        BY <1>0, <2>3, <4>2, TaskType, AnnouncingAppend, ZenonT(40)
           DEF QueueValueAvailable, AnnouncedInv, TypeInv, TypeOK
      <4> QED BY <4>1, <4>2
    <3> QED BY <3>1, <3>2 DEF AnnouncedInv, ForwardedOnlyWhileAnnounced
  <2> QED BY <1>1, <1>5, <2>1, <2>2, <2>3, OthersWait DEF RunLoop
<1>6. CASE UNCHANGED vars
  BY <1>6 DEF vars, AnnouncedInv, ForwardedOnlyWhileAnnounced
<1> QED BY <1>3, <1>4, <1>5, <1>6 DEF Next

-----------------------------------------------------------------------------
(* Values on their way.                                                    *)

\* A task without values, and no stopped signal, is added.
LEMMA FollowingAppend ==
    ASSUME NEW q \in Seq(Tasks), NEW dv, NEW fw, NEW hid, NEW hd, NEW cur,
           Following(q, dv, fw, hid, hd, cur),
           NEW t \in Tasks, t.task \notin {"stopped", "values_arrived"}
    PROVE  Following(Append(q, t), dv, fw, hid, hd, cur)
<1> DEFINE n == Append(q, t)
<1>1. /\ n \in Seq(Tasks) /\ Len(n) = Len(q) + 1 /\ Len(q) \in Nat
      /\ n[Len(q) + 1] = t
      /\ \A i \in 1 .. Len(q) : n[i] = q[i] /\ i \in 1 .. Len(n)
  BY AppendType
<1> HIDE DEF n
<1>2. ASSUME NEW i \in 0 .. Len(q), NoStopped(n, i) PROVE NoStopped(q, i)
  BY <1>1, <1>2 DEF NoStopped
<1>3. ASSUME NEW i \in 0 .. Len(q), NEW k, Settled(q, i, hid, hd, k)
      PROVE  Settled(n, i, hid, hd, k)
  <2>1. ASSUME Carried(q, i, k) PROVE Carried(n, i, k)
    BY <1>1, <2>1 DEF Carried
  <2> QED BY <1>3, <2>1 DEF Settled
<1>4. \A i \in 1 .. Len(n) : n[i].task = "values_arrived" => i \in 1 .. Len(q) /\ n[i] = q[i]
  BY <1>1
<1>5. 0 \in 0 .. Len(q)
  BY <1>1
<1>6. Following(n, dv, fw, hid, hd, cur)
  BY <1>2, <1>3, <1>4, <1>5 DEF Following
<1> QED BY <1>6 DEF n

\* Nor does it change what becomes of a forwarded key.
LEMMA FollowingAdds ==
    ASSUME NEW q \in Seq(Tasks), NEW dv, NEW fw, NEW hid, NEW hd, NEW cur,
           Following(q, dv, fw, hid, hd, cur), NEW n, Adds(q, n)
    PROVE  Following(n, dv, fw, hid, hd, cur)
BY FollowingAppend DEF Adds, NeutralTasks

\* The first task runs: values are dispatched next, a stopped signal releases
\* the keys.
LEMMA FollowingTail ==
    ASSUME NEW q \in Seq(Tasks), q # <<>>, NEW fw, NEW hid, NEW hd, NEW cur,
           Following(q, <<>>, fw, hid, hd, cur),
           NEW dv, dv = IF Head(q).task = "values_arrived" THEN Head(q).values ELSE <<>>,
           NEW new, new = IF Head(q).task = "stopped" THEN {} ELSE fw
    PROVE  Following(Tail(q), dv, new, hid, hd, cur)
<1> DEFINE n == Tail(q)
<1>1. /\ n \in Seq(Tasks) /\ Len(n) = Len(q) - 1 /\ Len(q) \in Nat \ {0} /\ Head(q) = q[1]
      /\ \A i \in 1 .. Len(n) : n[i] = q[i + 1] /\ i + 1 \in 1 .. Len(q)
  BY TailType
<1> HIDE DEF n
<1>2. ASSUME NEW i \in 0 .. Len(n), NoStopped(n, i) PROVE NoStopped(q, i + 1)
  <2> SUFFICES ASSUME NEW j \in 1 .. Len(q), j > i + 1 PROVE q[j].task # "stopped"
    BY DEF NoStopped
  <2>1. j - 1 \in 1 .. Len(n) /\ j - 1 > i /\ n[j - 1] = q[j]
    BY <1>1
  <2> QED BY <1>2, <2>1 DEF NoStopped
<1>3. ASSUME NEW i \in 0 .. Len(n), NEW k, Carried(q, i + 1, k) PROVE Carried(n, i, k)
  <2>1. PICK j \in 1 .. Len(q) : j > i + 1 /\ q[j].task = "values_arrived" /\ Has(q[j].values, k)
    BY <1>3 DEF Carried
  <2>2. j - 1 \in 1 .. Len(n) /\ j - 1 > i /\ n[j - 1] = q[j]
    BY <1>1, <2>1
  <2> QED BY <2>1, <2>2 DEF Carried
<1>4. \A i \in 1 .. Len(n) : n[i].task = "values_arrived" /\ NoStopped(n, i) =>
          /\ cur # "none"
          /\ \A k \in Keys : LastDown(n[i].values, k) => Settled(n, i, hid, hd, k)
  <2> SUFFICES ASSUME NEW i \in 1 .. Len(n), n[i].task = "values_arrived", NoStopped(n, i)
               PROVE  /\ cur # "none"
                      /\ \A k \in Keys : LastDown(n[i].values, k) => Settled(n, i, hid, hd, k)
    OBVIOUS
  <2>1. i + 1 \in 1 .. Len(q) /\ n[i] = q[i + 1] /\ i \in 0 .. Len(n) /\ NoStopped(q, i + 1)
    BY <1>1, <1>2
  <2>2. /\ cur # "none"
        /\ \A k \in Keys : LastDown(n[i].values, k) => Settled(q, i + 1, hid, hd, k)
    BY <2>1 DEF Following
  <2> QED BY <1>3, <2>1, <2>2 DEF Settled
<1>5. ASSUME NoStopped(n, 0)
      PROVE  /\ new # {} => cur = "seize"
             /\ dv # <<>> => cur # "none"
             /\ \A k \in new : Has(dv, k) \/ Settled(n, 0, hid, hd, k)
             /\ \A k \in Keys : LastDown(dv, k) => Settled(n, 0, hid, hd, k)
  <2>0. 0 \in 0 .. Len(n) /\ 1 \in 1 .. Len(q) /\ NoStopped(q, 1)
    BY <1>1, <1>2, <1>5
  <2>1. CASE q[1].task = "values_arrived"
    <3>1. NoStopped(q, 0)
      BY <1>1, <2>0, <2>1 DEF NoStopped
    <3>2. dv = q[1].values /\ new = fw
      BY <1>1, <2>1
    <3>3. /\ cur # "none"
          /\ \A k \in Keys : LastDown(dv, k) => Settled(q, 1, hid, hd, k)
      BY <2>0, <2>1, <3>2 DEF Following
    <3>4. \A k : Carried(q, 1, k) => Carried(n, 0, k)
      BY <1>3, <2>0
    <3>5. \A k : Carried(q, 0, k) => Has(dv, k) \/ Carried(q, 1, k)
      BY <1>1, <3>2 DEF Carried
    <3>6. \A k \in fw : Has(<<>>, k) \/ Settled(q, 0, hid, hd, k)
      BY <3>1 DEF Following
    <3>7. \A k : ~Has(<<>>, k)
      BY DEF Has
    <3>8. fw # {} => cur = "seize"
      BY <3>1 DEF Following
    <3> QED BY <3>2, <3>3, <3>4, <3>5, <3>6, <3>7, <3>8 DEF Settled
  <2>2. CASE q[1].task # "values_arrived"
    <3>1. dv = <<>> /\ \A k : ~Has(dv, k) /\ ~LastDown(dv, k)
      BY <1>1, <2>2 DEF Has, LastDown
    <3>2. CASE q[1].task = "stopped"
      BY <1>1, <3>1, <3>2
    <3>3. CASE q[1].task # "stopped"
      <4>1. NoStopped(q, 0)
        BY <1>1, <2>0, <3>3 DEF NoStopped
      <4>2. \A k : Carried(q, 0, k) => Carried(q, 1, k)
        BY <1>1, <2>2 DEF Carried
      <4>3. \A k : Carried(q, 1, k) => Carried(n, 0, k)
        BY <1>3, <2>0
      <4>4. new = fw
        BY <1>1, <3>3
      <4>5. /\ fw # {} => cur = "seize"
            /\ \A k \in fw : Has(<<>>, k) \/ Settled(q, 0, hid, hd, k)
        BY <4>1 DEF Following
      <4> QED BY <3>1, <4>2, <4>3, <4>4, <4>5 DEF Settled
    <3> QED BY <3>2, <3>3
  <2> QED BY <2>1, <2>2
<1>6. Following(n, dv, new, hid, hd, cur)
  BY <1>4, <1>5 DEF Following
<1> QED BY <1>6 DEF n

\* A stopped signal is added when the device has been closed and the values
\* nobody has read are gone: whatever was forwarded will be released.
LEMMA FollowingStopped ==
    ASSUME NEW q \in Seq(Tasks), NEW dv, NEW fw, NEW hd, NEW t \in Tasks, t.task = "stopped"
    PROVE  Following(Append(q, t), dv, fw, <<>>, hd, "none")
<1> DEFINE n == Append(q, t)
<1>1. /\ n \in Seq(Tasks) /\ Len(n) = Len(q) + 1 /\ Len(q) \in Nat
      /\ n[Len(q) + 1] = t
  BY AppendType
<1> HIDE DEF n
<1>2. \A i \in 0 .. Len(q) : ~NoStopped(n, i)
  BY <1>1 DEF NoStopped
<1>3. \A i \in 1 .. Len(n) : n[i].task = "values_arrived" => ~NoStopped(n, i)
  BY <1>1, <1>2
<1>4. \A k : ~LastDown(<<>>, k)
  BY DEF LastDown
<1>5. ~NoStopped(n, 0)
  BY <1>1, <1>2
<1>6. Following(n, dv, fw, <<>>, hd, "none")
  BY <1>3, <1>4, <1>5 DEF Following
<1> QED BY <1>6 DEF n

\* The monitor commits itself to an open mode.
LEMMA FollowingCommit ==
    ASSUME NEW q, NEW dv, NEW fw, NEW hid, NEW hd,
           Following(q, dv, fw, hid, hd, "none"), NEW new
    PROVE  Following(q, dv, fw, hid, hd, new)
<1>1. NoStopped(q, 0) => fw = {} /\ dv = <<>>
  BY DEF Following
<1>2. \A i \in 1 .. Len(q) : ~(q[i].task = "values_arrived" /\ NoStopped(q, i))
  BY DEF Following
<1>3. \A k : ~LastDown(<<>>, k)
  BY DEF LastDown
<1> QED BY <1>1, <1>2, <1>3 DEF Following

\* The values of a device that is not open for the monitor are dropped.
LEMMA FollowingDropped ==
    ASSUME NEW q, NEW dv, NEW fw, NEW hid, NEW hd,
           Following(q, dv, fw, hid, hd, "none")
    PROVE  Following(q, dv, fw, <<>>, hd, "none")
<1>1. NoStopped(q, 0) => fw = {} /\ dv = <<>>
  BY DEF Following
<1>2. \A i \in 1 .. Len(q) : ~(q[i].task = "values_arrived" /\ NoStopped(q, i))
  BY DEF Following
<1>3. \A k : ~LastDown(<<>>, k)
  BY DEF LastDown
<1> QED BY <1>1, <1>2, <1>3 DEF Following

\* The values of an open device become a task.
LEMMA FollowingValues ==
    ASSUME NEW q \in Seq(Tasks), NEW dv, NEW fw, NEW hid, NEW hd, NEW cur, cur # "none",
           Following(q, dv, fw, hid, hd, cur),
           NEW t \in Tasks, t.task = "values_arrived", t.values = hid
    PROVE  Following(Append(q, t), dv, fw, <<>>, hd, cur)
<1> DEFINE n == Append(q, t)
<1>1. /\ n \in Seq(Tasks) /\ Len(n) = Len(q) + 1 /\ Len(q) \in Nat
      /\ n[Len(q) + 1] = t
      /\ \A i \in 1 .. Len(q) : n[i] = q[i] /\ i \in 1 .. Len(n)
  BY AppendType
<1> HIDE DEF n
<1>2. ASSUME NEW i \in 0 .. Len(q), NoStopped(n, i) PROVE NoStopped(q, i)
  BY <1>1, <1>2 DEF NoStopped
<1>3. ASSUME NEW i \in 0 .. Len(q), NEW k, Settled(q, i, hid, hd, k)
      PROVE  Settled(n, i, <<>>, hd, k)
  <2>1. ASSUME Carried(q, i, k) PROVE Carried(n, i, k)
    BY <1>1, <2>1 DEF Carried
  <2>2. ASSUME Has(hid, k) PROVE Carried(n, i, k)
    BY <1>1, <2>2 DEF Carried
  <2> QED BY <1>3, <2>1, <2>2 DEF Settled
<1>4. ASSUME NEW i \in 1 .. Len(n), n[i].task = "values_arrived", NoStopped(n, i)
      PROVE  \A k \in Keys : LastDown(n[i].values, k) => Settled(n, i, <<>>, hd, k)
  <2>1. CASE i \in 1 .. Len(q)
    <3>1. n[i] = q[i] /\ i \in 0 .. Len(q) /\ NoStopped(q, i)
      BY <1>1, <1>2, <1>4, <2>1
    <3>2. \A k \in Keys : LastDown(n[i].values, k) => Settled(q, i, hid, hd, k)
      BY <1>4, <2>1, <3>1 DEF Following
    <3> QED BY <1>3, <3>1, <3>2
  <2>2. CASE i = Len(q) + 1
    <3>1. \A k \in Keys : LastDown(hid, k) => k \in hd
      BY DEF Following
    <3> QED BY <1>1, <2>2, <3>1 DEF Settled
  <2> QED BY <1>1, <2>1, <2>2
<1>5. 0 \in 0 .. Len(q)
  BY <1>1
<1>6. \A k : ~LastDown(<<>>, k)
  BY DEF LastDown
<1>7. ASSUME NoStopped(n, 0)
      PROVE  /\ fw # {} => cur = "seize"
             /\ \A k \in fw : Has(dv, k) \/ Settled(n, 0, <<>>, hd, k)
             /\ \A k \in Keys : LastDown(dv, k) => Settled(n, 0, <<>>, hd, k)
  <2>1. /\ fw # {} => cur = "seize"
        /\ \A k \in fw : Has(dv, k) \/ Settled(q, 0, hid, hd, k)
        /\ \A k \in Keys : LastDown(dv, k) => Settled(q, 0, hid, hd, k)
    BY <1>2, <1>5, <1>7 DEF Following
  <2> QED BY <1>3, <1>5, <2>1
<1>8. Following(n, dv, fw, <<>>, hd, cur)
  BY <1>4, <1>6, <1>7 DEF Following
<1> QED BY <1>8 DEF n

\* A key is pressed or released.  The queue_ of an open device gets the value;
\* one that is not open has nothing on its way that is not followed by a stopped
\* signal.
LEMMA FollowingKey ==
    ASSUME NEW q \in Seq(Tasks), NEW dv, NEW fw \in SUBSET Keys, NEW hid \in Seq(Values),
           NEW hd, NEW cur, Following(q, dv, fw, hid, hd, cur),
           NEW k \in Keys, NEW down \in BOOLEAN,
           NEW new, new = IF down THEN hd \cup {k} ELSE hd \ {k},
           NEW hnew, hnew = hid \/ hnew = Append(hid, [key |-> k, down |-> down]),
           cur # "none" \/ hid # <<>> => hnew # hid
    PROVE  Following(q, dv, fw, hnew, new, cur)
<1>1. CASE hnew # hid
  <2>1. /\ hnew \in Seq(Values) /\ Len(hnew) = Len(hid) + 1 /\ Len(hid) \in Nat
        /\ hnew[Len(hid) + 1].key = k /\ hnew[Len(hid) + 1].down = down
        /\ \A i \in 1 .. Len(hid) : hnew[i] = hid[i] /\ i \in 1 .. Len(hnew)
    <3>1. [key |-> k, down |-> down] \in Values
      BY DEF Values
    <3> QED BY <1>1, <3>1, AppendProperties
  <2>2. \A j : Has(hid, j) => Has(hnew, j)
    BY <2>1 DEF Has
  <2>3. Has(hnew, k)
    BY <2>1 DEF Has
  <2>4. \A i, j : Settled(q, i, hid, hd, j) => Settled(q, i, hnew, new, j)
    BY <2>2, <2>3 DEF Settled
  <2>5. ASSUME NEW j \in Keys, LastDown(hnew, j) PROVE j \in new
    <3>1. CASE j = k
      <4>1. down
        BY <2>1, <2>5, <3>1 DEF LastDown
      <4> QED BY <3>1, <4>1
    <3>2. CASE j # k
      <4>1. LastDown(hid, j)
        BY <2>1, <2>5, <3>2 DEF LastDown
      <4> QED BY <3>2, <4>1 DEF Following
    <3> QED BY <3>1, <3>2
  <2> QED BY <2>4, <2>5 DEF Following
<1>2. CASE hnew = hid
  <2>1. cur = "none" /\ hid = <<>>
    BY <1>2
  <2>2. NoStopped(q, 0) => fw = {} /\ dv = <<>>
    BY <2>1 DEF Following
  <2>3. \A i \in 1 .. Len(q) : ~(q[i].task = "values_arrived" /\ NoStopped(q, i))
    BY <2>1 DEF Following
  <2>4. \A j : ~LastDown(<<>>, j)
    BY DEF LastDown
  <2> QED BY <1>2, <2>1, <2>2, <2>3, <2>4 DEF Following
<1> QED BY <1>1, <1>2

\* A value is dispatched: forwarded if the device is seized, discarded if it is
\* disabled, and passed over otherwise, when nothing forwarded is left that a
\* stopped signal will not release.
LEMMA FollowingForward ==
    ASSUME NEW q \in Seq(Tasks), NEW dv \in Seq(Values), dv # <<>>, NEW fw \in SUBSET Keys,
           NEW hid, NEW hd, NEW cur, Following(q, dv, fw, hid, hd, cur),
           NEW new, \/ new = fw /\ (cur # "seize" \/ Head(dv).down)
                    \/ new = fw \cup {Head(dv).key} /\ cur = "seize" /\ Head(dv).down
                    \/ new = fw \ {Head(dv).key} /\ cur = "seize" /\ ~Head(dv).down
    PROVE  Following(q, Tail(dv), new, hid, hd, cur)
<1> DEFINE r == Tail(dv)
           v == Head(dv)
<1>1. /\ r \in Seq(Values) /\ Len(r) = Len(dv) - 1 /\ Len(dv) \in Nat \ {0} /\ v = dv[1]
      /\ \A i \in 1 .. Len(r) : r[i] = dv[i + 1] /\ i + 1 \in 1 .. Len(dv)
      /\ v \in Values
  BY HeadTailProperties
<1>2. \/ new = fw /\ (cur # "seize" \/ v.down)
      \/ new = fw \cup {v.key} /\ cur = "seize" /\ v.down
      \/ new = fw \ {v.key} /\ cur = "seize" /\ ~v.down
  OBVIOUS
<1> HIDE DEF r, v
<1>3. \A k : Has(dv, k) => k = v.key \/ Has(r, k)
  <2> SUFFICES ASSUME NEW k, NEW i \in 1 .. Len(dv), dv[i].key = k, k # v.key PROVE Has(r, k)
    BY DEF Has
  <2>1. i - 1 \in 1 .. Len(r) /\ r[i - 1] = dv[i]
    BY <1>1
  <2> QED BY <2>1 DEF Has
<1>4. \A k : LastDown(r, k) => LastDown(dv, k)
  <2> SUFFICES ASSUME NEW k, NEW i \in 1 .. Len(r), r[i].key = k, r[i].down,
                      \A m \in 1 .. Len(r) : m > i => r[m].key # k
               PROVE  LastDown(dv, k)
    BY DEF LastDown
  <2>1. i + 1 \in 1 .. Len(dv) /\ dv[i + 1] = r[i]
    BY <1>1
  <2>2. ASSUME NEW m \in 1 .. Len(dv), m > i + 1 PROVE dv[m].key # k
    <3>1. m - 1 \in 1 .. Len(r) /\ m - 1 > i /\ r[m - 1] = dv[m]
      BY <1>1, <2>2
    <3> QED BY <3>1
  <2> QED BY <2>1, <2>2 DEF LastDown
<1>5. v.down /\ ~Has(r, v.key) => LastDown(dv, v.key)
  <2> SUFFICES ASSUME v.down, ~Has(r, v.key) PROVE LastDown(dv, v.key)
    OBVIOUS
  <2>1. ASSUME NEW m \in 1 .. Len(dv), m > 1 PROVE dv[m].key # v.key
    <3>1. m - 1 \in 1 .. Len(r) /\ r[m - 1] = dv[m]
      BY <1>1, <2>1
    <3> QED BY <3>1 DEF Has
  <2>2. 1 \in 1 .. Len(dv)
    BY <1>1
  <2> QED BY <1>1, <2>1, <2>2 DEF LastDown
<1>6. ASSUME NoStopped(q, 0)
      PROVE  /\ new # {} => cur = "seize"
             /\ r # <<>> => cur # "none"
             /\ \A k \in new : Has(r, k) \/ Settled(q, 0, hid, hd, k)
             /\ \A k \in Keys : LastDown(r, k) => Settled(q, 0, hid, hd, k)
  <2>1. /\ fw # {} => cur = "seize"
        /\ cur # "none"
        /\ \A k \in fw : Has(dv, k) \/ Settled(q, 0, hid, hd, k)
        /\ \A k \in Keys : LastDown(dv, k) => Settled(q, 0, hid, hd, k)
    BY <1>6 DEF Following
  <2>2. v.key \in Keys
    BY <1>1 DEF Values
  <2>3. ASSUME NEW k \in new PROVE Has(r, k) \/ Settled(q, 0, hid, hd, k)
    <3>1. CASE k = v.key /\ cur = "seize"
      BY <1>2, <1>5, <2>1, <2>2, <2>3, <3>1
    <3>2. CASE k # v.key
      BY <1>2, <1>3, <2>1, <2>3, <3>2
    <3>3. CASE cur # "seize"
      BY <1>2, <2>1, <2>3, <3>3
    <3> QED BY <3>1, <3>2, <3>3
  <2> QED BY <1>2, <1>4, <2>1, <2>3
<1>7. Following(q, r, new, hid, hd, cur)
  BY <1>6 DEF Following
<1> QED BY <1>7 DEF r

\* FollowingInv holds in the beginning and every step keeps it.
LEMMA InitFollowing == Init => FollowingInv
<1> SUFFICES ASSUME Init PROVE FollowingInv
  OBVIOUS
<1>1. Len(dispatcher_queue) = 1 /\ dispatcher_queue[1].task = "grab"
  BY TaskType DEF Init
<1>2. dispatching.values = <<>> /\ hid_queue = <<>> /\ Owed = {}
  BY DEF Init, NotDispatching, Owed
<1>3. \A k : ~LastDown(<<>>, k)
  BY DEF LastDown
<1> QED BY <1>1, <1>2, <1>3 DEF FollowingInv, Following

\* Every step keeps each forwarded key on its way to a release.
LEMMA NextFollowing == TypeInv /\ OpenInv /\ FollowingInv /\ [Next]_vars => FollowingInv'
<1> SUFFICES ASSUME TypeInv, OpenInv, FollowingInv, [Next]_vars PROVE FollowingInv'
  OBVIOUS
<1> USE DEF kernel, surroundings, history
<1>0. /\ dispatcher_queue \in Seq(Tasks) /\ hid_queue \in Seq(Values)
      /\ dispatching.values \in Seq(Values) /\ Owed \in SUBSET Keys
  BY DEF TypeInv, TypeOK, Owed
<1>1. ASSUME Waits PROVE FollowingInv'
  BY <1>0, <1>1, FollowingAdds DEF Waits, FollowingInv, Owed
<1>2. ASSUME Runs PROVE FollowingInv'
  <2> DEFINE t == Head(dispatcher_queue)
             dv == IF t.task = "values_arrived" THEN t.values ELSE <<>>
             fw == IF t.task = "stopped" THEN {} ELSE Owed
  <2>1. Following(dispatcher_queue, <<>>, Owed, hid_queue, held, current)
    BY <1>2 DEF Runs, FollowingInv
  <2>2. Following(Tail(dispatcher_queue), dv, fw, hid_queue, held, current)
    BY <1>0, <1>2, <2>1, FollowingTail DEF Runs
  <2>3. Tail(dispatcher_queue) \in Seq(Tasks)
    BY <1>0, <1>2, TailType DEF Runs
  <2>4. /\ dispatching'.values = dv /\ Owed' = fw
        /\ Adds(Tail(dispatcher_queue), dispatcher_queue')
        /\ UNCHANGED <<hid_queue, held, current>>
    BY <1>2 DEF Runs, Owed
  <2> HIDE DEF dv, fw
  <2>5. Following(dispatcher_queue', dv, fw, hid_queue, held, current)
    BY <2>2, <2>3, <2>4, FollowingAdds
  <2> QED BY <2>4, <2>5 DEF FollowingInv
<1>3. CASE Dispatcher \/ TimerTick
  <2>1. CASE ForwardValue
    <3> DEFINE v == Head(dispatching.values)
    <3>1. /\ dispatching.values # <<>>
          /\ forwarded' = IF ~(Seized /\ ~disabled) THEN forwarded
                          ELSE IF v.down THEN forwarded \cup {v.key} ELSE forwarded \ {v.key}
          /\ dropped' = IF Seized /\ ~disabled THEN dropped \ {v.key}
                        ELSE IF Seized /\ disabled /\ ~v.down THEN dropped \cup {v.key}
                        ELSE dropped
          /\ UNCHANGED <<dispatcher_queue, hid_queue, held, current>>
      BY <2>1 DEF ForwardValue
    <3>4. \/ Owed' = Owed /\ (current # "seize" \/ v.down)
          \/ Owed' = Owed \cup {v.key} /\ current = "seize" /\ v.down
          \/ Owed' = Owed \ {v.key} /\ current = "seize" /\ ~v.down
      <4> HIDE DEF v
      <4>1. CASE Seized /\ ~disabled
        <5>1. CASE v.down
          <6>1. forwarded' = forwarded \cup {v.key} /\ dropped' = dropped \ {v.key}
            BY <3>1, <4>1, <5>1
          <6>2. Owed' = Owed \cup {v.key}
            BY <6>1 DEF Owed
          <6> QED BY <4>1, <5>1, <6>2 DEF Seized
        <5>2. CASE ~v.down
          <6>1. forwarded' = forwarded \ {v.key} /\ dropped' = dropped \ {v.key}
            BY <3>1, <4>1, <5>2
          <6>2. Owed' = Owed \ {v.key}
            BY <6>1 DEF Owed
          <6> QED BY <4>1, <5>2, <6>2 DEF Seized
        <5> QED BY <5>1, <5>2
      <4>2. CASE Seized /\ disabled /\ ~v.down
        <5>1. forwarded' = forwarded /\ dropped' = dropped \cup {v.key}
          BY <3>1, <4>2
        <5>2. Owed' = Owed \ {v.key}
          BY <5>1 DEF Owed
        <5> QED BY <4>2, <5>2 DEF Seized
      <4>3. CASE ~(Seized /\ ~disabled) /\ ~(Seized /\ disabled /\ ~v.down)
        <5>1. forwarded' = forwarded /\ dropped' = dropped
          BY <3>1, <4>3
        <5>2. Owed' = Owed
          BY <5>1 DEF Owed
        <5>3. current # "seize" \/ v.down
          BY <4>3 DEF Seized
        <5> QED BY <5>2, <5>3
      <4> QED BY <4>1, <4>2, <4>3
    <3>2. dispatching'.values = Tail(dispatching.values)
      BY <2>1 DEF ForwardValue, TypeInv, TypeOK
    <3>3. Following(dispatcher_queue, Tail(dispatching.values), Owed', hid_queue, held, current)
      BY <1>0, <3>1, <3>4, FollowingForward DEF FollowingInv
    <3> QED BY <3>1, <3>2, <3>3 DEF FollowingInv
  <2> QED BY <1>1, <1>2, <1>3, <2>1, TasksRun, OthersWait DEF Dispatcher
<1>4. CASE Inputs
  <2>1. ASSUME NEW k \in Keys, NEW down \in BOOLEAN, KeyEvent(k, down) PROVE FollowingInv'
    <3>1. /\ held' = IF down THEN held \cup {k} ELSE held \ {k}
          /\ hid_queue' = hid_queue \/ hid_queue' = Append(hid_queue, [key |-> k, down |-> down])
          /\ UNCHANGED <<dispatcher_queue, dispatching, Owed, current>>
      BY <2>1 DEF KeyEvent, Owed
    <3>2. current # "none" \/ hid_queue # <<>> => hid_queue' # hid_queue
      <4>1. current # "none" \/ hid_queue # <<>> =>
                hid_queue' = Append(hid_queue, [key |-> k, down |-> down])
        BY <2>1 DEF KeyEvent, OpenInv
      <4>2. Append(hid_queue, [key |-> k, down |-> down]) # hid_queue
        <5>1. [key |-> k, down |-> down] \in Values
          BY DEF Values
        <5>2. Len(Append(hid_queue, [key |-> k, down |-> down])) = Len(hid_queue) + 1
              /\ Len(hid_queue) \in Nat
          BY <1>0, <5>1, AppendProperties, LenProperties
        <5> QED BY <5>2
      <4> QED BY <4>1, <4>2
    <3>3. Following(dispatcher_queue, dispatching.values, Owed, hid_queue', held', current)
      BY <1>0, <3>1, <3>2, FollowingKey DEF FollowingInv
    <3> QED BY <3>1, <3>3 DEF FollowingInv
  <2> QED BY <1>1, <1>4, <2>1, OthersWait DEF Inputs
<1>5. CASE RunLoop
  <2>1. CASE CloseDevice
    <3>1. /\ dispatcher_queue' = Append(dispatcher_queue, Task("stopped"))
          /\ current' = "none" /\ hid_queue' = <<>>
          /\ UNCHANGED <<dispatching, Owed, held>>
      BY <2>1 DEF CloseDevice, Owed
    <3>2. Following(dispatcher_queue', dispatching.values, Owed, <<>>, held, "none")
      BY <1>0, <3>1, TaskType, FollowingStopped
    <3> QED BY <3>1, <3>2 DEF FollowingInv
  <2>2. CASE StartCommit
    <3> DEFINE s == Append(dispatcher_queue, Task("started"))
    <3>1. /\ dispatcher_queue' = Append(s, Task("timer_stop"))
          /\ UNCHANGED <<dispatching, Owed, held, hid_queue>>
      BY <1>0, <2>2, TaskType, TwoTasks DEF StartCommit, Owed
    <3>2. current = "none"
      BY <2>2 DEF StartCommit, OpenInv
    <3>3. Following(dispatcher_queue, dispatching.values, Owed, hid_queue, held, current')
      BY <3>2, FollowingCommit DEF FollowingInv
    <3>4. /\ Following(s, dispatching.values, Owed, hid_queue, held, current')
          /\ s \in Seq(Tasks)
      BY <1>0, <3>3, TaskType, FollowingAppend, AppendType
    <3> HIDE DEF s
    <3>5. Following(dispatcher_queue', dispatching.values, Owed, hid_queue, held, current')
      BY <3>1, <3>4, TaskType, FollowingAppend
    <3> QED BY <3>1, <3>5 DEF FollowingInv
  <2>3. CASE QueueValueAvailable
    <3>1. hid_queue' = <<>> /\ UNCHANGED <<dispatching, Owed, held, current>>
      BY <2>3 DEF QueueValueAvailable, Owed
    <3>2. Following(dispatcher_queue', dispatching.values, Owed, <<>>, held, current)
      <4>1. CASE current = "none"
        <5>1. dispatcher_queue' = dispatcher_queue
          BY <2>3, <4>1 DEF QueueValueAvailable
        <5> QED BY <4>1, <5>1, FollowingDropped DEF FollowingInv
      <4>2. CASE current # "none"
        <5>1. dispatcher_queue' = Append(dispatcher_queue, ValuesTask(hid_queue))
          BY <2>3, <4>2 DEF QueueValueAvailable
        <5> QED BY <1>0, <4>2, <5>1, TaskType, FollowingValues DEF FollowingInv
      <4> QED BY <4>1, <4>2
    <3> QED BY <3>1, <3>2 DEF FollowingInv
  <2> QED BY <1>1, <1>5, <2>1, <2>2, <2>3, OthersWait DEF RunLoop
<1>6. CASE UNCHANGED vars
  BY <1>6 DEF vars, FollowingInv, Owed
<1> QED BY <1>3, <1>4, <1>5, <1>6 DEF Next

-----------------------------------------------------------------------------
(* The invariants of the specification.                                    *)

\* The inductive invariant holds of the specification.
THEOREM Inductive == Spec => []IInv
<1>1. Init => IInv
  BY InitType, InitOpen, InitAnnounced, InitFollowing DEF IInv
<1>2. IInv /\ [Next]_vars => IInv'
  <2>1. TypeInv /\ [Next]_vars => TypeInv'
    <3>1. TypeInv /\ UNCHANGED vars => TypeInv'
      BY DEF TypeInv, TypeOK, vars, kernel, surroundings, history
    <3> QED BY <3>1, InputsType, DispatcherType, RunLoopType DEF Next
  <2> QED BY <2>1, NextOpen, NextAnnounced, NextFollowing DEF IInv
<1> QED BY <1>1, <1>2, PTL DEF Spec

(* Both threads keep the types of what they share, for any keys and any    *)
(* number of inputs.                                                       *)
THEOREM TypeCorrect == Spec => []TypeOK
<1>1. IInv => TypeOK
  BY DEF IInv, TypeInv
<1> QED BY <1>1, Inductive, PTL

(* current_open_options_ says how the device is open whenever the run-loop *)
(* thread is between two blocks, unless a request has overtaken start()    *)
(* between its two critical sections (iokit_hid_queue_value_monitor).      *)
THEOREM OpenModeTheorem == Spec => []OpenModeKnown
<1>1. IInv => OpenModeKnown
  BY DEF IInv, OpenInv, OpenModeKnown, Idle
<1> QED BY <1>1, Inductive, PTL

(* values_arrived forwards keys only between device_grabbed and            *)
(* device_ungrabbed, although seized() is asked after the values were read *)
(* and the device may have been closed and opened since.                   *)
THEOREM AnnouncedTheorem == Spec => []ForwardedOnlyWhileAnnounced
<1>1. IInv => ForwardedOnlyWhileAnnounced
  BY DEF IInv, AnnouncedInv
<1> QED BY <1>1, Inductive, PTL

(* When both threads have nothing left to do, every key that was forwarded *)
(* as down is down, or its key_up was discarded by values_arrived because  *)
(* the device was disabled: no reopening, unread value or late answer      *)
(* leaves a key pressed on the virtual keyboard.                           *)
THEOREM NoKeyStuckTheorem == Spec => []NoForwardedKeyStuck
<1>1. IInv => NoForwardedKeyStuck
  <2> SUFFICES ASSUME IInv, Quiet PROVE Owed \subseteq held
    BY DEF NoForwardedKeyStuck, Owed
  <2>1. dispatcher_queue = <<>> /\ dispatching.values = <<>> /\ hid_queue = <<>>
    BY DEF Quiet, NotDispatching
  <2>2. NoStopped(dispatcher_queue, 0)
    BY <2>1 DEF NoStopped
  <2>3. \A k : ~Has(<<>>, k) /\ ~Carried(<<>>, 0, k)
    BY DEF Has, Carried
  <2>4. \A k \in Owed : Has(dispatching.values, k)
                               \/ Settled(dispatcher_queue, 0, hid_queue, held, k)
    BY <2>2 DEF IInv, FollowingInv, Following
  <2> QED BY <2>1, <2>3, <2>4 DEF Settled
<1> QED BY <1>1, Inductive, PTL

=============================================================================
