# Karabiner-Elements: a TLA+ development

Karabiner-Elements takes over the physical keyboards and pointing devices of a
Mac, rewrites their events by the user's rules and posts the result through
virtual HID devices. What goes wrong in such a program is seldom one function:
a key is left pressed because two devices, a timer or a second thread did
something in an order nobody tried. The modules here model that behaviour, TLC
checks it on small instances, and TLAPS proves the core for every instance.
Paths below are relative to the repository.

## 1. Inventory

Three processes work together: `karabiner_grabber` (root; `src/core/grabber`),
`karabiner_console_user_server` and `karabiner_session_monitor` (per user). All
of the grabber's logic runs as tasks of one shared *dispatcher thread*; IOKit
callbacks and the opening and closing of devices run on a *run-loop thread*.

| Component (source) | State | Operations | Hard behaviour | What makes it correct |
|---|---|---|---|---|
| `modifier_flag_manager` | vector of (type, flag, device) | push, erase by device, erase sticky, reset, queries | five cancelling rules over one vector | it behaves as net counts |
| `pointing_button_manager` | vector of presses | push, erase by device | shared by all devices | a released button is up |
| `event_queue` | events, the two managers, environment | emplace, erase, sort | order at equal times | sort keeps what must be kept |
| `manipulator_manager`, connector | four stages | one front event at a time | order of reset and handler | no event lost or doubled |
| `basic` manipulator | manipulated events, timers | manipulate, held-down and delayed actions, simultaneous keys | timers racing key_ups | every key_down gets its key_up |
| `post_event_to_virtual_devices` | pressed keys and flags, reports, buttons, repeat detector | manipulate, three handlers | devices sharing keys, caps_lock toggling | reports agree with memory, nothing stuck |
| posting queue | events with adjusted times | emplace, post | waits between events | order kept |
| `device_grabber`, `entry` | entries, sleeping, ready, configuration | grab, ungrab, values_arrived | stale `seized()`, late values | no key stuck, settles |
| `probable_stuck_events_manager` | four sets of events | update, clear, find | races with reopening | keys held at the seizure are found |
| `iokit_hid_queue_value_monitor` | requested and current options, queue, timer | async_start, async_stop, callbacks | two threads, retries, check-then-act | the device is open as requested |
| conditions, `manipulator_environment` | variables, devices, application, input source per queue; caches; shared expressions | evaluate, set, unset | caches and expressions shared by stages | a condition answers for its own stage |
| `mouse_basic`, `mouse_motion_to_scroll` | options, counter with chunks and totals, timer | manipulate, update, reset, timer function | jobs and timer racing motion | scrolling follows the pointer and ends |
| `receiver`, `session_monitor_receiver`, components managers, clients | sessions, sockets, console user | register, connect, reconnect | process death, lost datagrams, reconnection | the console user is served, and no other |
| `core_configuration`, libkrbn's setters | profiles, devices, rules, settings, unknown keys | load, edit, save | long sequences of edits over lossy JSON | a save changes nothing that acts |
| `configuration_monitor`, `async_file_writer` | files, backups, what each process has read | save, reload | system calls of one process interleaved with reads of others, crashes | readers catch up, something can be restored |
| `notification_message_manager`, LED manager, hat switch, game pad sticks | small | update | – | – |

They interact by calls and signals on the dispatcher thread, by the mutex around
the monitor's options, and by local sockets between the processes. The fork's
own notes (`FREEZE-INVESTIGATION-SUMMARY.md`) report keyboards that stop
answering until Karabiner is quit; section 4 has a sequence with that outcome.

`PROJECT.json` lists all components, also those left out, and under `hazards`
what in this code is hard to test, line by line.

## 2. Modules

* `ModifierFlagCounts`: what `modifier_flag_manager` promises, as a record of
  net counts (plain, lock, sticky per flag and device; led per flag). Its
  operators are used by the modules of the posting stage.
* `ModifierFlagList` (`MCModifierFlagList`): the vector as written, `erase_pairs`
  with its index arithmetic included, shown to implement `ModifierFlagCounts`
  under the mapping `CountsOfList`. The loop is a recursive function over its
  rounds; a round that erases shortens the vector by two, so as many rounds as the
  vector has entries are enough. `IndexedSequences` has the selection of the
  elements at some indexes in order, which `std::erase_if` and the array helper
  come down to.
* `PostEventToVirtualDevices` (`MCPostEvent`): the last stage. One action is one
  front event handled to the end: what `manipulator_manager::manipulate` does
  before the handler, the handler, and the push to the output queue with its
  effects on the managers, in the code's order. `counts`, `buttons` are the two
  managers of the output queue; `out` is `key_event_dispatcher_` with the last
  reports of `queue_` and the repeat detector; `touched` is a history variable.
  The five report pages are one set of keys. Time stamps, pointer deltas and
  notification texts are left out. Events of any device may come at any time,
  because the earlier stages may emit delayed events for an ungrabbed device.
* `EntryToPost` (`MCEntryToPost`): the entry's `pressed_keys_manager` composed
  with that stage, for rules that leave keys as they are, and one rule that maps
  a key to `sticky_modifier caps_lock toggle`.
* `ModifierFlagListProofs`, `PostEventProofs`, `EntryToPostProofs`,
  `DeviceGrabbingProofs`, `ConfigurationFileProofs`, `CoreConfigurationProofs`,
  `SessionsProofs`: the theorems about the module of that name (section 5);
  `Foundations`: induction in a form the provers can use, sums over finite sets,
  and the elements at some indexes of a sequence.
* `DeviceGrabbing`: one device, from `make_grabbable_state` to
  `IOHIDDeviceOpen`. One action is the code of one thread between two accesses
  of the options both threads share. `dispatcher_queue` and `run_loop_queue` are
  the tasks and blocks waiting, `dispatching` and `run_loop` the ones in
  progress. The kernel (`opened`, `hid_queue`) is external, modelled as the code
  uses it: an open may fail; an open queue gets every value. `announced`,
  `forwarded`, `dropped` and `overtaken` are history variables. Of the
  surroundings there are sleep, readiness of the virtual keyboard, the device's
  "ignore" setting, and `disabled_`, which `update_devices_disabled` sets for a
  built-in keyboard when another device comes or goes or the configuration
  changes, without reopening it. Readiness of the pointing device (a second
  condition of the same kind) and the device's own removal are not modelled. All
  keys are on one usage page.
* `BasicManipulator` (`MCBasicManipulator`): the `basic` manipulators of complex
  modifications in their manager. An entry of the queue is handled to the end by
  one action, which asks the manipulators in order; a handler is an operator from
  a *world* (manipulators, manipulated original events, output) to the next one.
  `moes` are the `manipulated_original_event` objects, kept as long as a
  manipulator or a delayed action refers to them, as the `shared_ptr` does. The
  output queue is what it adds up to: key_downs less key_ups per device and
  event. Timers carry the id that the code compares. Time is a small number.
  Lazy flags, `hold_down_milliseconds`, time stamp delays and sticky caps_lock
  are left out.
* `Conditions`: `manipulator_environment` and all conditions, as operators on an
  environment: what `make_condition` accepts, what is cached under which key, and
  what the condition *means* (`Holds`), defined apart from how it is computed.
* `MouseMotionToScroll`: `mouse_basic`'s transformation, the options, and the
  counter's arithmetic (chunks, totals, direction lock, sign changes, momentum).
  Averages are taken as exact; the multiplier is an integer.
* `ComplexModifications` (`MCComplexModifications`), over the two: the first three
  stages with their queues and environments. `Manipulate` is one call of
  `device_grabber::manipulate`; the counter's jobs and timer are separate actions
  on the same dispatcher queue, since its wheel events come long after the
  motion. An expression is kept in one place (`symbols`) and evaluated there by every
  condition and every queue that uses it. What happens inside `basic` is reduced to one event; only keys, one
  modifier, motion, and the events that change an environment exist.
  `heading`, `posted` and `answers` are history variables. `sort_events`,
  `key_up_expression`, `system.now.milliseconds`, scroll direction and the fixed
  keys of the fn stage are left out.
* `CoreConfiguration` (`MCCoreConfiguration`): `karabiner.json` in memory, its
  loading and saving with the JSON helper's rules (a default value is not written,
  an unknown key is kept, an empty array member is dropped), and the edits that
  libkrbn offers. Settings that go through the same helper in the same way are
  represented by one of them; `PROJECT.json` maps the ones that are translated.
* `ConfigurationFile`: the file between processes. Every system call of a save is
  an action, since other processes read, and the saving one may die, between
  them. A backup is opened empty (`Save`, `make_backup_file`) and filled
  (`CopyBackup`), old ones are removed one by one (`remove_old_backup_files`), and
  then `async_file_writer` replaces the file, whose body is certain to be there
  only when the stream is closed, after the rename. `cut` is a history variable.
  The vendored `file_monitor` is external and modelled by what its callback does.
* `Sessions`: session monitors, grabber, console user servers and the sockets
  between them, for several users. A message to a socket that nobody serves is
  lost; a process that exits loses its state and launchd starts it again. What it
  has sent stays in the receiver's socket (`Stale`): a connect that is read only
  after its sender's socket is gone makes a client that cannot connect.

Definitions keep the code's names where they translate one function. An operator
marked *Mutant* is a plausible mistake in the definition after it; it is used
only to see that the property named in `PROJECT.json` notices it.

## 3. Runs

| Run | Bounds | Shows |
|---|---|---|
| `modifier_flag_list` | 2 flags, 2 devices, 3 entries, 2 equal ones | refinement of the counts, and each call's effect on them; no inverse pair survives although the loop skips index 0 after an erase there; the queries agree |
| `post_event` | 2 devices, caps_lock and a modifier, caps_lock key and one other, a button, count 1, 2 modifier entries | the six invariants and the action property of the posting stage |
| `entry_to_post` | same, 3 modifier entries | what is reported as down is held on some device |
| `entry_release_lost` | same | violation, section 4 |
| `device_grabbing` | 1 key, 3 inputs | events only between grabbed and ungrabbed; no key left down, but for one held while the keyboard was disabled; the recorded mode is the real one unless a request overtook the open; the device ends up open in the kernel as requested, with the same exception, and the request ends up as the state permits |
| `device_grabbing_sleep` | 1 key, 1 input | violation, section 4 |
| `basic_manipulator` | 3 manipulators (mandatory modifier with alone, held-down and after-key_up events; a strict simultaneous; a delayed action), 2 devices, 3 presses, 2 units of time, 1 reload or changed condition, 1 ungrab | nothing is left down; timers, alone and delayed events |
| `basic_shared` | 2 simultaneous manipulators sharing a key, 4 presses | violation, section 4 |
| `complex_modifications` | keyboard and mouse, 2 configurations, 2 motions out of 3, 1 key, 1 change of application, input source, variable, devices, preferences or configuration | conditions answer for their stage; scrolling follows the pointer and ends |
| `core_configuration` | 2 devices, 5 files written by hand, 2 edits, 3 profiles | a save settles, keeps what acts and changes nothing when a device is only looked at; selection; well-formedness |
| `configuration_file` | a window and a reader, 3 saves or edits by hand, 3 days, 2 backups kept, 1 crash | something to restore unless the first copy was cut short; a whole backup is not displaced; readers catch up |
| `sessions` | 2 users, 3 applications, 2 outside events (console switch, exit of any process, lost connection, application change) | the owner's configuration only, and a device_grabber knows the application its receiver was told of; the console user's in the end; application known |

The bounds are enough for the cases in question: two devices are the least that
can share a key; a third entry is needed to tell the skipped index from a lucky
one; a forwarded key stuck through reopening takes a press, a change of the
surroundings and a release; a request overtakes the open with a single change
of the surroundings (the invariants of grabbing are proved for any number of
keys). Alone, held-down and simultaneous events need at
most three presses and two thresholds to meet; a session is lost and found again
by one exit during one switch; a torn read and a stale backup need a save, a
crash and a second day, and a whole backup is removed by the third; scrolling
that turns needs two motions. All constants called `Max...` are bounds of the
models only. The two devices are interchangeable, so symmetry over them
is used in the runs that check safety. Where a model stops when its inputs are
used up, there is no deadlock check; `modifier_flag_list`, `post_event`,
`entry_to_post` and `core_configuration` never stop.

Fairness. `DeviceGrabbing`: both threads serve their queues (the threads run as
long as the process does) and the open timer ticks; and a device that is opened
again and again is opened in the end (strong fairness of `StartOpen`). The last
is an assumption about macOS: if the kernel refuses for ever, the retry loop goes
on for ever. `ConfigurationFile`: a write that has begun goes on, file events are
delivered; nobody has to edit or save. `Sessions`: timers, reconnections and
dispatchers run, launchd restarts what exited. `ComplexModifications`: weak
fairness of the dispatcher, written out as *infinitely often nothing to do, or
infinitely often a step without input*, because TLC would otherwise evaluate
whether `Manipulate` is enabled in every state; `CanRun` is that condition.

## 4. Disagreements found

* **The released event is lost** (`entry_release_lost`). The entry calls
  `insert_device_keys_and_pointing_buttons_are_released_event` and drops the
  list it returns, so for physical devices the handler of that event never runs.
  In two steps a lone tap on a key mapped to a sticky caps_lock sends nothing,
  where the handler's comment expects caps_lock to be sent.
* **A shared key of two simultaneous manipulators** (`basic_shared`). With a+s
  (`detect_key_down_uninterruptedly`) and d+s (`key_up_when: all`), pressing a, d
  and s lets both manipulators take s. Its key_up is consumed by the first, so
  the second remembers s: its `to` key stays down, and the next press of s, which
  nobody took, is skipped as "already manipulated by `simultaneous`".
* **A request overtakes the open** (`device_grabbing_sleep`). `start()` opens with
  the options it read first and records the options it reads second. A sleep
  notification in between leaves the device seized and recorded as observed, with
  nothing left to do for either thread, where device_grabber.hpp:801 says "do not
  grab the device while system is sleeping". In the same way an "ignore" change
  leaves it seized and recorded as closed, so its values are discarded and the
  keyboard is dead until a later request. `OpenModeKnown` and `MonitorSettles` are
  stated with this exception, and show that nothing else separates the recorded
  or the requested mode from the one in the kernel for good, and that the next
  close ends it.

Seen while modelling, without a run of its own:

* *A key held when the keyboard is disabled.* A built-in keyboard is disabled while
  it is seized, without a device_ungrabbed event. The key_up of a key that was
  forwarded as down is then discarded, and the key stays down on the virtual
  keyboard until it is pressed and released again after the keyboard is enabled,
  or the device is closed. `NoForwardedKeyStuck` exempts the keys whose key_up was
  discarded this way (`dropped`) and no others. No document says what should
  become of such keys.
* *The first backup may be torn for a day.* `pqrs::filesystem::copy` opens the
  backup empty and writes then; a backup of the day that exists is not made again.
  If the window dies in its first copy ever, the next save of that day unlinks the
  file while no backup is whole; until the new file is flushed there is nothing
  from which "you can restore a previous state by overwriting karabiner.json with
  one of those backups" (MiscView.swift:46). TLC finds `AlwaysRestorable` violated
  by these steps. `SomethingToRestore` is stated with this exception, and shows
  that nothing but a copy cut short while no backup is whole brings it about.
* *A stuck key goes unnoticed.* A key held since before the seizure which goes up,
  down and up before the device is un-seized is taken out of
  `probable_stuck_events_` by presses macOS never saw.
* The `started` signal clears the stuck events after `grab_device` has acted on
  them, which may leave a grabbable device observed until another key is pressed.
  `GrabberSettles` is stated with this exception, and shows that the reverse
  never happens.
* *Two sequences leave a `to` key down*, and are kept out of the instance of
  `basic_manipulator` so that the run can show that nothing else does: simultaneous keys
  on two devices, one of which is ungrabbed after the other's key went up; and a
  manipulator with both `to_if_held_down` and `to_delayed_action` whose device is
  ungrabbed, because the delayed action keeps the manipulated original event
  alive for the held-down timer. A mandatory modifier held on two devices is
  moreover released on one of them only.
* *Expressions remember.* `unset_variable` takes a variable out of the environment
  but not out of the expressions, which keep the number they saw last, while
  `variable_if` sees the default; the same when a number is replaced by a string.
  `ConditionsAnswerForTheirStage` leaves such expressions out (`Determined`). An
  expression that is NaN fulfils neither `expression_if` nor `expression_unless`.
  `condition_expression_manager::set_variable` is never called, so the values it
  would hand to new expressions are never there.
* *What a save may change.* A profile without any setting is left out of the file,
  which may shift the selection; of a device listed twice, the first is dropped if
  it has no setting, and the second takes effect; a formula loses a newline at its
  end with every save; a function key cleared in a profile comes back as its
  default. `ReloadKeepsEffective` is stated without these (`Kept`). A formula whose
  lost newline was all that told it from the default may leave a file without any
  profile, which loads as the default one; the proof of `SaveSettles` came upon it,
  and the property is stated without it. A profile that cannot be read ends loading,
  and the next save loses those after it.
* Momentum scrolling goes on after the modifier or condition that allowed it has
  ended, until the next event makes the manipulator ask again.

## 5. Proofs

Every theorem is about the model for every value of its constants: any number of
devices, keys, users, files, days and edits, where a run has two or three. The
assumptions are the named `ASSUME`s, which the runs evaluate too.

**The vector of modifier flags** (`ModifierFlagListProofs`; `CountsAssumption`,
`ListAssumption`): everything the run `modifier_flag_list` checks, the refinement
included, for any flags, devices and vectors of any length. The inductive
invariant, `IInv`, is that no two entries of the vector are inverse, that a lock
entry of a flag is there once and that no entry is there more often than the bound
on calls allows. Each part needs the other: a call pushes one entry, so the vector
it hands to `erase_pairs` has inverse pairs of one kind only, with that entry. A
round of the loop removes two entries that are inverse or advances, and when no
round is left no pair is (`ErasePairs...` lemmas, by induction over the rounds); so
a call leaves one entry more, or one partner less. Lock entries are pushed after
equal ones are erased, which is why their count stays within -1..1. From that the
net counts after each call follow (`CallsAgree`), and with them the refinement: each
step of the vector is a step of the counts or a stutter. `QueriesAgree` is about
loops that add up all entries: the entries are split by kind and device into
fibers, and the sum over the vector is the sum of the sums over the fibers, each
of which is a net count.

**The posting stage** (`PostEventProofs`; `CountsAssumption`, `PostAssumption`):
all the invariants and the action property of the run `post_event`. The
properties are not inductive one by one. `IInv` joins: the counts are well typed
and the only led lock is caps_lock's; the dispatcher's output is consistent (keys
of the report are the owned ones, one owner each, the modifiers are the flags
sent, the repeating key is down); the saved buttons are those of the manager; and
devices not in `touched` have no entry anywhere, so that with `touched` empty only
the led lock can press a flag and no modifier is in the report. The last part is
why `NothingStuckAfterUngrab` needs the per-device part: the modifiers left after
the last ungrab follow from the counts of *all* devices being zero. Lemmas about
each operator come first, then one lemma per action, then the theorems.
`KeyDownCarriesModifiers` follows from the invariant and the lemma that nothing
but a key_down adds a key to the report.

**Entry and posting stage** (`EntryToPostProofs`; additionally `EntryAssumption`:
keys, flags and buttons are different things): `ReportedIsHeld`. The invariant of
the stage is extended by what ties it to the physical keys: an owner of a key or
button holds it; a device has one increase entry for each modifier it holds and
no lock or sticky entry of a modifier; the modifiers last sent are the held ones.
`is_pressed` adds up the entries of all devices, a fold, so the proof has to say
what the fold computes: a sum of natural numbers is positive exactly if one of
them is (`SumPositive`), by induction over the number of devices.

**Grabbing** (`DeviceGrabbingProofs`; `GrabbingAssumption`): the four invariants of
the run `device_grabbing`. What happens to the device is decided on one thread and
reaches the other as tasks, so the invariants speak of what the queued tasks will
have done. `OpenInv` says how the device is open at each place of `start()`.
`AnnouncedInv`: values in the queue come when, after the tasks before them, the
device is announced; an open device is announced at the queue's end. `FollowingInv`
is the argument for stuck keys: what is not followed by a *stopped* signal belongs
to the device as it is open now; if the last value of a key on its way is a
key_down, then the key is held, or a later value of it is queued, in the kernel or
in another task. A key that was forwarded as down and whose key_up was not
discarded (`Owed`) is held or has a value on its way; when nothing is on its way,
it is held. A key_down dispatched while the device is disabled makes nothing owed,
and a key_up takes the key out of `Owed` whether it is forwarded or discarded,
which is what keeps the argument independent of when `disabled` changes.

**The configuration file** (`ConfigurationFileProofs`; `FileAssumption`, with fewer
crashes than `keep_count`): `SomethingToRestore` and `WholeBackupNotLost`. The
invariant counts (`TornInv`): the torn backups, and the torn file the next backup
would be made of, are at most as many as the crashes, and one more while a copy is
under way. Removing the oldest leaves at least `keep_count` backups, so one of them
is whole if one was (`WholeBackupNotLost`). `FirstInv` says that from the first save
on there is a whole backup, that the file is whole and unsaved so far, or that the
first copy is under way from a file that is whole; only a crash in that copy leads
out of it, and `cut` records exactly that. With as many crashes as `keep_count`
the argument, and the property, fails.

**The configuration in memory** (`CoreConfigurationProofs`;
`ConfigurationAssumption`: the arrays of a file are arrays, which array_t requires,
those of pairs hold pairs, and the values of profiles, devices and parameters are
numbers or of the wrong type; what the window stores is of the right type): all six
properties of the run, `WellFormed`, `NoAlwaysDisabledDevice`,
`LookingChangesNothing`, `SelectTakesEffect`, `ReloadKeepsEffective` and
`SaveSettles`. The invariant says that every profile in memory has its parameters
in range, its devices coordinated, values of the right type or the default, no
registered key among the unknown ones, pairs with the function key the defaults
give, and rules with manipulators and a readable `enabled`, *and* that the file on
disk can be loaded again, since it is what `ReadFile` makes the next configuration
of. Setters, copies (a save and a load) and moves each keep it. `LookingChangesNothing` needs that what a new device is saved
as is empty, down to the function key it starts with, and that the array helper,
which leaves it out, picks the same elements as before. `SelectTakesEffect` needs
that the profile just selected is written (it differs from the default), that every
profile that is written loads, so that none before it ends the loading, and that the
array helper keeps its place among those that stay.

`ReloadKeepsEffective` and `SaveSettles` are about what a save and a load do to
every part. Values: a key is written if it differs from the default and loads as
what was written, so a value of the right type comes back, and so does the default
(`Registered`); unknown keys come back because they meet no registered one
(`Unregistered`). Pairs: `handle_json` lets the last pair of a `from` win and sorts;
the pairs written are the survivors with a `to`, whatever the order was, and of a
sorted sequence with one pair for each `from` there is only one (`HandleSorted` and
the lemmas after it); so the same pairs act, and a second save writes the same
sequence. Devices and profiles: the array helper keeps the order of those it
writes; a device it leaves out is as a new one, which is what is found for it
afterwards, and with one entry for each device `get_device` finds the same settings
(`DevicesReload`). The `disable_built_in_keyboard_if_exists` of a device that stands
in for the built-in keyboard has to be 0, not only unequal to 1, since coordination
when it is loaded would make it so. What was loaded is settled: writing
and loading it again changes no part of it that is written (`DeviceSettles`,
`ProfileSettles`, `MachineSettles`).

**Sessions** (`SessionsProofs`; `SessionsAssumption`): `OnlyTheOwnersConfiguration`
and `DeviceGrabberKnowsEnvironment`. The invariant: a connection to the receiver,
or a message on the way, a stale one too, exists only while the receiver belongs
to the user at its other end, and so does the client the receiver made; the configuration in use
is no user's, or the owner's. It is the ownership of the messages that makes it
inductive: `core_configuration_file_path` is believed as it comes.

*Induction.* The library's induction theorems take a predicate as a parameter,
which the provers cannot instantiate. `Foundations` states induction, and that a
set of numbers has a smallest member, with a set in place of the predicate. That
suffices for folds over finite sets, for positions in sequences and for the rounds
of a loop written as a recursive function.

*Only model-checked.* Liveness, in every module (it needs fairness and ENABLED),
and the invariants of `BasicManipulator` and `ComplexModifications`: an entry passes
through a sequence of manipulators by a RECURSIVE operator (`ManipulateFrom`,
`HandleEntries`) or a fold whose steps change the whole world, and what these
compute for every input is induction over data with an operator as parameter.

## 6. Plan

Done: the posting stage, the entry, grabbing, the basic manipulator, the first
three stages, configuration and sessions; the proofs of section 5. Next:

1. Proofs of `ConditionsAnswerForTheirStage` and of the timers' part of
   `BasicManipulator`, with the worlds' step as an operator of its own.
2. The posting stage composed with `BasicManipulator` (lazy flags, time stamps);
   termination and removal of the device in `DeviceGrabbing`.

## 7. Not modelled

* Order inside the queues: `sort_events`, the delays of `make_entries` and
  `adjust_time_stamp` (no document says which order is right where the swap rule
  is not transitive).
* Values the user writes as floating-point formulas (game pad sticks) and tables
  (hat switch, names of keys, fn function keys): no state, or out of TLC's reach.
* caps_lock LEDs of physical keyboards, notifications, event taps, updaters, log
  files and state files: output to the system.
* The command line, the applications, libkrbn's getters, and vendored libraries:
  user interface and input/output without protocol state, except the vendored
  monitor, whose two threads are part of grabbing. The DriverKit driver's source
  is not part of the repository.
