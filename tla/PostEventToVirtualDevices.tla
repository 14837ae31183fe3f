---------------------- MODULE PostEventToVirtualDevices ----------------------
(***************************************************************************)
(* The last stage of the manipulation pipeline:                            *)
(* manipulator/manipulators/post_event_to_virtual_devices together with    *)
(* the parts of manipulator_manager::manipulate and                        *)
(* event_queue::queue::emplace_back_entry that run around it.  One action  *)
(* is one front event of the stage's input queue, handled to the end.      *)
(*                                                                         *)
(* Abstractions: time stamps and the posting delay are left out; the       *)
(* reports of the five usage pages are one set of keys and one set of      *)
(* modifiers that are down in the last reports; pointer deltas are left    *)
(* out.  Events may come from any device at any time: the earlier stages   *)
(* (delayed actions among them) may emit events for a device that is       *)
(* already ungrabbed.                                                      *)
(***************************************************************************)
EXTENDS ModifierFlagCounts

CONSTANTS
    Keys,      \* usages that are neither a modifier nor a pointing button
    CapsKey,   \* the keyboard usage caps_lock, a member of Keys
    NoKey,     \* std::nullopt of keyboard_repeat_detector::repeating_key_
    Buttons,   \* pointing button usages
    MaxEntries \* bound on the entries of modifier_flag_manager

ASSUME PostAssumption ==
    /\ CapsKey \in Keys
    /\ NoKey \notin Keys
    /\ MaxEntries \in Nat

VARIABLES
    \* counts         posted_event_queue_'s modifier_flag_manager
    buttons,         \* its pointing_button_manager: <<device, button>> increases
    out,             \* key_event_dispatcher_ and queue_, see Output
    pressed_buttons, \* pressed_buttons_, the buttons of the last pointing report
    mouse_keys,      \* the devices with an entry in mouse_key_handler_
    touched          \* history: devices with an event since they were last ungrabbed

vars == <<counts, buttons, out, pressed_buttons, mouse_keys, touched>>

Modifiers == Flags \ {CapsLock}

\* key_event_dispatcher (pressed_keys, pressed_modifier_flags), the last
\* keyboard reports of queue (keys, modifiers) and keyboard_repeat_detector.
Output == [pressed_keys : SUBSET (DeviceIds \X Keys),
           pressed_modifier_flags : SUBSET Flags,
           keys : SUBSET Keys,
           modifiers : SUBSET Modifiers,
           repeating : Keys \cup {NoKey}]

Silent == [pressed_keys |-> {}, pressed_modifier_flags |-> {},
           keys |-> {}, modifiers |-> {}, repeating |-> NoKey]

Init ==
    /\ CountsInit
    /\ buttons = {}
    /\ out = Silent
    /\ pressed_buttons = {}
    /\ mouse_keys = {}
    /\ touched = {}

-----------------------------------------------------------------------------
(* key_event_dispatcher                                                    *)

key_event_exists(o, u) == \E d \in DeviceIds : <<d, u>> \in o.pressed_keys

dispatch_key_down_event(o, d, u) ==
    IF key_event_exists(o, u)
    THEN o
    ELSE [o EXCEPT !.pressed_keys = @ \cup {<<d, u>>},
                   !.keys = @ \cup {u},
                   !.repeating = u]

\* Mutant: a key_up that leaves the repeat detector as it is.
ReleaseKeysKeepsRepeat(o, us) ==
    [o EXCEPT !.pressed_keys = {p \in @ : p[2] \notin us}, !.keys = @ \ us]

\* The key_up of every usage in us that is down; the owner does not matter.
ReleaseKeys(o, us) ==
    [o EXCEPT !.pressed_keys = {p \in @ : p[2] \notin us},
              !.keys = @ \ us,
              !.repeating = IF @ \in us THEN NoKey ELSE @]

dispatch_key_up_event(o, u) ==
    IF key_event_exists(o, u) THEN ReleaseKeys(o, {u}) ELSE o

dispatch_key_up_events_by_device_id(o, d) ==
    ReleaseKeys(o, {u \in Keys : <<d, u>> \in o.pressed_keys})

\* key_down and key_up of caps_lock in a row: the repeat detector takes the
\* key_down as the repeating key and forgets it at the key_up.
TapCapsLock(o) == [o EXCEPT !.keys = @ \ {CapsKey}, !.repeating = NoKey]

\* Mutant: caps_lock sent as if it were an ordinary modifier key.
DispatchFlagsNoCapsLock(o, pressed) ==
    [o EXCEPT !.pressed_modifier_flags = pressed,
              !.modifiers = (@ \cup (pressed \ o.pressed_modifier_flags))
                                \ (o.pressed_modifier_flags \ pressed)]

\* Mutant: caps_lock tapped without releasing a caps_lock key that is down.
DispatchFlagsNoRelease(o, pressed) ==
    LET old == o.pressed_modifier_flags
        sent == [o EXCEPT !.pressed_modifier_flags = pressed,
                          !.modifiers = (@ \cup (pressed \ (old \cup {CapsLock})))
                                            \ (old \ pressed)]
    IN  IF (CapsLock \in pressed) # (CapsLock \in old) THEN TapCapsLock(sent) ELSE sent

\* The flags that differ from what was sent last are sent; a change of
\* caps_lock is sent as a tap, after the release of a caps_lock key held down.
DispatchFlags(o, pressed) ==
    LET old == o.pressed_modifier_flags
        toggled == (CapsLock \in pressed) # (CapsLock \in old)
        sent == [o EXCEPT !.pressed_modifier_flags = pressed,
                          !.modifiers = (@ \cup (pressed \ (old \cup {CapsLock})))
                                            \ (old \ pressed)]
    IN  IF toggled THEN TapCapsLock(dispatch_key_up_event(sent, CapsKey)) ELSE sent

dispatch_modifier_key_event(o, c) == DispatchFlags(o, PressedFlags(c))

-----------------------------------------------------------------------------
(* pointing_button_manager                                                 *)

PushButton(bs, d, b, down) ==
    IF down THEN bs \cup {<<d, b>>} ELSE {p \in bs : p[2] # b}

EraseButtons(bs, d) == {p \in bs : p[1] # d}

make_hid_report_buttons(bs) == {b \in Buttons : \E d \in DeviceIds : <<d, b>> \in bs}

-----------------------------------------------------------------------------
(* Events of a device.                                                     *)

NumEntries(c) ==
    MapThenSumSet(LAMBDA f : MapThenSumSet(
        LAMBDA d : Max({c.plain[f][d], -c.plain[f][d]})
                 + Max({c.sticky[f][d], -c.sticky[f][d]}), DeviceIds), Flags)

\* Bounds of the model, not of the code.
CountsBound(c) ==
    /\ \A f \in Flags, d \in DeviceIds :
            Bounded(c.plain[f][d]) /\ Bounded(c.sticky[f][d])
    /\ NumEntries(c) <= MaxEntries

Touch(d) == touched' = touched \cup {d}

\* Mutant: the event is pushed before the modifiers are sent.
KeyDownPushFirst(d, u) ==
    /\ counts' = EraseAllSticky(counts)
    /\ out' = dispatch_key_down_event(dispatch_modifier_key_event(out, counts'), d, u)
    /\ Touch(d)
    /\ UNCHANGED <<buttons, pressed_buttons, mouse_keys>>

\* A key_down of a key: the modifiers are sent before the event is pushed to
\* the output queue, which erases the sticky modifiers.
KeyDown(d, u) ==
    /\ out' = dispatch_key_down_event(dispatch_modifier_key_event(out, counts), d, u)
    /\ counts' = EraseAllSticky(counts)
    /\ Touch(d)
    /\ UNCHANGED <<buttons, pressed_buttons, mouse_keys>>

KeyUp(d, u) ==
    /\ out' = dispatch_key_up_event(out, u)
    /\ Touch(d)
    /\ UNCHANGED <<counts, buttons, pressed_buttons, mouse_keys>>

\* Mutant: the modifiers are sent before the push, as they are for other keys.
ModifierKeySentFirst(d, f, down, lazy) ==
    /\ counts' = PushPlain(counts, f, d, IF down THEN 1 ELSE -1)
    /\ CountsBound(counts')
    /\ out' = IF lazy THEN out ELSE dispatch_modifier_key_event(out, counts)
    /\ Touch(d)
    /\ UNCHANGED <<buttons, pressed_buttons, mouse_keys>>

\* A modifier key: sent after the push, and not at all when the event is lazy.
ModifierKey(d, f, down, lazy) ==
    /\ counts' = PushPlain(counts, f, d, IF down THEN 1 ELSE -1)
    /\ CountsBound(counts')
    /\ out' = IF lazy THEN out ELSE dispatch_modifier_key_event(out, counts')
    /\ Touch(d)
    /\ UNCHANGED <<buttons, pressed_buttons, mouse_keys>>

PointingButton(d, b, down) ==
    /\ buttons' = PushButton(buttons, d, b, down)
    /\ pressed_buttons' = make_hid_report_buttons(buttons')
    /\ counts' = IF down THEN EraseAllSticky(counts) ELSE counts
    /\ out' = IF down THEN dispatch_modifier_key_event(out, counts) ELSE out
    /\ Touch(d)
    /\ UNCHANGED mouse_keys

\* While a key repeats, a button is down or a mouse key is active, pointer
\* motion does not bring the modifiers up to date.
MotionSendsModifiers ==
    out.repeating = NoKey /\ pressed_buttons = {} /\ mouse_keys = {}

PointingMotion(d) ==
    /\ out' = IF MotionSendsModifiers THEN dispatch_modifier_key_event(out, counts) ELSE out
    /\ pressed_buttons' = make_hid_report_buttons(buttons)
    /\ Touch(d)
    /\ UNCHANGED <<counts, buttons, mouse_keys>>

EventTypes == {"key_down", "key_up", "single"}

StickyTypes == {"on", "off", "toggle"}

StickyDelta(c, f, type) ==
    IF type = "on" \/ (type = "toggle" /\ ~HasSticky(c, f)) THEN 1 ELSE -1

\* A sticky_modifier event: key_down sends the modifiers as they were before it.
StickyModifier(d, f, type, et) ==
    /\ out' = IF et = "key_down" THEN dispatch_modifier_key_event(out, counts) ELSE out
    /\ counts' = IF et = "key_up" THEN counts
                 ELSE PushSticky(counts, f, d, StickyDelta(counts, f, type))
    /\ CountsBound(counts')
    /\ Touch(d)
    /\ UNCHANGED <<buttons, pressed_buttons, mouse_keys>>

\* A mouse key: another one of the device may be left when one goes up.
MouseKey(d, down) ==
    /\ IF down THEN mouse_keys' = mouse_keys \cup {d}
       ELSE mouse_keys' \in {mouse_keys, mouse_keys \ {d}}
    /\ out' = IF down THEN dispatch_modifier_key_event(out, counts) ELSE out
    /\ Touch(d)
    /\ UNCHANGED <<counts, buttons, pressed_buttons>>

\* The key_down of a shell_command, select_input_source, software_function,
\* set_notification_message: only the modifiers are brought up to date here.
CommandKeyDown(d) ==
    /\ out' = dispatch_modifier_key_event(out, counts)
    /\ Touch(d)
    /\ UNCHANGED <<counts, buttons, pressed_buttons, mouse_keys>>

\* stop_keyboard_repeat (an event of type single): the repeating key goes up.
StopKeyboardRepeat(d) ==
    /\ out' = dispatch_key_up_event(out, out.repeating)
    /\ Touch(d)
    /\ UNCHANGED <<counts, buttons, pressed_buttons, mouse_keys>>

-----------------------------------------------------------------------------
(* Events about a device or the system.                                    *)

\* The LED notification of the virtual keyboard: while a sticky caps_lock
\* exists the dispatcher keeps its own idea of caps_lock.
CapsLockStateChanged(on) ==
    /\ counts' = PushLed(counts, CapsLock, on)
    /\ out' = IF HasSticky(counts, CapsLock) THEN out
              ELSE [out EXCEPT !.pressed_modifier_flags =
                        IF on THEN @ \cup {CapsLock} ELSE @ \ {CapsLock}]
    /\ UNCHANGED <<buttons, pressed_buttons, mouse_keys, touched>>

\* Mutant: the buttons of the report are not saved.
DeviceKeysReleasedNotSaved(d) ==
    LET c == EraseAllExceptLockAndSticky(counts, d)
    IN  /\ out' = dispatch_modifier_key_event(out, c)
        /\ counts' = EraseCapsLockSticky(c)
        /\ buttons' = EraseButtons(buttons, d)
        /\ mouse_keys' = mouse_keys \ {d}
        /\ UNCHANGED <<pressed_buttons, touched>>

\* device_keys_and_pointing_buttons_are_released: manipulator_manager erases
\* the entries of the device, the manipulator sends what is left, and the
\* sticky caps_lock is dropped.
DeviceKeysReleased(d) ==
    LET c == EraseAllExceptLockAndSticky(counts, d)
    IN  /\ out' = dispatch_modifier_key_event(out, c)
        /\ counts' = EraseCapsLockSticky(c)
        /\ buttons' = EraseButtons(buttons, d)
        /\ pressed_buttons' = make_hid_report_buttons(buttons')
        /\ mouse_keys' = mouse_keys \ {d}
        /\ UNCHANGED touched

\* Mutant: the sticky modifiers of the device survive.
DeviceUngrabbedKeepsSticky(d) ==
    /\ counts' = EraseAllExceptLockAndSticky(counts, d)
    /\ buttons' = EraseButtons(buttons, d)
    /\ out' = dispatch_modifier_key_event(dispatch_key_up_events_by_device_id(out, d), counts')
    /\ pressed_buttons' = make_hid_report_buttons(buttons')
    /\ mouse_keys' = mouse_keys \ {d}
    /\ touched' = touched \ {d}

\* Mutant: the handler runs before the manager resets the modifier flags.
DeviceUngrabbedHandlerFirst(d) ==
    /\ out' = dispatch_modifier_key_event(dispatch_key_up_events_by_device_id(out, d), counts)
    /\ counts' = EraseAll(counts, d)
    /\ buttons' = EraseButtons(buttons, d)
    /\ pressed_buttons' = make_hid_report_buttons(buttons')
    /\ mouse_keys' = mouse_keys \ {d}
    /\ touched' = touched \ {d}

\* device_ungrabbed: everything the device held goes up.
DeviceUngrabbed(d) ==
    /\ counts' = EraseAll(counts, d)
    /\ buttons' = EraseButtons(buttons, d)
    /\ out' = dispatch_modifier_key_event(dispatch_key_up_events_by_device_id(out, d), counts')
    /\ pressed_buttons' = make_hid_report_buttons(buttons')
    /\ mouse_keys' = mouse_keys \ {d}
    /\ touched' = touched \ {d}

\* pointing_device_event_from_event_tap of type key_down or single.
EventTap ==
    /\ MotionSendsModifiers
    /\ out' = dispatch_modifier_key_event(out, counts)
    /\ UNCHANGED <<counts, buttons, pressed_buttons, mouse_keys, touched>>

-----------------------------------------------------------------------------
DeviceEvent(d) ==
    \/ \E u \in Keys : KeyDown(d, u)
    \/ \E u \in Keys : KeyUp(d, u)
    \/ \E f \in Modifiers, down, lazy \in BOOLEAN : ModifierKey(d, f, down, lazy)
    \/ \E b \in Buttons, down \in BOOLEAN : PointingButton(d, b, down)
    \/ PointingMotion(d)
    \/ \E f \in Flags, type \in StickyTypes, et \in EventTypes : StickyModifier(d, f, type, et)
    \/ \E down \in BOOLEAN : MouseKey(d, down)
    \/ CommandKeyDown(d)
    \/ StopKeyboardRepeat(d)

Next ==
    \/ \E d \in DeviceIds : DeviceEvent(d)
    \/ \E on \in BOOLEAN : CapsLockStateChanged(on)
    \/ \E d \in DeviceIds : DeviceKeysReleased(d)
    \/ \E d \in DeviceIds : DeviceUngrabbed(d)
    \/ EventTap

Spec == Init /\ [][Next]_vars

-----------------------------------------------------------------------------
TypeOK ==
    /\ counts \in Counts
    /\ buttons \in SUBSET (DeviceIds \X Buttons)
    /\ out \in Output
    /\ pressed_buttons \in SUBSET Buttons
    /\ mouse_keys \in SUBSET DeviceIds
    /\ touched \in SUBSET DeviceIds

(* The keyboard reports and the dispatcher's memory agree after any        *)
(* sequence of events: a key is down in the last report exactly when       *)
(* pressed_keys_ still has an owner that will send its key_up, and a key   *)
(* has one owner.  The caps_lock taps of dispatch_modifier_key_event share *)
(* the usage of a caps_lock key that may be held down.                     *)
ReportMatchesPressedKeys ==
    /\ out.keys = {u \in Keys : key_event_exists(out, u)}
    /\ \A p, q \in out.pressed_keys : p[2] = q[2] => p = q
    /\ out.modifiers = out.pressed_modifier_flags \ {CapsLock}

(* keyboard_repeat_detector never calls a key repeating that is up: else   *)
(* is_repeating would block the modifier updates of pointer motion and of  *)
(* the event tap for good.                                                 *)
RepeatingKeyIsDown == out.repeating # NoKey => out.repeating \in out.keys

(* pressed_buttons_, saved by whoever posted the last pointing report, is  *)
(* what pointing_button_manager would report now, so no button change is   *)
(* forgotten by handle_device_ungrabbed_event's comparison.                *)
ButtonsMatchLastReport == pressed_buttons = make_hid_report_buttons(buttons)

HoldsNothing(d) ==
    /\ \A u \in Keys : <<d, u>> \notin out.pressed_keys
    /\ \A b \in Buttons : <<d, b>> \notin buttons
    /\ \A f \in Flags : counts.plain[f][d] = 0 /\ counts.lock[f][d] = 0 /\ counts.sticky[f][d] = 0
    /\ d \notin mouse_keys

(* A device that was ungrabbed and has sent nothing since owns nothing:    *)
(* no key, button, modifier count or mouse key of it stays behind that     *)
(* only an event of the missing device could take away.                    *)
UngrabbedDeviceHoldsNothing == \A d \in DeviceIds \ touched : HoldsNothing(d)

(* When every device that sent events has been ungrabbed, nothing is held  *)
(* down on the virtual devices: no key, no modifier and no button is stuck *)
(* whatever was shared between the devices before.                         *)
NothingStuckAfterUngrab ==
    touched = {} => out.keys = {} /\ out.modifiers = {} /\ pressed_buttons = {}

(* A key_down is reported together with the modifiers that are pressed     *)
(* when the event is taken up, sticky modifiers included, although the     *)
(* same event makes the output queue forget them.                          *)
KeyDownCarriesModifiers ==
    [][\A u \in Keys : u \in out'.keys \ out.keys
            => out'.modifiers = PressedFlags(counts) \ {CapsLock}]_vars

=============================================================================
