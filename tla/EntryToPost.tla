------------------------------ MODULE EntryToPost ------------------------------
(***************************************************************************)
(* A grabbed device's entry (device_grabber_details/entry.hpp, its         *)
(* pressed_keys_manager and event_queue::utility) composed with the        *)
(* posting stage.  The values of the physical keys become events which     *)
(* reach the posting stage unchanged, except those of StickyKey: a complex *)
(* modification turns it into sticky_modifier caps_lock toggle.            *)
(***************************************************************************)
EXTENDS PostEventToVirtualDevices

CONSTANT StickyKey  \* a physical key, none of the others

ASSUME EntryAssumption ==
    /\ StickyKey \notin Keys \cup Flags \cup Buttons
    /\ Keys \cap Flags = {} /\ Keys \cap Buttons = {} /\ Flags \cap Buttons = {}

VARIABLE held  \* pressed_keys_manager_ of every device

entryVars == <<vars, held>>

Physical == Keys \cup Modifiers \cup Buttons \cup {StickyKey}

EntryInit == Init /\ held = [d \in DeviceIds |-> {}]

\* The event of a physical key, at the end of the pipeline.
Deliver(d, e, down) ==
    \/ e \in Keys /\ down /\ KeyDown(d, e)
    \/ e \in Keys /\ ~down /\ KeyUp(d, e)
    \/ e \in Modifiers /\ ModifierKey(d, e, down, FALSE)
    \/ e \in Buttons /\ PointingButton(d, e, down)
    \/ e = StickyKey /\ StickyModifier(d, CapsLock, "toggle", IF down THEN "key_down" ELSE "key_up")

\* values_arrived with a key_down
PhysicalDown(d, e) ==
    /\ e \notin held[d]
    /\ held' = [held EXCEPT ![d] = @ \cup {e}]
    /\ Deliver(d, e, TRUE)

\* values_arrived with a key_up: the event that would tell that all keys of the
\* device are released is inserted into a list that nobody reads.
PhysicalUp(d, e) ==
    /\ e \in held[d]
    /\ held' = [held EXCEPT ![d] = @ \ {e}]
    /\ Deliver(d, e, FALSE)

Elsewhere ==
    /\ \/ \E d \in DeviceIds : PointingMotion(d)
       \/ \E on \in BOOLEAN : CapsLockStateChanged(on)
       \/ EventTap
    /\ UNCHANGED held

EntryNext ==
    \/ \E d \in DeviceIds, e \in Physical : PhysicalDown(d, e) \/ PhysicalUp(d, e)
    \/ Elsewhere

EntrySpec == EntryInit /\ [][EntryNext]_entryVars

-----------------------------------------------------------------------------
Held == UNION {held[d] : d \in DeviceIds}

(* What the virtual devices report as down is physically down on some      *)
(* grabbed device, although devices share keys and buttons, only one of    *)
(* them owns a key in pressed_keys_, and caps_lock is tapped while its key *)
(* may be held; modifiers are reported exactly while some device holds     *)
(* them.                                                                   *)
ReportedIsHeld ==
    /\ out.keys \subseteq Held
    /\ pressed_buttons \subseteq Held
    /\ out.modifiers = Held \cap Modifiers

(* "(2) device_keys_and_pointing_buttons_are_released - usage::caps_lock   *)
(* is sent to turn caps lock on": when the last key of a device goes up    *)
(* while a sticky caps_lock is on, caps_lock has been sent.                *)
ReleaseSendsStickyCapsLock ==
    [][\A d \in DeviceIds :
            /\ held[d] # {} /\ held'[d] = {}
            /\ HasSticky(counts, CapsLock) /\ IsPressed(counts, CapsLock)
            => CapsLock \in out'.pressed_modifier_flags]_entryVars

=============================================================================
