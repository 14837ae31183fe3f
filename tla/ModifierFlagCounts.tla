-------------------------- MODULE ModifierFlagCounts --------------------------
(***************************************************************************)
(* What share/modifier_flag_manager.hpp promises, without its list: for    *)
(* every kind of entry, modifier flag and device a net count of increase   *)
(* minus decrease entries.  The manager keeps a vector of                  *)
(* active_modifier_flag and cancels inverse pairs in it; ModifierFlagList  *)
(* models that vector and is checked to implement this specification.     *)
(* The modules of the posting stage use the operators of this one.        *)
(*                                                                         *)
(* A value of Counts is a record of the four kinds of entries:             *)
(*   plain  type::increase / type::decrease                                *)
(*   lock   type::increase_lock / type::decrease_lock                      *)
(*   sticky type::increase_sticky / type::decrease_sticky                  *)
(*   led    the flags with a type::increase_led_lock entry (led entries    *)
(*          are shared by all devices: their device_id is forced to 0)     *)
(***************************************************************************)
EXTENDS Integers, FiniteSets, FiniteSetsExt

CONSTANTS
    Flags,      \* the modifier flags, caps_lock included
    CapsLock,   \* modifier_flag::caps_lock
    DeviceIds,  \* the devices whose entries the manager holds
    MaxCount    \* bound on the entries of one kind, flag and device

ASSUME CountsAssumption ==
    /\ CapsLock \in Flags
    /\ IsFiniteSet(DeviceIds)
    /\ MaxCount \in Nat \ {0}

PerDevice == [Flags -> [DeviceIds -> Int]]

Counts == [plain : PerDevice, lock : PerDevice, sticky : PerDevice, led : SUBSET Flags]

NoCount == [f \in Flags |-> [d \in DeviceIds |-> 0]]

\* reset(): no entry at all.
Empty == [plain |-> NoCount, lock |-> NoCount, sticky |-> NoCount, led |-> {}]

-----------------------------------------------------------------------------
(* push_back_active_modifier_flag, one operator per group of types.        *)

\* increase / decrease: pushed, then cancelled against an inverse entry.
PushPlain(c, f, d, delta) == [c EXCEPT !.plain[f][d] = @ + delta]

\* increase_sticky / decrease_sticky: the same, in the sticky kind.
PushSticky(c, f, d, delta) == [c EXCEPT !.sticky[f][d] = @ + delta]

\* increase_lock / decrease_lock: equal entries are removed before the push,
\* so the net count never leaves -1 .. 1.
PushLock(c, f, d, delta) ==
    [c EXCEPT !.lock[f][d] = IF @ = delta THEN @ ELSE @ + delta]

\* increase_led_lock is pushed once; decrease_led_lock only removes it.
PushLed(c, f, on) ==
    [c EXCEPT !.led = IF on THEN @ \cup {f} ELSE @ \ {f}]

EraseDevice(counts, d) ==
    [f \in Flags |-> [e \in DeviceIds |-> IF e = d THEN 0 ELSE counts[f][e]]]

\* erase_all_active_modifier_flags(device_id)
EraseAll(c, d) ==
    [c EXCEPT !.plain = EraseDevice(@, d),
              !.lock = EraseDevice(@, d),
              !.sticky = EraseDevice(@, d)]

\* erase_all_active_modifier_flags_except_lock_and_sticky(device_id)
EraseAllExceptLockAndSticky(c, d) == [c EXCEPT !.plain = EraseDevice(@, d)]

\* erase_caps_lock_sticky_modifier_flags()
EraseCapsLockSticky(c) ==
    [c EXCEPT !.sticky = [f \in Flags |->
                            IF f = CapsLock THEN NoCount[f] ELSE c.sticky[f]]]

\* erase_all_sticky_modifier_flags()
EraseAllSticky(c) == [c EXCEPT !.sticky = NoCount]

-----------------------------------------------------------------------------
(* The queries.                                                            *)

TotalCount(c, f) ==
    MapThenSumSet(LAMBDA d : c.plain[f][d] + c.lock[f][d] + c.sticky[f][d], DeviceIds)

\* Some entry other than a led lock exists for f (size # 0 in is_pressed).
HasEntry(c, f) ==
    \E d \in DeviceIds : c.plain[f][d] # 0 \/ c.lock[f][d] # 0 \/ c.sticky[f][d] # 0

\* is_pressed: a led lock counts only while no other entry of the flag exists.
IsPressed(c, f) == IF HasEntry(c, f) THEN TotalCount(c, f) > 0 ELSE f \in c.led

\* make_modifier_flags()
PressedFlags(c) == {f \in Flags : IsPressed(c, f)}

\* sticky_size(f) > 0
HasSticky(c, f) == \E d \in DeviceIds : c.sticky[f][d] # 0

-----------------------------------------------------------------------------
VARIABLE counts

CountsInit == counts = Empty

Bounded(n) == n \in -MaxCount .. MaxCount

\* One call of a method of modifier_flag_manager that changes its entries.
CountsPush(f, d, delta) ==
    \/ /\ Bounded(counts.plain[f][d] + delta)
       /\ counts' = PushPlain(counts, f, d, delta)
    \/ /\ Bounded(counts.sticky[f][d] + delta)
       /\ counts' = PushSticky(counts, f, d, delta)
    \/ counts' = PushLock(counts, f, d, delta)

CountsPushLed(f) == \E on \in BOOLEAN : counts' = PushLed(counts, f, on)

CountsErase(d) ==
    \/ counts' = EraseAll(counts, d)
    \/ counts' = EraseAllExceptLockAndSticky(counts, d)

CountsEraseSticky ==
    \/ counts' = EraseCapsLockSticky(counts)
    \/ counts' = EraseAllSticky(counts)

CountsReset == counts' = Empty

CountsNext ==
    \/ \E f \in Flags, d \in DeviceIds, delta \in {-1, 1} : CountsPush(f, d, delta)
    \/ \E f \in Flags : CountsPushLed(f)
    \/ \E d \in DeviceIds : CountsErase(d)
    \/ CountsEraseSticky
    \/ CountsReset

CountsSpec == CountsInit /\ [][CountsNext]_counts

=============================================================================
