--------------------------- MODULE ModifierFlagList ---------------------------
(***************************************************************************)
(* share/modifier_flag_manager.hpp as it is written: a vector of           *)
(* active_modifier_flag entries to which a method call pushes one entry    *)
(* and from which erase_pairs, remove_if and clear take entries away.      *)
(***************************************************************************)
EXTENDS Integers, Sequences, FiniteSets, FiniteSetsExt, IndexedSequences

CONSTANTS
    Flags, CapsLock, DeviceIds, MaxCount,  \* as in ModifierFlagCounts
    DeviceZero,  \* device_id(0), which owns every led_lock entry
    MaxEntries   \* bound on the length of the vector

ASSUME ListAssumption ==
    /\ CapsLock \in Flags
    /\ IsFiniteSet(DeviceIds)
    /\ DeviceZero \notin DeviceIds
    /\ MaxCount \in Nat \ {0}
    /\ MaxEntries \in Nat

VARIABLE active_modifier_flags

Kinds == {"plain", "lock", "led_lock", "sticky"}

\* Mutant: a led_lock entry keeps the device it was made for.
EntryKeepsDevice(kind, flag, device, count) ==
    [kind |-> kind, flag |-> flag, device |-> device, count |-> count]

\* active_modifier_flag: the eight types are a kind and a direction
\* (get_count: +1 for increase types, -1 for decrease types).
Entry(kind, flag, device, count) ==
    [kind |-> kind, flag |-> flag,
     device |-> IF kind = "led_lock" THEN DeviceZero ELSE device,
     count |-> count]

\* decrease_led_lock is never stored.
Entries == [kind : Kinds \ {"led_lock"}, flag : Flags, device : DeviceIds, count : {-1, 1}]
            \cup [kind : {"led_lock"}, flag : Flags, device : {DeviceZero}, count : {1}]

\* Mutant: the device is ignored, as active_pointing_button::is_paired does.
IsPairedAnyDevice(a, b) ==
    /\ a.kind = b.kind
    /\ a.count = -b.count
    /\ a.flag = b.flag

\* is_paired: inverse types of the same flag and the same device.
IsPaired(a, b) ==
    /\ a.kind = b.kind
    /\ a.count = -b.count
    /\ a.flag = b.flag
    /\ a.device = b.device

\* One round of the outer loop of erase_pairs, at index i of the vector v: the
\* entry there is erased with the first later one that it is paired with.  The
\* loop goes on at the same index, but after an erase at index 0 at index 1.
ErasePairsRound(c) ==
    LET paired == {j \in c.i + 1 .. Len(c.v) : IsPaired(c.v[c.i], c.v[j])}
    IN  CASE c.i > Len(c.v) -> c
          [] c.i <= Len(c.v) /\ paired = {} -> [c EXCEPT !.i = @ + 1]
          [] OTHER -> [v |-> AtIndexes(c.v, DOMAIN c.v \ {c.i, Min(paired)}),
                       i |-> IF c.i > 1 THEN c.i ELSE 2]

\* erase_pairs(): a round moves on by one entry or leaves two entries less, so
\* that as many rounds as there are entries end the loop.
ErasePairs(s) ==
    LET loop[n \in 0 .. Len(s)] ==
            IF n = 0 THEN [v |-> s, i |-> 1] ELSE ErasePairsRound(loop[n - 1])
    IN  loop[Len(s)].v

\* remove_if: what is left, in its order.
Without(s, Drop(_)) == FilterIndexes(s, LAMBDA i : ~Drop(s[i]))

\* Mutant: the pairs of sticky entries are not erased.
PushBackKeepsStickyPairs(s, e) ==
    CASE e.kind = "sticky" -> Append(s, e)
      [] e.kind = "plain" -> ErasePairs(Append(s, e))
      [] e.kind = "lock" \/ (e.kind = "led_lock" /\ e.count = 1) ->
            ErasePairs(Append(Without(s, LAMBDA x : x = e), e))
      [] OTHER -> Without(s, LAMBDA x : IsPaired(x, e))

\* Mutant: equal lock entries are not removed before the push.
PushBackKeepsEqualLocks(s, e) ==
    CASE e.kind # "led_lock" -> ErasePairs(Append(s, e))
      [] e.kind = "led_lock" /\ e.count = 1 ->
            ErasePairs(Append(Without(s, LAMBDA x : x = e), e))
      [] OTHER -> Without(s, LAMBDA x : IsPaired(x, e))

\* push_back_active_modifier_flag(flag)
PushBack(s, e) ==
    CASE e.kind \in {"plain", "sticky"} -> ErasePairs(Append(s, e))
      [] e.kind = "lock" \/ (e.kind = "led_lock" /\ e.count = 1) ->
            ErasePairs(Append(Without(s, LAMBDA x : x = e), e))
      [] OTHER -> Without(s, LAMBDA x : IsPaired(x, e))

-----------------------------------------------------------------------------
SumCounts(s, I) == MapThenSumSet(LAMBDA i : s[i].count, I)

\* Mutant: a led_lock entry counts like any other.
is_pressed_with_led(s, f) == SumCounts(s, {i \in DOMAIN s : s[i].flag = f}) > 0

\* is_pressed(modifier_flag)
is_pressed(s, f) ==
    LET own == {i \in DOMAIN s : s[i].flag = f}
        led == {i \in own : s[i].kind = "led_lock"}
        others == own \ led
    IN  IF others = {} THEN SumCounts(s, led) > 0 ELSE SumCounts(s, others) > 0

\* sticky_size(modifier_flag)
sticky_size(s, f) == Cardinality({i \in DOMAIN s : s[i].flag = f /\ s[i].kind = "sticky"})

-----------------------------------------------------------------------------
\* How often the vector s holds the entry e.
NumEntries(s, e) == Cardinality({i \in DOMAIN s : s[i] = e})

Init == active_modifier_flags = <<>>

Push(kind, f, d, count) ==
    LET e == Entry(kind, f, d, count)
    IN  /\ NumEntries(active_modifier_flags, e) < MaxCount
        /\ Len(PushBack(active_modifier_flags, e)) <= MaxEntries
        /\ active_modifier_flags' = PushBack(active_modifier_flags, e)

EraseAllActive(d) ==
    active_modifier_flags' = Without(active_modifier_flags, LAMBDA e : e.device = d)

EraseAllActiveExceptLockAndSticky(d) ==
    active_modifier_flags' =
        Without(active_modifier_flags, LAMBDA e : e.device = d /\ e.kind = "plain")

EraseCapsLockStickyFlags ==
    active_modifier_flags' =
        Without(active_modifier_flags, LAMBDA e : e.flag = CapsLock /\ e.kind = "sticky")

EraseAllStickyFlags ==
    active_modifier_flags' = Without(active_modifier_flags, LAMBDA e : e.kind = "sticky")

Reset == active_modifier_flags' = <<>>

Next ==
    \/ \E kind \in Kinds, f \in Flags, d \in DeviceIds, count \in {-1, 1} :
            Push(kind, f, d, count)
    \/ \E d \in DeviceIds : EraseAllActive(d)
    \/ \E d \in DeviceIds : EraseAllActiveExceptLockAndSticky(d)
    \/ EraseCapsLockStickyFlags
    \/ EraseAllStickyFlags
    \/ Reset

Spec == Init /\ [][Next]_active_modifier_flags

-----------------------------------------------------------------------------
TypeOK == active_modifier_flags \in Seq(Entries)

(* erase_pairs leaves no two inverse entries behind, although its loop     *)
(* skips index 0 after an erase there: an increase and a decrease of one   *)
(* flag and device never survive together, so is_pressed cannot be kept up *)
(* (or down) by a stale pair.                                              *)
NoPairSurvives ==
    \A i, j \in DOMAIN active_modifier_flags :
        ~IsPaired(active_modifier_flags[i], active_modifier_flags[j])

NetCount(s, kind, f, d) ==
    NumEntries(s, Entry(kind, f, d, 1)) - NumEntries(s, Entry(kind, f, d, -1))

NetCounts(s, kind) == [f \in Flags |-> [d \in DeviceIds |-> NetCount(s, kind, f, d)]]

\* The net counts the vector s stands for.
CountsOf(s) ==
    [plain |-> NetCounts(s, "plain"), lock |-> NetCounts(s, "lock"),
     sticky |-> NetCounts(s, "sticky"),
     led |-> {f \in Flags : NetCount(s, "led_lock", f, DeviceZero) > 0}]

CountsOfList == CountsOf(active_modifier_flags)

Abstract == INSTANCE ModifierFlagCounts WITH counts <- CountsOfList

(* The list answers every query as the net counts do: is_pressed and       *)
(* sticky_size of the vector agree with the counting specification the     *)
(* posting stage is modelled with.                                         *)
QueriesAgree ==
    \A f \in Flags :
        /\ is_pressed(active_modifier_flags, f) <=> Abstract!IsPressed(CountsOfList, f)
        /\ (sticky_size(active_modifier_flags, f) > 0) <=> Abstract!HasSticky(CountsOfList, f)

(* The vector implements the counting specification: no sequence of calls  *)
(* takes it to counts that the specification cannot reach by one step.     *)
ImplementsCounts == Abstract!CountsSpec

CountsAfterPush(kind, f, d, count) ==
    CASE kind = "plain" -> Abstract!PushPlain(CountsOfList, f, d, count)
      [] kind = "sticky" -> Abstract!PushSticky(CountsOfList, f, d, count)
      [] kind = "lock" -> Abstract!PushLock(CountsOfList, f, d, count)
      [] kind = "led_lock" -> Abstract!PushLed(CountsOfList, f, count = 1)

(* Moreover each call does to the counts what the same call of the         *)
(* specification does: pair cancelling and the removal of equal entries    *)
(* charge the flag and the device of the call and no other.                *)
CallsAgree ==
    [][/\ \A kind \in Kinds, f \in Flags, d \in DeviceIds, count \in {-1, 1} :
            Push(kind, f, d, count) => CountsOfList' = CountsAfterPush(kind, f, d, count)
       /\ \A d \in DeviceIds :
            /\ EraseAllActive(d) => CountsOfList' = Abstract!EraseAll(CountsOfList, d)
            /\ EraseAllActiveExceptLockAndSticky(d)
                    => CountsOfList' = Abstract!EraseAllExceptLockAndSticky(CountsOfList, d)
       /\ EraseCapsLockStickyFlags => CountsOfList' = Abstract!EraseCapsLockSticky(CountsOfList)
       /\ EraseAllStickyFlags => CountsOfList' = Abstract!EraseAllSticky(CountsOfList)
      ]_active_modifier_flags

=============================================================================
