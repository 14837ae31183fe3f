--------------------------- MODULE PostEventProofs ---------------------------
(***************************************************************************)
(* Proofs about PostEventToVirtualDevices for every set of devices, flags, *)
(* keys and buttons.  The inductive invariant adds to the checked          *)
(* invariants that the only led lock is caps_lock's.                       *)
(***************************************************************************)
EXTENDS PostEventToVirtualDevices, TLAPS

-----------------------------------------------------------------------------
(* The dispatcher's operators.                                             *)

KeysMatch(o) ==
    /\ o.keys = {u \in Keys : key_event_exists(o, u)}
    /\ \A p, q \in o.pressed_keys : p[2] = q[2] => p = q

OutputOK(o) ==
    /\ o \in Output
    /\ KeysMatch(o)
    /\ o.modifiers = o.pressed_modifier_flags \ {CapsLock}
    /\ o.repeating # NoKey => o.repeating \in o.keys

\* dispatch_key_down_event keeps report, owners and repeat detector consistent.
LEMMA KeyDownOK ==
    ASSUME NEW o, OutputOK(o), NEW d \in DeviceIds, NEW u \in Keys
    PROVE  /\ OutputOK(dispatch_key_down_event(o, d, u))
           /\ dispatch_key_down_event(o, d, u).pressed_keys \subseteq o.pressed_keys \cup {<<d, u>>}
<1> DEFINE n == dispatch_key_down_event(o, d, u)
<1>1. CASE key_event_exists(o, u)
  BY <1>1 DEF dispatch_key_down_event
<1>2. CASE ~key_event_exists(o, u)
  <2>0. n = [o EXCEPT !.pressed_keys = @ \cup {<<d, u>>},
                      !.keys = @ \cup {u},
                      !.repeating = u]
    BY <1>2 DEF dispatch_key_down_event
  <2> HIDE DEF n
  <2>1. /\ n.pressed_keys = o.pressed_keys \cup {<<d, u>>}
        /\ n.keys = o.keys \cup {u}
        /\ n.repeating = u
        /\ n.modifiers = o.modifiers
        /\ n.pressed_modifier_flags = o.pressed_modifier_flags
        /\ n \in Output
    <3>1. o \in Output
      BY DEF OutputOK
    <3>2. o.pressed_keys \cup {<<d, u>>} \in SUBSET (DeviceIds \X Keys)
      BY <3>1 DEF Output
    <3> QED BY <2>0, <3>1, <3>2 DEF Output
  <2>2. n.keys = {k \in Keys : key_event_exists(n, k)}
    BY <2>1 DEF OutputOK, KeysMatch, key_event_exists, Output
  <2>3. \A p, q \in n.pressed_keys : p[2] = q[2] => p = q
    BY <1>2, <2>1 DEF OutputOK, KeysMatch, key_event_exists, Output
  <2>4. OutputOK(n) /\ n.pressed_keys \subseteq o.pressed_keys \cup {<<d, u>>}
    BY <2>1, <2>2, <2>3 DEF OutputOK, KeysMatch
  <2> QED BY <2>4 DEF n
<1> QED BY <1>1, <1>2

\* Releasing any set of keys does, and takes no owner it should not.
LEMMA ReleaseKeysOK ==
    ASSUME NEW o, OutputOK(o), NEW us \in SUBSET Keys
    PROVE  /\ OutputOK(ReleaseKeys(o, us))
           /\ ReleaseKeys(o, us).pressed_keys = {p \in o.pressed_keys : p[2] \notin us}
           /\ ReleaseKeys(o, us).pressed_modifier_flags = o.pressed_modifier_flags
<1> DEFINE n == ReleaseKeys(o, us)
<1>1. /\ n.pressed_keys = {p \in o.pressed_keys : p[2] \notin us}
      /\ n.keys = o.keys \ us
      /\ n.repeating = IF o.repeating \in us THEN NoKey ELSE o.repeating
      /\ n.modifiers = o.modifiers
      /\ n.pressed_modifier_flags = o.pressed_modifier_flags
      /\ n \in Output
  BY DEF ReleaseKeys, OutputOK, Output
<1>2. n.keys = {k \in Keys : key_event_exists(n, k)}
  BY <1>1 DEF OutputOK, KeysMatch, key_event_exists, Output
<1>3. \A p, q \in n.pressed_keys : p[2] = q[2] => p = q
  BY <1>1 DEF OutputOK, KeysMatch
<1>4. n.repeating # NoKey => n.repeating \in n.keys
  BY <1>1 DEF OutputOK
<1> QED BY <1>1, <1>2, <1>3, <1>4 DEF OutputOK, KeysMatch

\* dispatch_key_up_event, also for NoKey, which is never down.
LEMMA KeyUpOK ==
    ASSUME NEW o, OutputOK(o), NEW u \in Keys \cup {NoKey}
    PROVE  /\ OutputOK(dispatch_key_up_event(o, u))
           /\ dispatch_key_up_event(o, u).pressed_keys \subseteq o.pressed_keys
           /\ dispatch_key_up_event(o, u).pressed_modifier_flags = o.pressed_modifier_flags
<1>1. CASE key_event_exists(o, u)
  <2>1. u \in Keys
    BY <1>1, PostAssumption DEF key_event_exists, OutputOK, Output
  <2> QED BY <1>1, <2>1, ReleaseKeysOK DEF dispatch_key_up_event
<1>2. CASE ~key_event_exists(o, u)
  BY <1>2 DEF dispatch_key_up_event
<1> QED BY <1>1, <1>2

\* After dispatch_key_up_event(o, u) nobody owns u.
LEMMA KeyUpReleases ==
    ASSUME NEW o, OutputOK(o), NEW u \in Keys
    PROVE  ~key_event_exists(dispatch_key_up_event(o, u), u)
<1>1. CASE key_event_exists(o, u)
  <2>1. dispatch_key_up_event(o, u) = ReleaseKeys(o, {u})
    BY <1>1 DEF dispatch_key_up_event
  <2>2. ReleaseKeys(o, {u}).pressed_keys = {p \in o.pressed_keys : p[2] \notin {u}}
    BY ReleaseKeysOK
  <2>3. ASSUME NEW e \in DeviceIds PROVE <<e, u>> \notin ReleaseKeys(o, {u}).pressed_keys
    BY <2>2
  <2> QED BY <2>1, <2>3 DEF key_event_exists
<1>2. CASE ~key_event_exists(o, u)
  BY <1>2 DEF dispatch_key_up_event
<1> QED BY <1>1, <1>2

\* Sending the modifiers keeps everything consistent, and afterwards exactly
\* the pressed flags count as sent.
LEMMA DispatchFlagsOK ==
    ASSUME NEW o, OutputOK(o), NEW fs \in SUBSET Flags
    PROVE  /\ OutputOK(DispatchFlags(o, fs))
           /\ DispatchFlags(o, fs).pressed_keys \subseteq o.pressed_keys
           /\ DispatchFlags(o, fs).pressed_modifier_flags = fs
<1> DEFINE old == o.pressed_modifier_flags
           sent == [o EXCEPT !.pressed_modifier_flags = fs,
                             !.modifiers = (@ \cup (fs \ (old \cup {CapsLock}))) \ (old \ fs)]
<1>1. /\ sent.pressed_modifier_flags = fs
      /\ sent.modifiers = (o.modifiers \cup (fs \ (old \cup {CapsLock}))) \ (old \ fs)
      /\ sent.pressed_keys = o.pressed_keys
      /\ sent.keys = o.keys
      /\ sent.repeating = o.repeating
      /\ sent \in Output
  BY CountsAssumption DEF OutputOK, Output, Modifiers
<1>2. sent.modifiers = fs \ {CapsLock}
  BY <1>1 DEF OutputOK
<1>3. OutputOK(sent)
  BY <1>1, <1>2 DEF OutputOK, KeysMatch, key_event_exists
<1> HIDE DEF sent
<1> DEFINE up == dispatch_key_up_event(sent, CapsKey)
           tap == TapCapsLock(up)
<1>4. /\ OutputOK(up)
      /\ up.pressed_keys \subseteq o.pressed_keys
      /\ up.pressed_modifier_flags = fs
      /\ ~key_event_exists(up, CapsKey)
  BY <1>1, <1>3, KeyUpOK, KeyUpReleases, PostAssumption
<1> HIDE DEF up
<1>5. /\ tap.pressed_keys = up.pressed_keys
      /\ tap.keys = up.keys
      /\ tap.repeating = NoKey
      /\ tap.modifiers = up.modifiers
      /\ tap.pressed_modifier_flags = up.pressed_modifier_flags
      /\ tap \in Output
  <2>1. up \in Output /\ CapsKey \notin up.keys
    BY <1>4 DEF OutputOK, KeysMatch
  <2> QED BY <2>1 DEF TapCapsLock, Output
<1>6. OutputOK(tap)
  BY <1>4, <1>5 DEF OutputOK, KeysMatch, key_event_exists
<1>7. DispatchFlags(o, fs) \in {sent, tap}
  BY DEF DispatchFlags, sent, up, tap
<1> QED BY <1>1, <1>3, <1>4, <1>5, <1>6, <1>7

-----------------------------------------------------------------------------
(* modifier_flag_manager's operators.                                      *)

\* make_modifier_flags returns modifier flags.
LEMMA PressedFlagsType == \A c : PressedFlags(c) \in SUBSET Flags
BY DEF PressedFlags

\* d has no entry in c.
NoEntry(c, d) ==
    \A f \in Flags : c.plain[f][d] = 0 /\ c.lock[f][d] = 0 /\ c.sticky[f][d] = 0

CountsOK(c) == c \in Counts /\ c.led \subseteq {CapsLock}

\* With no entry of any device the led lock of caps_lock is all that is left.
LEMMA NothingPressed ==
    ASSUME NEW c, CountsOK(c), \A d \in DeviceIds : NoEntry(c, d)
    PROVE  PressedFlags(c) \subseteq {CapsLock}
<1> SUFFICES ASSUME NEW f \in Flags, IsPressed(c, f) PROVE f = CapsLock
  BY DEF PressedFlags
<1>1. ~HasEntry(c, f)
  BY DEF NoEntry, HasEntry
<1> QED BY <1>1 DEF IsPressed, CountsOK

\* After reset() no device has an entry.
LEMMA EmptyOK == CountsOK(Empty) /\ \A d \in DeviceIds : NoEntry(Empty, d)
BY DEF CountsOK, Empty, Counts, PerDevice, NoCount, NoEntry

\* A led lock entry belongs to no device.
LEMMA PushLedOK ==
    ASSUME NEW c, CountsOK(c), NEW on \in BOOLEAN
    PROVE  /\ CountsOK(PushLed(c, CapsLock, on))
           /\ \A e \in DeviceIds : NoEntry(c, e) => NoEntry(PushLed(c, CapsLock, on), e)
BY CountsAssumption DEF CountsOK, PushLed, Counts, NoEntry

\* Erasing all sticky entries leaves every count at zero.
LEMMA NoCountOK ==
    NoCount \in PerDevice /\ \A f \in Flags, d \in DeviceIds : NoCount[f][d] = 0
BY DEF NoCount, PerDevice

\* Erasing a device clears its counts and touches no other device.
LEMMA EraseDeviceOK ==
    ASSUME NEW g \in PerDevice, NEW d \in DeviceIds
    PROVE  /\ EraseDevice(g, d) \in PerDevice
           /\ \A f \in Flags, e \in DeviceIds :
                EraseDevice(g, d)[f][e] = IF e = d THEN 0 ELSE g[f][e]
BY DEF EraseDevice, PerDevice

\* The fields of a record of counts put together from the four kinds.
LEMMA KindsOK ==
    ASSUME NEW p \in PerDevice, NEW k \in PerDevice, NEW s \in PerDevice, NEW l \in SUBSET Flags,
           NEW n, n = [plain |-> p, lock |-> k, sticky |-> s, led |-> l]
    PROVE  n \in Counts /\ n.plain = p /\ n.lock = k /\ n.sticky = s /\ n.led = l
BY DEF Counts

\* An increase or decrease only touches the device's own entries.
LEMMA PushPlainOK ==
    ASSUME NEW c, CountsOK(c), NEW f \in Flags, NEW d \in DeviceIds, NEW delta \in {-1, 1}
    PROVE  /\ CountsOK(PushPlain(c, f, d, delta))
           /\ \A e \in DeviceIds \ {d} : NoEntry(c, e) => NoEntry(PushPlain(c, f, d, delta), e)
<1> DEFINE g == [c.plain EXCEPT ![f][d] = @ + delta]
<1>1. c \in Counts /\ c.plain \in PerDevice /\ c.lock \in PerDevice /\ c.sticky \in PerDevice
  BY DEF CountsOK, Counts
<1>2. g \in PerDevice /\ \A h \in Flags, e \in DeviceIds \ {d} : g[h][e] = c.plain[h][e]
  BY <1>1 DEF PerDevice
<1> HIDE DEF g
<1> DEFINE n == PushPlain(c, f, d, delta)
<1>3. n = [plain |-> g, lock |-> c.lock, sticky |-> c.sticky, led |-> c.led]
  BY <1>1 DEF PushPlain, Counts, g
<1> HIDE DEF n
<1>4. n \in Counts /\ n.plain = g /\ n.lock = c.lock /\ n.sticky = c.sticky /\ n.led = c.led
  BY <1>1, <1>2, <1>3, KindsOK DEF CountsOK, Counts
<1>5. CountsOK(n) /\ \A e \in DeviceIds \ {d} : NoEntry(c, e) => NoEntry(n, e)
  BY <1>2, <1>4 DEF CountsOK, NoEntry
<1> QED BY <1>5 DEF n

\* So does a sticky one.
LEMMA PushStickyOK ==
    ASSUME NEW c, CountsOK(c), NEW f \in Flags, NEW d \in DeviceIds, NEW delta \in {-1, 1}
    PROVE  /\ CountsOK(PushSticky(c, f, d, delta))
           /\ \A e \in DeviceIds \ {d} : NoEntry(c, e) => NoEntry(PushSticky(c, f, d, delta), e)
<1> DEFINE g == [c.sticky EXCEPT ![f][d] = @ + delta]
<1>1. c \in Counts /\ c.plain \in PerDevice /\ c.lock \in PerDevice /\ c.sticky \in PerDevice
  BY DEF CountsOK, Counts
<1>2. g \in PerDevice /\ \A h \in Flags, e \in DeviceIds \ {d} : g[h][e] = c.sticky[h][e]
  BY <1>1 DEF PerDevice
<1> HIDE DEF g
<1> DEFINE n == PushSticky(c, f, d, delta)
<1>3. n = [plain |-> c.plain, lock |-> c.lock, sticky |-> g, led |-> c.led]
  BY <1>1 DEF PushSticky, Counts, g
<1> HIDE DEF n
<1>4. n \in Counts /\ n.sticky = g /\ n.plain = c.plain /\ n.lock = c.lock /\ n.led = c.led
  BY <1>1, <1>2, <1>3, KindsOK DEF CountsOK, Counts
<1>5. CountsOK(n) /\ \A e \in DeviceIds \ {d} : NoEntry(c, e) => NoEntry(n, e)
  BY <1>2, <1>4 DEF CountsOK, NoEntry
<1> QED BY <1>5 DEF n

\* No erasure gives a device an entry.
LEMMA EraseOK ==
    ASSUME NEW c, CountsOK(c), NEW d \in DeviceIds
    PROVE  /\ CountsOK(EraseAll(c, d))
           /\ CountsOK(EraseAllExceptLockAndSticky(c, d))
           /\ CountsOK(EraseCapsLockSticky(c))
           /\ CountsOK(EraseAllSticky(c))
           /\ NoEntry(EraseAll(c, d), d)
           /\ \A e \in DeviceIds : NoEntry(c, e) =>
                /\ NoEntry(EraseAll(c, d), e)
                /\ NoEntry(EraseAllExceptLockAndSticky(c, d), e)
                /\ NoEntry(EraseCapsLockSticky(c), e)
                /\ NoEntry(EraseAllSticky(c), e)
<1>1. c \in Counts /\ c.plain \in PerDevice /\ c.lock \in PerDevice /\ c.sticky \in PerDevice
      /\ c.led \in SUBSET Flags /\ c.led \subseteq {CapsLock}
  BY DEF CountsOK, Counts
<1>2. /\ CountsOK(EraseAll(c, d))
      /\ \A e \in DeviceIds : NoEntry(c, e) => NoEntry(EraseAll(c, d), e)
      /\ NoEntry(EraseAll(c, d), d)
  <2> DEFINE n == EraseAll(c, d)
             p == EraseDevice(c.plain, d)
             k == EraseDevice(c.lock, d)
             s == EraseDevice(c.sticky, d)
  <2>1. n = [plain |-> p, lock |-> k, sticky |-> s, led |-> c.led]
    <3> HIDE DEF p, k, s
    <3>1. n = [c EXCEPT !.plain = p, !.lock = k, !.sticky = s]
      BY DEF EraseAll, p, k, s
    <3> HIDE DEF n
    <3> QED BY <1>1, <3>1 DEF Counts
  <2> HIDE DEF n
  <2>2. n \in Counts /\ n.plain = p /\ n.lock = k /\ n.sticky = s /\ n.led = c.led
    <3>1. p \in PerDevice /\ k \in PerDevice /\ s \in PerDevice
      BY <1>1, EraseDeviceOK
    <3> HIDE DEF p, k, s
    <3> QED BY <1>1, <2>1, <3>1, KindsOK
  <2>3. \A f \in Flags, e \in DeviceIds :
            /\ p[f][e] = IF e = d THEN 0 ELSE c.plain[f][e]
            /\ k[f][e] = IF e = d THEN 0 ELSE c.lock[f][e]
            /\ s[f][e] = IF e = d THEN 0 ELSE c.sticky[f][e]
    BY <1>1, EraseDeviceOK, SMTT(30)
  <2> HIDE DEF p, k, s
  <2>4. /\ CountsOK(n) /\ NoEntry(n, d)
        /\ \A e \in DeviceIds : NoEntry(c, e) => NoEntry(n, e)
    BY <1>1, <2>2, <2>3 DEF CountsOK, NoEntry
  <2> QED BY <2>4 DEF n
<1>3. /\ CountsOK(EraseAllExceptLockAndSticky(c, d))
      /\ \A e \in DeviceIds : NoEntry(c, e) => NoEntry(EraseAllExceptLockAndSticky(c, d), e)
  <2> DEFINE n == EraseAllExceptLockAndSticky(c, d)
             p == EraseDevice(c.plain, d)
  <2>1. n \in Counts /\ n.plain = p /\ n.lock = c.lock /\ n.sticky = c.sticky /\ n.led = c.led
    BY <1>1, EraseDeviceOK DEF EraseAllExceptLockAndSticky, Counts
  <2>2. \A f \in Flags, e \in DeviceIds : p[f][e] = IF e = d THEN 0 ELSE c.plain[f][e]
    BY <1>1, EraseDeviceOK
  <2> HIDE DEF n, p
  <2>3. CountsOK(n) /\ \A e \in DeviceIds : NoEntry(c, e) => NoEntry(n, e)
    BY <1>1, <2>1, <2>2 DEF CountsOK, NoEntry
  <2> QED BY <2>3 DEF n
<1>4. /\ CountsOK(EraseCapsLockSticky(c))
      /\ \A e \in DeviceIds : NoEntry(c, e) => NoEntry(EraseCapsLockSticky(c), e)
  <2> DEFINE n == EraseCapsLockSticky(c)
             s == [f \in Flags |-> IF f = CapsLock THEN NoCount[f] ELSE c.sticky[f]]
  <2>1. /\ s \in PerDevice
        /\ \A f \in Flags, e \in DeviceIds : c.sticky[f][e] = 0 => s[f][e] = 0
    BY <1>1, NoCountOK DEF PerDevice
  <2>2. n = [c EXCEPT !.sticky = s]
    BY DEF EraseCapsLockSticky
  <2> HIDE DEF n, s
  <2>3. n \in Counts /\ n.plain = c.plain /\ n.lock = c.lock /\ n.sticky = s /\ n.led = c.led
    BY <1>1, <2>1, <2>2 DEF Counts
  <2>4. CountsOK(n) /\ \A e \in DeviceIds : NoEntry(c, e) => NoEntry(n, e)
    BY <1>1, <2>1, <2>3 DEF CountsOK, NoEntry
  <2> QED BY <2>4 DEF n
<1>5. /\ CountsOK(EraseAllSticky(c))
      /\ \A e \in DeviceIds : NoEntry(c, e) => NoEntry(EraseAllSticky(c), e)
  <2> DEFINE n == EraseAllSticky(c)
  <2>1. n \in Counts /\ n.plain = c.plain /\ n.lock = c.lock /\ n.sticky = NoCount /\ n.led = c.led
    BY <1>1, NoCountOK DEF EraseAllSticky, Counts
  <2> HIDE DEF n
  <2>2. CountsOK(n) /\ \A e \in DeviceIds : NoEntry(c, e) => NoEntry(n, e)
    BY <1>1, <2>1, NoCountOK DEF CountsOK, NoEntry
  <2> QED BY <2>2 DEF n
<1> QED BY <1>2, <1>3, <1>4, <1>5

-----------------------------------------------------------------------------
(* The inductive invariant.                                                *)

NoKeys(o, d) == \A u \in Keys : <<d, u>> \notin o.pressed_keys

NoButtons(bs, d) == \A b \in Buttons : <<d, b>> \notin bs

PointingOK(bs, pbs) == bs \in SUBSET (DeviceIds \X Buttons) /\ pbs = make_hid_report_buttons(bs)

UntouchedOK ==
    \A d \in DeviceIds \ touched :
        NoEntry(counts, d) /\ NoKeys(out, d) /\ NoButtons(buttons, d) /\ d \notin mouse_keys

IInv ==
    /\ CountsOK(counts)
    /\ OutputOK(out)
    /\ PointingOK(buttons, pressed_buttons)
    /\ mouse_keys \in SUBSET DeviceIds
    /\ touched \in SUBSET DeviceIds
    /\ UntouchedOK
    /\ touched = {} => out.modifiers = {}

\* The modifiers a dispatch leaves in the report are the pressed ones.
LEMMA DispatchOK ==
    ASSUME NEW o, OutputOK(o), NEW c
    PROVE  /\ OutputOK(dispatch_modifier_key_event(o, c))
           /\ dispatch_modifier_key_event(o, c).pressed_keys \subseteq o.pressed_keys
           /\ dispatch_modifier_key_event(o, c).modifiers = PressedFlags(c) \ {CapsLock}
<1>1. PressedFlags(c) \in SUBSET Flags
  BY PressedFlagsType
<1> DEFINE fs == PressedFlags(c)
           n == DispatchFlags(o, fs)
<1> HIDE DEF fs
<1>2. OutputOK(n) /\ n.pressed_keys \subseteq o.pressed_keys /\ n.pressed_modifier_flags = fs
  BY <1>1, DispatchFlagsOK DEF fs
<1>3. n.modifiers = fs \ {CapsLock}
  BY <1>2 DEF OutputOK
<1> QED BY <1>2, <1>3 DEF dispatch_modifier_key_event, fs

\* Erasing a device's buttons removes all of them and adds none.
LEMMA EraseButtonsOK ==
    ASSUME NEW bs \in SUBSET (DeviceIds \X Buttons), NEW d \in DeviceIds
    PROVE  /\ EraseButtons(bs, d) \in SUBSET (DeviceIds \X Buttons)
           /\ NoButtons(EraseButtons(bs, d), d)
           /\ \A e \in DeviceIds : NoButtons(bs, e) => NoButtons(EraseButtons(bs, d), e)
BY DEF EraseButtons, NoButtons

\* Pressing or releasing a button gives no other device a button.
LEMMA PushButtonOK ==
    ASSUME NEW bs \in SUBSET (DeviceIds \X Buttons), NEW d \in DeviceIds, NEW b \in Buttons,
           NEW down \in BOOLEAN
    PROVE  /\ PushButton(bs, d, b, down) \in SUBSET (DeviceIds \X Buttons)
           /\ \A e \in DeviceIds \ {d} : NoButtons(bs, e) => NoButtons(PushButton(bs, d, b, down), e)
BY DEF PushButton, NoButtons

\* A device without keys gets none from a smaller set of pressed keys.
LEMMA NoKeysShrink ==
    ASSUME NEW o, NEW n, n.pressed_keys \subseteq o.pressed_keys
    PROVE  \A e \in DeviceIds : NoKeys(o, e) => NoKeys(n, e)
BY DEF NoKeys

\* What an event of device d has to keep: the rest of IInv' follows.
LEMMA TouchStep ==
    ASSUME IInv, NEW d \in DeviceIds, Touch(d),
           CountsOK(counts'), OutputOK(out'), PointingOK(buttons', pressed_buttons'),
           mouse_keys' \in SUBSET DeviceIds,
           \A e \in DeviceIds \ {d} :
                /\ NoEntry(counts, e) => NoEntry(counts', e)
                /\ NoKeys(out, e) => NoKeys(out', e)
                /\ NoButtons(buttons, e) => NoButtons(buttons', e)
                /\ e \notin mouse_keys => e \notin mouse_keys'
    PROVE  IInv'
<1>1. touched' \in SUBSET DeviceIds /\ touched' # {}
  BY DEF Touch, IInv
<1>2. UntouchedOK'
  BY DEF Touch, IInv, UntouchedOK
<1> QED BY <1>1, <1>2 DEF IInv

\* An event whose only effect on the dispatcher is to send the modifiers or nothing.
LEMMA MaybeDispatchOK ==
    ASSUME IInv, NEW c, out' = out \/ out' = dispatch_modifier_key_event(out, c)
    PROVE  OutputOK(out') /\ \A e \in DeviceIds : NoKeys(out, e) => NoKeys(out', e)
<1>1. OutputOK(out)
  BY DEF IInv
<1>2. CASE out' = out
  BY <1>1, <1>2
<1>3. CASE out' = dispatch_modifier_key_event(out, c)
  BY <1>1, <1>3, DispatchOK, NoKeysShrink
<1> QED BY <1>2, <1>3

-----------------------------------------------------------------------------
(* One lemma per action.                                                   *)

\* A key_down preserves the inductive invariant.
LEMMA KeyDownStep ==
    ASSUME IInv, NEW d \in DeviceIds, NEW u \in Keys, KeyDown(d, u) PROVE IInv'
<1> DEFINE o == dispatch_modifier_key_event(out, counts)
<1>1. OutputOK(out) /\ CountsOK(counts)
  BY DEF IInv
<1>2. OutputOK(o) /\ o.pressed_keys \subseteq out.pressed_keys
  BY <1>1, DispatchOK
<1>3. out' = dispatch_key_down_event(o, d, u)
  BY DEF KeyDown
<1> HIDE DEF o
<1>4. OutputOK(out') /\ out'.pressed_keys \subseteq out.pressed_keys \cup {<<d, u>>}
  BY <1>2, <1>3, KeyDownOK
<1>5. \A e \in DeviceIds \ {d} : NoKeys(out, e) => NoKeys(out', e)
  BY <1>4 DEF NoKeys
<1>6. CountsOK(counts') /\ \A e \in DeviceIds : NoEntry(counts, e) => NoEntry(counts', e)
  BY <1>1, EraseOK DEF KeyDown
<1> QED BY <1>4, <1>5, <1>6, TouchStep DEF KeyDown, IInv

\* So does every event that amounts to a key_up, stop_keyboard_repeat among them.
LEMMA KeyUpStep ==
    ASSUME IInv, NEW d \in DeviceIds, NEW u \in Keys \cup {NoKey},
           out' = dispatch_key_up_event(out, u), Touch(d),
           UNCHANGED <<counts, buttons, pressed_buttons, mouse_keys>>
    PROVE  IInv'
<1>1. OutputOK(out') /\ out'.pressed_keys \subseteq out.pressed_keys
  BY KeyUpOK DEF IInv
<1> QED BY <1>1, NoKeysShrink, TouchStep DEF IInv

\* So does a modifier key, lazy or not.
LEMMA ModifierKeyStep ==
    ASSUME IInv, NEW d \in DeviceIds, NEW f \in Modifiers, NEW down \in BOOLEAN,
           NEW lazy \in BOOLEAN, ModifierKey(d, f, down, lazy)
    PROVE  IInv'
<1>1. out' = out \/ out' = dispatch_modifier_key_event(out, counts')
  BY DEF ModifierKey
<1>2. CountsOK(counts') /\ \A e \in DeviceIds \ {d} : NoEntry(counts, e) => NoEntry(counts', e)
  BY PushPlainOK DEF ModifierKey, IInv, Modifiers
<1> QED BY <1>1, <1>2, MaybeDispatchOK, TouchStep DEF ModifierKey, IInv

\* So does a pointing button.
LEMMA PointingButtonStep ==
    ASSUME IInv, NEW d \in DeviceIds, NEW b \in Buttons, NEW down \in BOOLEAN,
           PointingButton(d, b, down)
    PROVE  IInv'
<1>1. out' = out \/ out' = dispatch_modifier_key_event(out, counts)
  BY DEF PointingButton
<1>2. CountsOK(counts') /\ \A e \in DeviceIds : NoEntry(counts, e) => NoEntry(counts', e)
  BY EraseOK DEF PointingButton, IInv
<1>3. /\ PointingOK(buttons', pressed_buttons')
      /\ \A e \in DeviceIds \ {d} : NoButtons(buttons, e) => NoButtons(buttons', e)
  BY PushButtonOK DEF PointingButton, IInv, PointingOK
<1> QED BY <1>1, <1>2, <1>3, MaybeDispatchOK, TouchStep DEF PointingButton, IInv

\* So does pointer motion.
LEMMA PointingMotionStep ==
    ASSUME IInv, NEW d \in DeviceIds, PointingMotion(d) PROVE IInv'
<1>1. out' = out \/ out' = dispatch_modifier_key_event(out, counts)
  BY DEF PointingMotion
<1>2. PointingOK(buttons', pressed_buttons')
  BY DEF PointingMotion, IInv, PointingOK
<1> QED BY <1>1, <1>2, MaybeDispatchOK, TouchStep DEF PointingMotion, IInv

\* So does a sticky_modifier event.
LEMMA StickyModifierStep ==
    ASSUME IInv, NEW d \in DeviceIds, NEW f \in Flags, NEW type \in StickyTypes,
           NEW et \in EventTypes, StickyModifier(d, f, type, et)
    PROVE  IInv'
<1>1. out' = out \/ out' = dispatch_modifier_key_event(out, counts)
  BY DEF StickyModifier
<1>2. StickyDelta(counts, f, type) \in {-1, 1}
  BY DEF StickyDelta
<1>3. CountsOK(counts') /\ \A e \in DeviceIds \ {d} : NoEntry(counts, e) => NoEntry(counts', e)
  BY <1>2, PushStickyOK DEF StickyModifier, IInv
<1> QED BY <1>1, <1>3, MaybeDispatchOK, TouchStep DEF StickyModifier, IInv

\* So does a mouse key.
LEMMA MouseKeyStep ==
    ASSUME IInv, NEW d \in DeviceIds, NEW down \in BOOLEAN, MouseKey(d, down) PROVE IInv'
<1>1. out' = out \/ out' = dispatch_modifier_key_event(out, counts)
  BY DEF MouseKey
<1> QED BY <1>1, MaybeDispatchOK, TouchStep DEF MouseKey, IInv

\* So does the key_down of a command.
LEMMA CommandKeyDownStep ==
    ASSUME IInv, NEW d \in DeviceIds, CommandKeyDown(d) PROVE IInv'
BY MaybeDispatchOK, TouchStep DEF CommandKeyDown, IInv

\* So does every event of a device.
LEMMA DeviceEventStep ==
    ASSUME IInv, NEW d \in DeviceIds, DeviceEvent(d) PROVE IInv'
<1>1. ASSUME NEW u \in Keys, KeyUp(d, u) PROVE IInv'
  BY <1>1, KeyUpStep DEF KeyUp
<1>2. ASSUME StopKeyboardRepeat(d) PROVE IInv'
  <2>1. out.repeating \in Keys \cup {NoKey}
    BY DEF IInv, OutputOK, Output
  <2> QED BY <1>2, <2>1, KeyUpStep DEF StopKeyboardRepeat
<1> QED BY <1>1, <1>2, KeyDownStep, ModifierKeyStep, PointingButtonStep, PointingMotionStep,
           StickyModifierStep, MouseKeyStep, CommandKeyDownStep DEF DeviceEvent

\* While no device owns anything a dispatch leaves no modifier down.
LEMMA QuietDispatch ==
    ASSUME NEW o, OutputOK(o), NEW c, CountsOK(c), \A e \in DeviceIds : NoEntry(c, e)
    PROVE  dispatch_modifier_key_event(o, c).modifiers = {}
<1>1. PressedFlags(c) \subseteq {CapsLock}
  BY NothingPressed
<1> QED BY <1>1, DispatchOK

\* So does the LED notification, which only moves caps_lock's led entry and flag.
LEMMA CapsLockStateChangedStep ==
    ASSUME IInv, NEW on \in BOOLEAN, CapsLockStateChanged(on) PROVE IInv'
<1>1. OutputOK(out) /\ CountsOK(counts)
  BY DEF IInv
<1>2. CountsOK(counts') /\ \A e \in DeviceIds : NoEntry(counts, e) => NoEntry(counts', e)
  BY <1>1, PushLedOK DEF CapsLockStateChanged
<1>3. /\ OutputOK(out') /\ out'.pressed_keys = out.pressed_keys
      /\ out'.modifiers = out.modifiers
  <2>1. CASE out' = out
    BY <1>1, <2>1
  <2>2. CASE out' # out
    <3> DEFINE fs == IF on THEN out.pressed_modifier_flags \cup {CapsLock}
                          ELSE out.pressed_modifier_flags \ {CapsLock}
    <3>1. out' = [out EXCEPT !.pressed_modifier_flags = fs]
      BY <2>2 DEF CapsLockStateChanged
    <3>2. fs \in SUBSET Flags /\ fs \ {CapsLock} = out.pressed_modifier_flags \ {CapsLock}
      BY <1>1, CountsAssumption DEF OutputOK, Output
    <3> HIDE DEF fs
    <3>3. /\ out' \in Output
          /\ out'.pressed_modifier_flags = fs
          /\ out'.pressed_keys = out.pressed_keys
          /\ out'.keys = out.keys
          /\ out'.modifiers = out.modifiers
          /\ out'.repeating = out.repeating
      BY <1>1, <3>1, <3>2 DEF OutputOK, Output
    <3> QED BY <1>1, <3>2, <3>3 DEF OutputOK, KeysMatch, key_event_exists
  <2> QED BY <2>1, <2>2
<1>4. \A e \in DeviceIds : NoKeys(out, e) => NoKeys(out', e)
  BY <1>3 DEF NoKeys
<1>5. UntouchedOK'
  BY <1>2, <1>4 DEF CapsLockStateChanged, IInv, UntouchedOK
<1> QED BY <1>2, <1>3, <1>5 DEF CapsLockStateChanged, IInv

\* So does device_keys_and_pointing_buttons_are_released.
LEMMA DeviceKeysReleasedStep ==
    ASSUME IInv, NEW d \in DeviceIds, DeviceKeysReleased(d) PROVE IInv'
<1> DEFINE c == EraseAllExceptLockAndSticky(counts, d)
<1>1. OutputOK(out) /\ CountsOK(counts)
  BY DEF IInv
<1>2. CountsOK(c) /\ \A e \in DeviceIds : NoEntry(counts, e) => NoEntry(c, e)
  BY <1>1, EraseOK
<1>3. out' = dispatch_modifier_key_event(out, c) /\ counts' = EraseCapsLockSticky(c)
  BY DEF DeviceKeysReleased
<1> HIDE DEF c
<1>4. CountsOK(counts') /\ \A e \in DeviceIds : NoEntry(c, e) => NoEntry(counts', e)
  BY <1>2, <1>3, EraseOK
<1>5. OutputOK(out') /\ \A e \in DeviceIds : NoKeys(out, e) => NoKeys(out', e)
  BY <1>3, MaybeDispatchOK
<1>6. /\ PointingOK(buttons', pressed_buttons')
      /\ \A e \in DeviceIds : NoButtons(buttons, e) => NoButtons(buttons', e)
  BY EraseButtonsOK DEF DeviceKeysReleased, IInv, PointingOK
<1>7. UntouchedOK'
  BY <1>2, <1>4, <1>5, <1>6 DEF DeviceKeysReleased, IInv, UntouchedOK
<1>8. touched' = {} => out'.modifiers = {}
  <2> SUFFICES ASSUME touched' = {} PROVE out'.modifiers = {}
    OBVIOUS
  <2>1. \A e \in DeviceIds : NoEntry(c, e)
    BY <1>2 DEF DeviceKeysReleased, IInv, UntouchedOK
  <2> QED BY <1>1, <1>2, <1>3, <2>1, QuietDispatch
<1> QED BY <1>4, <1>5, <1>6, <1>7, <1>8 DEF DeviceKeysReleased, IInv

\* So does device_ungrabbed, which takes the device out of touched.
LEMMA DeviceUngrabbedStep ==
    ASSUME IInv, NEW d \in DeviceIds, DeviceUngrabbed(d) PROVE IInv'
<1> DEFINE us == {u \in Keys : <<d, u>> \in out.pressed_keys}
           o == ReleaseKeys(out, us)
<1>1. OutputOK(out) /\ CountsOK(counts)
  BY DEF IInv
<1>2. /\ CountsOK(counts') /\ NoEntry(counts', d)
      /\ \A e \in DeviceIds : NoEntry(counts, e) => NoEntry(counts', e)
  BY <1>1, EraseOK DEF DeviceUngrabbed
<1>3. out' = dispatch_modifier_key_event(o, counts')
  BY DEF DeviceUngrabbed, dispatch_key_up_events_by_device_id
<1>4. OutputOK(o) /\ o.pressed_keys = {p \in out.pressed_keys : p[2] \notin us}
  BY <1>1, ReleaseKeysOK, ZenonT(40)
<1> HIDE DEF o
<1>5. NoKeys(o, d) /\ \A e \in DeviceIds : NoKeys(out, e) => NoKeys(o, e)
  BY <1>4 DEF NoKeys
<1>6. OutputOK(out') /\ \A e \in DeviceIds : NoKeys(o, e) => NoKeys(out', e)
  BY <1>3, <1>4, DispatchOK, NoKeysShrink
<1>7. /\ PointingOK(buttons', pressed_buttons') /\ NoButtons(buttons', d)
      /\ \A e \in DeviceIds : NoButtons(buttons, e) => NoButtons(buttons', e)
  BY EraseButtonsOK DEF DeviceUngrabbed, IInv, PointingOK
<1>8. UntouchedOK'
  BY <1>2, <1>5, <1>6, <1>7 DEF DeviceUngrabbed, IInv, UntouchedOK
<1>9. touched' = {} => out'.modifiers = {}
  <2> SUFFICES ASSUME touched' = {} PROVE out'.modifiers = {}
    OBVIOUS
  <2>1. \A e \in DeviceIds : NoEntry(counts', e)
    BY <1>8 DEF UntouchedOK
  <2> QED BY <1>2, <1>3, <1>4, <2>1, QuietDispatch
<1> QED BY <1>2, <1>6, <1>7, <1>8, <1>9 DEF DeviceUngrabbed, IInv

\* So does an event of the event tap.
LEMMA EventTapStep == ASSUME IInv, EventTap PROVE IInv'
<1>1. OutputOK(out) /\ CountsOK(counts)
  BY DEF IInv
<1>2. OutputOK(out') /\ \A e \in DeviceIds : NoKeys(out, e) => NoKeys(out', e)
  BY MaybeDispatchOK DEF EventTap
<1>3. UntouchedOK'
  BY <1>2 DEF EventTap, IInv, UntouchedOK
<1>4. touched' = {} => out'.modifiers = {}
  BY <1>1, QuietDispatch DEF EventTap, IInv, UntouchedOK
<1> QED BY <1>2, <1>3, <1>4 DEF EventTap, IInv

-----------------------------------------------------------------------------
\* The inductive invariant holds initially.
LEMMA InitIInv == Init => IInv
<1> SUFFICES ASSUME Init PROVE IInv
  OBVIOUS
<1>1. CountsOK(counts) /\ \A d \in DeviceIds : NoEntry(counts, d)
  BY EmptyOK DEF Init, CountsInit
<1>2. OutputOK(out)
  BY DEF Init, Silent, OutputOK, Output, KeysMatch, key_event_exists
<1>3. PointingOK(buttons, pressed_buttons)
  BY DEF Init, PointingOK, make_hid_report_buttons
<1>4. UntouchedOK
  BY <1>1 DEF Init, UntouchedOK, NoKeys, NoButtons, Silent
<1> QED BY <1>1, <1>2, <1>3, <1>4 DEF Init, IInv, Silent

\* Every step preserves the inductive invariant.
LEMMA NextIInv == IInv /\ [Next]_vars => IInv'
<1> SUFFICES ASSUME IInv, [Next]_vars PROVE IInv'
  OBVIOUS
<1>1. CASE Next
  BY <1>1, DeviceEventStep, CapsLockStateChangedStep, DeviceKeysReleasedStep,
     DeviceUngrabbedStep, EventTapStep DEF Next
<1>2. CASE UNCHANGED vars
  BY <1>2 DEF vars, IInv, UntouchedOK
<1> QED BY <1>1, <1>2

\* What the inductive invariant says in terms of the checked invariants.
LEMMA IInvImplies ==
    IInv => /\ TypeOK
            /\ ReportMatchesPressedKeys
            /\ RepeatingKeyIsDown
            /\ ButtonsMatchLastReport
            /\ UngrabbedDeviceHoldsNothing
            /\ NothingStuckAfterUngrab
<1> SUFFICES ASSUME IInv PROVE /\ TypeOK
                               /\ ReportMatchesPressedKeys
                               /\ RepeatingKeyIsDown
                               /\ ButtonsMatchLastReport
                               /\ UngrabbedDeviceHoldsNothing
                               /\ NothingStuckAfterUngrab
  OBVIOUS
<1>1. TypeOK
  BY DEF IInv, TypeOK, CountsOK, OutputOK, PointingOK, make_hid_report_buttons
<1>2. ReportMatchesPressedKeys /\ RepeatingKeyIsDown
  BY DEF IInv, OutputOK, KeysMatch, ReportMatchesPressedKeys, RepeatingKeyIsDown
<1>3. ButtonsMatchLastReport
  BY DEF IInv, PointingOK, ButtonsMatchLastReport
<1>4. UngrabbedDeviceHoldsNothing
  BY DEF IInv, UntouchedOK, NoEntry, NoKeys, NoButtons, UngrabbedDeviceHoldsNothing, HoldsNothing
<1>5. NothingStuckAfterUngrab
  <2> SUFFICES ASSUME touched = {}
               PROVE  out.keys = {} /\ out.modifiers = {} /\ pressed_buttons = {}
    BY DEF NothingStuckAfterUngrab
  <2>1. \A d \in DeviceIds : NoKeys(out, d) /\ NoButtons(buttons, d)
    BY DEF IInv, UntouchedOK
  <2>2. out.keys = {}
    BY <1>2, <2>1 DEF ReportMatchesPressedKeys, key_event_exists, NoKeys
  <2>3. pressed_buttons = {}
    BY <1>3, <2>1 DEF ButtonsMatchLastReport, make_hid_report_buttons, NoButtons
  <2> QED BY <2>2, <2>3 DEF IInv
<1> QED BY <1>1, <1>2, <1>3, <1>4, <1>5

(* The inductive invariant holds in every state the posting stage reaches. *)
THEOREM PostInvariant == Spec => []IInv
<1>1. Init => IInv
  BY InitIInv
<1>2. IInv /\ [Next]_vars => IInv'
  BY NextIInv
<1> QED BY <1>1, <1>2, PTL DEF Spec

(* Every variable of the posting stage keeps its type. *)
THEOREM TypeCorrect == Spec => []TypeOK
BY PostInvariant, IInvImplies, PTL

(* The reports of the virtual keyboard agree with key_event_dispatcher's   *)
(* pressed_keys_ and pressed_modifier_flags_ after any sequence of events. *)
THEOREM ReportsAgree == Spec => []ReportMatchesPressedKeys
BY PostInvariant, IInvImplies, PTL

(* keyboard_repeat_detector never names a key that is up. *)
THEOREM RepeatDetectorSound == Spec => []RepeatingKeyIsDown
BY PostInvariant, IInvImplies, PTL

(* pressed_buttons_ is what pointing_button_manager would report now. *)
THEOREM ButtonsAgree == Spec => []ButtonsMatchLastReport
BY PostInvariant, IInvImplies, PTL

(* handle_device_ungrabbed_event leaves nothing of the device behind. *)
THEOREM UngrabbedHoldsNothing == Spec => []UngrabbedDeviceHoldsNothing
BY PostInvariant, IInvImplies, PTL

(* With every device ungrabbed the virtual devices hold nothing down. *)
THEOREM NothingStuck == Spec => []NothingStuckAfterUngrab
BY PostInvariant, IInvImplies, PTL

-----------------------------------------------------------------------------
(* The action property: only a key_down puts a key into the report.        *)

\* Fewer pressed keys mean fewer keys in the report.
LEMMA KeysShrink ==
    ASSUME NEW o, OutputOK(o), NEW n, OutputOK(n), n.pressed_keys \subseteq o.pressed_keys
    PROVE  n.keys \subseteq o.keys
BY DEF OutputOK, KeysMatch, key_event_exists

\* Sending the modifiers adds no key to the report.
LEMMA DispatchShrinks ==
    ASSUME NEW o, OutputOK(o), NEW c
    PROVE  dispatch_modifier_key_event(o, c).keys \subseteq o.keys
BY DispatchOK, KeysShrink

\* Neither does a key_up.
LEMMA KeyUpShrinks ==
    ASSUME NEW o, OutputOK(o), NEW u \in Keys \cup {NoKey}
    PROVE  dispatch_key_up_event(o, u).keys \subseteq o.keys
BY KeyUpOK, KeysShrink

\* The modifiers of the report do not change with a key_down.
LEMMA KeyDownModifiers ==
    ASSUME NEW o, OutputOK(o), NEW d \in DeviceIds, NEW u \in Keys
    PROVE  dispatch_key_down_event(o, d, u).modifiers = o.modifiers
<1>1. CASE key_event_exists(o, u)
  BY <1>1 DEF dispatch_key_down_event
<1>2. CASE ~key_event_exists(o, u)
  <2> DEFINE n == dispatch_key_down_event(o, d, u)
  <2>1. n = [o EXCEPT !.pressed_keys = @ \cup {<<d, u>>}, !.keys = @ \cup {u}, !.repeating = u]
    BY <1>2 DEF dispatch_key_down_event
  <2>2. o \in Output
    BY DEF OutputOK
  <2> HIDE DEF n
  <2>3. n.modifiers = o.modifiers
    BY <2>1, <2>2 DEF Output
  <2> QED BY <2>3 DEF n
<1> QED BY <1>1, <1>2

\* A step that is no key_down adds no key to the report.
LEMMA OnlyKeyDownAddsKeys ==
    ASSUME IInv, [Next]_vars, ~(\E d \in DeviceIds, u \in Keys : KeyDown(d, u))
    PROVE  out'.keys \subseteq out.keys
<1>1. OutputOK(out)
  BY DEF IInv
<1>2. CASE out' = out
  BY <1>2
<1>3. CASE \E c : out' = dispatch_modifier_key_event(out, c)
  BY <1>1, <1>3, DispatchShrinks
<1>4. CASE \E u \in Keys \cup {NoKey} : out' = dispatch_key_up_event(out, u)
  BY <1>1, <1>4, KeyUpShrinks
<1>5. ASSUME NEW d \in DeviceIds, DeviceUngrabbed(d) PROVE out'.keys \subseteq out.keys
  <2> DEFINE o == dispatch_key_up_events_by_device_id(out, d)
  <2>1. OutputOK(o) /\ o.pressed_keys \subseteq out.pressed_keys
    <3> DEFINE us == {u \in Keys : <<d, u>> \in out.pressed_keys}
    <3>1. us \in SUBSET Keys
      OBVIOUS
    <3>2. o = ReleaseKeys(out, us)
      BY DEF dispatch_key_up_events_by_device_id
    <3> HIDE DEF us, o
    <3> QED BY <1>1, <3>1, <3>2, ReleaseKeysOK
  <2>2. o.keys \subseteq out.keys
    BY <1>1, <2>1, KeysShrink
  <2>3. out' = dispatch_modifier_key_event(o, counts')
    BY <1>5 DEF DeviceUngrabbed
  <2> HIDE DEF o
  <2> QED BY <2>1, <2>2, <2>3, DispatchShrinks
<1>6. ASSUME NEW on \in BOOLEAN, CapsLockStateChanged(on) PROVE out'.keys \subseteq out.keys
  BY <1>1, <1>6 DEF CapsLockStateChanged, OutputOK, Output
<1>7. ASSUME NEW d \in DeviceIds, DeviceEvent(d) PROVE out'.keys \subseteq out.keys
  <2>1. ASSUME NEW f \in Modifiers, NEW down \in BOOLEAN, NEW lazy \in BOOLEAN,
               ModifierKey(d, f, down, lazy)
        PROVE  out'.keys \subseteq out.keys
    BY <1>2, <1>3, <2>1 DEF ModifierKey
  <2>2. ASSUME NEW b \in Buttons, NEW down \in BOOLEAN, PointingButton(d, b, down)
        PROVE  out'.keys \subseteq out.keys
    BY <1>2, <1>3, <2>2 DEF PointingButton
  <2>3. CASE PointingMotion(d)
    BY <1>2, <1>3, <2>3 DEF PointingMotion
  <2>4. ASSUME NEW f \in Flags, NEW type \in StickyTypes, NEW et \in EventTypes,
               StickyModifier(d, f, type, et)
        PROVE  out'.keys \subseteq out.keys
    BY <1>2, <1>3, <2>4 DEF StickyModifier
  <2>5. ASSUME NEW down \in BOOLEAN, MouseKey(d, down) PROVE out'.keys \subseteq out.keys
    BY <1>2, <1>3, <2>5 DEF MouseKey
  <2>6. CASE CommandKeyDown(d)
    BY <1>3, <2>6 DEF CommandKeyDown
  <2>7. CASE StopKeyboardRepeat(d)
    BY <1>1, <1>4, <2>7 DEF StopKeyboardRepeat, OutputOK, Output
  <2>8. ASSUME NEW u \in Keys, KeyUp(d, u) PROVE out'.keys \subseteq out.keys
    BY <1>4, <2>8 DEF KeyUp
  <2> QED BY <1>7, <2>1, <2>2, <2>3, <2>4, <2>5, <2>6, <2>7, <2>8 DEF DeviceEvent
<1>8. ASSUME NEW d \in DeviceIds, DeviceKeysReleased(d) PROVE out'.keys \subseteq out.keys
  BY <1>3, <1>8 DEF DeviceKeysReleased
<1>9. CASE EventTap
  BY <1>3, <1>9 DEF EventTap
<1> QED BY <1>2, <1>5, <1>6, <1>7, <1>8, <1>9 DEF Next, vars

(* A key_down report carries exactly the modifiers pressed when the event  *)
(* is taken up, sticky ones included, although the push that belongs to    *)
(* the same event erases them.                                             *)
THEOREM KeyDownModifiersCarried == Spec => KeyDownCarriesModifiers
<1> DEFINE Carries == \A u \in Keys : u \in out'.keys \ out.keys
                            => out'.modifiers = PressedFlags(counts) \ {CapsLock}
<1>1. IInv /\ [Next]_vars => [Carries]_vars
  <2> SUFFICES ASSUME IInv, [Next]_vars PROVE Carries
    OBVIOUS
  <2>1. CASE \E d \in DeviceIds, u \in Keys : KeyDown(d, u)
    <3>1. PICK d \in DeviceIds, u \in Keys : KeyDown(d, u)
      BY <2>1
    <3> DEFINE o == dispatch_modifier_key_event(out, counts)
    <3>2. OutputOK(o) /\ o.modifiers = PressedFlags(counts) \ {CapsLock}
      BY DispatchOK DEF IInv
    <3>3. out' = dispatch_key_down_event(o, d, u)
      BY <3>1 DEF KeyDown
    <3> HIDE DEF o
    <3> QED BY <3>2, <3>3, KeyDownModifiers
  <2>2. CASE ~(\E d \in DeviceIds, u \in Keys : KeyDown(d, u))
    BY <2>2, OnlyKeyDownAddsKeys
  <2> QED BY <2>1, <2>2
<1> QED BY <1>1, PostInvariant, PTL DEF Spec, KeyDownCarriesModifiers

=============================================================================
