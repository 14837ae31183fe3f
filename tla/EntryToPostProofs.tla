-------------------------- MODULE EntryToPostProofs --------------------------
(***************************************************************************)
(* Proofs about EntryToPost for every finite set of devices and any keys,  *)
(* flags and buttons: what the virtual devices report is held.  They rest  *)
(* on the inductive invariant of the posting stage (PostEventProofs) and   *)
(* on what TotalCount, a fold over the devices, computes.                  *)
(***************************************************************************)
EXTENDS EntryToPost, PostEventProofs, Foundations

-----------------------------------------------------------------------------
(* The fold of TotalCount.                                                 *)

Entries(c, f) == [d \in DeviceIds |-> c.plain[f][d] + c.lock[f][d] + c.sticky[f][d]]

\* TotalCount is the sum of the entries over all devices.
LEMMA TotalCountFold ==
    ASSUME NEW c, NEW f
    PROVE  TotalCount(c, f) = Sums(Entries(c, f), DeviceIds)[DeviceIds]
BY ZenonT(40) DEF TotalCount, MapThenSumSet, MapThenFoldSet, Sums, HoldsSums, Round, Pick, Entries

-----------------------------------------------------------------------------
(* The inductive invariant: besides that of the posting stage, an owner of *)
(* a key or button holds it, and a device has one increase entry for each  *)
(* modifier it holds and no lock or sticky entry of a modifier.            *)

HeldOf(h) == UNION {h[d] : d \in DeviceIds}

EntriesFollow(c, h) ==
    \A f \in Modifiers, d \in DeviceIds :
        c.plain[f][d] = (IF f \in h[d] THEN 1 ELSE 0) /\ c.lock[f][d] = 0 /\ c.sticky[f][d] = 0

OwnersHold(owned, h) == \A p \in owned : p[2] \in h[p[1]]

EntryIInv ==
    /\ IInv
    /\ held \in [DeviceIds -> SUBSET Physical]
    /\ EntriesFollow(counts, held)
    /\ OwnersHold(out.pressed_keys, held)
    /\ OwnersHold(buttons, held)
    /\ out.modifiers = HeldOf(held) \cap Modifiers

\* As long as the entries follow what is held, make_modifier_flags returns the
\* modifiers that are held, and perhaps caps_lock.
LEMMA PressedAreHeld ==
    ASSUME NEW c, CountsOK(c), NEW h, EntriesFollow(c, h)
    PROVE  PressedFlags(c) \ {CapsLock} = HeldOf(h) \cap Modifiers
<1>1. ASSUME NEW f \in Modifiers PROVE IsPressed(c, f) <=> f \in HeldOf(h)
  <2> DEFINE g == Entries(c, f)
  <2>1. /\ g \in [DeviceIds -> Nat]
        /\ \A d \in DeviceIds : g[d] = IF f \in h[d] THEN 1 ELSE 0
    BY DEF EntriesFollow, Entries
  <2>2. f \in HeldOf(h) <=> \E d \in DeviceIds : f \in h[d]
    BY DEF HeldOf
  <2>3. f \in HeldOf(h) <=> HasEntry(c, f)
    BY <2>2 DEF EntriesFollow, HasEntry
  <2>4. TotalCount(c, f) = Sums(g, DeviceIds)[DeviceIds]
    BY TotalCountFold
  <2> HIDE DEF g
  <2>5. TotalCount(c, f) > 0 <=> \E d \in DeviceIds : g[d] > 0
    BY <2>1, <2>4, SumPositive, CountsAssumption
  <2>6. TotalCount(c, f) > 0 <=> f \in HeldOf(h)
    BY <2>1, <2>2, <2>5
  <2>7. f \notin c.led
    BY DEF CountsOK, Modifiers
  <2> QED BY <2>3, <2>6, <2>7 DEF IsPressed
<1> QED BY <1>1 DEF PressedFlags, Modifiers

\* Erasing sticky entries disturbs no modifier that is held.
LEMMA EraseAllStickyFollows ==
    ASSUME NEW c, CountsOK(c), NEW h, EntriesFollow(c, h)
    PROVE  EntriesFollow(EraseAllSticky(c), h)
<1> DEFINE n == EraseAllSticky(c)
<1>1. n.plain = c.plain /\ n.lock = c.lock /\ n.sticky = NoCount
  BY DEF EraseAllSticky, CountsOK, Counts
<1> HIDE DEF n
<1>2. EntriesFollow(n, h)
  BY <1>1, NoCountOK DEF EntriesFollow, Modifiers
<1> QED BY <1>2 DEF n

\* Sending the modifiers leaves the report with those that are held.
LEMMA DispatchFollows ==
    ASSUME EntryIInv,
           out' = out \/ out' = dispatch_modifier_key_event(out, counts)
    PROVE  /\ out'.pressed_keys \subseteq out.pressed_keys
           /\ out'.modifiers = HeldOf(held) \cap Modifiers
<1>1. PressedFlags(counts) \ {CapsLock} = HeldOf(held) \cap Modifiers
  BY PressedAreHeld DEF EntryIInv, IInv
<1>2. CASE out' = out
  BY <1>2 DEF EntryIInv
<1>3. CASE out' = dispatch_modifier_key_event(out, counts)
  <2>1. OutputOK(out)
    BY DEF EntryIInv, IInv
  <2> QED BY <1>1, <1>3, <2>1, DispatchOK
<1> QED BY <1>2, <1>3

\* A physical key that is no modifier does not change which modifiers are held.
LEMMA SameModifiersHeld ==
    ASSUME EntryIInv, NEW d \in DeviceIds, NEW e, e \notin Modifiers,
           NEW h, h = [held EXCEPT ![d] = @ \cup {e}] \/ h = [held EXCEPT ![d] = @ \ {e}]
    PROVE  /\ HeldOf(h) \cap Modifiers = HeldOf(held) \cap Modifiers
           /\ \A c : EntriesFollow(c, held) => EntriesFollow(c, h)
<1>1. \A x \in DeviceIds, f \in Modifiers : f \in h[x] <=> f \in held[x]
  BY DEF EntryIInv
<1>2. HeldOf(h) \cap Modifiers = HeldOf(held) \cap Modifiers
  BY <1>1 DEF HeldOf
<1>3. ASSUME NEW c, EntriesFollow(c, held) PROVE EntriesFollow(c, h)
  BY <1>1, <1>3 DEF EntriesFollow
<1> QED BY <1>2, <1>3

-----------------------------------------------------------------------------
(* One lemma per kind of physical key.                                     *)

Pressing(d, e) == e \notin held[d] /\ held' = [held EXCEPT ![d] = @ \cup {e}]

Releasing(d, e) == e \in held[d] /\ held' = [held EXCEPT ![d] = @ \ {e}]

\* held stays a function to sets of physical keys.
LEMMA HeldType ==
    ASSUME EntryIInv, NEW d \in DeviceIds, NEW e \in Physical, Pressing(d, e) \/ Releasing(d, e)
    PROVE  held' \in [DeviceIds -> SUBSET Physical]
BY DEF EntryIInv, Pressing, Releasing

\* A key goes down: its owner is the device that holds it.
LEMMA KeyDownFollows ==
    ASSUME EntryIInv, IInv', NEW d \in DeviceIds, NEW u \in Keys, Pressing(d, u), KeyDown(d, u)
    PROVE  EntryIInv'
<1>1. u \in Physical /\ u \notin Modifiers
  BY EntryAssumption DEF Physical, Modifiers
<1>2. /\ HeldOf(held') \cap Modifiers = HeldOf(held) \cap Modifiers
      /\ \A c : EntriesFollow(c, held) => EntriesFollow(c, held')
  BY <1>1, SameModifiersHeld DEF Pressing
<1> DEFINE o == dispatch_modifier_key_event(out, counts)
<1>3. /\ OutputOK(o)
      /\ o.pressed_keys \subseteq out.pressed_keys
      /\ o.modifiers = HeldOf(held) \cap Modifiers
  <2>1. OutputOK(out)
    BY DEF EntryIInv, IInv
  <2>2. PressedFlags(counts) \ {CapsLock} = HeldOf(held) \cap Modifiers
    BY PressedAreHeld DEF EntryIInv, IInv
  <2> QED BY <2>1, <2>2, DispatchOK
<1>4. out' = dispatch_key_down_event(o, d, u)
  BY DEF KeyDown
<1> HIDE DEF o
<1>5. out'.pressed_keys \subseteq out.pressed_keys \cup {<<d, u>>}
  BY <1>3, <1>4, KeyDownOK
<1>6. out'.modifiers = HeldOf(held') \cap Modifiers
  BY <1>2, <1>3, <1>4, KeyDownModifiers
<1>7. EntriesFollow(counts', held')
  BY <1>2, EraseAllStickyFollows DEF KeyDown, EntryIInv, IInv
<1>8. OwnersHold(out'.pressed_keys, held') /\ OwnersHold(buttons', held')
  <2>1. \A x \in DeviceIds : held[x] \subseteq held'[x]
    BY DEF Pressing, EntryIInv
  <2>2. u \in held'[d]
    BY DEF Pressing, EntryIInv
  <2>3. out.pressed_keys \in SUBSET (DeviceIds \X Keys) /\ buttons \in SUBSET (DeviceIds \X Buttons)
    BY DEF EntryIInv, IInv, OutputOK, Output, PointingOK
  <2>4. OwnersHold(buttons', held')
    BY <2>1, <2>3 DEF OwnersHold, KeyDown, EntryIInv
  <2>5. OwnersHold(out'.pressed_keys, held')
    BY <1>5, <2>1, <2>2, <2>3 DEF OwnersHold, EntryIInv
  <2> QED BY <2>4, <2>5
<1> QED BY <1>1, <1>6, <1>7, <1>8, HeldType DEF EntryIInv

\* A key goes up: nobody owns it any more, whoever held it.
LEMMA KeyUpFollows ==
    ASSUME EntryIInv, IInv', NEW d \in DeviceIds, NEW u \in Keys, Releasing(d, u), KeyUp(d, u)
    PROVE  EntryIInv'
<1>1. u \in Physical /\ u \notin Modifiers /\ u \notin Buttons
  BY EntryAssumption DEF Physical, Modifiers
<1>2. /\ HeldOf(held') \cap Modifiers = HeldOf(held) \cap Modifiers
      /\ \A c : EntriesFollow(c, held) => EntriesFollow(c, held')
  BY <1>1, SameModifiersHeld DEF Releasing
<1>3. OutputOK(out) /\ OutputOK(out')
  BY DEF EntryIInv, IInv
<1>4. /\ out'.pressed_keys \subseteq out.pressed_keys
      /\ out'.pressed_modifier_flags = out.pressed_modifier_flags
      /\ ~key_event_exists(out', u)
  BY <1>3, KeyUpOK, KeyUpReleases DEF KeyUp
<1>5. out'.modifiers = HeldOf(held') \cap Modifiers
  BY <1>2, <1>3, <1>4 DEF OutputOK, EntryIInv
<1>6. EntriesFollow(counts', held')
  BY <1>2 DEF KeyUp, EntryIInv
<1>7. OwnersHold(out'.pressed_keys, held') /\ OwnersHold(buttons', held')
  <2>1. \A x \in DeviceIds : \A y : y # u /\ y \in held[x] => y \in held'[x]
    BY DEF Releasing, EntryIInv
  <2>2. out.pressed_keys \in SUBSET (DeviceIds \X Keys) /\ buttons \in SUBSET (DeviceIds \X Buttons)
    BY DEF EntryIInv, IInv, OutputOK, Output, PointingOK
  <2>3. OwnersHold(buttons', held')
    BY <1>1, <2>1, <2>2 DEF OwnersHold, KeyUp, EntryIInv
  <2>4. \A p \in out'.pressed_keys : p[2] # u
    BY <1>4, <2>2 DEF key_event_exists
  <2>5. OwnersHold(out'.pressed_keys, held')
    BY <1>4, <2>1, <2>2, <2>4 DEF OwnersHold, EntryIInv
  <2> QED BY <2>3, <2>5
<1> QED BY <1>1, <1>5, <1>6, <1>7, HeldType DEF EntryIInv

\* Nothing is lost by a step that leaves the owners of keys and buttons, or takes some.
LEMMA OwnersStay ==
    ASSUME EntryIInv, NEW d \in DeviceIds, NEW e,
           held' = [held EXCEPT ![d] = @ \cup {e}] \/ held' = [held EXCEPT ![d] = @ \ {e}] \/ held' = held,
           NEW owned, OwnersHold(owned, held), owned \in SUBSET (DeviceIds \X (Keys \cup Buttons)),
           NEW left, left \subseteq owned, e \notin Keys \cup Buttons
    PROVE  OwnersHold(left, held')
<1>1. \A x \in DeviceIds : \A y : y # e /\ y \in held[x] => y \in held'[x]
  BY DEF EntryIInv
<1> QED BY <1>1 DEF OwnersHold

\* Keys and buttons have devices as owners.
LEMMA OwnersType ==
    ASSUME EntryIInv
    PROVE  /\ out.pressed_keys \in SUBSET (DeviceIds \X (Keys \cup Buttons))
           /\ buttons \in SUBSET (DeviceIds \X (Keys \cup Buttons))
<1>1. out.pressed_keys \in SUBSET (DeviceIds \X Keys) /\ buttons \in SUBSET (DeviceIds \X Buttons)
  BY DEF EntryIInv, IInv, OutputOK, Output, PointingOK
<1> QED BY <1>1

\* A modifier goes down or up: the device's count follows, and is sent.
LEMMA ModifierFollows ==
    ASSUME EntryIInv, IInv', NEW d \in DeviceIds, NEW f \in Modifiers, NEW down \in BOOLEAN,
           IF down THEN Pressing(d, f) ELSE Releasing(d, f),
           ModifierKey(d, f, down, FALSE)
    PROVE  EntryIInv'
<1>1. f \in Physical /\ f \in Flags /\ f \notin Keys /\ f \notin Buttons
  BY EntryAssumption DEF Physical, Modifiers
<1>2. held \in [DeviceIds -> SUBSET Physical] /\ CountsOK(counts) /\ OutputOK(out) /\ CountsOK(counts')
  BY DEF EntryIInv, IInv
<1>3. /\ counts'.lock = counts.lock /\ counts'.sticky = counts.sticky
      /\ counts'.plain = [counts.plain EXCEPT ![f][d] = @ + (IF down THEN 1 ELSE -1)]
  BY <1>2 DEF ModifierKey, PushPlain, CountsOK, Counts
<1>4. counts.plain \in PerDevice
  BY <1>2 DEF CountsOK, Counts
<1>5. counts.plain[f][d] = IF down THEN 0 ELSE 1
  BY DEF EntryIInv, EntriesFollow, Pressing, Releasing
<1>6. ASSUME NEW g \in Modifiers, NEW x \in DeviceIds
      PROVE  counts'.plain[g][x] = IF g \in held'[x] THEN 1 ELSE 0
  <2>0. counts.plain[g][x] = IF g \in held[x] THEN 1 ELSE 0
    BY DEF EntryIInv, EntriesFollow
  <2>1. CASE g = f /\ x = d
    <3>1. counts'.plain[f][d] = IF down THEN 1 ELSE 0
      BY <1>1, <1>3, <1>4, <1>5 DEF PerDevice
    <3>2. f \in held'[d] <=> down
      BY <1>2 DEF Pressing, Releasing
    <3> QED BY <2>1, <3>1, <3>2
  <2>2. CASE ~(g = f /\ x = d)
    <3>1. counts'.plain[g][x] = counts.plain[g][x]
      BY <1>1, <1>3, <1>4, <2>2 DEF PerDevice, Modifiers
    <3>2. g \in held'[x] <=> g \in held[x]
      BY <1>2, <2>2 DEF Pressing, Releasing
    <3> QED BY <2>0, <3>1, <3>2
  <2> QED BY <2>1, <2>2
<1>7. EntriesFollow(counts', held')
  BY <1>3, <1>6 DEF EntriesFollow, EntryIInv
<1>8. PressedFlags(counts') \ {CapsLock} = HeldOf(held') \cap Modifiers
  BY <1>2, <1>7, PressedAreHeld
<1>9. /\ out'.pressed_keys \subseteq out.pressed_keys
      /\ out'.modifiers = HeldOf(held') \cap Modifiers
  <2>1. out' = dispatch_modifier_key_event(out, counts')
    BY DEF ModifierKey
  <2> QED BY <1>2, <1>8, <2>1, DispatchOK
<1>10. held' = [held EXCEPT ![d] = @ \cup {f}] \/ held' = [held EXCEPT ![d] = @ \ {f}]
  BY DEF Pressing, Releasing
<1>11. OwnersHold(out'.pressed_keys, held') /\ OwnersHold(buttons', held')
  BY <1>1, <1>9, <1>10, OwnersStay, OwnersType DEF EntryIInv, ModifierKey
<1> QED BY <1>1, <1>7, <1>9, <1>11, HeldType DEF EntryIInv

\* A button goes down or up: the other buttons keep their owners.
LEMMA ButtonFollows ==
    ASSUME EntryIInv, IInv', NEW d \in DeviceIds, NEW b \in Buttons, NEW down \in BOOLEAN,
           IF down THEN Pressing(d, b) ELSE Releasing(d, b),
           PointingButton(d, b, down)
    PROVE  EntryIInv'
<1>1. b \in Physical /\ b \notin Modifiers /\ b \notin Keys
  BY EntryAssumption DEF Physical, Modifiers
<1>2. held' = [held EXCEPT ![d] = @ \cup {b}] \/ held' = [held EXCEPT ![d] = @ \ {b}]
  BY DEF Pressing, Releasing
<1>3. /\ HeldOf(held') \cap Modifiers = HeldOf(held) \cap Modifiers
      /\ \A c : EntriesFollow(c, held) => EntriesFollow(c, held')
  BY <1>1, <1>2, SameModifiersHeld
<1>4. /\ out'.pressed_keys \subseteq out.pressed_keys
      /\ out'.modifiers = HeldOf(held') \cap Modifiers
  BY <1>3, DispatchFollows DEF PointingButton
<1>5. EntriesFollow(counts', held')
  BY <1>3, EraseAllStickyFollows DEF PointingButton, EntryIInv, IInv
<1>6. held \in [DeviceIds -> SUBSET Physical]
  BY DEF EntryIInv
<1>7. \A x \in DeviceIds : \A y : y # b /\ y \in held[x] => y \in held'[x]
  BY <1>2, <1>6
<1>8. out.pressed_keys \in SUBSET (DeviceIds \X Keys) /\ buttons \in SUBSET (DeviceIds \X Buttons)
  BY DEF EntryIInv, IInv, OutputOK, Output, PointingOK
<1>9. OwnersHold(out'.pressed_keys, held')
  BY <1>1, <1>4, <1>7, <1>8 DEF OwnersHold, EntryIInv
<1>10. OwnersHold(buttons', held')
  <2>1. CASE down
    <3>1. b \in held'[d] /\ \A x \in DeviceIds : held[x] \subseteq held'[x]
      BY <1>6, <2>1 DEF Pressing
    <3>2. buttons' = buttons \cup {<<d, b>>}
      BY <2>1 DEF PointingButton, PushButton
    <3> QED BY <1>8, <3>1, <3>2 DEF OwnersHold, EntryIInv
  <2>2. CASE ~down
    <3>1. buttons' = {p \in buttons : p[2] # b}
      BY <2>2 DEF PointingButton, PushButton
    <3> QED BY <1>7, <1>8, <3>1 DEF OwnersHold, EntryIInv
  <2> QED BY <2>1, <2>2
<1> QED BY <1>1, <1>4, <1>5, <1>9, <1>10, HeldType DEF EntryIInv

\* A sticky caps_lock is no modifier entry.
LEMMA StickyFollows ==
    ASSUME EntryIInv, IInv', NEW d \in DeviceIds, NEW et,
           Pressing(d, StickyKey) \/ Releasing(d, StickyKey),
           StickyModifier(d, CapsLock, "toggle", et)
    PROVE  EntryIInv'
<1>1. StickyKey \in Physical /\ StickyKey \notin Modifiers /\ StickyKey \notin Keys \cup Buttons
  BY EntryAssumption DEF Physical, Modifiers
<1>2. held' = [held EXCEPT ![d] = @ \cup {StickyKey}] \/ held' = [held EXCEPT ![d] = @ \ {StickyKey}]
  BY DEF Pressing, Releasing
<1>3. /\ HeldOf(held') \cap Modifiers = HeldOf(held) \cap Modifiers
      /\ \A c : EntriesFollow(c, held) => EntriesFollow(c, held')
  BY <1>1, <1>2, SameModifiersHeld
<1>4. /\ out'.pressed_keys \subseteq out.pressed_keys
      /\ out'.modifiers = HeldOf(held') \cap Modifiers
  BY <1>3, DispatchFollows DEF StickyModifier
<1>5. EntriesFollow(counts', held)
  <2>1. CASE counts' = counts
    BY <2>1 DEF EntryIInv
  <2>2. CASE \E delta : counts' = PushSticky(counts, CapsLock, d, delta)
    <3>1. PICK delta : counts' = PushSticky(counts, CapsLock, d, delta)
      BY <2>2
    <3>2. CountsOK(counts)
      BY DEF EntryIInv, IInv
    <3>3. /\ counts'.plain = counts.plain /\ counts'.lock = counts.lock
          /\ counts'.sticky = [counts.sticky EXCEPT ![CapsLock][d] = @ + delta]
      BY <3>1, <3>2 DEF PushSticky, CountsOK, Counts
    <3>4. counts.sticky \in PerDevice
      BY <3>2 DEF CountsOK, Counts
    <3>5. \A f \in Modifiers : counts'.sticky[f] = counts.sticky[f]
      BY <3>3, <3>4 DEF Modifiers, PerDevice
    <3> QED BY <3>3, <3>5 DEF EntriesFollow, EntryIInv
  <2> QED BY <2>1, <2>2 DEF StickyModifier
<1>6. OwnersHold(out'.pressed_keys, held') /\ OwnersHold(buttons', held')
  BY <1>1, <1>2, <1>4, OwnersStay, OwnersType DEF EntryIInv, StickyModifier
<1> QED BY <1>1, <1>3, <1>4, <1>5, <1>6, HeldType DEF EntryIInv

\* Pointer motion, the LED of the virtual keyboard and the event tap touch no
\* entry of a modifier and no owner.
LEMMA ElsewhereFollows ==
    ASSUME EntryIInv, IInv', Elsewhere
    PROVE  EntryIInv'
<1>1. held' = held /\ buttons' = buttons
  BY DEF Elsewhere, PointingMotion, CapsLockStateChanged, EventTap
<1>2. /\ out'.pressed_keys \subseteq out.pressed_keys
      /\ out'.modifiers = HeldOf(held) \cap Modifiers
  <2>1. CASE \E on \in BOOLEAN : CapsLockStateChanged(on)
    <3>1. out \in Output /\ out.modifiers = HeldOf(held) \cap Modifiers
      BY DEF EntryIInv, IInv, OutputOK
    <3>2. \/ out' = out
          \/ \E fs : out' = [out EXCEPT !.pressed_modifier_flags = fs]
      BY <2>1 DEF CapsLockStateChanged
    <3> QED BY <3>1, <3>2 DEF Output
  <2>2. CASE ~(\E on \in BOOLEAN : CapsLockStateChanged(on))
    BY <2>2, DispatchFollows DEF Elsewhere, PointingMotion, EventTap
  <2> QED BY <2>1, <2>2
<1>3. EntriesFollow(counts', held)
  <2>1. CASE counts' = counts
    BY <2>1 DEF EntryIInv
  <2>2. CASE \E on \in BOOLEAN : counts' = PushLed(counts, CapsLock, on)
    <3>1. CountsOK(counts)
      BY DEF EntryIInv, IInv
    <3>2. counts'.plain = counts.plain /\ counts'.lock = counts.lock /\ counts'.sticky = counts.sticky
      BY <2>2, <3>1 DEF PushLed, CountsOK, Counts
    <3> QED BY <3>2 DEF EntriesFollow, EntryIInv
  <2> QED BY <2>1, <2>2 DEF Elsewhere, PointingMotion, CapsLockStateChanged, EventTap
<1>4. OwnersHold(out'.pressed_keys, held') /\ OwnersHold(buttons', held')
  BY <1>1, <1>2 DEF OwnersHold, EntryIInv
<1> QED BY <1>1, <1>2, <1>3, <1>4 DEF EntryIInv

-----------------------------------------------------------------------------
(* The theorem.                                                            *)

\* The entry sends the posting stage nothing but events it can get.
LEMMA EntryNextIsNext == EntryNext => Next
<1>1. ASSUME NEW d \in DeviceIds, NEW e \in Physical, NEW down \in BOOLEAN, Deliver(d, e, down)
      PROVE  DeviceEvent(d)
  <2>1. CASE e = StickyKey /\ StickyModifier(d, CapsLock, "toggle", IF down THEN "key_down" ELSE "key_up")
    <3>1. (IF down THEN "key_down" ELSE "key_up") \in EventTypes /\ "toggle" \in StickyTypes
      BY DEF EventTypes, StickyTypes
    <3> DEFINE et == IF down THEN "key_down" ELSE "key_up"
    <3>2. et \in EventTypes /\ StickyModifier(d, CapsLock, "toggle", et)
      BY <2>1, <3>1
    <3> HIDE DEF et
    <3> QED BY <3>1, <3>2, CountsAssumption DEF DeviceEvent
  <2>2. CASE e \in Modifiers /\ ModifierKey(d, e, down, FALSE)
    BY <2>2 DEF DeviceEvent
  <2> QED BY <1>1, <2>1, <2>2 DEF Deliver, DeviceEvent
<1>2. ASSUME NEW d \in DeviceIds, NEW e \in Physical, PhysicalDown(d, e) \/ PhysicalUp(d, e)
      PROVE  Next
  BY <1>1, <1>2 DEF PhysicalDown, PhysicalUp, Next
<1>3. ASSUME Elsewhere PROVE Next
  BY <1>3 DEF Elsewhere, Next, DeviceEvent
<1> QED BY <1>2, <1>3 DEF EntryNext

\* At first nothing is held, owned or reported.
LEMMA EntryInitInv == EntryInit => EntryIInv
<1> SUFFICES ASSUME EntryInit PROVE EntryIInv
  OBVIOUS
<1>1. IInv
  BY InitIInv DEF EntryInit
<1>2. held \in [DeviceIds -> SUBSET Physical] /\ HeldOf(held) = {}
  BY DEF EntryInit, HeldOf
<1>3. EntriesFollow(counts, held)
  <2>1. \A d \in DeviceIds : NoEntry(counts, d)
    BY EmptyOK DEF EntryInit, Init, CountsInit
  <2> QED BY <2>1 DEF EntriesFollow, NoEntry, EntryInit, Modifiers
<1>4. out.pressed_keys = {} /\ buttons = {} /\ out.modifiers = {}
  BY DEF EntryInit, Init, Silent
<1> QED BY <1>1, <1>2, <1>3, <1>4 DEF EntryIInv, OwnersHold

\* Every step keeps the invariant.
LEMMA EntryNextInv == EntryIInv /\ [EntryNext]_entryVars => EntryIInv'
<1> SUFFICES ASSUME EntryIInv, [EntryNext]_entryVars PROVE EntryIInv'
  OBVIOUS
<1>1. IInv'
  <2>1. [Next]_vars
    BY EntryNextIsNext DEF entryVars
  <2> QED BY <2>1, NextIInv DEF EntryIInv
<1>2. CASE UNCHANGED entryVars
  BY <1>1, <1>2 DEF EntryIInv, entryVars, vars
<1>3. ASSUME NEW d \in DeviceIds, NEW e \in Physical, PhysicalDown(d, e)
      PROVE  EntryIInv'
  <2>1. Pressing(d, e) /\ Deliver(d, e, TRUE)
    BY <1>3 DEF PhysicalDown, Pressing
  <2>2. CASE e \in Keys /\ KeyDown(d, e)
    BY <1>1, <2>1, <2>2, KeyDownFollows
  <2>3. CASE e \in Modifiers /\ ModifierKey(d, e, TRUE, FALSE)
    BY <1>1, <2>1, <2>3, ModifierFollows
  <2>4. CASE e \in Buttons /\ PointingButton(d, e, TRUE)
    BY <1>1, <2>1, <2>4, ButtonFollows
  <2>5. CASE e = StickyKey /\ StickyModifier(d, CapsLock, "toggle", "key_down")
    BY <1>1, <2>1, <2>5, StickyFollows
  <2> QED BY <2>1, <2>2, <2>3, <2>4, <2>5 DEF Deliver
<1>4. ASSUME NEW d \in DeviceIds, NEW e \in Physical, PhysicalUp(d, e)
      PROVE  EntryIInv'
  <2>1. Releasing(d, e) /\ Deliver(d, e, FALSE)
    BY <1>4 DEF PhysicalUp, Releasing
  <2>2. CASE e \in Keys /\ KeyUp(d, e)
    BY <1>1, <2>1, <2>2, KeyUpFollows
  <2>3. CASE e \in Modifiers /\ ModifierKey(d, e, FALSE, FALSE)
    BY <1>1, <2>1, <2>3, ModifierFollows
  <2>4. CASE e \in Buttons /\ PointingButton(d, e, FALSE)
    BY <1>1, <2>1, <2>4, ButtonFollows
  <2>5. CASE e = StickyKey /\ StickyModifier(d, CapsLock, "toggle", "key_up")
    BY <1>1, <2>1, <2>5, StickyFollows
  <2> QED BY <2>1, <2>2, <2>3, <2>4, <2>5 DEF Deliver
<1>5. CASE Elsewhere
  BY <1>1, <1>5, ElsewhereFollows
<1> QED BY <1>2, <1>3, <1>4, <1>5 DEF EntryNext

\* The invariant gives the property.
LEMMA EntryIInvImplies == EntryIInv => ReportedIsHeld
<1> SUFFICES ASSUME EntryIInv PROVE ReportedIsHeld
  OBVIOUS
<1>1. Held = HeldOf(held)
  BY DEF Held, HeldOf
<1>2. \A d \in DeviceIds : \A x : x \in held[d] => x \in HeldOf(held)
  BY DEF HeldOf
<1>3. out.keys \subseteq HeldOf(held)
  BY <1>2 DEF EntryIInv, IInv, OutputOK, KeysMatch, key_event_exists, OwnersHold
<1>4. pressed_buttons \subseteq HeldOf(held)
  BY <1>2 DEF EntryIInv, IInv, PointingOK, make_hid_report_buttons, OwnersHold
<1> QED BY <1>1, <1>3, <1>4 DEF ReportedIsHeld, EntryIInv

\* The invariant holds of the entry and the posting stage together.
THEOREM EntryInvariant == EntrySpec => []EntryIInv
<1>1. EntryInit => EntryIInv
  BY EntryInitInv
<1>2. EntryIInv /\ [EntryNext]_entryVars => EntryIInv'
  BY EntryNextInv
<1> QED BY <1>1, <1>2, PTL DEF EntrySpec

\* Whatever any number of devices press and release, in any order, the virtual
\* devices report no key or button that nobody holds, and exactly the modifiers
\* somebody holds (pressed_keys_manager of entry.hpp, key_event_dispatcher,
\* pointing_button_manager, is_pressed of modifier_flag_manager).
THEOREM ReportedIsHeldTheorem == EntrySpec => []ReportedIsHeld
BY EntryInvariant, EntryIInvImplies, PTL

=============================================================================
