---------------------------- MODULE BasicManipulator ----------------------------
(***************************************************************************)
(* The basic manipulators of complex modifications                         *)
(* (share/manipulator/manipulators/basic) in their manipulator_manager:    *)
(* keys wait in the input queue, each manipulator decides whether a key is *)
(* its `from`, posts its `to` events, remembers in a                       *)
(* manipulated_original_event what it owes at key_up, and starts its       *)
(* to_if_held_down and to_delayed_action timers.                           *)
(*                                                                         *)
(* The output queue is kept as what it adds up to: out[d][e] is the number *)
(* of key_downs minus key_ups posted for event e on behalf of device d,    *)
(* which for a modifier is the count of modifier_flag_manager              *)
(* (ModifierFlagList shows that list and counts agree).                    *)
(***************************************************************************)
EXTENDS Integers, Sequences, FiniteSets, SequencesExt, FiniteSetsExt

CONSTANTS
    KeysOf,        \* [device -> the keys it has]
    Flags,         \* the modifier flags, a subset of the keys
    Definitions,   \* the manipulators of the profile, a sequence
    Threshold,     \* basic.simultaneous_threshold_milliseconds
    AloneTimeout,  \* basic.to_if_alone_timeout_milliseconds
    HeldDelay,     \* basic.to_if_held_down_threshold_milliseconds
    DelayedDelay,  \* basic.to_delayed_action_delay_milliseconds
    MaxNow, MaxInputs, MaxQueue, MaxChanges, MaxUngrabs  \* bounds

Devices == DOMAIN KeysOf
DeviceZero == "device_id(0)"
None == "none"
NoTimer == [due |-> 0, dev |-> DeviceZero, moe |-> 0]

ASSUME BasicAssumption ==
    /\ DeviceZero \notin Devices
    /\ {Threshold, AloneTimeout, HeldDelay, DelayedDelay} \subseteq Nat

VARIABLES
    now,           \* the time
    held,          \* [device -> the keys that are physically down]
    grabbed,       \* the devices that are grabbed
    inputs,        \* how many inputs were made (numbers the key presses)
    queue,         \* the input event queue
    manipulators,  \* manipulators_ of the manager
    moes,          \* the manipulated_original_event objects that are referred to
    out,           \* what the output queue adds up to
    env,           \* the part of manipulator_environment that conditions test
    changes,       \* how often the configuration was reloaded or the environment changed
    sent           \* to_if_alone and to_delayed_action events of the last step

vars == <<now, held, grabbed, inputs, queue, manipulators, moes, out, env, changes, sent>>

Events == Flags \cup UNION Range(KeysOf) \cup
            UNION {UNION {{to.key : to \in Range(s)} \cup UNION {Range(to.mods) : to \in Range(s)} :
                          s \in {d.to, d.alone, d.after, d.held, d.invoked, d.canceled, d.afterAll}} :
                   d \in Range(Definitions)}

-----------------------------------------------------------------------------
(* Handlers work on a world: what a call of manipulate may change.         *)
World == [entry |-> None, manipulators |-> manipulators, moes |-> moes, out |-> out,
          sent |-> <<>>, wait |-> FALSE]

\* emplace_back_entry: n = 1 posts a key_down, n = -1 a key_up.
Post(w, d, e, n) == [w EXCEPT !.out[d][e] = @ + n]
PostAll(w, d, es, n) ==
    [w EXCEPT !.out[d] = [e \in DOMAIN @ |-> @[e] + n * Cardinality({i \in DOMAIN es : es[i] = e})]]
PostEach(w, d, es, n) == [w EXCEPT !.out[d] = [e \in DOMAIN @ |-> IF e \in es THEN @[e] + n ELSE @[e]]]

\* modifier_flag_manager::is_pressed, make_modifier_flags
Count(o, m) == MapThenSumSet(LAMBDA d : o[d][m], DOMAIN o)
PressedFlags(w) == {m \in Flags : Count(w.out, m) > 0}

\* filter_by_conditions
Filter(tos) == SelectSeq(tos, LAMBDA to : env \in to.cond)

IsModifierKey(to) == to.key \in Flags

\* is_last_to_event_modifier_key_event (of the unfiltered events)
LastIsModifier(tos) == tos # <<>> /\ IsModifierKey(Last(tos))

\* post_from_mandatory_modifiers_key_up
MandatoryUp(w, d, id) ==
    LET ms == (w.moes[id].mandatory \ w.moes[id].released) \cap PressedFlags(w)
    IN  [PostEach(w, d, ms, -1) EXCEPT !.moes[id].released = @ \cup ms]

\* post_from_mandatory_modifiers_key_down
MandatoryDown(w, d, id) ==
    [PostEach(w, d, w.moes[id].released, 1) EXCEPT !.moes[id].released = {}]

\* One event of post_events_at_key_down: what is not released now is owed to key_up.
PressTo(w, d, id, to) ==
    [Post(PostAll(w, d, to.mods, 1), d, to.key, 1) EXCEPT !.moes[id].halted = @ \/ to.halt]

ReleaseTo(w, d, id, to, last) ==
    IF last /\ to.repeat
    THEN [w EXCEPT !.moes[id].atKeyUp = Append(@, <<d, to.key>>)]
    ELSE Post(w, d, to.key, -1)

ReleaseMods(w, d, id, to, last) ==
    IF last /\ IsModifierKey(to)
    THEN [w EXCEPT !.moes[id].atKeyUp = @ \o [i \in DOMAIN to.mods |-> <<d, to.mods[i]>>]]
    ELSE PostAll(w, d, to.mods, -1)

PostTo(w, d, id, to, last) ==
    ReleaseMods(ReleaseTo(PressTo(w, d, id, to), d, id, to, last), d, id, to, last)

\* post_events_at_key_down
PostAtKeyDown(w, d, id, tos) ==
    LET fs == Filter(tos)
    IN  IF w.moes[id].halted THEN w
        ELSE FoldLeftDomain(LAMBDA x, i : PostTo(x, d, id, fs[i], i = Len(fs)), w, fs)

\* post_events_at_key_up
PostAtKeyUp(w, id) ==
    [FoldLeft(LAMBDA x, p : Post(x, p[1], p[2], -1), w, w.moes[id].atKeyUp)
        EXCEPT !.moes[id].atKeyUp = <<>>]

\* post_extra_to_events: everything is released at once.  Its key_downs are noted.
Note(w, id, to, why, n) ==
    [w EXCEPT !.moes[id].halted = @ \/ to.halt,
              !.sent = Append(@, [why |-> why, to |-> to, flags |-> PressedFlags(w),
                                  moe |-> w.moes[id], n |-> n])]

PostExtra(w, d, id, tos, why, n) ==
    LET Tap(x, to) == PostAll(Note(PostAll(x, d, to.mods, 1), id, to, why, n), d, to.mods, -1)
    IN  IF w.moes[id].halted THEN w ELSE FoldLeft(Tap, w, Filter(tos))

\* Mutant: the flags of the moment, not those of the key_down, are what is sent.
ScopedFlagsOfNow(w, flags) == [m \in Flags |-> 0]

\* scoped_modifier_flags: what has to be posted for device_id(0) to have exactly
\* `flags` pressed.
ScopedFlags(w, flags) ==
    [m \in Flags |->
        CASE m \in flags /\ Count(w.out, m) <= 0 -> 1 - Count(w.out, m)
          [] m \notin flags /\ Count(w.out, m) > 0 -> -Count(w.out, m)
          [] OTHER -> 0]

PostScoped(w, scoped, sign) ==
    [w EXCEPT !.out[DeviceZero] =
        [e \in DOMAIN @ |-> IF e \in Flags THEN @[e] + sign * scoped[e] ELSE @[e]]]

-----------------------------------------------------------------------------
(* to_delayed_action::post_events                                          *)
SendDelayed(w, p, moe, scoped, tos) ==
    LET up == PostEach(PostScoped(w, scoped, 1), p.dev, moe.mandatory, -1)
        tapped == PostExtra(up, p.dev, p.moe, tos, "delayed", 0)
    IN  PostScoped(PostEach(tapped, p.dev, moe.mandatory, 1), scoped, -1)

PostDelayed(w, i, tos) ==
    LET p == w.manipulators[i].delayed
    IN  IF p = NoTimer THEN w
        ELSE [SendDelayed(w, p, w.moes[p.moe], ScopedFlags(w, w.moes[p.moe].flags), tos)
                EXCEPT !.manipulators[i].delayed = NoTimer]

\* to_delayed_action::cancel, to_if_held_down::cancel: another key_down of any key
CancelTimers(w, i) ==
    IF w.entry.type # "down" THEN w
    ELSE PostDelayed([w EXCEPT !.manipulators[i].heldTimer = NoTimer], i,
                     Definitions[w.manipulators[i].def].canceled)

\* Mutant: the timer of the pressed key is left running at its key_up.
SetupHeldDownKeyDownOnly(w, i, id) ==
    IF w.entry.type = "down" /\ Definitions[w.manipulators[i].def].held # <<>>
    THEN [w EXCEPT !.manipulators[i].heldTimer =
                        [due |-> now + HeldDelay, dev |-> w.entry.dev, moe |-> id]]
    ELSE w

\* to_if_held_down::setup: current_held_down_id_ moves on for every event.
SetupHeldDown(w, i, id) ==
    [w EXCEPT !.manipulators[i].heldTimer =
        IF w.entry.type = "down" /\ Definitions[w.manipulators[i].def].held # <<>>
        THEN [due |-> now + HeldDelay, dev |-> w.entry.dev, moe |-> id]
        ELSE NoTimer]

\* to_delayed_action::setup
SetupDelayed(w, i, id) ==
    LET def == Definitions[w.manipulators[i].def]
    IN  IF w.entry.type = "down" /\ def.invoked \o def.canceled # <<>>
        THEN [w EXCEPT !.manipulators[i].delayed =
                        [due |-> now + DelayedDelay, dev |-> w.entry.dev, moe |-> id]]
        ELSE w

-----------------------------------------------------------------------------
\* unset_alone_if_needed
UnsetAlone(w, i) ==
    IF w.entry.type = "up" THEN w
    ELSE [w EXCEPT !.moes = [id \in DOMAIN @ |->
            IF id \in Range(w.manipulators[i].moes) THEN [@[id] EXCEPT !.alone = FALSE] ELSE @[id]]]

From(e) == [dev |-> e.dev, key |-> e.key]

\* from_event_definition::test_event
TestEvent(e, def) == e.type \in {"down", "up"} /\ e.key \in Range(def.from)

\* from_modifiers_definition::test_modifiers: the flags that count as mandatory
TestModifiers(w, def) ==
    /\ def.mandatory # {"any"} => def.mandatory \subseteq PressedFlags(w)
    /\ def.mandatory = {"any"} \/ def.optionalAny \/ PressedFlags(w) \subseteq def.mandatory

MandatoryOf(w, def) == IF def.mandatory = {"any"} THEN PressedFlags(w) ELSE def.mandatory

\* all_from_events_found
AllFound(def, froms) == Range(def.from) \subseteq {f.key : f \in froms}

\* from_event_definition::test_key_order
TestKeyOrder(keys, order, def) ==
    \A i \in DOMAIN keys :
        i <= Len(def.from) =>
            CASE order = "insensitive" -> TRUE
              [] order = "strict" -> keys[i] = def.from[i]
              [] order = "strict_inverse" -> keys[i] = def.from[Len(def.from) + 1 - i]

\* The key_downs and key_ups of the `from` events among the entries of the input
\* queue that are within the threshold of the front event.
Collect(front, def) ==
    LET near == SelectInSeq(queue, LAMBDA e : front.t + Threshold < e.t)
        See(c, e) ==
            LET f == From(e)
                complete == AllFound(def, c.froms)
            IN  CASE ~c.target -> c
                  [] e.type = "down" /\ TestEvent(e, def) ->
                        IF \E g \in c.froms : g.key = e.key THEN c
                        ELSE [c EXCEPT !.froms = @ \cup {f}, !.taken = @ \cup {e.n},
                                       !.downs = Append(@, e.key)]
                  [] e.type = "down" /\ ~TestEvent(e, def) ->
                        [c EXCEPT !.target = def.uninterruptedly \/ complete]
                  [] e.type = "up" /\ f \in c.froms ->
                        [c EXCEPT !.target = complete,
                                  !.ups = IF complete /\ e.key \notin Range(@) THEN Append(@, e.key) ELSE @]
                  [] OTHER -> c
    IN  FoldLeft(See, [target |-> TRUE, froms |-> {}, taken |-> {}, downs |-> <<>>, ups |-> <<>>],
                 IF near = 0 THEN queue ELSE SubSeq(queue, 1, near - 1))

\* Whether the front key_down is the manipulator's: "no", "wait" for the other
\* keys (or their release), or "take".
Decide(w, i, def, c) ==
    LET e == w.entry
        found == AllFound(def, c.froms)
        waitsForUp == def.upOrder # "insensitive" /\ Len(c.ups) < Len(def.from) - 1
    IN  IF \/ ~w.manipulators[i].valid
           \/ ~TestModifiers(w, def)
           \/ env \notin def.cond
           \/ ~c.target
           \/ c.froms = {}
           \/ ~TestKeyOrder(c.downs, def.downOrder, def)
           \/ ~TestKeyOrder(c.ups, def.upOrder, def)
        THEN "no"
        ELSE IF (waitsForUp \/ ~found) /\ now < e.t + Threshold THEN "wait"
        ELSE IF found THEN "take" ELSE "no"

\* Modifiers stay released while a last `to` event that is a modifier is down.
RestoreMandatory(w, d, id, tos) == IF LastIsModifier(tos) THEN w ELSE MandatoryDown(w, d, id)

\* to_if_held_down::setup and to_delayed_action::setup
Setup(w, i, id) == SetupDelayed(SetupHeldDown(w, i, id), i, id)

\* The key_down side of manipulate
TakeKeyDown(w, i, def, c) ==
    LET e == w.entry
        id == Min((1 .. Cardinality(DOMAIN w.moes) + 1) \ DOMAIN w.moes)
        moe == [from |-> c.froms, mandatory |-> MandatoryOf(w, def), t |-> e.t,
                flags |-> PressedFlags(w), alone |-> TRUE, halted |-> FALSE, atKeyUp |-> <<>>,
                keyUpPosted |-> FALSE, released |-> {}, n |-> e.n, taken |-> c.taken]
        made == [w EXCEPT !.moes = [x \in DOMAIN @ \cup {id} |-> IF x = id THEN moe ELSE @[x]],
                          !.manipulators[i].moes = Append(@, id),
                          !.entry.valid = FALSE]
        posted == PostAtKeyDown(MandatoryUp(made, e.dev, id), e.dev, id, def.to)
    IN  Setup(RestoreMandatory(posted, e.dev, id, def.to), i, id)

\* Events sent besides `to`, without the mandatory modifiers
Extra(w, id, tos, why) ==
    LET d == w.entry.dev
    IN  IF tos = <<>> THEN w
        ELSE MandatoryDown(PostExtra(MandatoryUp(w, d, id), d, id, tos, why, w.entry.n), d, id)

\* Mutant: only the timeout decides.
IsAloneByTime(w, id) == w.entry.t - w.moes[id].t < AloneTimeout

\* get_alone, within basic.to_if_alone_timeout_milliseconds
IsAlone(w, id) == w.moes[id].alone /\ w.entry.t - w.moes[id].t < AloneTimeout

\* to_if_alone, with the flags of the key_down
PostAlone(w, id, def, scoped) ==
    PostScoped(Extra(PostScoped(w, scoped, 1), id, def.alone, "alone"), scoped, -1)

\* What the first key_up of a manipulated_original_event posts
FirstKeyUp(w, id, def) ==
    LET upped == MandatoryDown(PostAtKeyUp([w EXCEPT !.moes[id].keyUpPosted = TRUE], id), w.entry.dev, id)
        Alone(v) == IF def.alone # <<>> /\ IsAlone(v, id)
                    THEN PostAlone(v, id, def, ScopedFlags(v, v.moes[id].flags)) ELSE v
    IN  Extra(Alone(upped), id, def.after, "after")

\* What the key_up after which its keys are `rest` posts
PostKeyUp(w, id, def, rest) ==
    LET Once(v) == IF v.moes[id].keyUpPosted THEN v ELSE FirstKeyUp(v, id, def)
    IN  CASE rest = {} -> Extra(Once(w), id, def.afterAll, "after")
          [] rest # {} /\ def.upWhen = "all" -> w
          [] OTHER -> Once(w)

\* The key_up side of manipulate, of the manipulated_original_event the key belongs to
TakeKeyUp(w, i, def, id) ==
    LET rest == w.moes[id].from \ {From(w.entry)}
        erased == [w EXCEPT !.moes[id].from = rest,
                            !.manipulators[i].moes = IF rest = {} THEN SelectSeq(@, LAMBDA x : x # id) ELSE @,
                            !.entry.valid = FALSE]
    IN  Setup(PostKeyUp(erased, id, def, rest), i, id)

\* basic::manipulate of a key_down, with what was collected and decided
ManipulateKeyDown(w, i, def, c, decision) ==
    CASE decision = "no" -> w
      [] decision = "wait" -> [w EXCEPT !.wait = TRUE]
      [] decision = "take" -> TakeKeyDown(w, i, def, c)

\* basic::manipulate of a key_up: the first manipulated_original_event with its key
ManipulateKeyUp(w, i, def) ==
    LET owners == SelectSeq(w.manipulators[i].moes, LAMBDA id : From(w.entry) \in w.moes[id].from)
    IN  IF owners = <<>> THEN w ELSE TakeKeyUp(w, i, def, Head(owners))

ManipulateEvent(w, i, def) ==
    LET c == Collect(w.entry, def)
    IN  CASE ~w.entry.valid \/ ~TestEvent(w.entry, def) -> w
          [] w.entry.valid /\ TestEvent(w.entry, def) /\ w.entry.type = "down" ->
                ManipulateKeyDown(w, i, def, c, Decide(w, i, def, c))
          [] OTHER -> ManipulateKeyUp(w, i, def)

\* basic::manipulate; once one manipulator waits the others are not asked
Manipulate(w, i) ==
    IF w.wait THEN w
    ELSE ManipulateEvent(CancelTimers(UnsetAlone(w, i), i), i, Definitions[w.manipulators[i].def])

\* basic::handle_device_ungrabbed_event
ForgetDevice(w, i) ==
    LET left == [id \in DOMAIN w.moes |-> {f \in w.moes[id].from : f.dev # w.entry.dev}]
        own == Range(w.manipulators[i].moes)
    IN  [w EXCEPT !.moes = [id \in DOMAIN @ |-> [@[id] EXCEPT !.from = IF id \in own THEN left[id] ELSE @]],
                  !.manipulators[i].moes = SelectSeq(@, LAMBDA id : left[id] # {})]

-----------------------------------------------------------------------------
\* basic::active
Active(m) == m.moes # <<>>

\* Mutant: invalid manipulators are removed at once.
RemoveInvalidAtOnce(ms) == SelectSeq(ms, LAMBDA m : m.valid)

\* remove_invalid_manipulators
RemoveInvalid(ms) == SelectSeq(ms, LAMBDA m : m.valid \/ Active(m))

\* Objects nobody owns are gone: a manipulated_original_event lives in a
\* manipulator or in a shared_ptr of to_delayed_action; to_if_held_down has a weak_ptr.
Commit(w, ms) ==
    LET live == UNION {Range(ms[i].moes) \cup IF ms[i].delayed = NoTimer THEN {} ELSE {ms[i].delayed.moe}
                        : i \in DOMAIN ms}
    IN  /\ moes' = Restrict(w.moes, live)
        /\ manipulators' = [i \in DOMAIN ms |->
                [ms[i] EXCEPT !.heldTimer = IF @ # NoTimer /\ @.moe \in live THEN @ ELSE NoTimer]]
        /\ sent' = w.sent

\* basic::already_manipulated of some manipulator
already_manipulated(e) ==
    /\ e.type = "down"
    /\ \E i \in DOMAIN manipulators : \E id \in Range(manipulators[i].moes) : From(e) \in moes[id].from

\* push_back_entry of the front event when it is still valid
PushFront(w) ==
    LET e == w.entry
    IN  CASE e.valid /\ e.type = "down" -> Post(w, e.dev, e.key, 1).out
          [] e.valid /\ e.type = "up" -> Post(w, e.dev, e.key, -1).out
          [] OTHER -> w.out

\* Every manipulator, from the i-th on, is asked about the front event.
RECURSIVE ManipulateFrom(_, _)
ManipulateFrom(w, i) ==
    IF i > Len(manipulators) THEN w ELSE ManipulateFrom(Manipulate(w, i), i + 1)

\* What the front event does to the manipulators
HandleFront(w) ==
    LET e == w.entry
    IN  CASE e.type \in {"down", "up", "motion"} -> IF e.valid THEN ManipulateFrom(w, 1) ELSE w
          [] e.type = "tap" -> FoldLeftDomain(UnsetAlone, w, manipulators)
          [] e.type = "ungrabbed" ->
                FoldLeftDomain(ForgetDevice, [w EXCEPT !.out[e.dev] = [x \in Events |-> 0]], manipulators)
          [] e.type = "environment" -> w

\* manipulator_manager::manipulate for the front event
ManagerManipulate ==
    /\ queue # <<>>
    /\ \E e \in {[Head(queue) EXCEPT !.valid = ~already_manipulated(Head(queue))]} :
       \E w \in {HandleFront([World EXCEPT !.entry = e])} :
           /\ queue' = IF w.wait THEN queue ELSE Tail(queue)
           /\ out' = IF w.wait THEN w.out ELSE PushFront(w)
           /\ env' = IF e.type = "environment" THEN ~env ELSE env
           /\ Commit(w, IF w.wait \/ Tail(queue) = <<>> THEN RemoveInvalid(w.manipulators)
                        ELSE w.manipulators)
    /\ UNCHANGED <<now, held, grabbed, inputs, changes>>

\* The timer of to_if_held_down
FireHeldDown(i) ==
    /\ manipulators[i].heldTimer # NoTimer
    /\ now >= manipulators[i].heldTimer.due
    /\ LET p == manipulators[i].heldTimer
           def == Definitions[manipulators[i].def]
           w == [World EXCEPT !.manipulators[i].heldTimer = NoTimer]
           upped == MandatoryDown(PostAtKeyUp(w, p.moe), p.dev, p.moe)
           posted == PostAtKeyDown(MandatoryUp(upped, p.dev, p.moe), p.dev, p.moe, def.held)
       IN  \E v \in {RestoreMandatory(posted, p.dev, p.moe, def.held)} :
                out' = v.out /\ Commit(v, v.manipulators)
    /\ UNCHANGED <<now, held, grabbed, inputs, queue, env, changes>>

\* The timer of to_delayed_action
FireDelayed(i) ==
    /\ manipulators[i].delayed # NoTimer
    /\ now >= manipulators[i].delayed.due
    /\ \E w \in {PostDelayed(World, i, Definitions[manipulators[i].def].invoked)} :
           out' = w.out /\ Commit(w, w.manipulators)
    /\ UNCHANGED <<now, held, grabbed, inputs, queue, env, changes>>

NewManipulators ==
    [i \in DOMAIN Definitions |-> [def |-> i, valid |-> TRUE, moes |-> <<>>, heldTimer |-> NoTimer, delayed |-> NoTimer]]

\* complex_modifications_manipulator_manager::update
Reload ==
    /\ changes < MaxChanges
    /\ changes' = changes + 1
    /\ LET invalid == [i \in DOMAIN manipulators |-> [manipulators[i] EXCEPT !.valid = FALSE]]
       IN  Commit(World, RemoveInvalid(invalid) \o NewManipulators)
    /\ UNCHANGED <<now, held, grabbed, inputs, queue, out, env>>

-----------------------------------------------------------------------------
(* The devices, the event tap and the frontmost application                *)
Enqueue(type, d, k, n) ==
    /\ Len(queue) < MaxQueue
    /\ queue' = Append(queue, [type |-> type, dev |-> d, key |-> k, t |-> now, n |-> n, valid |-> TRUE])
    /\ sent' = <<>>
    /\ UNCHANGED <<now, manipulators, moes, out, env>>

Input == inputs < MaxInputs /\ inputs' = inputs + 1

Press(d, k) ==
    /\ Input /\ d \in grabbed /\ k \in KeysOf[d] \ held[d]
    /\ held' = [held EXCEPT ![d] = @ \cup {k}]
    /\ Enqueue("down", d, k, inputs')
    /\ UNCHANGED <<grabbed, changes>>

Release(d, k) ==
    /\ d \in grabbed /\ k \in held[d]
    /\ held' = [held EXCEPT ![d] = @ \ {k}]
    /\ Enqueue("up", d, k, inputs)
    /\ UNCHANGED <<grabbed, inputs, changes>>

\* A wheel turns: of a grabbed device, or seen by the event tap
Scroll(type) ==
    /\ Input
    /\ Enqueue(type, DeviceZero, None, inputs')
    /\ UNCHANGED <<held, grabbed, changes>>

ChangeEnvironment ==
    /\ changes < MaxChanges
    /\ changes' = changes + 1
    /\ Enqueue("environment", DeviceZero, None, inputs)
    /\ UNCHANGED <<held, grabbed, inputs>>

Ungrab(d) ==
    /\ d \in grabbed
    /\ Cardinality(Devices \ grabbed) < MaxUngrabs
    /\ grabbed' = grabbed \ {d}
    /\ held' = [held EXCEPT ![d] = {}]
    /\ Enqueue("ungrabbed", d, None, inputs)
    /\ UNCHANGED <<inputs, changes>>

Tick ==
    /\ now < MaxNow
    /\ now' = now + 1
    /\ sent' = <<>>
    /\ UNCHANGED <<held, grabbed, inputs, queue, manipulators, moes, out, env, changes>>

Init ==
    /\ now = 0
    /\ held = [d \in Devices |-> {}]
    /\ grabbed = Devices
    /\ inputs = 0
    /\ queue = <<>>
    /\ manipulators = NewManipulators
    /\ moes = <<>>
    /\ out = [d \in Devices \cup {DeviceZero} |-> [e \in Events |-> 0]]
    /\ env = TRUE
    /\ changes = 0
    /\ sent = <<>>

Next ==
    \/ \E d \in Devices, k \in UNION Range(KeysOf) : Press(d, k) \/ Release(d, k)
    \/ \E type \in {"motion", "tap"} : Scroll(type)
    \/ ChangeEnvironment
    \/ \E d \in Devices : Ungrab(d)
    \/ Tick
    \/ ManagerManipulate
    \/ \E i \in DOMAIN manipulators : FireHeldDown(i) \/ FireDelayed(i)
    \/ Reload

Spec == Init /\ [][Next]_vars

-----------------------------------------------------------------------------
(* Once every key is up and every event is handled, nothing that was       *)
(* posted is still down, and no manipulator remembers a key: whatever the  *)
(* order of keys, timers, condition changes, changes and ungrabs, each     *)
(* key_down sent by post_events_at_key_down gets its key_up and modifiers  *)
(* released for a `to` event are as the user holds them again.             *)
NothingLeftDown ==
    queue = <<>> /\ (\A d \in Devices : held[d] = {}) =>
        /\ \A e \in Events : Count(out, e) = 0
        /\ \A i \in DOMAIN manipulators : ~Active(manipulators[i])

(* The to_if_held_down timer can still post only while its key is down for *)
(* the manipulator: a key_up that was handled before, a device that went   *)
(* away or a later key_down has silenced it (current_held_down_id_ and the *)
(* weak_ptr).                                                              *)
HeldDownOnlyWhileHeld ==
    \A i \in DOMAIN manipulators :
        LET p == manipulators[i].heldTimer
        IN  p # NoTimer => p.moe \in Range(manipulators[i].moes) /\ ~moes[p.moe].keyUpPosted

(* to_if_alone is sent only when no other key was pressed and no wheel     *)
(* turned between the press of its key and its release.                    *)
AloneMeansAlone ==
    \A s \in Range(sent) :
        s.why = "alone" => s.n - s.moe.n = Cardinality(s.moe.taken) - 1

(* "Improved `to_if_alone` behavior to use the modifier flags of the time  *)
(* the key is pressed", and the same of to_delayed_action: the events go   *)
(* out with the flags of the key_down, less the mandatory ones, whatever   *)
(* was pressed or released since.                                          *)
SentWithFlagsOfKeyDown ==
    \A s \in Range(sent) :
        s.why \in {"alone", "delayed"} =>
            s.flags = (s.moe.flags \ s.moe.mandatory) \cup Range(s.to.mods)

(* "Skip if the key_down event is already manipulated by `simultaneous`":  *)
(* a key_down that is skipped is one of those a simultaneous took.         *)
SkippedWasTaken ==
    queue # <<>> /\ already_manipulated(Head(queue)) =>
        Head(queue).n \in UNION {moes[id].taken : id \in DOMAIN moes}

=============================================================================
