-------------------------- MODULE ComplexModifications --------------------------
(***************************************************************************)
(* The stages of device_grabber that decide what becomes of an event:      *)
(* simple modifications, complex modifications and fn function keys, each  *)
(* a manipulator_manager between two event queues.  Every queue keeps a    *)
(* manipulator_environment of its own, which follows the events that were  *)
(* put into it; the conditions of a stage are asked about its output       *)
(* queue.  Expressions are shared: each evaluation, in whichever stage,    *)
(* writes the variables of its queue into all of them.                     *)
(*                                                                         *)
(* mouse_motion_to_scroll hands motion to a counter that works on the same *)
(* dispatcher: its jobs wait in a queue, and its timer posts wheel events  *)
(* long after the motion.  What a basic manipulator does with its key is   *)
(* the subject of BasicManipulator; here a key is one event that a basic   *)
(* manipulator changes, or that sets a variable.                           *)
(***************************************************************************)
EXTENDS MouseMotionToScroll

CONSTANTS
    Configurations,  \* the configurations that may be loaded, by name
    Motions,         \* the pointing motions of a device
    Applications, InputSources,
    SetVariables,    \* the set_variable values other processes send
    Earlier,         \* what the variables may have been set to before
    SystemName,      \* the variable system.use_fkeys_as_standard_function_keys
    MaxMotions, MaxKeys, MaxChanges   \* bounds on the inputs

Devices == DOMAIN Properties

VARIABLES
    conf,     \* the name of core_configuration_
    managers, \* managers[s]: the manipulators of stage s
    fkeys,    \* system_preferences_properties_
    queue,    \* queue[s]: the input queue of stage s (queue[1] is merged_input_event_queue_)
    env,      \* env[q]: manipulator_environment and modifier_flag_manager of queue q
    cached,   \* cached_result_ of condition j of manipulator i of stage s, at <<s, i, j>>
    symbols,  \* the variables of the expression there; j = 0 is the expression in `to`
    jobs,     \* what is enqueued on the dispatcher for the counter
    timer,    \* the counter's timer is running
    count,    \* the counter
    mods,     \* device_id_ and from_mandatory_modifiers_ of mouse_motion_to_scroll
    inputs,   \* how many motions, keys and changes there have been
    answers,  \* of the last step: conditions, what they answered and what holds
    heading,  \* axis and sign of the last chunk that moved along the direction
    posted    \* the wheel motion the counter decided on in the last step

vars == <<conf, managers, fkeys, queue, env, cached, symbols, jobs, timer, count, mods, inputs,
          answers, heading, posted>>

NoOrigin == [device |-> None, flags |-> {}]

Stages == 1 .. 3
Queues == 1 .. 4

-----------------------------------------------------------------------------
(* The manipulators of the three stages                                    *)

Basic(conditions, to) == [kind |-> "basic", conditions |-> conditions, to |-> to]

(* mouse_motion_to_scroll reads "from", of which it knows "modifiers" only.*)
mouse_motion_to_scroll(j) ==
    LET from    == IF "from" \in DOMAIN j THEN j["from"] ELSE [k \in {} |-> None]
        options == update_options(IF "options" \in DOMAIN j THEN j["options"] ELSE [k \in {} |-> None])
    IN  IF /\ DOMAIN j \subseteq {"from", "options", "type", "description", "conditions", "parameters"}
           /\ DOMAIN from \subseteq {"modifiers"}
           /\ \A k \in DOMAIN from : from[k] # Wrong
           /\ options # Error
        THEN [kind |-> "mouse_motion_to_scroll", options |-> options,
              modifiers |-> IF "modifiers" \in DOMAIN from THEN from["modifiers"] ELSE {}]
        ELSE Error

make_manipulator(j) ==
    CASE j["type"] = "basic" -> [kind |-> "basic", to |-> j["to"]]
      [] j["type"] = "mouse_basic" -> mouse_basic(j)
      [] j["type"] = "mouse_motion_to_scroll" -> mouse_motion_to_scroll(j)
      [] OTHER -> Error

With(m, conditions) == [k \in DOMAIN m \cup {"conditions"} |->
                            IF k = "conditions" THEN conditions ELSE m[k]]

(* One manipulator that cannot be read is left out; the others stay.       *)
update_complex_modifications_manipulators(rules) ==
    LET built(j) == LET m  == make_manipulator(j)
                        cs == [i \in DOMAIN j["conditions"] |-> make_condition(j["conditions"][i])]
                    IN  IF m = Error \/ Error \in Range(cs) THEN <<>> ELSE <<With(m, cs)>>
        json == SelectSeq(rules, LAMBDA r : r["enabled"])
    IN  FlattenSeq([i \in DOMAIN json |-> built(json[i]["manipulator"])])

simple_modifications_update(c) ==
    LET ofDevice(d) ==
            LET s == c.devices[d]
            IN  (IF s.simple THEN <<Basic(<<make_device_if_condition(d)>>, None)>> ELSE <<>>) \o
                (IF s.flip \cup s.swap \cup s.discard # {}
                 THEN <<With(mouse_basic([flip |-> s.flip, swap |-> s.swap, discard |-> s.discard]),
                             <<make_device_if_condition(d)>>)>>
                 ELSE <<>>)
    IN  FlattenSeq([i \in DOMAIN c.order |-> ofDevice(c.order[i])]) \o
        (IF c.simple THEN <<Basic(<<>>, None)>> ELSE <<>>)

fn_function_keys_update(c) ==
    LET unchanged == <<make_event_changed_if_condition(FALSE), make_device_unless_touch_bar_condition>>
        ofDevice(d) == IF c.devices[d].fn
                       THEN <<Basic(Append(unchanged, make_device_if_condition(d)), None)>> ELSE <<>>
    IN  FlattenSeq([i \in DOMAIN c.order |-> ofDevice(c.order[i])]) \o
        (IF c.fn THEN <<Basic(unchanged, None)>> ELSE <<>>)

(* What conditions read of core_configuration.                             *)
Global(c) == [keyboard_type |-> c.keyboard_type,
              treat_as_built_in_keyboard |-> c.treat_as_built_in_keyboard]

manipulators(c) == <<simple_modifications_update(c),
                     update_complex_modifications_manipulators(c.rules),
                     fn_function_keys_update(c)>>

(* The expressions of a stage, each where it is kept.                      *)
Expressions(s, ms) ==
    UNION {{[at |-> <<s, i, j>>, expression |-> ms[i].conditions[j].expression] :
                j \in {k \in DOMAIN ms[i].conditions :
                         /\ ms[i].conditions[k].kind = "expression"
                         /\ ms[i].conditions[k].expression # None}} \cup
           (IF ms[i].kind = "basic" /\ ms[i].to # None /\ ms[i].to.expression # None
            THEN {[at |-> <<s, i, 0>>, expression |-> ms[i].to.expression]} ELSE {}) :
           i \in DOMAIN ms}

SymbolsOf(s, ms) ==
    UNION {{[at |-> x.at, name |-> n, value |-> NewSymbols(x.expression)[n]] :
                n \in Variables(x.expression)} : x \in Expressions(s, ms)}

Of(memory, s) == {r \in memory : r.at[1] = s}

(* The options of the counter, if the complex modifications have one.      *)
Scrollers == {m \in Range(managers[2]) : m.kind = "mouse_motion_to_scroll"}
Options == (CHOOSE m \in Scrollers : TRUE).options

-----------------------------------------------------------------------------
(* emplace_back_entry: the environment of a queue follows its entries.     *)

SymbolsAt(syms, at) == [n \in {r.name : r \in {q \in syms : q.at = at}} |->
                            (CHOOSE r \in syms : r.at = at /\ r.name = n).value]

(* The value of a set_variable event is set before its expression is       *)
(* evaluated.                                                              *)
Given(ev, v) == IF v.value # None THEN set_variable(ev, v.name, v.value) ELSE ev

(* Every queue the event is put into evaluates the one expression that is  *)
(* kept at e.at: its symbols are syms.  key_up_expression, the same for    *)
(* key_up, and system.now.milliseconds are left out.                       *)
SetVariable(ev, syms, e) ==
    LET v == e.set_variable
    IN  CASE e.event_type = "key_down" /\ v.type = "set" ->
                IF v.expression = None THEN Given(ev, v)
                ELSE set_variable(Given(ev, v), v.name, <<"int", Int64Value(v.expression,
                         apply_to_expression_variable(SymbolsAt(syms, e.at), Given(ev, v).variables))>>)
          [] e.event_type = "key_down" /\ v.type = "unset" -> unset_variable(ev, v.name)
          [] e.event_type = "key_up" /\ v.type = "set" /\ v.key_up_value # None ->
                set_variable(ev, v.name, v.key_up_value)
          [] OTHER -> ev

(* What the expression remembers after that.                               *)
Evaluated(syms, ev, e) ==
    IF e.type = "set_variable" /\ e.event_type = "key_down"
    THEN {IF r.at = e.at
          THEN [r EXCEPT !.value = apply_to_expression_variable(SymbolsAt(syms, e.at),
                                       Given(ev, e.set_variable).variables)[r.name]]
          ELSE r : r \in syms}
    ELSE syms

emplace_back_entry(ev, syms, e) ==
    CASE e.type = "modifier" -> [ev EXCEPT !.flags[e.device] = IF e.down THEN @ + 1 ELSE @ - 1]
      [] e.type = "device_grabbed" -> insert_device_properties(ev, e.device)
      [] e.type = "device_ungrabbed" -> erase_device_properties(ev, e.device)
      [] e.type = "frontmost_application_changed" -> [ev EXCEPT !.frontmost = e.value]
      [] e.type = "input_source_changed" -> [ev EXCEPT !.input_source = e.value]
      [] e.type = "set_variable" -> SetVariable(ev, syms, e)
      [] e.type = "system_preferences_properties_changed" ->
            set_variable(ev, SystemName, <<"bool", e.value>>)
      [] OTHER -> ev

(* A world: what a stage may change while it handles one event.            *)
Put(w, e) == [w EXCEPT !.out = Append(@, e), !.env = emplace_back_entry(@, w.symbols, e),
                       !.symbols = Evaluated(@, w.env, e)]

(* Events that do not come from a manipulator have no expression.          *)
EnvironmentAfter(ev, es) == FoldLeft(LAMBDA v, e : emplace_back_entry(v, {}, e), ev, es)

-----------------------------------------------------------------------------
(* condition_manager::is_fulfilled of manipulator i of stage s.  First the *)
(* variables go into the expressions of all manipulators; then every       *)
(* condition is asked, also after one that is not fulfilled.               *)

apply_environment_variables(syms, variables) ==
    {IF r.at[3] # 0 /\ r.name \in DOMAIN variables
     THEN [r EXCEPT !.value = SetSymbol(@, r.name, variables[r.name])] ELSE r : r \in syms}

CachedAt(w, at) == LET rs == {r \in w.cached : r.at = at}
                   IN  IF rs = {} THEN None ELSE (CHOOSE r \in rs : TRUE).result

(* said and now: the answers of the conditions, and their caches.          *)
Answered(w, s, i, m, said, now) ==
    [yes |-> \A j \in DOMAIN said : said[j],
     world |-> [w EXCEPT
        !.cached = {r \in @ : <<r.at[1], r.at[2]>> # <<s, i>>} \cup
                   {[at |-> <<s, i, j>>, result |-> now[j]] : j \in {k \in DOMAIN now : now[k] # None}},
        !.answers = @ \cup {[condition |-> m.conditions[j], said |-> said[j],
                             holds |-> Holds(m.conditions[j], w.entry, w.env)] :
                            j \in {k \in DOMAIN said : Determined(m.conditions[k], w.env)}}]]

AskAll(w, s, i, m) ==
    Answered(w, s, i, m,
        [j \in DOMAIN m.conditions |->
            is_fulfilled(m.conditions[j], CachedAt(w, <<s, i, j>>), SymbolsAt(w.symbols, <<s, i, j>>),
                         w.entry, w.env)],
        [j \in DOMAIN m.conditions |->
            cached_result(m.conditions[j], CachedAt(w, <<s, i, j>>), w.env)])

Ask(w, s, i, m) ==
    AskAll([w EXCEPT !.symbols = apply_environment_variables(@, w.env.variables)], s, i, m)

-----------------------------------------------------------------------------
(* manipulate of the three kinds of manipulators, in the world w           *)

Taken(w) == [w EXCEPT !.valid = FALSE]

(* A key that sets a variable: to_event_definition posts key_down, key_up. *)
PostSetVariable(w, s, i, to) ==
    LET e(t) == [type |-> "set_variable", device |-> w.entry.device, state |-> "manipulated",
                 set_variable |-> to, event_type |-> t, at |-> <<s, i, 0>>]
    IN  Put(Put(w, e("key_down")), e("key_up"))

basic_manipulate(w, s, i, m, asked) ==
    IF ~w.valid \/ w.entry.type # "key" \/ (s = 3 /\ fkeys) THEN w
    ELSE IF ~asked.yes THEN asked.world
    ELSE IF m.to = None THEN Put(Taken(asked.world), [w.entry EXCEPT !.state = "manipulated"])
    ELSE PostSetVariable(Taken(asked.world), s, i, m.to)

mouse_basic_manipulate(w, m, asked) ==
    IF ~w.valid THEN w
    ELSE IF asked.yes /\ w.entry.type = "pointing_motion" /\ ChangesMotion(m)
    THEN Put(Taken(asked.world), [w.entry EXCEPT !.state = "manipulated",
                                                 !.motion = TransformedMotion(m, @)])
    ELSE asked.world

test_modifiers(m, ev) ==
    m.modifiers = IF MapThenSumSet(LAMBDA d : ev.flags[d], Devices) > 0 THEN {"shift"} ELSE {}

mouse_motion_to_scroll_manipulate(w, m, asked) ==
    IF ~w.valid THEN w
    ELSE IF ~(asked.yes /\ test_modifiers(m, w.env))
    THEN [asked.world EXCEPT !.jobs = Append(@, <<"reset">>)]
    ELSE IF w.entry.type = "pointing_motion"
    THEN [Taken(asked.world) EXCEPT !.jobs = Append(@, <<"update", w.entry.motion>>),
                                    !.mods = [device |-> w.entry.device, flags |-> m.modifiers]]
    ELSE asked.world

(* asked is what the conditions of m answer, if m asks them.               *)
manipulate(w, s, i, m, asked) ==
    CASE m.kind = "basic" -> basic_manipulate(w, s, i, m, asked)
      [] m.kind = "mouse_basic" -> mouse_basic_manipulate(w, m, asked)
      [] m.kind = "mouse_motion_to_scroll" -> mouse_motion_to_scroll_manipulate(w, m, asked)

(* manipulator_manager::manipulate asks the manipulators about keys,       *)
(* motion and preferences; other events pass, and device_ungrabbed resets  *)
(* the modifier flags of the output queue first.                           *)
ForManipulators(e) ==
    e.type \in {"key", "modifier", "pointing_motion", "system_preferences_properties_changed"}

Unpressed(ev, e) ==
    IF e.type = "device_ungrabbed" THEN [ev EXCEPT !.flags[e.device] = 0] ELSE ev

(* The manipulators of a stage, from the i-th on, are asked in order.      *)
RECURSIVE ManipulateFrom(_, _, _)
ManipulateFrom(w, s, i) ==
    IF i > Len(managers[s]) THEN w
    ELSE ManipulateFrom(manipulate(w, s, i, managers[s][i], Ask(w, s, i, managers[s][i])), s, i + 1)

HandleEntry(w, s) == IF ForManipulators(w.entry) THEN ManipulateFrom(w, s, 1) ELSE w

PushBack(w) == IF w.valid THEN Put(w, w.entry) ELSE w

(* A connection works until its input queue is empty; es is that queue.    *)
RECURSIVE HandleEntries(_, _, _)
HandleEntries(w, s, es) ==
    IF es = <<>> THEN w
    ELSE HandleEntries(PushBack(HandleEntry(
            [w EXCEPT !.entry = Head(es), !.valid = TRUE, !.env = Unpressed(@, Head(es))], s)),
            s, Tail(es))

HandleStage(s, w, es) == HandleEntries([w EXCEPT !.out = <<>>, !.env = env[s + 1]], s, es)

-----------------------------------------------------------------------------
(* device_grabber::manipulate: the connections work one after the other.   *)

Manipulate ==
    /\ \E s \in Stages : queue[s] # <<>>
    /\ LET w0 == [entry |-> None, valid |-> FALSE, cached |-> cached, symbols |-> symbols, out |-> <<>>,
                  env |-> None, jobs |-> jobs, mods |-> mods, answers |-> {}]
       IN  \E w1 \in {HandleStage(1, w0, queue[1])} :
           \E w2 \in {HandleStage(2, w1, queue[2] \o w1.out)} :
           \E w3 \in {HandleStage(3, w2, queue[3] \o w2.out)} :
             /\ env' = [env EXCEPT ![2] = w1.env, ![3] = w2.env, ![4] = w3.env]
             /\ cached' = w3.cached
             /\ symbols' = w3.symbols
             /\ jobs' = w3.jobs
             /\ mods' = w3.mods
             /\ answers' = w3.answers
    /\ queue' = [s \in Stages |-> <<>>]
    /\ posted' = None
    /\ UNCHANGED <<conf, managers, fkeys, timer, count, inputs, heading>>

-----------------------------------------------------------------------------
(* The jobs of the dispatcher, in the order in which they were enqueued.   *)

IsJob(name) == jobs # <<>> /\ Head(jobs)[1] = name
KeepPipeline == UNCHANGED <<conf, managers, fkeys, cached, symbols, mods, inputs>>

(* A bug to be caught: a timer that is running is not started again.       *)
UpdateJobStartsOnce ==
    /\ IsJob("update")
    /\ count' = update(count, Head(jobs)[2])
    /\ jobs' = IF timer THEN Tail(jobs) ELSE Append(Tail(jobs), <<"start">>)
    /\ posted' = None /\ answers' = {}
    /\ KeepPipeline /\ UNCHANGED <<queue, env, timer, heading>>

UpdateJob ==
    /\ IsJob("update")
    /\ count' = update(count, Head(jobs)[2])
    /\ jobs' = Append(Tail(jobs), <<"start">>)
    /\ posted' = None /\ answers' = {}
    /\ KeepPipeline /\ UNCHANGED <<queue, env, timer, heading>>

ResetJob ==
    /\ IsJob("reset")
    /\ count' = reset(count)
    /\ heading' = None
    /\ jobs' = Tail(jobs)
    /\ posted' = None /\ answers' = {}
    /\ KeepPipeline /\ UNCHANGED <<queue, env, timer>>

(* timer::start calls the function at once and again at every interval.    *)
StartTimerJob ==
    /\ IsJob("start")
    /\ timer' = TRUE
    /\ jobs' = Append(Tail(jobs), <<"call">>)
    /\ posted' = None /\ answers' = {}
    /\ KeepPipeline /\ UNCHANGED <<queue, env, count, heading>>

(* The direction in which the chunks now push, if there was a new chunk.   *)
Heading(after) ==
    LET moved == Last(after.chunks).value[after.direction]
    IN  IF moved # 0 THEN <<after.direction, make_sign(moved)>>
        ELSE IF heading # None /\ heading[1] = after.direction /\ after.total # Zero THEN heading
        ELSE None

TimerFunction ==
    \E p \in {process_entries(Options, count)} : \E r \in {scroll(Options, p.counter)} :
        /\ count' = r.counter
        /\ posted' = r.motion
        /\ heading' = IF Len(p.counter.entries) < Len(count.entries) THEN Heading(p.counter) ELSE heading
        /\ jobs' = Tail(jobs) \o (IF r.motion = None THEN <<>> ELSE <<<<"post", r.motion>>>>)
                              \o (IF p.go \/ r.go THEN <<>> ELSE <<<<"stop">>>>)

CallJob ==
    /\ IsJob("call")
    /\ TimerFunction
    /\ answers' = {}
    /\ KeepPipeline /\ UNCHANGED <<queue, env, timer>>

StopTimerJob ==
    /\ IsJob("stop")
    /\ timer' = FALSE
    /\ jobs' = Tail(jobs)
    /\ posted' = None /\ answers' = {}
    /\ KeepPipeline /\ UNCHANGED <<queue, env, count, heading>>

(* post_events: the mandatory modifiers are released around the wheel      *)
(* event, in the output queue of the complex modifications.                *)
WheelEvents(motion) ==
    LET modifier(down) == IF mods.flags = {} THEN <<>>
                          ELSE <<[type |-> "modifier", device |-> mods.device,
                                  state |-> "manipulated", down |-> down]>>
    IN  modifier(FALSE) \o
        <<[type |-> "pointing_motion", device |-> mods.device, state |-> "manipulated",
           motion |-> motion]>> \o
        modifier(TRUE)

PostJob ==
    /\ IsJob("post")
    /\ LET es == WheelEvents(Head(jobs)[2])
       IN  /\ queue' = [queue EXCEPT ![3] = @ \o es]
           /\ env' = [env EXCEPT ![3] = EnvironmentAfter(@, es)]
    /\ jobs' = Tail(jobs)
    /\ posted' = None /\ answers' = {}
    /\ KeepPipeline /\ UNCHANGED <<timer, count, heading>>

Arrive(es) ==
    /\ queue' = [queue EXCEPT ![1] = @ \o es]
    /\ env' = [env EXCEPT ![1] = EnvironmentAfter(@, es)]

(* async_post_system_preferences_properties_changed_event                  *)
PreferencesJob ==
    /\ IsJob("preferences")
    /\ Arrive(<<[type |-> "system_preferences_properties_changed", device |-> None,
                 state |-> "virtual_event", value |-> fkeys]>>)
    /\ jobs' = Tail(jobs)
    /\ posted' = None /\ answers' = {}
    /\ KeepPipeline /\ UNCHANGED <<timer, count, heading>>

(* 20 ms pass.  The dispatcher is assumed to keep up with its queue.       *)
Tick ==
    /\ jobs = <<>> /\ \A s \in Stages : queue[s] = <<>>
    /\ Scrollers # {}
    /\ count' = Older(Options, count)
    /\ jobs' = IF timer THEN <<<<"call">>>> ELSE <<>>
    /\ posted' = None /\ answers' = {}
    /\ KeepPipeline /\ UNCHANGED <<queue, env, timer, heading>>

-----------------------------------------------------------------------------
(* Inputs                                                                  *)

Input(kind, max) ==
    /\ inputs[kind] < max
    /\ inputs' = [inputs EXCEPT ![kind] = @ + 1]
    /\ posted' = None /\ answers' = {}

Unaffected == UNCHANGED <<conf, managers, fkeys, cached, symbols, jobs, timer, count, mods, heading>>

Move(d, m) ==
    /\ Input("motions", MaxMotions)
    /\ d \in env[1].devices /\ Properties[d].is_pointing_device
    /\ Arrive(<<[type |-> "pointing_motion", device |-> d, state |-> "original", motion |-> m]>>)
    /\ Unaffected

Press(d) ==
    /\ Input("keys", MaxKeys)
    /\ d \in env[1].devices /\ Properties[d].is_keyboard
    /\ Arrive(<<[type |-> "key", device |-> d, state |-> "original"]>>)
    /\ Unaffected

Shift(d) ==
    /\ Input("keys", MaxKeys)
    /\ d \in env[1].devices /\ Properties[d].is_keyboard
    /\ Arrive(<<[type |-> "modifier", device |-> d, state |-> "original", down |-> env[1].flags[d] = 0]>>)
    /\ Unaffected

(* device_grabber posts these when a device is grabbed, the frontmost      *)
(* application or the input source changes, or set_variables arrives.      *)
Grab(d) ==
    /\ Input("changes", MaxChanges)
    /\ LET t == IF d \in env[1].devices THEN "device_ungrabbed" ELSE "device_grabbed"
       IN  Arrive(<<[type |-> t, device |-> d, state |-> "virtual_event"]>>)
    /\ Unaffected

async_post_frontmost_application_changed_event(a) ==
    /\ Input("changes", MaxChanges)
    /\ Arrive(<<[type |-> "frontmost_application_changed", device |-> None,
                 state |-> "virtual_event", value |-> a]>>)
    /\ Unaffected

async_post_input_source_changed_event(p) ==
    /\ Input("changes", MaxChanges)
    /\ Arrive(<<[type |-> "input_source_changed", device |-> None,
                 state |-> "virtual_event", value |-> p]>>)
    /\ Unaffected

async_post_set_variable_event(v) ==
    /\ Input("changes", MaxChanges)
    /\ LET e(t) == [type |-> "set_variable", device |-> None, state |-> "virtual_event",
                    set_variable |-> v, event_type |-> t, at |-> None]
       IN  Arrive(<<e("key_down"), e("key_up")>>)
    /\ Unaffected

(* Only the fn manipulators are made anew.                                 *)
async_set_system_preferences_properties ==
    /\ Input("changes", MaxChanges)
    /\ fkeys' = ~fkeys
    /\ managers' = [managers EXCEPT ![3] = fn_function_keys_update(Configurations[conf])]
    /\ cached' = cached \ Of(cached, 3)
    /\ symbols' = (symbols \ Of(symbols, 3)) \cup SymbolsOf(3, managers'[3])
    /\ jobs' = Append(jobs, <<"preferences">>)
    /\ UNCHANGED <<conf, queue, env, timer, count, mods, heading>>

(* core_configuration_updated: all manipulators are made anew.  None of    *)
(* these is active, so the old ones go at once, and with the counter its   *)
(* jobs and its timer.                                                     *)
Reload(c) ==
    /\ Input("changes", MaxChanges)
    /\ c # conf
    /\ conf' = c
    /\ env' = [q \in Queues |-> [env[q] EXCEPT !.core_configuration = Global(Configurations[c])]]
    /\ managers' = manipulators(Configurations[c])
    /\ cached' = {}
    /\ symbols' = UNION {SymbolsOf(s, managers'[s]) : s \in Stages}
    /\ jobs' = Append(SelectSeq(jobs, LAMBDA j : j[1] = "preferences"), <<"preferences">>)
    /\ timer' = FALSE
    /\ count' = counter
    /\ mods' = NoOrigin
    /\ heading' = None
    /\ UNCHANGED <<fkeys, queue>>

-----------------------------------------------------------------------------
Init ==
    /\ conf \in DOMAIN Configurations
    /\ managers = manipulators(Configurations[conf])
    /\ fkeys = FALSE
    /\ queue = [s \in Stages |-> <<>>]
    /\ \E v \in Earlier :
         env = [q \in Queues |-> [NewEnvironment(Global(Configurations[conf])) EXCEPT
                                    !.devices = Devices, !.variables = v]]
    /\ cached = {}
    /\ symbols = UNION {SymbolsOf(s, managers[s]) : s \in Stages}
    /\ jobs = <<>>
    /\ timer = FALSE
    /\ count = counter
    /\ mods = NoOrigin
    /\ inputs = [motions |-> 0, keys |-> 0, changes |-> 0]
    /\ answers = {}
    /\ heading = None
    /\ posted = None

Environment ==
    \/ \E d \in Devices : (\E m \in Motions : Move(d, m)) \/ Press(d) \/ Shift(d) \/ Grab(d)
    \/ \E a \in Applications : async_post_frontmost_application_changed_event(a)
    \/ \E p \in InputSources : async_post_input_source_changed_event(p)
    \/ \E v \in SetVariables : async_post_set_variable_event(v)
    \/ async_set_system_preferences_properties
    \/ \E c \in DOMAIN Configurations : Reload(c)

Dispatcher ==
    \/ Manipulate
    \/ UpdateJob \/ ResetJob \/ StartTimerJob \/ CallJob \/ StopTimerJob \/ PostJob
    \/ PreferencesJob
    \/ Tick

Next == Environment \/ Dispatcher

(* The dispatcher thread runs what is enqueued, and time passes: weak      *)
(* fairness of Dispatcher, spelled out.  CanRun says when Dispatcher has   *)
(* something to do (Tick changes nothing when the timer is off and every   *)
(* age has reached its limit), and the steps of Dispatcher are those that  *)
(* take no input.                                                          *)
CanRun ==
    \/ jobs # <<>>
    \/ \E s \in Stages : queue[s] # <<>>
    \/ Scrollers # {} /\ (timer \/ Older(Options, count) # count)
Fairness == []<>~CanRun \/ []<><<UNCHANGED inputs>>_vars

Spec == Init /\ [][Next]_vars /\ Fairness

-----------------------------------------------------------------------------
(* A condition answers what it means in the environment of its own stage's *)
(* output queue at that moment, whatever it cached before, whatever        *)
(* another stage wrote into its expression, and wherever the event waited. *)
(* (An expression whose variable is not set, or is set to a value of       *)
(* another type, is exempt: it keeps the number it saw last.)              *)
ConditionsAnswerForTheirStage ==
    \A a \in answers : a.said = a.holds

(* The counter decides on a wheel event only the way the pointer was last  *)
(* moved: along the locked direction, with the sign of the last chunk that *)
(* moved along it, and on none between a reset, when the conditions have   *)
(* ended, and the next motion.  (A wheel event that was already enqueued   *)
(* when the reset ran is still posted.)                                    *)
ScrollFollowsMotion ==
    posted # None =>
        /\ heading # None
        /\ make_sign(posted.horizontal_wheel) = IF heading[1] = "x" THEN heading[2] ELSE 0
        /\ make_sign(posted.vertical_wheel) = IF heading[1] = "y" THEN -heading[2] ELSE 0

(* When the inputs end, all motion that was accepted is processed and the  *)
(* timer stops: momentum does not scroll forever, and a start that races a *)
(* stop is not lost.                                                       *)
ScrollEnds ==
    <>[](~timer /\ jobs = <<>> /\ count.entries = <<>> /\ \A s \in Stages : queue[s] = <<>>)
=============================================================================
