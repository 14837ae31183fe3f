------------------------- MODULE CoreConfiguration -------------------------
(***************************************************************************)
(* karabiner.json in memory and on disk: core_configuration and its parts  *)
(* (global, machine_specific, profiles with parameters, virtual keyboard,  *)
(* devices, simple and complex modifications), the json helper that loads  *)
(* and stores them, and the edits the applications make through            *)
(* libkrbn_configuration.                                                  *)
(*                                                                         *)
(* Every scalar is an integer: booleans are 0 and 1, a name is a number    *)
(* with 0 for the empty string, Bad is a json value of the wrong type.  A  *)
(* json object is a function from the keys it has.  Of the json_ member    *)
(* that each object keeps, only the unregistered keys ("extra") matter:    *)
(* to_json sets or erases every registered one.  Objects with the same     *)
(* helper and different keys (nine global settings, thirty device          *)
(* settings) are represented by the keys the constants name.               *)
(***************************************************************************)
EXTENDS Integers, Sequences, SequencesExt, FiniteSets, TLC, IndexedSequences

CONSTANTS
  GlobalDefault,    \* the registered global keys and their default values
  Devices,          \* device identifiers
  Profile,          \* the owner of the pairs that belong to no device
  Pointing,         \* the devices whose settings are ignored by default
  Files,            \* what a user may put into karabiner.json by hand
  PairInputs,       \* the <<from, to>> pairs the window may store
  RuleInputs,       \* the rules it may try to store
  Values,           \* the numbers it may store in the numeric settings
  Formulas,         \* the stick formulas it may try to store
  MaxEdits,         \* bound on the edits of a behaviour
  MaxProfiles       \* bound on the profiles kept in memory

\* A value of the wrong type.
Bad == -1

IsSeq(s) == s \in Seq(ToSet(s))

\* Pairs of simple modifications or of function keys, 0 for an empty from or to.
Pairs == [from : Nat, to : Nat]

\* Of a file: its arrays are arrays, those of pairs hold pairs; a profile's own
\* values are names or flags or Bad, the values of a device and the parameters of
\* complex modifications numbers or Bad.
DeviceJsonOK(j) == /\ \A k \in DOMAIN j.vals : j.vals[k] \in Int
                   /\ j.simple \in Seq(Pairs) /\ j.fn \in Seq(Pairs)

ProfileJsonOK(j) ==
  /\ IsSeq(j.devices) /\ \A i \in DOMAIN j.devices : DeviceJsonOK(j.devices[i])
  /\ IsSeq(j.rules) /\ j.simple \in Seq(Pairs) /\ j.fn \in Seq(Pairs)
  /\ \A k \in DOMAIN j.vals : j.vals[k] \in Nat \cup {Bad}
  /\ \A k \in DOMAIN j.complex : j.complex[k] \in Int

FileOK(f) == /\ f.readable \in BOOLEAN
             /\ IsSeq(f.json.profiles)
             /\ \A i \in DOMAIN f.json.profiles : ProfileJsonOK(f.json.profiles[i])

ASSUME ConfigurationAssumption ==
  /\ Pointing \subseteq Devices
  /\ Profile \notin Devices
  /\ Values \subseteq Int \ {Bad}
  /\ PairInputs \subseteq Pairs
  /\ Formulas \subseteq 0..999
  /\ \A f \in Files : FileOK(f)
  /\ MaxEdits \in Nat
  /\ MaxProfiles \in Nat \ {0}

VARIABLES
  mem,              \* the configuration the window works on
  file,             \* karabiner.json: readable, and what it holds
  edits             \* edits so far

vars == <<mem, file, edits>>

NoKeys == [k \in {} |-> 0]

ProfileDefault   == [name |-> 0, selected |-> 0]
ParameterDefault == [delay |-> 1000]
KeyboardDefault  == [xy_scale |-> 100, sticky |-> 1]
ComplexDefault   == [simultaneous |-> 50, speed |-> 100]
DefaultProfile   == [name |-> 1, selected |-> 1]     \* "Default profile"
NewName          == 2                                \* "New profile"
CopyOf(n)        == n + 10                           \* name + " (copy)"

(***************************************************************************)
(* The json helper: value_t and its neighbours.                            *)
(***************************************************************************)
\* value_t::update_value under loose error handling: a missing or unusable
\* value leaves the registered one alone.
UpdateValue(v, json) ==
  [k \in DOMAIN v |-> IF k \in DOMAIN json /\ json[k] # Bad THEN json[k] ELSE v[k]]

\* Mutant: false is left out as well, whatever the default.
UpdateJsonKeepsOld(extra, v, default) ==
  LET keys == DOMAIN extra \cup {k \in DOMAIN v : v[k] # default[k] /\ v[k] # 0}
  IN  [k \in keys |-> IF k \in DOMAIN v THEN v[k] ELSE extra[k]]

\* value_t::update_json for every registered key, over the unregistered ones.
UpdateJson(extra, v, default) ==
  LET keys == DOMAIN extra \cup {k \in DOMAIN v : v[k] # default[k]}
  IN  [k \in keys |-> IF k \in DOMAIN v THEN v[k] ELSE extra[k]]

Extra(json, default) == [k \in DOMAIN json \ DOMAIN default |-> json[k]]

\* The constructor and to_json of an object whose keys are all plain values.
LoadGlobal(json)        == UpdateValue(GlobalDefault, json)
GlobalToJson(v, extra)  == UpdateJson(extra, v, GlobalDefault)
LoadParameters(json)    == UpdateValue(ParameterDefault, json)
ParametersToJson(v)     == UpdateJson(NoKeys, v, ParameterDefault)
LoadKeyboard(json)      == UpdateValue(KeyboardDefault, json)
KeyboardToJson(v)       == UpdateJson(NoKeys, v, KeyboardDefault)

\* array_t::update_json: elements without any json are left out.
NonEmpty(s, Empty(_)) == FilterIndexes(s, LAMBDA i : ~Empty(s[i]))

(***************************************************************************)
(* simple_modifications: pairs of a from and a to, 0 for an empty one.     *)
(***************************************************************************)
\* handle_json: each entry replaces the pairs of the same from; then a sort.
HandleJson(pairs, entries) ==
  LET all  == pairs \o entries
      last == FilterIndexes(all, LAMBDA i : \A j \in i+1..Len(all) : all[j].from # all[i].from)
      froms == Ranked({p.from : p \in ToSet(last)})
  IN  [n \in DOMAIN froms |-> CHOOSE p \in ToSet(last) : p.from = froms[n]]

\* to_json: the first complete pair of each from, unless it is the default.
PairsToJson(pairs, default) ==
  FilterIndexes(pairs, LAMBDA i :
    /\ pairs[i].from # 0 /\ pairs[i].to # 0
    /\ ~\E j \in 1..i-1 : pairs[j].from = pairs[i].from /\ pairs[j].to # 0
    /\ pairs[i] \notin ToSet(default))

ProfileFnKeys == <<[from |-> 1, to |-> 7]>>
DeviceFnKeys  == <<[from |-> 1, to |-> 0]>>

(***************************************************************************)
(* devices.                                                                *)
(***************************************************************************)
\* The flags, of which the first two have a default that depends on the device.
FlagDefault(d) ==
  [ignore |-> IF d \in Pointing THEN 1 ELSE 0,
   manipulate_caps_lock_led |-> IF d \in Pointing THEN 0 ELSE 1,
   treat_as_built_in_keyboard |-> 0, disable_built_in_keyboard_if_exists |-> 0]

\* A mouse flag, a stick number and a stick formula stand for their kinds.  A
\* formula is 10 * text + the newlines that end it; text 9 does not compile.
OtherDefault == [mouse_flip_x |-> 0, stick_deadzone |-> 10, stick_formula |-> 50]

DeviceDefault(d) ==
  LET f == FlagDefault(d)
  IN  [k \in DOMAIN f \cup DOMAIN OtherDefault |-> IF k \in DOMAIN f THEN f[k] ELSE OtherDefault[k]]

Trim(formula) == formula - (formula % 10)
ValidFormula(formula) == formula \div 10 # 9

\* marshal_string: several lines become an array, whose last newline is lost;
\* AsArray tells the array from the plain string.
AsArray(v) == v + 1000
MarshalString(v) == IF v % 10 = 0 THEN v ELSE AsArray(v - 1)
UnmarshalString(j) == IF j = Bad THEN Bad ELSE j % 1000
OnFormula(f, Op(_)) ==
  [k \in DOMAIN f |-> IF k = "stick_formula" THEN Op(f[k]) ELSE f[k]]

\* Mutant: the two settings are not coordinated after a load or a set.
CoordinateBetweenPropertiesNot(v) == v

CoordinateBetweenProperties(v) ==
  IF v.treat_as_built_in_keyboard = 1
  THEN [v EXCEPT !.disable_built_in_keyboard_if_exists = 0]
  ELSE v

LoadDevice(j) ==
  [id |-> j.id,
   v |-> CoordinateBetweenProperties(
          UpdateValue(DeviceDefault(j.id), OnFormula(j.vals, UnmarshalString))),
   simple |-> HandleJson(<<>>, j.simple),
   fn |-> HandleJson(DeviceFnKeys, j.fn),
   extra |-> Extra(j.vals, DeviceDefault(j.id))]

DeviceToJson(d) ==
  [id |-> d.id,
   vals |-> OnFormula(UpdateJson(d.extra, d.v, DeviceDefault(d.id)), MarshalString),
   simple |-> PairsToJson(d.simple, <<>>),
   fn |-> PairsToJson(d.fn, DeviceFnKeys)]

DeviceJsonEmpty(j) == j.vals = NoKeys /\ j.simple = <<>> /\ j.fn = <<>>
NewDevice(d) == LoadDevice([id |-> d, vals |-> NoKeys, simple |-> <<>>, fn |-> <<>>])

(***************************************************************************)
(* complex modifications: rules and the parameters that are kept in range. *)
(***************************************************************************)
Clamp(x, low, high) == IF x < low THEN low ELSE IF x > high THEN high ELSE x

AdjustValues(v) == [simultaneous |-> Clamp(v.simultaneous, 0, 1000),
                    speed |-> Clamp(v.speed, 1, 10000)]

\* A rule without manipulators (body 0) does not load; one whose manipulators
\* the factory refuses (a negative body) loads, but is not accepted from a window.
RuleLoads(r)   == r.body # 0
RuleLints(r)   == r.body > 0 /\ r.enabled # Bad
LoadRule(r)    == [body |-> r.body, enabled |-> IF r.enabled = Bad THEN 1 ELSE r.enabled]
RuleJson(body, enabled) == [body |-> body, enabled |-> enabled]

(***************************************************************************)
(* profiles and the whole configuration.                                   *)
(***************************************************************************)
EmptyProfileJson ==
  [vals |-> NoKeys, parameters |-> NoKeys, keyboard |-> NoKeys, devices |-> <<>>,
   simple |-> <<>>, fn |-> <<>>, complex |-> NoKeys, rules |-> <<>>]

ProfileLoads(j) == \A r \in ToSet(j.rules) : RuleLoads(r)

LoadProfile(j) ==
  [v |-> UpdateValue(ProfileDefault, j.vals),
   parameters |-> LoadParameters(j.parameters),
   keyboard |-> LoadKeyboard(j.keyboard),
   devices |-> [i \in DOMAIN j.devices |-> LoadDevice(j.devices[i])],
   simple |-> HandleJson(<<>>, j.simple),
   fn |-> HandleJson(ProfileFnKeys, j.fn),
   complex |-> AdjustValues(UpdateValue(ComplexDefault, j.complex)),
   rules |-> [i \in DOMAIN j.rules |-> LoadRule(j.rules[i])],
   extra |-> Extra(j.vals, ProfileDefault)]

ProfileToJson(p) ==
  [vals |-> UpdateJson(p.extra, p.v, ProfileDefault),
   parameters |-> ParametersToJson(p.parameters),
   keyboard |-> KeyboardToJson(p.keyboard),
   devices |-> NonEmpty([i \in DOMAIN p.devices |-> DeviceToJson(p.devices[i])],
                        DeviceJsonEmpty),
   simple |-> PairsToJson(p.simple, <<>>),
   fn |-> PairsToJson(p.fn, ProfileFnKeys),
   complex |-> UpdateJson(NoKeys, p.complex, ComplexDefault),
   rules |-> [i \in DOMAIN p.rules |-> RuleJson(p.rules[i].body, p.rules[i].enabled)]]

ProfileJsonEmpty(j) == j = EmptyProfileJson

\* machine_specific: entries of this and of other machines; NotAnObject is an
\* entry that is no object, which is carried along as it is.
NotAnObject == -2
LoadMachine(j) == [m \in DOMAIN j |-> IF j[m] = Bad THEN 0 ELSE j[m]]
MachineToJson(e) == [m \in {n \in DOMAIN e : e[n] # 0} |-> e[m]]
ThisMachine == "this"

\* The constructor: the file's owner and syntax decide whether anything is
\* read; a profile that does not load ends the load where it stands.
LoadedPrefix(js) ==
  LET bad == {i \in DOMAIN js : ~ProfileLoads(js[i])}
  IN  IF bad = {} THEN js ELSE SubSeq(js, 1, (CHOOSE i \in bad : \A j \in bad : i <= j) - 1)

\* Mutant: the fallback does not ask whether there is a profile already.
WithFallbackAlways(profiles) ==
  Append(profiles, LoadProfile([EmptyProfileJson EXCEPT !.vals = DefaultProfile]))

WithFallback(profiles) ==
  IF profiles = <<>>
  THEN <<LoadProfile([EmptyProfileJson EXCEPT !.vals = DefaultProfile])>>
  ELSE profiles

Load(f) ==
  LET json == IF f.readable THEN f.json
              ELSE [global |-> NoKeys, machine |-> NoKeys, profiles |-> <<>>]
      good == LoadedPrefix(json.profiles)
  IN  [loaded |-> f.readable /\ good = json.profiles,
       global |-> LoadGlobal(json.global),
       machine |-> LoadMachine(json.machine),
       profiles |-> WithFallback([i \in DOMAIN good |-> LoadProfile(good[i])]),
       extra |-> Extra(json.global, GlobalDefault)]

ToJson(c) ==
  [global |-> GlobalToJson(c.global, c.extra),
   machine |-> MachineToJson(c.machine),
   profiles |-> NonEmpty([i \in DOMAIN c.profiles |-> ProfileToJson(c.profiles[i])],
                         ProfileJsonEmpty)]

FileOf(json) == [readable |-> TRUE, json |-> json]

\* get_selected_profile: the first selected one, the first one otherwise.
SelectedIndex(c) ==
  LET s == {i \in DOMAIN c.profiles : c.profiles[i].v.selected = 1}
  IN  IF s = {} THEN 1 ELSE CHOOSE i \in s : \A j \in s : i <= j

Selected(c) == c.profiles[SelectedIndex(c)]

(***************************************************************************)
(* The operations of core_configuration and of a profile.  A stale index   *)
(* leaves everything alone.                                                *)
(***************************************************************************)
set_global(c, k, x) == [c EXCEPT !.global[k] = x]

\* get_entry adds the entry of this machine where there is none.
set_machine_specific(c, x) ==
  [c EXCEPT !.machine = [m \in DOMAIN @ \cup {ThisMachine} |->
                           IF m = ThisMachine THEN x ELSE @[m]]]

set_profile_name(c, i, n) ==
  IF i \in DOMAIN c.profiles THEN [c EXCEPT !.profiles[i].v.name = n] ELSE c

\* Mutant: the profile that was selected stays selected.
select_profile_adds(c, i) ==
  IF i \in DOMAIN c.profiles THEN [c EXCEPT !.profiles[i].v.selected = 1] ELSE c

select_profile(c, i) ==
  IF i \notin DOMAIN c.profiles THEN c
  ELSE [c EXCEPT !.profiles = [j \in DOMAIN @ |->
          [@[j] EXCEPT !.v.selected = IF j = i THEN 1 ELSE 0]]]

push_back_profile(c) ==
  [c EXCEPT !.profiles = Append(@,
     LoadProfile([EmptyProfileJson EXCEPT !.vals = [name |-> NewName]]))]

duplicate_profile(c, profile) ==
  LET copy == LoadProfile(ProfileToJson(profile))
  IN  [c EXCEPT !.profiles = Append(@,
         [copy EXCEPT !.v.name = CopyOf(@), !.v.selected = 0])]

\* Mutant: the last profile can be erased too.
erase_profile_always(c, i) ==
  IF i \in DOMAIN c.profiles THEN [c EXCEPT !.profiles = RemoveAt(@, i)] ELSE c

erase_profile(c, i) ==
  IF i \in DOMAIN c.profiles /\ Len(c.profiles) > 1
  THEN [c EXCEPT !.profiles = RemoveAt(@, i)]
  ELSE c

\* vector_utility::move_element, with indexes from 1: from and to swap through.
MoveElement(s, from, to) ==
  IF from > Len(s) \/ to > Len(s) + 1 THEN s
  ELSE LET rest == RemoveAt(s, from)
       IN  InsertAt(rest, IF from < to THEN to - 1 ELSE to, s[from])

move_profile(c, i, j) == [c EXCEPT !.profiles = MoveElement(@, i, j)]

\* Only the setter keeps the scale from being negative, loading does not.
set_keyboard(keyboard, k, x) ==
  [keyboard EXCEPT ![k] = IF k = "xy_scale" /\ x < 0 THEN 0 ELSE x]

erase_rule(rules, i) == IF i \in DOMAIN rules THEN RemoveAt(rules, i) ELSE rules
replace_rule(rules, i, r) == IF i \in DOMAIN rules THEN [rules EXCEPT ![i] = r] ELSE rules
push_front_rule(rules, r) == <<r>> \o rules

push_back_pair(pairs) == Append(pairs, [from |-> 0, to |-> 0])
erase_pair(pairs, i) == IF i \in DOMAIN pairs THEN RemoveAt(pairs, i) ELSE pairs
replace_pair(pairs, i, q) == IF i \in DOMAIN pairs THEN [pairs EXCEPT ![i] = q] ELSE pairs

\* The first pair of that from gets a new to.
replace_second(pairs, q) ==
  LET s == {i \in DOMAIN pairs : pairs[i].from = q.from}
  IN  IF s = {} THEN pairs
      ELSE [pairs EXCEPT ![CHOOSE i \in s : \A j \in s : i <= j] = q]

\* Mutant: a device that is looked at gets an entry of its own in the json.
get_device_stored(p, d) ==
  IF \E i \in DOMAIN p.devices : p.devices[i].id = d THEN p
  ELSE [p EXCEPT !.devices = Append(@, [NewDevice(d) EXCEPT !.extra = [x \in {"kept"} |-> 1]])]

\* A device that is not listed is added, by a mere look as well.
get_device(p, d) ==
  IF \E i \in DOMAIN p.devices : p.devices[i].id = d THEN p
  ELSE [p EXCEPT !.devices = Append(@, NewDevice(d))]

DeviceIndex(p, d) ==
  LET s == {i \in DOMAIN p.devices : p.devices[i].id = d}
  IN  CHOOSE i \in s : \A j \in s : i <= j

\* Those that are connected stay, and so do those without any setting.
erase_not_connected_devices(p, connected) ==
  [p EXCEPT !.devices = FilterIndexes(@, LAMBDA i :
     @[i].id \in connected \/ DeviceJsonEmpty(DeviceToJson(@[i])))]

\* Every setter of a device stores and coordinates.
SetFlag(v, k, x)   == CoordinateBetweenProperties([v EXCEPT ![k] = x])
SetNumber(v, k, x) == CoordinateBetweenProperties([v EXCEPT ![k] = x])
SetFormula(v, x)   == CoordinateBetweenProperties([v EXCEPT !.stick_formula = Trim(x)])

(***************************************************************************)
(* libkrbn_configuration: what a window can do to the configuration.       *)
(***************************************************************************)
Indexes(s) == 1..Len(s) + 1         \* one past the end is a stale index

Edit(c) == /\ edits < MaxEdits
           /\ edits' = edits + 1
           /\ mem' = c
           /\ UNCHANGED file

EditProfile(p) == Edit([mem EXCEPT !.profiles[SelectedIndex(mem)] = p])

SetGlobal(k, x)        == Edit(set_global(mem, k, x))
SetMachineSpecific(x)  == Edit(set_machine_specific(mem, x))
SetProfileName(i, n)   == Edit(set_profile_name(mem, i, n))
SelectProfile(i)       == Edit(select_profile(mem, i))
PushBackProfile        == Len(mem.profiles) < MaxProfiles /\ Edit(push_back_profile(mem))
DuplicateProfile(i)    == /\ i \in DOMAIN mem.profiles /\ Len(mem.profiles) < MaxProfiles
                          /\ Edit(duplicate_profile(mem, mem.profiles[i]))
MoveProfile(i, j)      == Edit(move_profile(mem, i, j))
EraseProfile(i)        == Edit(erase_profile(mem, i))

SetParameter(x) == EditProfile([Selected(mem) EXCEPT !.parameters.delay = x])

SetComplexParameter(k, x) ==
  EditProfile([Selected(mem) EXCEPT !.complex = AdjustValues([@ EXCEPT ![k] = x])])

SetKeyboard(k, x) ==
  EditProfile([Selected(mem) EXCEPT !.keyboard = set_keyboard(@, k, x)])

EditDevice(d, Op(_)) ==
  LET p == get_device(Selected(mem), d)
  IN  EditProfile([p EXCEPT !.devices[DeviceIndex(p, d)] = Op(@)])

LookAtDevice(d) == EditDevice(d, LAMBDA e : e)

SetDeviceFlag(d, k, x) == EditDevice(d, LAMBDA e : [e EXCEPT !.v = SetFlag(@, k, x)])

SetMouseFlag(d, x) == EditDevice(d, LAMBDA e : [e EXCEPT !.v = SetFlag(@, "mouse_flip_x", x)])

SetStickNumber(d, x) ==
  EditDevice(d, LAMBDA e : [e EXCEPT !.v = SetNumber(@, "stick_deadzone", x)])

\* A formula that does not compile is refused.
SetStickFormula(d, x) ==
  /\ ValidFormula(x)
  /\ EditDevice(d, LAMBDA e : [e EXCEPT !.v = SetFormula(@, x)])

ResetStickFormula(d) ==
  EditDevice(d, LAMBDA e : [e EXCEPT !.v = SetFormula(@, OtherDefault.stick_formula)])

EraseNotConnectedDevices(connected) ==
  EditProfile(erase_not_connected_devices(Selected(mem), connected))

\* find_simple_modifications, find_fn_function_keys: those of the profile, or
\* of the device the window names (looking it up adds it).
Owners == {Profile} \cup Devices
PairsOf(owner, field) ==
  IF owner = Profile THEN Selected(mem)[field]
  ELSE LET p == get_device(Selected(mem), owner) IN p.devices[DeviceIndex(p, owner)][field]
EditPairs(owner, field, pairs) ==
  IF owner = Profile THEN EditProfile([Selected(mem) EXCEPT ![field] = pairs])
  ELSE EditDevice(owner, LAMBDA e : [e EXCEPT ![field] = pairs])

PushBackSimple(o) == EditPairs(o, "simple", push_back_pair(PairsOf(o, "simple")))
EraseSimple(o, i) == EditPairs(o, "simple", erase_pair(PairsOf(o, "simple"), i))
ReplaceSimple(o, i, q) == EditPairs(o, "simple", replace_pair(PairsOf(o, "simple"), i, q))
ReplaceFn(o, q)   == EditPairs(o, "fn", replace_second(PairsOf(o, "fn"), q))

EditRules(rules) == EditProfile([Selected(mem) EXCEPT !.rules = rules])

EraseRule(i)   == EditRules(erase_rule(Selected(mem).rules, i))
MoveRule(i, j) == EditRules(MoveElement(Selected(mem).rules, i, j))

SetRuleEnabled(i, x) == /\ i \in DOMAIN Selected(mem).rules
                        /\ EditRules([Selected(mem).rules EXCEPT ![i].enabled = x])

\* The rule has to load under strict error handling and to pass lint_rule.
ReplaceRule(i, r) == /\ RuleLoads(r) /\ RuleLints(r)
                     /\ EditRules(replace_rule(Selected(mem).rules, i, LoadRule(r)))
PushFrontRule(r)  == /\ RuleLoads(r) /\ RuleLints(r)
                     /\ EditRules(push_front_rule(Selected(mem).rules, LoadRule(r)))

(***************************************************************************)
(* Saving, and reading what is on disk.                                    *)
(***************************************************************************)
Save == /\ file' = FileOf(ToJson(mem))
        /\ UNCHANGED <<mem, edits>>

EditByHand(f) == /\ edits < MaxEdits
                 /\ edits' = edits + 1
                 /\ file' = f
                 /\ UNCHANGED mem

\* configuration_monitor: what does not load, or says the same, is not adopted.
ReadFile == LET c == Load(file)
            IN  /\ c.loaded /\ ToJson(c) # ToJson(mem)
                /\ mem' = c
                /\ UNCHANGED <<file, edits>>

Init == /\ file \in Files
        /\ mem = Load(file)
        /\ edits = 0

WindowEdit ==
  \/ \E k \in DOMAIN GlobalDefault, x \in {0, 1} : SetGlobal(k, x)
  \/ \E x \in {0, 1} : SetMachineSpecific(x)
  \/ PushBackProfile
  \/ \E i \in Indexes(mem.profiles) :
       \/ \E n \in {0, 3} : SetProfileName(i, n)
       \/ SelectProfile(i) \/ EraseProfile(i) \/ DuplicateProfile(i)
       \/ \E j \in Indexes(mem.profiles) : MoveProfile(i, j)

ProfileEdit ==
  \/ \E x \in Values : SetParameter(x) \/ SetKeyboard("xy_scale", x)
  \/ \E x \in {0, 1} : SetKeyboard("sticky", x)
  \/ \E k \in DOMAIN ComplexDefault, x \in Values : SetComplexParameter(k, x)
  \/ \E o \in Owners :
       \/ PushBackSimple(o)
       \/ \E i \in Indexes(PairsOf(o, "simple")) :
            EraseSimple(o, i) \/ \E q \in PairInputs : ReplaceSimple(o, i, q)
       \/ \E q \in PairInputs : ReplaceFn(o, q)
  \/ \E i \in Indexes(Selected(mem).rules) :
       \/ EraseRule(i)
       \/ \E j \in Indexes(Selected(mem).rules) : MoveRule(i, j)
       \/ \E x \in {0, 1} : SetRuleEnabled(i, x)
       \/ \E r \in RuleInputs : ReplaceRule(i, r)
  \/ \E r \in RuleInputs : PushFrontRule(r)

DeviceEdit ==
  \/ \E d \in Devices :
       \/ LookAtDevice(d)
       \/ \E k \in DOMAIN FlagDefault(d), x \in {0, 1} : SetDeviceFlag(d, k, x)
       \/ \E x \in {0, 1} : SetMouseFlag(d, x)
       \/ \E x \in Values : SetStickNumber(d, x)
       \/ \E x \in Formulas : SetStickFormula(d, x)
       \/ ResetStickFormula(d)
  \/ \E c \in SUBSET Devices : EraseNotConnectedDevices(c)

Next == \/ WindowEdit
        \/ ProfileEdit
        \/ DeviceEdit
        \/ Save
        \/ \E f \in Files : EditByHand(f)
        \/ ReadFile

Spec == Init /\ [][Next]_vars

(***************************************************************************)
(* Properties.                                                             *)
(***************************************************************************)
\* A device's settings as the grabber reads them: the pairs act as a set.
DeviceSettings(p, d) ==
  LET e == IF \E i \in DOMAIN p.devices : p.devices[i].id = d
           THEN p.devices[DeviceIndex(p, d)] ELSE NewDevice(d)
  IN  [v |-> e.v, simple |-> ToSet(PairsToJson(e.simple, <<>>)),
       fn |-> ToSet(PairsToJson(e.fn, <<>>))]

\* What the configuration makes the grabber do.
Effective(c) ==
  LET p == Selected(c)
  IN  [global |-> c.global, parameters |-> p.parameters, keyboard |-> p.keyboard,
       complex |-> p.complex, simple |-> ToSet(PairsToJson(p.simple, <<>>)),
       fn |-> ToSet(PairsToJson(p.fn, <<>>)),
       rules |-> SelectSeq(p.rules, LAMBDA r : r.enabled = 1),
       devices |-> [d \in Devices |-> DeviceSettings(p, d)]]

SimultaneousRange == 0..1000
SpeedRange        == 1..10000

InRange(complex) == complex.simultaneous \in SimultaneousRange /\ complex.speed \in SpeedRange

\* At least one profile exists (get_selected_profile reads profiles_[0] when
\* none is selected), and the parameters the window or a file may put out of
\* range are back in it, whatever was loaded, set or erased before.
WellFormed ==
  /\ mem.profiles # <<>>
  /\ \A i \in DOMAIN mem.profiles : InRange(mem.profiles[i].complex)

\* No device is left both standing in for the built-in keyboard and disabling
\* it ("the device will always be disabled", device.hpp), in whatever order the
\* two were set, loaded and copied.
NoAlwaysDisabledDevice ==
  \A i \in DOMAIN mem.profiles : \A d \in ToSet(mem.profiles[i].devices) :
    ~(d.v.treat_as_built_in_keyboard = 1 /\ d.v.disable_built_in_keyboard_if_exists = 1)

Reloaded(c) == Load(FileOf(ToJson(c)))

FormulasTrimmed(c) ==
  \A i \in DOMAIN c.profiles : \A d \in ToSet(c.profiles[i].devices) :
    d.v.stick_formula = Trim(d.v.stick_formula)

\* What array_t, marshal_string and simple_modifications may change by a save
\* and a load: a profile or a device whose json is empty is left out, a
\* newline at a formula's end is lost, a function key without a `to` gets its
\* default back.
Kept(c) ==
  /\ ~ProfileJsonEmpty(ProfileToJson(Selected(c)))
  /\ \A q \in ToSet(Selected(c).fn) : q.to # 0
  /\ \A d, e \in DOMAIN Selected(c).devices :
       Selected(c).devices[d].id = Selected(c).devices[e].id => d = e
  /\ FormulasTrimmed(c)

\* What is saved and loaded again is saved the same way from then on: the
\* comparison of to_json() with to_json() in configuration_monitor tells a
\* foreign change from an echo of the last save.  (A formula that loses the newline
\* that told it from the default may leave a file without any profile, which loads
\* as the default one.)
SaveSettles ==
  LET c == Reloaded(mem)
  IN  FormulasTrimmed(c) /\ ToJson(c).profiles # <<>> => ToJson(Reloaded(c)) = ToJson(c)

\* Saving loses nothing that acts: the grabber that loads the file does what
\* the window shows, and the keys this version does not know are still there.
ReloadKeepsEffective ==
  Kept(mem) => /\ Effective(Reloaded(mem)) = Effective(mem)
               /\ Reloaded(mem).extra = mem.extra
               /\ Selected(Reloaded(mem)).extra = Selected(mem).extra

\* Showing a device adds it to devices_, and yet the saved file is the same.
LookingChangesNothing ==
  [][(\E d \in Devices : LookAtDevice(d)) => ToJson(mem') = ToJson(mem)]_vars

\* The profile that was picked is the one that get_selected_profile returns,
\* in the window and after the file is read again, and no other was touched.
SelectTakesEffect ==
  [][\A i \in DOMAIN mem.profiles : SelectProfile(i) =>
       /\ SelectedIndex(mem') = i
       /\ mem'.profiles[i].rules = mem.profiles[i].rules
       /\ Selected(Reloaded(mem')).v = mem'.profiles[i].v]_vars
=============================================================================
