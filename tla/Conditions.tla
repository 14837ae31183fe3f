------------------------------ MODULE Conditions ------------------------------
(***************************************************************************)
(* The conditions of manipulators (share/manipulator/conditions), the      *)
(* expressions they may hold (exprtk_utility) and the                      *)
(* manipulator_environment they are asked about.                           *)
(*                                                                         *)
(* A json object is a function from its keys; a value whose type a         *)
(* constructor refuses (or a regex or expression that does not compile) is *)
(* Wrong, and a constructor that throws returns Error.  A regex is the set *)
(* of the names it finds.  A variant is a pair of its type and its value.  *)
(***************************************************************************)
EXTENDS Integers, Sequences, FiniteSets, TLC

CONSTANTS
    Wrong, Error, None, NaN,  \* model values
    Properties,          \* [device -> its device_properties, with device_identifiers]
    StringNames          \* the variable names that end in "_string"

-----------------------------------------------------------------------------
(* exprtk: undefined variables are created as 0 or ""                      *)

(* The expressions of the instances are a variable compared with a         *)
(* constant, its logical complement, and a quotient that is 0/0 for 0.     *)
Variables(x) == {x.name}
NewSymbols(x) == [n \in Variables(x) |-> IF n \in StringNames THEN "" ELSE 0]

Value(x, symbols) ==
    LET v == symbols[x.name]
    IN  CASE x.op = "is" -> IF v = x.constant THEN 1 ELSE 0
          [] x.op = "toggle" -> 1 - v
          [] x.op = "ratio" -> IF v = 0 THEN NaN ELSE 1

(* expression_wrapper::value<int64_t>: what is not finite becomes 0.       *)
Int64Value(x, symbols) == LET v == Value(x, symbols) IN IF v = NaN THEN 0 ELSE v

(* expression_wrapper::set_variable refuses a value of the other type and  *)
(* ignores a name the expression does not use.                             *)
SetSymbol(symbol, n, value) ==
    IF (n \in StringNames) # (value[1] = "string") THEN symbol
    ELSE IF value[1] = "bool" THEN (IF value[2] THEN 1 ELSE 0)
    ELSE value[2]

(* apply_to_expression_variable visits the variables that are set.         *)
apply_to_expression_variable(symbols, variables) ==
    [n \in DOMAIN symbols |->
        IF n \in DOMAIN variables THEN SetSymbol(symbols[n], n, variables[n]) ELSE symbols[n]]

-----------------------------------------------------------------------------
(* manipulator_environment                                                 *)

NoVariables == [n \in {} |-> None]
NewEnvironment(conf) ==
    [devices |-> {}, frontmost |-> [bundle_identifier |-> None, file_path |-> None],
     input_source |-> None, variables |-> NoVariables, core_configuration |-> conf,
     flags |-> [d \in DOMAIN Properties |-> 0]]

insert_device_properties(env, d) == [env EXCEPT !.devices = @ \cup {d}]
erase_device_properties(env, d) == [env EXCEPT !.devices = @ \ {d}]

set_variable(env, n, value) ==
    [env EXCEPT !.variables = (n :> value) @@ @]
unset_variable(env, n) ==
    [env EXCEPT !.variables = [m \in DOMAIN @ \ {n} |-> @[m]]]
get_variable(env, n) ==
    IF n \in DOMAIN env.variables THEN env.variables[n] ELSE <<"int", 0>>

-----------------------------------------------------------------------------
(* Constructors                                                            *)

Unless(j) == j["type"] \in {"device_unless", "device_exists_unless", "event_changed_unless",
                            "expression_unless", "frontmost_application_unless",
                            "input_source_unless", "keyboard_type_unless", "variable_unless"}

(* Every constructor reads "type", skips "description" and throws on a key *)
(* it does not know or on a value of the wrong type.                       *)
Readable(j, keys) ==
    /\ DOMAIN j \subseteq keys \cup {"type", "description"}
    /\ \A k \in keys \cap DOMAIN j : j[k] # Wrong

Get(j, k, default) == IF k \in DOMAIN j THEN j[k] ELSE default

DefinitionKeys == {"vendor_id", "product_id", "location_id", "device_address", "is_keyboard",
                   "is_pointing_device", "is_game_pad", "is_consumer", "is_touch_bar",
                   "is_built_in_keyboard"}

(* An entry of identifiers without any known key is not valid() and is     *)
(* left out.                                                               *)
handle_identifiers_json(entries) ==
    IF \A e \in entries :
         /\ DOMAIN e \subseteq DefinitionKeys \cup {"description"}
         /\ \A k \in DOMAIN e \cap DefinitionKeys : e[k] # Wrong
    THEN {[k \in DOMAIN e \cap DefinitionKeys |-> e[k]] :
              e \in {f \in entries : DOMAIN f \cap DefinitionKeys # {}}}
    ELSE Error

device(j) ==
    IF ~Readable(j, {"identifiers"}) THEN Error
    ELSE LET definitions == handle_identifiers_json(Get(j, "identifiers", {}))
         IN  IF definitions = Error THEN Error
             ELSE [kind |-> "device", unless |-> Unless(j), definitions |-> definitions,
                   exists |-> j["type"] \in {"device_exists_if", "device_exists_unless"}]

event_changed(j) ==
    IF Readable(j, {"value"}) /\ "value" \in DOMAIN j
    THEN [kind |-> "event_changed", unless |-> Unless(j), value |-> j["value"]]
    ELSE Error

expression(j) ==
    IF Readable(j, {"expression"})
    THEN [kind |-> "expression", unless |-> Unless(j), expression |-> Get(j, "expression", None)]
    ELSE Error

frontmost_application(j) ==
    IF Readable(j, {"bundle_identifiers", "file_paths"})
    THEN [kind |-> "frontmost_application", unless |-> Unless(j),
          bundle_identifiers |-> Get(j, "bundle_identifiers", {}),
          file_paths |-> Get(j, "file_paths", {})]
    ELSE Error

input_source(j) ==
    IF Readable(j, {"input_sources"})
    THEN [kind |-> "input_source", unless |-> Unless(j),
          input_source_specifiers |-> Get(j, "input_sources", {})]
    ELSE Error

keyboard_type(j) ==
    IF Readable(j, {"keyboard_types"})
    THEN [kind |-> "keyboard_type", unless |-> Unless(j),
          keyboard_types |-> Get(j, "keyboard_types", {})]
    ELSE Error

variable(j) ==
    IF Readable(j, {"name", "value"}) /\ {"name", "value"} \subseteq DOMAIN j
    THEN [kind |-> "variable", unless |-> Unless(j), name |-> j["name"], value |-> j["value"]]
    ELSE Error

make_condition(j) ==
    IF "type" \notin DOMAIN j THEN Error
    ELSE CASE j["type"] \in {"device_if", "device_unless", "device_exists_if", "device_exists_unless"} ->
                  device(j)
           [] j["type"] \in {"event_changed_if", "event_changed_unless"} -> event_changed(j)
           [] j["type"] \in {"expression_if", "expression_unless"} -> expression(j)
           [] j["type"] \in {"frontmost_application_if", "frontmost_application_unless"} ->
                  frontmost_application(j)
           [] j["type"] \in {"input_source_if", "input_source_unless"} -> input_source(j)
           [] j["type"] \in {"keyboard_type_if", "keyboard_type_unless"} -> keyboard_type(j)
           [] j["type"] \in {"variable_if", "variable_unless"} -> variable(j)
           [] OTHER -> Error

make_device_if_condition(d) ==
    make_condition([k \in {"type", "identifiers"} |->
        IF k = "type" THEN "device_if"
        ELSE {[i \in {"vendor_id", "product_id", "is_keyboard", "is_pointing_device"} |->
                   Properties[d][i]]}])

make_device_unless_touch_bar_condition ==
    make_condition([k \in {"type", "identifiers"} |->
        IF k = "type" THEN "device_unless" ELSE {[i \in {"is_touch_bar"} |-> TRUE]}])

make_event_changed_if_condition(value) ==
    make_condition([k \in {"type", "value"} |-> IF k = "type" THEN "event_changed_if" ELSE value])

-----------------------------------------------------------------------------
(* is_fulfilled of each condition, on the entry e                          *)

determine_is_built_in_keyboard(env, d) ==
    Properties[d].is_built_in_keyboard \/ d \in env.core_configuration.treat_as_built_in_keyboard

fulfilled(definition, d, env) ==
    \A k \in DOMAIN definition :
        definition[k] = IF k = "is_built_in_keyboard" THEN determine_is_built_in_keyboard(env, d)
                        ELSE Properties[d][k]

device_is_fulfilled(c, e, env) ==
    LET candidates == IF c.exists THEN env.devices ELSE env.devices \cap {e.device}
    IN  c.unless # \E d \in candidates, f \in c.definitions : fulfilled(f, d, env)

event_changed_is_fulfilled(c, e) ==
    IF c.unless THEN c.value = (e.state = "original") ELSE c.value = (e.state = "manipulated")

(* NaN, and a condition without an expression, fulfil neither _if nor      *)
(* _unless.                                                                *)
expression_is_fulfilled(c, symbols) ==
    /\ c.expression # None
    /\ Value(c.expression, symbols) # NaN
    /\ c.unless # (Value(c.expression, symbols) # 0)

frontmost_application_test(c, application) ==
    c.unless # (\/ \E r \in c.bundle_identifiers : application.bundle_identifier \in r
                \/ \E r \in c.file_paths : application.file_path \in r)

input_source_test(c, properties) ==
    c.unless # \E s \in c.input_source_specifiers : properties \in s

keyboard_type_is_fulfilled(c, env) ==
    c.unless # (env.core_configuration.keyboard_type \in c.keyboard_types)

variable_is_fulfilled(c, env) ==
    c.unless # (get_variable(env, c.name) = c.value)

(* What frontmost_application and input_source keep in cached_result_.     *)
CacheKey(c, env) == CASE c.kind = "frontmost_application" -> env.frontmost
                      [] c.kind = "input_source" -> env.input_source
                      [] OTHER -> None

Test(c, env) == IF c.kind = "frontmost_application"
                THEN frontmost_application_test(c, env.frontmost)
                ELSE input_source_test(c, env.input_source)

(* A bug to be caught: the cache is never renewed.                         *)
cached_result_forever(c, cached, env) ==
    IF c.kind \notin {"frontmost_application", "input_source"} THEN None
    ELSE IF cached # None THEN cached
    ELSE <<CacheKey(c, env), Test(c, env)>>

(* cached_result_ after a call: it is replaced when its key differs.       *)
cached_result(c, cached, env) ==
    IF c.kind \notin {"frontmost_application", "input_source"} THEN None
    ELSE IF cached # None /\ cached[1] = CacheKey(c, env) THEN cached
    ELSE <<CacheKey(c, env), Test(c, env)>>

is_fulfilled(c, cached, symbols, e, env) ==
    CASE c.kind = "device" -> device_is_fulfilled(c, e, env)
      [] c.kind = "event_changed" -> event_changed_is_fulfilled(c, e)
      [] c.kind = "expression" -> expression_is_fulfilled(c, symbols)
      [] c.kind = "keyboard_type" -> keyboard_type_is_fulfilled(c, env)
      [] c.kind = "variable" -> variable_is_fulfilled(c, env)
      [] OTHER -> cached_result(c, cached, env)[2]

(* The reference: what a condition means in an environment, with neither a *)
(* cache nor symbols that outlive the call.                                *)
Holds(c, e, env) ==
    CASE c.kind \in {"frontmost_application", "input_source"} -> Test(c, env)
      [] c.kind = "expression" /\ c.expression # None ->
            expression_is_fulfilled(c, apply_to_expression_variable(NewSymbols(c.expression), env.variables))
      [] OTHER -> is_fulfilled(c, None, <<>>, e, env)

(* Every variable of an expression is set to a value of its type.          *)
Determined(c, env) ==
    c.kind = "expression" /\ c.expression # None =>
        \A n \in Variables(c.expression) :
            /\ n \in DOMAIN env.variables
            /\ (n \in StringNames) = (env.variables[n][1] = "string")
=============================================================================
