----------------------- MODULE MCComplexModifications -----------------------
(***************************************************************************)
(* A keyboard and a mouse under two configurations.  In the first, motion  *)
(* scrolls while a variable is set and Finder is in front, and a key       *)
(* toggles the variable; in the second, motion scrolls with shift while an *)
(* expression holds, after the mouse's x axis was flipped, and two         *)
(* manipulators cannot be read.                                            *)
(***************************************************************************)
EXTENDS ComplexModifications

Device(vendor, pointing, builtIn) ==
    [vendor_id |-> vendor, product_id |-> 1, location_id |-> 0, device_address |-> "",
     is_keyboard |-> ~pointing, is_pointing_device |-> pointing, is_game_pad |-> FALSE,
     is_consumer |-> FALSE, is_touch_bar |-> FALSE, is_built_in_keyboard |-> builtIn]

MCProperties == [keyboard |-> Device(1, FALSE, TRUE), mouse |-> Device(2, TRUE, FALSE)]

Finder == [bundle_identifier |-> "finder", file_path |-> "/finder"]
Terminal == [bundle_identifier |-> "terminal", file_path |-> "/terminal"]
MCApplications == {Finder, Terminal}

Set(name, value) == [type |-> "set", name |-> name, value |-> value, expression |-> None,
                     key_up_value |-> None]
MCSetVariables ==
    {Set("mode", <<"int", 1>>), Set("mode", <<"bool", FALSE>>),
     [Set("mode", None) EXCEPT !.type = "unset"], Set("name_string", <<"string", "on">>)}

MCEarlier == {NoVariables, "mode" :> <<"int", 1>>}

ModeIsOne == [op |-> "is", name |-> "mode", constant |-> 1]
NameIsOn == [op |-> "is", name |-> "name_string", constant |-> "on"]

Rule(enabled, manipulator) == [enabled |-> enabled, manipulator |-> manipulator]

SmallOptions(momentum) ==
    [momentum_scroll_enabled |-> momentum, threshold |-> 2, recent_time_duration |-> 1,
     direction_lock_threshold |-> 2, scroll_event_interval_threshold |-> 2]

Plain == [simple |-> FALSE, fn |-> FALSE, flip |-> {}, swap |-> {}, discard |-> {}]

Variable1 ==
    [keyboard_type |-> "ansi", treat_as_built_in_keyboard |-> {}, order |-> <<"keyboard", "mouse">>,
     devices |-> [keyboard |-> [Plain EXCEPT !.fn = TRUE], mouse |-> Plain],
     simple |-> FALSE, fn |-> FALSE,
     rules |-> <<
        Rule(TRUE, [type |-> "mouse_motion_to_scroll", options |-> SmallOptions(TRUE),
                    conditions |-> <<
                       [type |-> "variable_if", name |-> "mode", value |-> <<"int", 1>>],
                       [type |-> "frontmost_application_unless",
                        bundle_identifiers |-> {{"terminal"}}, file_paths |-> {}]>>]),
        Rule(TRUE, [type |-> "basic",
                    to |-> [Set("mode", None) EXCEPT !.expression =
                              [op |-> "toggle", name |-> "mode"]],
                    conditions |-> <<
                       [type |-> "expression_unless", expression |-> NameIsOn],
                       [type |-> "device_if", identifiers |->
                           {[is_built_in_keyboard |-> TRUE], [description |-> "skipped"]}],
                       [type |-> "event_changed_unless", value |-> TRUE, description |-> "-"]>>])>>]

Expression1 ==
    [keyboard_type |-> "iso", treat_as_built_in_keyboard |-> {}, order |-> <<"mouse">>,
     devices |-> [keyboard |-> Plain, mouse |-> [Plain EXCEPT !.flip = {"x"}, !.simple = TRUE]],
     simple |-> TRUE, fn |-> TRUE,
     rules |-> <<
        Rule(TRUE, [type |-> "mouse_basic", swap |-> {"xy"}, color |-> 1, conditions |-> <<>>]),
        Rule(TRUE, [type |-> "mouse_basic", swap |-> {"xy"},
                    conditions |-> <<[type |-> "variable_if", name |-> "mode"]>>]),
        Rule(FALSE, [type |-> "mouse_basic", discard |-> {"x"}, conditions |-> <<>>]),
        Rule(TRUE, [type |-> "mouse_motion_to_scroll", options |-> SmallOptions(FALSE),
                    from |-> [modifiers |-> {"shift"}],
                    conditions |-> <<
                       [type |-> "expression_if", expression |-> ModeIsOne],
                       [type |-> "keyboard_type_if", keyboard_types |-> {"iso"}]>>]),
        Rule(TRUE, [type |-> "mouse_basic", swap |-> {"xy"}, discard |-> {"y"},
                    conditions |-> <<
                       [type |-> "device_exists_if", identifiers |-> {[is_keyboard |-> TRUE]}],
                       [type |-> "input_source_if", input_sources |-> {{"en"}}],
                       [type |-> "expression_unless",
                        expression |-> [op |-> "ratio", name |-> "mode"]]>>])>>]

MCConfigurations == [variable |-> Variable1, expression |-> Expression1]

MCMotions == {Motion(6, 0, 0, 0), Motion(-2, 1, 0, 0), Motion(0, 2, 0, 0)}
=============================================================================
