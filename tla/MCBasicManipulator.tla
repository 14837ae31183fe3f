--------------------------- MODULE MCBasicManipulator ---------------------------
(* Manipulators chosen so that every part of `basic` is used. *)
EXTENDS BasicManipulator

To(k) == [key |-> k, mods |-> <<>>, repeat |-> TRUE, halt |-> FALSE, cond |-> BOOLEAN]

Plain(from, to) ==
    [from |-> from, mandatory |-> {}, optionalAny |-> TRUE, uninterruptedly |-> FALSE,
     downOrder |-> "insensitive", upOrder |-> "insensitive", upWhen |-> "any", afterAll |-> <<>>,
     to |-> to, alone |-> <<>>, after |-> <<>>, held |-> <<>>, invoked |-> <<>>, canceled |-> <<>>,
     cond |-> BOOLEAN]

MCKeysOf == [dev1 |-> {"a", "s"}, dev2 |-> {"shift"}]

\* shift+a is x with a held-down action, alone it is esc; a and s together (a first)
\* are y and a ctrl that is held; s is a tap of x with a delayed action.
MCDefinitions == <<
    [Plain(<<"a">>, <<[To("x") EXCEPT !.mods = <<"ctrl">>]>>) EXCEPT
        !.mandatory = {"shift"}, !.optionalAny = FALSE, !.cond = {TRUE},
        !.alone = <<[To("esc") EXCEPT !.halt = TRUE]>>, !.held = <<To("h")>>, !.after = <<To("z")>>],
    [Plain(<<"a", "s">>, <<To("y"), [To("ctrl") EXCEPT !.cond = {TRUE}]>>) EXCEPT
        !.downOrder = "strict", !.upOrder = "strict_inverse",
        !.held = <<To("h")>>, !.afterAll = <<To("z")>>],
    [Plain(<<"s">>, <<[To("x") EXCEPT !.repeat = FALSE]>>) EXCEPT
        !.mandatory = {"any"}, !.invoked = <<To("i")>>, !.canceled = <<To("c")>>] >>

\* a+s and d+s share a key; d may be pressed between a and s.
SharedKeysOf == [dev1 |-> {"a", "d", "s"}]
SharedDefinitions == <<
    [Plain(<<"a", "s">>, <<To("x")>>) EXCEPT !.uninterruptedly = TRUE],
    [Plain(<<"d", "s">>, <<To("y")>>) EXCEPT !.upWhen = "all"] >>
=============================================================================
