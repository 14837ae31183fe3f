----------------------- MODULE MCCoreConfiguration -----------------------
(* CoreConfiguration with one keyboard and one pointing device, and five    *)
(* files a user may have written by hand.                                   *)
EXTENDS CoreConfiguration

MCDevices  == {1, 2}
MCPointing == {2}
MCValues   == {-5, 0, 20000}
MCGlobalDefault == [show_in_menu_bar |-> 1]
MCPairs  == {[from |-> 1, to |-> 8], [from |-> 1, to |-> 9], [from |-> 2, to |-> 0]}
MCRules  == {[body |-> 0, enabled |-> 1], [body |-> -3, enabled |-> 1],
             [body |-> 5, enabled |-> 1], [body |-> 6, enabled |-> Bad]}

Json(global, profiles) ==
  [readable |-> TRUE,
   json |-> [global |-> global, machine |-> [other |-> 1, bad |-> NotAnObject],
             profiles |-> profiles]]

Named(n) == [EmptyProfileJson EXCEPT !.vals = [name |-> n]]

\* A device that is listed with both built-in settings and a formula with two
\* newlines at its end, another one that is listed twice.
Device1 == [id |-> 1, simple |-> <<[from |-> 2, to |-> 8], [from |-> 1, to |-> 9]>>, fn |-> <<>>,
            vals |-> [treat_as_built_in_keyboard |-> 1, stick_formula |-> AsArray(62),
                      disable_built_in_keyboard_if_exists |-> 1, unknown |-> 4]]
Device2(flag) == [id |-> 2, simple |-> <<>>, fn |-> <<[from |-> 1, to |-> 8]>>,
                  vals |-> [ignore |-> flag]]

\* All it says is the default formula with a newline at its end.
Newline == [id |-> 1, simple |-> <<>>, fn |-> <<>>, vals |-> [stick_formula |-> AsArray(51)]]

MCFiles ==
  {[readable |-> FALSE, json |-> Json(NoKeys, <<>>).json],
   Json([show_in_menu_bar |-> 0, unknown |-> 3],
        <<EmptyProfileJson,
          [Named(3) EXCEPT !.rules = <<[body |-> -5, enabled |-> 0], [body |-> 7, enabled |-> 1]>>,
                           !.complex = [speed |-> 0], !.keyboard = [xy_scale |-> -7],
                           !.fn = <<[from |-> 1, to |-> 9]>>]>>),
   Json([show_in_menu_bar |-> Bad],
        <<[Named(4) EXCEPT !.devices = <<Device1, Device2(0), Device2(1)>>,
                           !.vals = [name |-> 4, selected |-> 1, unknown |-> 1]],
          Named(5)>>),
   Json(NoKeys, <<Named(6), [Named(7) EXCEPT !.rules = <<[body |-> 0, enabled |-> 1]>>], Named(8)>>),
   Json(NoKeys, <<[EmptyProfileJson EXCEPT !.devices = <<Newline>>]>>)}
=============================================================================
