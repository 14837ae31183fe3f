-------------------------- MODULE MouseMotionToScroll --------------------------
(***************************************************************************)
(* The data of the mouse manipulators: pointing_motion, the transformation *)
(* of mouse_basic, and the counter that turns pointing motion into wheel   *)
(* events (mouse_motion_to_scroll/counter.hpp) with its options.           *)
(* Json is represented as in Conditions.                                   *)
(*                                                                         *)
(* Time is counted in intervals of the counter's timer (20 ms); instead of *)
(* time points the counter holds ages, which Older advances.  The axes "x" *)
(* and "y" stand for the directions horizontal and vertical.               *)
(***************************************************************************)
EXTENDS Conditions, SequencesExt, FiniteSetsExt

Axes == {"x", "y"}
Other(a) == IF a = "x" THEN "y" ELSE "x"
OnAxes(F(_)) == [x |-> F("x"), y |-> F("y")]
Zero == [x |-> 0, y |-> 0]

Magnitude(i) == IF i < 0 THEN -i ELSE i
make_sign(i) == IF i = 0 THEN 0 ELSE IF i > 0 THEN 1 ELSE -1
Truncated(p, q) == make_sign(p) * (Magnitude(p) \div q)   \* p / q, towards zero
Ceiling(p, q) == -((-p) \div q)

-----------------------------------------------------------------------------
(* pointing_motion and mouse_basic                                         *)

Motion(x, y, v, h) == [x |-> x, y |-> y, vertical_wheel |-> v, horizontal_wheel |-> h]

(* The constructor of mouse_basic; names it does not know are ignored.     *)
mouse_basic(j) ==
    IF /\ DOMAIN j \subseteq {"flip", "swap", "discard", "type", "description", "conditions", "parameters"}
       /\ \A k \in DOMAIN j \cap {"flip", "swap", "discard"} : j[k] # Wrong
    THEN [kind |-> "mouse_basic",
          flip |-> Get(j, "flip", {}) \cap DOMAIN Motion(0, 0, 0, 0),
          swap |-> Get(j, "swap", {}) \cap {"xy", "wheels"},
          discard |-> Get(j, "discard", {}) \cap DOMAIN Motion(0, 0, 0, 0)]
    ELSE Error

ChangesMotion(m) == m.flip \cup m.swap \cup m.discard # {}

(* swap first, then flip, then discard *)
TransformedMotion(m, motion) ==
    LET swapped == [motion EXCEPT
            !.x = IF "xy" \in m.swap THEN motion.y ELSE @,
            !.y = IF "xy" \in m.swap THEN motion.x ELSE @,
            !.vertical_wheel = IF "wheels" \in m.swap THEN motion.horizontal_wheel ELSE @,
            !.horizontal_wheel = IF "wheels" \in m.swap THEN motion.vertical_wheel ELSE @]
    IN  [f \in DOMAIN motion |->
            IF f \in m.discard THEN 0 ELSE IF f \in m.flip THEN -swapped[f] ELSE swapped[f]]

-----------------------------------------------------------------------------
(* options: every setter replaces a value out of range by the default      *)

DefaultOptions == [momentum_scroll_enabled |-> TRUE, speed_multiplier |-> 1,
                   recent_time_duration |-> 5, threshold |-> 128,
                   direction_lock_threshold |-> 4, scroll_event_interval_threshold |-> 5]

update_options(j) ==
    IF \E k \in DOMAIN j \cap DOMAIN DefaultOptions : j[k] = Wrong THEN Error
    ELSE [k \in DOMAIN DefaultOptions |->
            IF k \notin DOMAIN j THEN DefaultOptions[k]
            ELSE IF k = "momentum_scroll_enabled" \/ j[k] > 0 THEN j[k]
            ELSE DefaultOptions[k]]

-----------------------------------------------------------------------------
(* counter_chunk_value                                                     *)

Sum(s) == FoldLeft(LAMBDA a, b : a + b, 0, s)

make_accumulated_value(s) ==
    LET moved == SelectSeq(s, LAMBDA i : i # 0)
        plus  == Sum(SelectSeq(s, LAMBDA i : i > 0))
        minus == Sum(SelectSeq(s, LAMBDA i : i < 0))
    IN  IF plus > -minus THEN plus
        ELSE IF plus < -minus THEN minus
        ELSE IF moved = <<>> THEN 0
        ELSE IF Last(moved) > 0 THEN plus ELSE minus

get_abs_total(s) == Sum([i \in DOMAIN s |-> Magnitude(s[i])])

-----------------------------------------------------------------------------
(* counter                                                                 *)

(* momentum_minus_ is not initialized; it is set before a total can differ *)
(* from 0, and subtracting it from 0 has no effect.                        *)
counter == [entries |-> <<>>, last_scroll |-> None, direction |-> None, chunks |-> <<>>,
            total |-> Zero, momentum |-> Zero, minus |-> 0, count |-> 0, wait |-> 0]

update(k, motion) ==
    [k EXCEPT !.entries = Append(@, [age |-> 0, value |-> OnAxes(LAMBDA a : motion[a])])]

(* async_reset leaves momentum_minus_ as it is. *)
reset(k) == [counter EXCEPT !.minus = k.minus]

erase_chunk_accumulated_values(o, chunks, front) ==
    SelectSeq(chunks, LAMBDA c : c.age - front <= o.recent_time_duration * o.direction_lock_threshold)

accumulate_abs(chunks, a) == get_abs_total([i \in DOMAIN chunks |-> chunks[i].value[a]])

(* The direction is kept whatever the sign (a bug to be caught).           *)
SignChangedNever(v, total, a) == v[a] # 0 /\ total[a] = 0

(* Restart with a new direction, or with a new sign on one axis. *)
SignChanged(v, total, a) == v[a] # 0 /\ make_sign(total[a]) # make_sign(v[a])

Enlarged(i, least) == IF i > 0 THEN Max({i, least}) ELSE IF i < 0 THEN Min({i, -least}) ELSE 0

(* threshold / pow(value, 4), where value = total / threshold, at most 10. *)
MomentumMinus(o, total) ==
    LET t == o.threshold
        m == Max({Magnitude(total[a]) : a \in Axes})
    IN  Max({1, IF m > 10 * t THEN t \div 10000 ELSE (t * t * t * t * t) \div (m * m * m * m)})

(* The last steps of process_entries: an initial total is enlarged, and    *)
(* momentum starts again.                                                  *)
Push(o, k, initial) ==
    LET larger == OnAxes(LAMBDA a : IF initial THEN Enlarged(k.total[a], o.threshold) ELSE k.total[a])
    IN  IF k.total = Zero THEN k
        ELSE [k EXCEPT !.total = larger, !.minus = Min({@, MomentumMinus(o, larger)}),
                       !.last_scroll = None, !.count = 0, !.wait = 0]

(* The value v, along the direction, is added to the total; a new sign     *)
(* starts a new total.  speed_multiplier stands for its product with       *)
(* make_mouse_motion_to_scroll_speed_rate.                                 *)
AddToTotal(o, k, v, initial) ==
    LET turned == {a \in Axes : SignChanged(v, k.total, a)}
    IN  Push(o, [k EXCEPT
                    !.total = OnAxes(LAMBDA a : (IF a \in turned THEN 0 ELSE k.total[a]) +
                                                v[a] * o.speed_multiplier),
                    !.momentum = OnAxes(LAMBDA a : IF a \in turned THEN 0 ELSE k.momentum[a]),
                    !.minus = IF turned # {} THEN o.threshold ELSE @],
             initial \/ turned # {})

(* The direction is kept unless the recent chunks moved more along the     *)
(* other axis; then the chunk decides and the totals start anew.           *)
LockDirection(o, k, values) ==
    IF /\ k.direction # None
       /\ accumulate_abs(k.chunks, Other(k.direction)) <= accumulate_abs(k.chunks, k.direction)
    THEN k
    ELSE [k EXCEPT
            !.direction = IF get_abs_total(values["x"]) > get_abs_total(values["y"]) THEN "x" ELSE "y",
            !.total = Zero, !.momentum = Zero, !.minus = o.threshold]

ApplyDirection(o, k, acc, initial) ==
    AddToTotal(o, k, OnAxes(LAMBDA a : IF a = k.direction THEN acc[a] ELSE 0), initial)

AddChunk(o, k, front, values) ==
    LET acc == OnAxes(LAMBDA a : make_accumulated_value(values[a]))
        added == [k EXCEPT !.chunks = Append(@, [age |-> front, value |-> acc])]
    IN  ApplyDirection(o, LockDirection(o, added, values), acc, k.chunks = <<>>)

(* process_entries once the first entry is old enough: the entries within  *)
(* recent_time_duration of it form one chunk.                              *)
ProcessChunk(o, k) ==
    LET front  == Head(k.entries).age
        taken  == SelectSeq(k.entries, LAMBDA e : front - e.age <= o.recent_time_duration)
        recent == erase_chunk_accumulated_values(o, k.chunks, front)
    IN  AddChunk(o, [k EXCEPT !.entries = SubSeq(@, Len(taken) + 1, Len(@)), !.chunks = recent,
                              !.direction = IF recent = <<>> THEN None ELSE @],
                 front, OnAxes(LAMBDA a : [i \in DOMAIN taken |-> taken[i].value[a]]))

(* Both functions also say whether the timer is to go on.                  *)
process_entries(o, k) ==
    IF k.entries = <<>> THEN [go |-> FALSE, counter |-> k]
    ELSE IF Head(k.entries).age <= o.recent_time_duration THEN [go |-> TRUE, counter |-> k]
    ELSE [go |-> TRUE, counter |-> ProcessChunk(o, k)]

(* total / count; a negative one is rounded to the integer below the       *)
(* ceiling, also when it is an integer.                                    *)
round_up(p, q) == IF p > 0 THEN Ceiling(p, q) ELSE IF p < 0 THEN Ceiling(p, q) - 1 ELSE 0

(* How many events the value is worth: one at most with momentum.          *)
Worth(o, value) ==
    LET n == Truncated(value, o.threshold)
    IN  IF o.momentum_scroll_enabled THEN make_sign(n) ELSE n

reduce(value, amount) == make_sign(value) * (Magnitude(value) - Min({amount, Magnitude(value)}))

TooLateToScroll(o, k) == k.last_scroll # None /\ k.last_scroll > o.scroll_event_interval_threshold

(* x and y of scroll are worth; pushed are the momenta they are taken from.*)
Scrolled(o, k, pushed, worth) ==
    LET total == OnAxes(LAMBDA a : reduce(k.total[a], k.minus))
        go    == total # Zero
    IN  [go |-> go,
         motion |-> IF worth = Zero THEN None ELSE Motion(0, 0, -worth["y"], worth["x"]),
         counter |-> [k EXCEPT
             !.momentum = OnAxes(LAMBDA a : pushed[a] - worth[a] * o.threshold),
             !.last_scroll = IF worth = Zero THEN @ ELSE 0,
             !.total = total,
             !.wait = IF go /\ o.momentum_scroll_enabled THEN Min({k.count, 10}) ELSE @]]

ScrollBy(o, k, pushed) == Scrolled(o, k, pushed, OnAxes(LAMBDA a : Worth(o, pushed[a])))

scroll(o, k) ==
    LET counted == [k EXCEPT !.count = @ + 1]
        scaled  == o.momentum_scroll_enabled \/ counted.count = 1
    IN  IF k.wait > 0 THEN [go |-> TRUE, counter |-> [k EXCEPT !.wait = @ - 1], motion |-> None]
        ELSE IF TooLateToScroll(o, k) THEN [go |-> FALSE, counter |-> counted, motion |-> None]
        ELSE ScrollBy(o, counted, OnAxes(LAMBDA a :
                 k.momentum[a] + IF scaled THEN round_up(k.total[a], counted.count) ELSE 0))

(* One timer interval passes; ages beyond every comparison stay the same.  *)
Older(o, k) ==
    LET limit == o.recent_time_duration * (o.direction_lock_threshold + 1) + 2
    IN  [k EXCEPT
            !.entries = [i \in DOMAIN @ |-> [@[i] EXCEPT !.age = Min({limit, @ + 1})]],
            !.chunks = [i \in DOMAIN @ |-> [@[i] EXCEPT !.age = Min({limit, @ + 1})]],
            !.last_scroll = IF @ = None THEN None ELSE Min({@ + 1, o.scroll_event_interval_threshold + 1})]
=============================================================================
