-------------------------- MODULE MCModifierFlagList --------------------------
(* ModifierFlagList on two flags (caps_lock and one other) and a few devices. *)
EXTENDS ModifierFlagList, TLC

CONSTANTS caps_lock, left_shift, dev1, dev2

MCFlags == {caps_lock, left_shift}
MCDeviceIds == {dev1, dev2}
MCSymmetry == Permutations(MCDeviceIds)
=============================================================================
