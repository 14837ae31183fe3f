----------------------------- MODULE MCEntryToPost -----------------------------
(* EntryToPost on two devices, one modifier and caps_lock.                 *)
EXTENDS EntryToPost, TLC

CONSTANTS caps_lock, left_shift, dev1, dev2, caps_key, a, button1

MCFlags == {caps_lock, left_shift}
MCDeviceIds == {dev1, dev2}
MCSymmetry == Permutations(MCDeviceIds)
=============================================================================
