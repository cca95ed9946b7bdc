------------------------------- MODULE MCSync -------------------------------
(***************************************************************************)
(* Sync for TLC: two devices, entries with a title each or with one title   *)
(* in common, clocks in step or one of them ahead.                          *)
(***************************************************************************)
EXTENDS Sync, TLC

CONSTANTS d1, d2

OwnTitle == [e \in Entry |-> e]
SameTitle == [e \in Entry |-> "title"]
InStep == [d \in Device |-> 0]
FirstAhead == [d \in Device |-> IF d = d1 THEN 2 ELSE 0]

DeviceSymmetry == Permutations(Device)
DeviceAndEntrySymmetry == Permutations(Device) \cup Permutations(Entry)
=============================================================================
