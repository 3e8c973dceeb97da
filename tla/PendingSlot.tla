---------------------------- MODULE PendingSlot ----------------------------
(***************************************************************************)
(* What one trading bot promises about its entry orders: a single slot.    *)
(* At most one conditional entry order works at a time, and a link id that *)
(* was used is never used again.                                           *)
(***************************************************************************)
CONSTANTS
  LinkIds,   \* every link id the bot can form
  Empty      \* the slot holds nothing; not a link id

VARIABLES
  slot,      \* the working entry order, or Empty
  used       \* the link ids that were ever accepted

vars == <<slot, used>>

Init == slot = Empty /\ used = {}

Place(l) ==
  /\ slot = Empty
  /\ l \notin used
  /\ slot' = l
  /\ used' = used \cup {l}

(* Triggered, cancelled by the bot, or taken down from outside.            *)
Release ==
  /\ slot # Empty
  /\ slot' = Empty
  /\ UNCHANGED used

Next == Release \/ \E l \in LinkIds : Place(l)

Spec == Init /\ [][Next]_vars
===========================================================================
