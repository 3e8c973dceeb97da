----------------------------- MODULE LossyLog -----------------------------
(***************************************************************************)
(* What the journal of websocket events promises: numbered events are      *)
(* written in the order they were sent, none twice, none before it was     *)
(* sent; any of them may be missing, and what is written stays.            *)
(***************************************************************************)
EXTENDS Naturals, Sequences

VARIABLES
  count,  \* events sent so far
  log     \* the numbers of the events that are written

Init == count = 0 /\ log = <<>>

Send == count' = count + 1 /\ UNCHANGED log

Write ==
  \E n \in 1..count :
     /\ \A i \in 1..Len(log) : log[i] < n
     /\ log' = Append(log, n)
     /\ UNCHANGED count

Spec == Init /\ [][Send \/ Write]_<<count, log>>
===========================================================================
