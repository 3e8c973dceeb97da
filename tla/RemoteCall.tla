----------------------------- MODULE RemoteCall -----------------------------
(***************************************************************************)
(* What a caller of the exchange may rely on: a call is effective at most  *)
(* once, a success is effective, and what has ended has no effect later    *)
(* unless the caller was cancelled.  A failure may be effective.           *)
(***************************************************************************)
CONSTANT Calls

VARIABLES
  outcome,   \* "open", "ok", "raised" or "cancelled"
  effective  \* calls that had their effect

Init == outcome = [c \in Calls |-> "open"] /\ effective = {}

TakesEffect(c) ==
  /\ outcome[c] \in {"open", "cancelled"}
  /\ effective' = effective \cup {c}
  /\ UNCHANGED outcome

Ends(c, how) ==
  /\ outcome[c] = "open"
  /\ how = "ok" => c \in effective
  /\ outcome' = [outcome EXCEPT ![c] = how]
  /\ UNCHANGED effective

Next ==
  \E c \in Calls :
     TakesEffect(c) \/ \E how \in {"ok", "raised", "cancelled"} : Ends(c, how)

Spec == Init /\ [][Next]_<<outcome, effective>>
=============================================================================
