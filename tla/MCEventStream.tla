--------------------------- MODULE MCEventStream ---------------------------
(* Instances of EventStream and TradeReport for TLC, and what the          *)
(* repository says of them.                                                *)
EXTENDS TradeReport

(* "After that, callers add each new close's PnL via add()": taking a      *)
(* close event raises the tracker's total by what the close realised.      *)
TrackerCounts ==
  [][\A n \in Elements(queue) :
        Receive(n) /\ IsClose(Event(n)) => added' = added + sent[n].gain]_vars
===========================================================================
