--------------------------- MODULE MCTrendSetups ---------------------------
(* Instances of TrendSetups for TLC, and what the repository says of it.   *)
EXTENDS TrendSetups

(* A bar that touches nothing, one that goes far up, far down, or both.    *)
Shapes == [high: {5, 9}, low: {0, 4}]

(* "Merge H1 trend onto M5 (backward, no lookahead)": the side that a row  *)
(* of the frame shows is the one known when its bar closed.                *)
NoLookahead ==
  \A i \in 1..Last : Side(i, Len(hours)) = Side(i, ClosedAt(i))
===========================================================================
