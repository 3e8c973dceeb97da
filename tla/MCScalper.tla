---------------------------- MODULE MCScalper -----------------------------
(* Instances of Scalper for TLC.                                           *)
EXTENDS Scalper, TLC

(* Nothing distinguishes two symbols, nor two signals.                     *)
Symmetry == Permutations(Symbols) \cup Permutations(Signals)

(* A loss and a gain of one limit.                                         *)
LossAndGain == {-1, 1}
===========================================================================
