---------------------------- MODULE MCOrderBot ----------------------------
(* Instances of OrderBot for TLC.                                          *)
EXTENDS OrderBot, TLC

(* Nothing distinguishes the two sides, nor two price triples.             *)
Symmetry == Permutations(Sides) \cup Permutations(Prices)
===========================================================================
