--------------------------- MODULE MCOrderSizing ---------------------------
(* Instances of OrderSizing for TLC.                                       *)
EXTENDS OrderSizing
PriceRange == 9..20
StopRange == 0..9
SlipRange == {-1, 0, 3}
===========================================================================
