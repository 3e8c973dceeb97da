--------------------------- MODULE MCOrderBlocks ---------------------------
(* Instances of OrderBlocks for TLC.                                       *)
EXTENDS OrderBlocks

Candle(o, c, h, l) == [open |-> o, close |-> c, high |-> h, low |-> l]

(* Of the moves these make some are displacements or not, as the ATRs are; *)
(* there are blocks of both sides, wide and narrow ones, rejected and      *)
(* plain retests, closes through a block and retests that come too late.   *)
Shapes ==
  {Candle(1, 0, 3, 0), Candle(5, 6, 6, 3), Candle(5, 4, 5, 4), Candle(3, 4, 5, 2)}
===========================================================================
