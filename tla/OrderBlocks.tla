---------------------------- MODULE OrderBlocks ----------------------------
(***************************************************************************)
(* strategy/ob_core.py: the signals that list_ob_signals finds in a frame  *)
(* of closed candles, while candles close and the frame slides.  Live, the *)
(* scan is that of list_ob_signals_enhanced, which is the same loop with   *)
(* filters behind it.                                                      *)
(*                                                                         *)
(* Side 1 is up: a bullish block; side -1 is down: a bearish one.  Bars    *)
(* are numbered from 1 in the frame, prices are integers.                  *)
(***************************************************************************)
EXTENDS Integers, Sequences, FiniteSets, FiniteSetsExt

CONSTANTS
  Candles,     \* records [open, close, high, low]
  Size,        \* candles of a full frame
  Span,        \* ATR_PERIOD
  MinCandles,  \* DISPLACEMENT_MIN_CANDLES
  LookBack,    \* bars before a displacement in which its block is looked for
  ExpiryBars,  \* OB_EXPIRY_BARS
  MinDist      \* smallest distance of a stop, from the fees

ASSUME SizeAssumption ==
  /\ Candles \subseteq [open: Int, close: Int, high: Int, low: Int]
  /\ {Size, Span, MinCandles, LookBack, ExpiryBars} \subseteq Nat \ {0}
  /\ MinDist \in Nat

VARIABLE frame

Sides == {1, -1}
Abs(x) == IF x < 0 THEN -x ELSE x
Bars == 1..Len(frame)
Init == frame = <<>>

NextCandle(c) ==
  frame' = Append(IF Len(frame) < Size THEN frame ELSE Tail(frame), c)

Next == \E c \in Candles : NextCandle(c)
Spec == Init /\ [][Next]_frame

---------------------------------------------------------------------------
(* Displacements and their blocks.                                         *)

(* is_bull or is_bear.                                                     *)
Goes(i, side) == side * (frame[i].close - frame[i].open) > 0

(* Fault: a run is seen only when a candle has ended it.                   *)
FaultRunEnded(d) ==
  /\ d.from <= d.to /\ \A i \in d.from..d.to : Goes(i, d.side)
  /\ d.from = 1 \/ ~Goes(d.from - 1, d.side)
  /\ d.to < Len(frame) /\ ~Goes(d.to + 1, d.side)

(* A longest run of candles that go one way, ...                           *)
IsRun(d) ==
  /\ d.from <= d.to /\ \A i \in d.from..d.to : Goes(i, d.side)
  /\ d.from = 1 \/ ~Goes(d.from - 1, d.side)
  /\ d.to = Len(frame) \/ ~Goes(d.to + 1, d.side)

(* How far a candle goes, from the close before it.                        *)
TrueRange(i) ==
  Max({frame[i].high - frame[i].low,
       Abs(frame[i].high - frame[i - 1].close), Abs(frame[i].low - frame[i - 1].close)})

(* The ATR of each bar, in parts of a price step that leave no remainder.  *)
(* The frame's first candle has no close before it and so no ATR; the      *)
(* second one's range seeds the average.                                   *)
Part == (Span + 1)^(Size - 2)
Atrs(range) ==
  LET atr[i \in DOMAIN range] ==
        IF i = 2 THEN Part * range[2]
        ELSE ((Span - 1) * atr[i - 1] + 2 * Part * range[i]) \div (Span + 1)
  IN atr

(* ... long enough, and 1.5 times the mean ATR of those that have one.     *)
GoesFar(d, move, range) ==
  LET bars == (d.from..d.to) \ {1}
      atr == Atrs(range)
  IN /\ d.to - d.from + 1 >= MinCandles /\ bars # {}
     /\ 2 * Part * Cardinality(bars) * move >= 3 * MapThenSumSet(LAMBDA i : atr[i], bars)

IsStrong(d) ==
  GoesFar(d, d.side * (frame[d.to].close - frame[d.from].open),
          [i \in 2..d.to |-> TrueRange(i)])

Spans == [side: Sides, from: Bars, to: Bars]
StrongSpans == {d \in Spans : IsStrong(d)}
Displacements == {d \in Spans : IsRun(d) /\ IsStrong(d)}

(* The last candle before it that went the other way.                      *)
Opposite(d) ==
  {i \in Bars : i \in (d.from - LookBack)..(d.from - 1) /\ Goes(i, -d.side)}
Blocks ==
  {[bar |-> Max(Opposite(d)), side |-> d.side, run |-> d] :
     d \in {e \in Displacements : Opposite(e) # {}}}

---------------------------------------------------------------------------
(* The scan of a block.                                                    *)

(* The edge that price leaves the block by and comes back to, and the      *)
(* other one.                                                              *)
High(c, side) == IF side = 1 THEN c.high ELSE c.low
Low(c, side) == High(c, -side)
Entry(b) == High(frame[b.bar], b.side)
Stop(b) == Low(frame[b.bar], b.side)

Beyond(b, p, q) == b.side * (p - q) > 0
Leaves(b, i) == Beyond(b, frame[i].close, Entry(b))
Breaks(b, i) == Beyond(b, Stop(b), frame[i].close)
Retests(b, i) ==
  ~Beyond(b, Low(frame[i], b.side), Entry(b)) /\ ~Breaks(b, i)

(* _is_rejection: the wick towards the block is 0.3 of the range.          *)
Rejects(b, i) ==
  LET c == frame[i]
      body == IF b.side * (c.close - c.open) > 0 THEN c.open ELSE c.close
  IN 10 * b.side * (body - Low(c, b.side)) > 3 * (c.high - c.low)

IsWide(b) == b.side * (Entry(b) - Stop(b)) >= MinDist

(* Fault: an invalidated block is scanned on.                              *)
FaultNeverBroken(b, i, was) ==
  IF was = "waiting" THEN IF Leaves(b, i) THEN "left" ELSE was
  ELSE IF was # "left" THEN "over"
  ELSE IF Retests(b, i) /\ Rejects(b, i) THEN IF IsWide(b) THEN "signal" ELSE "over"
  ELSE was

(* One candle: price has to leave the block, then comes back and is        *)
(* rejected, or closes through it.  The block is done with either way.     *)
Advance(b, i, was) ==
  IF was = "waiting" THEN IF Leaves(b, i) THEN "left" ELSE was
  ELSE IF was # "left" \/ Breaks(b, i) THEN "over"
  ELSE IF Retests(b, i) /\ Rejects(b, i) THEN IF IsWide(b) THEN "signal" ELSE "over"
  ELSE was

LastScanned(b) == Min({b.bar + ExpiryBars - 1, Len(frame) - 1})

Scan(b) ==
  LET at[i \in b.bar..LastScanned(b)] ==
        IF i = b.bar THEN "waiting" ELSE Advance(b, i, at[i - 1])
  IN {i \in b.bar..LastScanned(b) : at[i] = "signal"}

(* The rows, without their order; what a row says follows from these.      *)
Signals == UNION {{[block |-> b, bar |-> i] : i \in Scan(b)} : b \in Blocks}

---------------------------------------------------------------------------
(* A signal is the first rejected retest of its block after price had left *)
(* it and before price closed through it, and no such retest is missed in  *)
(* the block's lifetime, the last candle apart.                            *)
Retested(b, i) ==
  \E j \in (b.bar + 1)..(i - 1) :
     /\ Leaves(b, j) /\ \A k \in (b.bar + 1)..(j - 1) : ~Leaves(b, k)
     /\ Retests(b, i) /\ Rejects(b, i)
     /\ \A k \in (j + 1)..(i - 1) : ~Breaks(b, k) /\ ~(Retests(b, k) /\ Rejects(b, k))
SignalsAreRetests ==
  \A b \in Blocks : \A i \in Bars :
    i \in Scan(b) <=>
      Retested(b, i) /\ IsWide(b) /\ i < Len(frame) /\ i < b.bar + ExpiryBars

(* Where a displacement and a signal of this frame are in the next one.    *)
Slid == IF Len(frame) = Size THEN 1 ELSE 0
Shifted(d) == [side |-> d.side, from |-> d.from - Slid, to |-> d.to - Slid]
Moved(r) ==
  [block |-> [bar |-> r.block.bar - Slid, side |-> r.block.side,
              run |-> Shifted(r.block.run)],
   bar |-> r.bar - Slid]

(* What list_ob_signals has said of a frame it says of the next one, where *)
(* the candle that was the last adds its signals.  A signal is withdrawn   *)
(* only with its block's candle, or when its displacement goes on, or when *)
(* the displacement is too weak for the ATRs that the next frame computes: *)
(* a full frame loses its first candle, and all its ATRs are seeded anew.  *)
(* Nothing is back-dated but to a displacement that the ATRs of the frame  *)
(* before held too weak.                                                   *)
SignalsStay ==
  [][/\ \A r \in Signals :
          (/\ r.block.bar > Slid /\ r.block.run.to < Len(frame)
           /\ Slid = 1 => Moved(r).block.run \in StrongSpans')
            => Moved(r) \in Signals'
     /\ \A r \in Signals' :
          r.block.run.to < Len(frame') /\ r.bar < Len(frame') - 1
            => \/ \E q \in Signals : r = Moved(q)
               \/ Slid = 1 /\ \E d \in Spans \ StrongSpans : r.block.run = Shifted(d)]_frame
===========================================================================
