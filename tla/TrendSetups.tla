---------------------------- MODULE TrendSetups ----------------------------
(***************************************************************************)
(* The EMA trend strategy: the setups that list_setup_signals finds in the *)
(* frames of closed candles, and the walk of run_backtest through them.    *)
(*                                                                         *)
(* Bars of the entry timeframe are numbered from 1 in the frame, with      *)
(* integer prices.  An hour of the trend timeframe is the trend that its   *)
(* EMAs and its close give once it has closed; hours[1] is the last one    *)
(* before the frame.  A trend is 1 (bull), -1 (bear) or 0 (flat), so that  *)
(* it is also the side of the setup it leads to.                           *)
(***************************************************************************)
EXTENDS Integers, Sequences, FiniteSetsExt

CONSTANTS
  Candles,   \* records [high, low]
  Size,      \* bars of a full frame
  PerHour,   \* bars in an hour of the trend timeframe
  LookBack,  \* lookback_bars
  Offset,    \* pending_offset_ticks * pip_size
  RR,        \* rr
  Expiry     \* expiry_bars

ASSUME SetupAssumption ==
  {Size, PerHour, LookBack, Offset, RR, Expiry} \subseteq Nat \ {0}

VARIABLES m5, hours

Trends == {1, 0, -1}
Last == Len(m5)

Init == m5 = <<>> /\ hours \in {<<t>> : t \in Trends}

(* A bar closes, and the hour with it if it was the last of the hour.      *)
Close(c, t) ==
  /\ Last < Size
  /\ m5' = Append(m5, c)
  /\ hours' = IF (Last + 1) % PerHour = 0 THEN Append(hours, t) ELSE hours

Next == \E c \in Candles, t \in Trends : Close(c, t)
Spec == Init /\ [][Next]_<<m5, hours>>

---------------------------------------------------------------------------
(* The merged frame when "closed" hours are known.                         *)

(* The hour in which bar i opens, and how many are closed when it closes.  *)
HourOf(i) == 2 + (i - 1) \div PerHour
ClosedAt(i) == 1 + i \div PerHour

(* Fault: the nearest hour instead of the last one to open.                *)
FaultNearest(i, closed) ==
  hours[Min({closed, IF 2 * ((i - 1) % PerHour) > PerHour
                     THEN HourOf(i) + 1 ELSE HourOf(i)})]

(* merge_asof backward, on the times at which bars and hours open: the     *)
(* last closed hour that opens no later than the bar.                      *)
Trend(i, closed) == hours[Min({closed, HourOf(i)})]

(* compute_pending_setup: the side of the setup at bar i, 0 without one.   *)
Side(i, closed) == IF i > LookBack THEN Trend(i, closed) ELSE 0

Highest(i) == Max({m5[j].high : j \in (i - LookBack)..(i - 1)})
Lowest(i) == Min({m5[j].low : j \in (i - LookBack)..(i - 1)})

(* The setup that this frame shows at bar i: beyond the swing to enter,    *)
(* beyond its other end to stop.                                           *)
Setup(i) ==
  LET side == Side(i, Len(hours))
      entry == IF side = 1 THEN Highest(i) + Offset ELSE Lowest(i) - Offset
      sl == IF side = 1 THEN Lowest(i) - Offset ELSE Highest(i) + Offset
  IN [side |-> side, entry |-> entry, sl |-> sl, tp |-> entry + RR * (entry - sl)]

(* list_setup_signals, as the bars of its rows.                            *)
Signals == {i \in 1..Last : Side(i, Len(hours)) # 0}

---------------------------------------------------------------------------
(* run_backtest, and _simulate_walk_forward, which is the same loop.       *)

(* Bar i touches the price from below (side 1) or from above.              *)
Touches(i, price, side) ==
  IF side = 1 THEN m5[i].high >= price ELSE m5[i].low <= price

Triggers(s, i) == LET o == Setup(s) IN Touches(i, o.entry, o.side)
HitsStop(s, i) == LET o == Setup(s) IN Touches(i, o.sl, -o.side)
HitsTarget(s, i) == LET o == Setup(s) IN Touches(i, o.tp, o.side)

(* A trade of the setup at bar s; the stop counts first.                   *)
Trade(s, entered, exited) ==
  [signal |-> s, entered |-> entered, exited |-> exited,
   won |-> ~HitsStop(s, exited)]

(* Between two bars: the bar whose setup is pending or has become the      *)
(* position, the bar that triggered it, and the trades; 0 for none.        *)
Idle == [signal |-> 0, entered |-> 0, trades |-> <<>>]

Place(i, was) ==
  [was EXCEPT !.signal = IF Side(i, Len(hours)) # 0 THEN i ELSE 0]

(* Fault: the bar that closes a position may place the next order.         *)
FaultPlaceOnExit(i, was) ==
  IF was.entered # 0
  THEN IF HitsStop(was.signal, i) \/ HitsTarget(was.signal, i)
       THEN Place(i, [Idle EXCEPT !.trades =
                        Append(was.trades, Trade(was.signal, was.entered, i))])
       ELSE was
  ELSE IF was.signal = 0 \/ i - was.signal > Expiry THEN Place(i, was)
  ELSE IF Triggers(was.signal, i) THEN [was EXCEPT !.entered = i] ELSE was

(* One bar: a position may close, a pending order may expire or trigger,   *)
(* and the setup of the bar is placed if there is neither.                 *)
Bar(i, was) ==
  IF was.entered # 0
  THEN IF HitsStop(was.signal, i) \/ HitsTarget(was.signal, i)
       THEN [Idle EXCEPT !.trades =
               Append(was.trades, Trade(was.signal, was.entered, i))]
       ELSE was
  ELSE IF was.signal = 0 \/ i - was.signal > Expiry THEN Place(i, was)
  ELSE IF Triggers(was.signal, i) THEN [was EXCEPT !.entered = i] ELSE was

Walk ==
  LET at[i \in 0..Last] == IF i <= LookBack THEN Idle ELSE Bar(i, at[i - 1])
  IN at[Last]

---------------------------------------------------------------------------
(* What becomes of an order placed at bar s, without the walk.             *)
Entries(s) == {i \in (s + 1)..Min({s + Expiry, Last}) : Triggers(s, i)}
Exits(s) == {i \in (Min(Entries(s)) + 1)..Last : HitsStop(s, i) \/ HitsTarget(s, i)}
FreeFrom(s) ==
  IF Entries(s) = {} THEN s + Expiry + 1
  ELSE IF Exits(s) = {} THEN Last + 1 ELSE Min(Exits(s)) + 1
(* The bars at which an order is due: those with a setup that no earlier   *)
(* order occupies any more.                                                *)
Due(i, earlier) ==
  IF i \in Signals /\ earlier.free <= i
  THEN [bars |-> earlier.bars \cup {i}, free |-> FreeFrom(i)] ELSE earlier
Placed ==
  LET upto[i \in 0..Last] ==
        IF i = 0 THEN [bars |-> {}, free |-> 1] ELSE Due(i, upto[i - 1])
  IN upto[Last].bars

(* The backtest misses and invents nothing: a setup is placed at the first *)
(* bar that no earlier order occupies, is entered at the first touch       *)
(* within its lifetime, and ends at the first touch of stop or target      *)
(* after that.                                                             *)
TradesAreDue ==
  LET walk == Walk
      entered == {s \in Placed : Entries(s) # {}}
      closed == {s \in entered : Exits(s) # {}}
  IN /\ {walk.trades[k] : k \in 1..Len(walk.trades)}
          = {Trade(s, Min(Entries(s)), Min(Exits(s))) : s \in closed}
     /\ Len(walk.trades) = Cardinality(closed)
     /\ \A s \in 1..Last :
          s \in entered \ closed <=>
            walk.signal = s /\ walk.entered # 0 /\ walk.entered = Min(Entries(s))

(* The only row the bot acts on, the newest setup of its frames, is one it *)
(* could have acted on when its bar closed: that an hour's trend reaches   *)
(* back over its bars never brings up or turns around a setup that was     *)
(* not there.                                                              *)
NewestStood ==
  \A i \in Signals :
     (\A j \in Signals : j <= i) => Side(i, ClosedAt(i)) = Side(i, Len(hours))
===========================================================================
