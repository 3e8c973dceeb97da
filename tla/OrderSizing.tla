---------------------------- MODULE OrderSizing ----------------------------
(***************************************************************************)
(* From a signal to the prices and the quantity of an order:               *)
(* exchange/precision.py and risk/sizing.py as OrderManager and the        *)
(* multi-scalper call them.  A price is a number of grains, a tick is Tick *)
(* grains; a long position has side 1, a short one side -1, so that        *)
(* "price + side * distance" is beyond "price" in the favourable direction.*)
(* Decimal arithmetic is exact, and so is this.                            *)
(***************************************************************************)
EXTENDS Integers

CONSTANTS
  Tick,                   \* tick_size
  Step, MinQty, MaxQty,   \* the lot filter of the instrument
  Risk,                   \* risk_fixed_usdt
  RR,                     \* reward per risk
  Fee,                    \* the fees of one unit, in and out
  Leverage,
  Entries, Distances,     \* raw entry prices of signals, distances of stops
  Slips,                  \* how much worse than the close a market order fills
  Atrs,                   \* minimum distances of a stop (0: switched off)
  Balances                \* available balances

ASSUME FilterAssumption ==
  /\ {Tick, Step, MinQty, MaxQty} \subseteq Nat \ {0}
  /\ MinQty <= MaxQty /\ MinQty % Step = 0 /\ MaxQty % Step = 0
ASSUME InputAssumption ==
  /\ {Risk, RR, Leverage} \subseteq Nat \ {0} /\ Fee \in Nat
  /\ Entries \subseteq Nat /\ Distances \subseteq Nat /\ Slips \subseteq Int
  /\ Atrs \subseteq Nat /\ Balances \subseteq Nat

VARIABLES
  signal,  \* side, raw entry and distance of its stop
  mode,    \* "plain", "tighten", "adjusted" or "scalper", ATR, balance
  stage,   \* the next step, or how it ended: "sent" or "skipped"
  sl, tp,  \* effective stop and target
  base,    \* distance the quantity is computed from
  qty,     \* quantity, 0 before it is known
  order    \* stop and target as sent; entry as sent, or of a market order's fill

vars == <<signal, mode, stage, sl, tp, base, qty, order>>

Signals == [side: {1, -1}, entry: Entries, dist: Distances]
Modes ==
  [sizing: {"plain", "tighten", "adjusted", "scalper"}, atr: Atrs, free: Balances]

(* How far b lies beyond a in the direction of the trade.                  *)
Gain(a, b) == signal.side * (b - a)
Distance(a, b) == IF a <= b THEN b - a ELSE a - b
Bigger(a, b) == IF a < b THEN b ELSE a
Smaller(a, b) == IF a < b THEN a ELSE b

(* normalize_price.                                                        *)
Down(p) == (p \div Tick) * Tick
Up(p) == ((p + Tick - 1) \div Tick) * Tick
Nearest(p) == ((2 * p + Tick) \div (2 * Tick)) * Tick

(* Fault: every price goes to the nearest tick.                            *)
FaultNearest(e, s, t) ==
  [entry |-> Nearest(e), sl |-> Nearest(s), tp |-> Nearest(t)]

(* snap_signal_to_ticks.                                                   *)
Snap(e, s, t) ==
  IF signal.side = 1
  THEN [entry |-> Up(e), sl |-> Down(s), tp |-> Up(t)]
  ELSE [entry |-> Down(e), sl |-> Up(s), tp |-> Down(t)]

(* normalize_qty of Risk / dist: down to a step, then into the limits.     *)
NormalizedQty(dist) ==
  Bigger(MinQty, Smaller((Risk \div (dist * Step)) * Step, MaxQty))

NoOrder == [entry |-> 0, sl |-> 0, tp |-> 0]

Init ==
  /\ signal \in Signals /\ mode \in Modes
  /\ stage = IF mode.sizing = "scalper" THEN "scalp" ELSE "floor"
  /\ sl = signal.entry - signal.side * signal.dist
  /\ tp = signal.entry + signal.side * RR * signal.dist
  /\ base = 0 /\ qty = 0 /\ order = NoOrder

---------------------------------------------------------------------------
(* OrderManager.sync_pending_orders, from a valid signal on.               *)

Entry == signal.entry
Given == UNCHANGED <<signal, mode>>

Skip(at) ==
  /\ stage = at /\ stage' = "skipped"
  /\ Given /\ UNCHANGED <<sl, tp, base, qty, order>>

NoBalance == mode.free <= 0 /\ Skip("floor")

(* apply_atr_floor_sl; the target follows a stop that was moved.           *)
FloorStop ==
  /\ stage = "floor" /\ mode.free > 0 /\ stage' = "tighten"
  /\ LET dist == Bigger(Distance(Entry, sl), mode.atr)
     IN /\ sl' = Entry - signal.side * dist
        /\ tp' = IF sl' = sl THEN tp ELSE Entry + signal.side * RR * dist
        /\ base' = dist
  /\ Given /\ UNCHANGED <<qty, order>>

(* tighten_sl_for_fees, unless the stop would meet the entry.              *)
TightenStop ==
  /\ stage = "tighten" /\ stage' = "size"
  /\ LET tightened == sl + signal.side * Fee
     IN sl' = IF mode.sizing = "tighten" /\ tightened # Entry THEN tightened ELSE sl
  /\ Given /\ UNCHANGED <<tp, base, qty, order>>

(* Fault: the quantity is computed from the tightened stop.                *)
FaultDivisor == IF mode.sizing = "adjusted" THEN base + Fee ELSE Distance(Entry, sl)

(* What the risk is divided by.                                            *)
Divisor == IF mode.sizing = "adjusted" THEN base + Fee ELSE base

BelowMinimum == base = 0 \/ Risk < MinQty * Divisor
Unsized == BelowMinimum /\ Skip("size")

(* compute_qty, or compute_qty_fee_adjusted with fee_adjusted_tp.          *)
ComputeQty ==
  /\ stage = "size" /\ ~BelowMinimum /\ stage' = "snap"
  /\ qty' = NormalizedQty(Divisor)
  /\ tp' = IF mode.sizing = "adjusted"
           THEN Entry + signal.side * (RR * base + (RR + 1) * Fee) ELSE tp
  /\ Given /\ UNCHANGED <<sl, base, order>>

Snapped == Snap(Entry, sl, tp)

(* The stale-signal check and check_margin_available.                      *)
Stale == 2 * Gain(Snapped.entry, Snapped.tp) < Distance(Entry, sl)
MarginMissing == 10 * mode.free * Leverage < 11 * qty * Snapped.entry

Reject == (Stale \/ MarginMissing) /\ Skip("snap")

Pass ==
  /\ stage = "snap" /\ ~Stale /\ ~MarginMissing /\ stage' = "create"
  /\ Given /\ UNCHANGED <<sl, tp, base, qty, order>>

(* Fault: the geometry is checked before the prices are snapped.           *)
FaultGeometry(o) == Gain(sl, Entry) > 0 /\ Gain(Entry, tp) > 0

(* validate_order_geometry and validate_price.                             *)
Geometry(o) ==
  /\ o.entry > 0 /\ o.sl > 0 /\ o.tp > 0
  /\ Gain(o.sl, o.entry) > 0 /\ Gain(o.entry, o.tp) > 0

Invalid == ~Geometry(Snapped) /\ Skip("create")

(* create_pending_order, and modify_pending_order alike.                   *)
Create ==
  /\ stage = "create" /\ Geometry(Snapped) /\ stage' = "sent"
  /\ order' = Snapped
  /\ Given /\ UNCHANGED <<sl, tp, base, qty>>

---------------------------------------------------------------------------
(* run_symbol_cycle of the multi-scalper: a market order, sized from the   *)
(* close of the signal's bar and filled at a later price.                  *)

NoRisk == signal.dist = 0 /\ Skip("scalp")

(* "floor" and "ceil" are no modes of normalize_price: it takes both for   *)
(* "nearest".                                                              *)
Scalp ==
  /\ stage = "scalp" /\ signal.dist > 0 /\ stage' = "sent"
  /\ base' = signal.dist /\ qty' = NormalizedQty(signal.dist)
  /\ \E slip \in Slips :
       order' = [entry |-> Entry + signal.side * slip,
                 sl |-> Nearest(sl), tp |-> Nearest(tp)]
  /\ Given /\ UNCHANGED <<sl, tp>>

Next ==
  \/ NoBalance \/ FloorStop \/ TightenStop \/ Unsized \/ ComputeQty
  \/ Reject \/ Pass \/ Invalid \/ Create \/ NoRisk \/ Scalp

Spec == Init /\ [][Next]_vars

---------------------------------------------------------------------------
Stages == {"floor", "tighten", "size", "snap", "create", "scalp", "sent", "skipped"}

TypeOK ==
  /\ signal \in Signals /\ mode \in Modes /\ stage \in Stages
  /\ sl \in Int /\ tp \in Int /\ base \in Nat
  /\ qty \in 0..MaxQty
  /\ order \in [entry: Int, sl: Int, tp: Int]

Sent(scalped) == stage = "sent" /\ (mode.sizing = "scalper" <=> scalped)

(* What an entry order is made of is on the grids of the instrument, has   *)
(* the stop and the target on their sides, and keeps half the stop's       *)
(* distance to the target, whatever was floored, tightened and snapped.    *)
SoundOrder ==
  Sent(FALSE) =>
    /\ {order.entry % Tick, order.sl % Tick, order.tp % Tick, qty % Step} = {0}
    /\ order.sl > 0 /\ order.tp > 0 /\ qty \in MinQty..MaxQty
    /\ Gain(order.sl, order.entry) > 0 /\ Gain(order.entry, order.tp) > 0
    /\ 2 * Gain(order.entry, order.tp) >= Gain(sl, Entry)

(* At its stop, before snapping, an entry order loses at most the risk,    *)
(* with the fees where the sizing is to account for them.  A stop that the *)
(* fees would move onto the entry is not moved, and pays them on top.  Its *)
(* fill is no worse than its entry: it is a limit order once triggered.    *)
(* The multi-scalper's position, from its fill to its stop as sent, may    *)
(* lose more: the quantity times how much worse than the close it filled   *)
(* and half a tick, and if the risk does not pay for the smallest quantity *)
(* that is taken nevertheless ("never round up", says precision.py).       *)
Fees == IF mode.sizing \in {"tighten", "adjusted"} THEN Fee ELSE 0
Allowed == Bigger(Risk, MinQty * base)
RiskKept ==
  /\ Sent(FALSE) =>
       qty * (Gain(sl, Entry) + Fees) <= Risk
         \/ (mode.sizing = "tighten" /\ Gain(sl, Entry) = Fee /\ qty * base <= Risk)
  /\ Sent(TRUE) =>
       2 * (qty * Gain(order.sl, order.entry))
         <= 2 * Allowed + qty * (2 * Gain(Entry, order.entry) + Tick)

(* Snapping never brings the stop nearer to the entry, and takes it away   *)
(* by less than two ticks: with RiskKept, that bounds what an entry order  *)
(* can lose at its stop.  The multi-scalper's stop may be half a tick off  *)
(* either way.                                                             *)
StopSnapped ==
  /\ Sent(FALSE) =>
       Gain(order.sl, order.entry) - Gain(sl, Entry) \in 0..(2 * (Tick - 1))
  /\ Sent(TRUE) => 2 * Distance(order.sl, sl) <= Tick
===========================================================================
