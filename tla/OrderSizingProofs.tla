------------------------- MODULE OrderSizingProofs -------------------------
(***************************************************************************)
(* What an order is made of, for every instrument, signal and setting.     *)
(***************************************************************************)
EXTENDS OrderSizing, TLAPS

(* Division rounds down, and a multiple has no remainder.                  *)
LEMMA Floor ==
  ASSUME NEW r \in Int, NEW d \in Nat \ {0}
  PROVE  /\ r \div d \in Int
         /\ (r \div d) * d <= r /\ r < (r \div d) * d + d
OBVIOUS

LEMMA Multiple ==
  ASSUME NEW r \in Int, NEW d \in Nat \ {0}
  PROVE  (r * d) % d = 0
<1> DEFINE q == (r * d) \div d
           rest == (r * d) % d
<1>1. q \in Int /\ rest \in 0..(d - 1) /\ r * d = d * q + rest
  OBVIOUS
<1> HIDE DEF q, rest
<1>2. d * (r - q) = rest
  BY <1>1
<1>3. CASE r - q >= 1
  <2>1. d * (r - q) >= d
    BY <1>1, <1>3
  <2> QED BY <1>1, <1>2, <2>1
<1>4. CASE r - q <= -1
  <2>1. d * (r - q) <= -d
    BY <1>1, <1>4
  <2> QED BY <1>1, <1>2, <2>1
<1>5. CASE r - q = 0
  BY <1>2, <1>5 DEF rest
<1> QED BY <1>1, <1>3, <1>4, <1>5

(* Rounding a price: onto the grid, and by less than a tick.               *)
LEMMA DownTick ==
  ASSUME NEW p \in Int
  PROVE  Down(p) \in Int /\ Down(p) % Tick = 0 /\ p - Down(p) \in 0..(Tick - 1)
<1>1. Tick \in Nat \ {0}
  BY FilterAssumption
<1>2. p \div Tick \in Int /\ (p \div Tick) * Tick <= p /\ p < (p \div Tick) * Tick + Tick
  BY <1>1, Floor
<1>3. ((p \div Tick) * Tick) % Tick = 0
  BY <1>1, <1>2, Multiple
<1> QED BY <1>1, <1>2, <1>3 DEF Down

LEMMA UpTick ==
  ASSUME NEW p \in Int
  PROVE  Up(p) \in Int /\ Up(p) % Tick = 0 /\ Up(p) - p \in 0..(Tick - 1)
<1> DEFINE r == p + Tick - 1
<1>1. Tick \in Nat \ {0} /\ r \in Int
  BY FilterAssumption
<1>2. r \div Tick \in Int /\ (r \div Tick) * Tick <= r /\ r < (r \div Tick) * Tick + Tick
  BY <1>1, Floor
<1>3. ((r \div Tick) * Tick) % Tick = 0
  BY <1>1, <1>2, Multiple
<1> QED BY <1>1, <1>2, <1>3 DEF Up

LEMMA NearestTick ==
  ASSUME NEW p \in Int
  PROVE  Nearest(p) \in Int /\ 2 * Distance(Nearest(p), p) <= Tick
<1> DEFINE r == 2 * p + Tick
           q == r \div (2 * Tick)
<1>1. Tick \in Nat \ {0} /\ r \in Int /\ 2 * Tick \in Nat \ {0}
  BY FilterAssumption
<1>2. q \in Int /\ q * (2 * Tick) <= r /\ r < q * (2 * Tick) + 2 * Tick
  BY <1>1, Floor
<1>3. Nearest(p) = q * Tick
  BY DEF Nearest
<1> HIDE DEF q
<1>4. q * Tick \in Int /\ q * (2 * Tick) = 2 * (q * Tick)
  BY <1>1, <1>2
<1> QED BY <1>1, <1>2, <1>3, <1>4 DEF Distance

(* Rounding a quantity: within the filter, and within the risk unless the  *)
(* smallest quantity is already beyond it.                                 *)
LEMMA Normalized ==
  ASSUME NEW d \in Nat \ {0}
  PROVE  /\ NormalizedQty(d) \in MinQty..MaxQty
         /\ NormalizedQty(d) % Step = 0
         /\ NormalizedQty(d) * d <= Risk \/ NormalizedQty(d) = MinQty
<1> DEFINE q == Risk \div (d * Step)
           f == q * Step
<1>1. Step \in Nat \ {0} /\ MinQty \in Nat \ {0} /\ MaxQty \in Nat \ {0} /\ Risk \in Nat
  BY FilterAssumption, InputAssumption
<1>2. d * Step \in Nat \ {0}
  BY <1>1
<1>3. q \in Int /\ q * (d * Step) <= Risk
  BY <1>1, <1>2, Floor
<1>4. f % Step = 0
  BY <1>1, <1>3, Multiple
<1>5. NormalizedQty(d) = Bigger(MinQty, Smaller(f, MaxQty))
  BY DEF NormalizedQty
<1> HIDE DEF q
<1>6. f \in Int /\ f * d <= Risk
  BY <1>1, <1>3
<1> HIDE DEF f
<1>7. CASE NormalizedQty(d) = MinQty
  BY <1>1, <1>7, FilterAssumption
<1>8. CASE NormalizedQty(d) = f /\ f <= MaxQty /\ MinQty <= f
  BY <1>1, <1>4, <1>6, <1>8
<1>9. CASE NormalizedQty(d) = MaxQty /\ MaxQty <= f
  <2>1. MaxQty * d <= f * d
    BY <1>1, <1>6, <1>9
  <2> QED BY <1>1, <1>6, <1>9, <2>1, FilterAssumption
<1> QED BY <1>1, <1>5, <1>6, <1>7, <1>8, <1>9, FilterAssumption DEF Bigger, Smaller

---------------------------------------------------------------------------
(* What each stage knows.                                                  *)
Unmoved == sl = Entry - signal.side * signal.dist
Later == {"snap", "create", "sent"}

(* The stop of an entry order is base away from the entry, or nearer by    *)
(* the fees; it is left in place only when the fees are all of base.       *)
StopInv ==
  \/ Gain(sl, Entry) = base /\ (mode.sizing = "tighten" => base = Fee)
  \/ Gain(sl, Entry) = base - Fee /\ mode.sizing = "tighten"

StageInv ==
  /\ stage = "scalp" => mode.sizing = "scalper"
  /\ stage \in {"floor", "tighten", "size", "snap", "create"} => mode.sizing # "scalper"
  /\ stage \in {"floor", "scalp"} => Unmoved
  /\ stage = "tighten" => Gain(sl, Entry) = base
  /\ stage \in {"size"} \cup Later /\ mode.sizing # "scalper" => StopInv

QtyInv ==
  /\ stage \in Later =>
       /\ qty \in MinQty..MaxQty /\ qty % Step = 0
       /\ mode.sizing # "scalper" => qty * Divisor <= Risk
       /\ mode.sizing = "scalper" => qty * base <= Allowed

OrderInv ==
  /\ stage \in {"create", "sent"} /\ mode.sizing # "scalper" => ~Stale
  /\ stage = "sent" /\ mode.sizing # "scalper" => order = Snapped /\ Geometry(Snapped)
  /\ stage = "sent" /\ mode.sizing = "scalper" =>
       order.sl = Nearest(sl) /\ Gain(sl, Entry) = base

IInv == TypeOK /\ StageInv /\ QtyInv /\ OrderInv

(* The inputs are numbers.                                                 *)
LEMMA Inputs ==
  ASSUME signal \in Signals, mode \in Modes
  PROVE  /\ signal.side \in {1, -1} /\ Entry \in Nat /\ signal.dist \in Nat
         /\ mode.atr \in Nat /\ mode.free \in Nat
         /\ Fee \in Nat /\ RR \in Nat /\ Risk \in Nat /\ Tick \in Nat \ {0}
         /\ MinQty \in Nat \ {0} /\ MaxQty \in Nat \ {0}
BY InputAssumption, FilterAssumption DEF Signals, Modes, Entry

(* A signed product is an integer.                                         *)
LEMMA Signed ==
  ASSUME NEW s \in {1, -1}, NEW n \in Int
  PROVE  s * n \in Int /\ (s = 1 => s * n = n) /\ (s = -1 => s * n = -n)
OBVIOUS

LEMMA InvInit == Init => IInv
<1> SUFFICES ASSUME Init PROVE IInv
  OBVIOUS
<1>1. signal \in Signals /\ mode \in Modes
  BY DEF Init
<1>2. RR * signal.dist \in Int
  BY <1>1, Inputs
<1>3. sl \in Int /\ tp \in Int
  <2>1. sl = Entry - signal.side * signal.dist
    BY DEF Init, Entry
  <2>2. tp = Entry + signal.side * (RR * signal.dist)
    BY <1>1, Inputs DEF Init, Entry
  <2> QED BY <1>1, <1>2, <2>1, <2>2, Inputs, Signed
<1>4. TypeOK
  BY <1>1, <1>3, Inputs DEF Init, TypeOK, Stages, NoOrder
<1>5. StageInv /\ QtyInv /\ OrderInv
  BY DEF Init, StageInv, QtyInv, OrderInv, Later, Unmoved, Entry
<1> QED BY <1>4, <1>5 DEF IInv

(* Steps that end or pass without changing a number.                       *)
LEMMA KeepStep ==
  ASSUME IInv, NoBalance \/ Unsized \/ Reject \/ Pass \/ Invalid \/ NoRisk
  PROVE  IInv'
<1> USE DEF NoBalance, Unsized, Reject, Pass, Invalid, NoRisk, Skip, Given
<1>1. UNCHANGED <<signal, mode, sl, tp, base, qty, order>>
  OBVIOUS
<1>2. stage' = "skipped" \/ (stage = "snap" /\ stage' = "create" /\ ~Stale)
  OBVIOUS
<1>3. TypeOK'
  BY <1>1, <1>2 DEF IInv, TypeOK, Stages
<1>4. StageInv'
  BY <1>1, <1>2 DEF IInv, StageInv, StopInv, Gain, Entry, Later
<1>5. QtyInv'
  BY <1>1, <1>2 DEF IInv, QtyInv, Divisor, Allowed, Later
<1>6. OrderInv'
  BY <1>1, <1>2 DEF IInv, OrderInv, Stale, Snapped, Snap, Gain, Distance, Entry
<1> QED BY <1>3, <1>4, <1>5, <1>6 DEF IInv

LEMMA FloorStep == IInv /\ FloorStop => IInv'
<1> SUFFICES ASSUME IInv, FloorStop PROVE IInv'
  OBVIOUS
<1> DEFINE dist == Bigger(Distance(Entry, sl), mode.atr)
<1>1. /\ stage = "floor" /\ stage' = "tighten" /\ base' = dist
      /\ sl' = Entry - signal.side * dist
      /\ tp' \in {tp, Entry + signal.side * RR * dist}
      /\ UNCHANGED <<signal, mode, qty, order>>
  BY DEF FloorStop, Given
<1>2. signal \in Signals /\ mode \in Modes /\ sl \in Int /\ tp \in Int
  BY DEF IInv, TypeOK
<1>3. dist \in Nat
  BY <1>2, Inputs DEF Bigger, Distance
<1> HIDE DEF dist
<1>4. signal.side * dist \in Int /\ signal.side * RR * dist \in Int
  <2>1. RR * dist \in Int /\ signal.side * RR * dist = signal.side * (RR * dist)
    BY <1>2, <1>3, Inputs
  <2> QED BY <1>2, <1>3, <2>1, Inputs, Signed
<1>5. TypeOK'
  BY <1>1, <1>2, <1>3, <1>4, Inputs DEF IInv, TypeOK, Stages
<1>6. Gain(sl, Entry)' = base'
  BY <1>1, <1>2, <1>3, Inputs, Signed DEF Gain, Entry
<1>7. StageInv'
  BY <1>1, <1>6 DEF IInv, StageInv, Later
<1>8. QtyInv' /\ OrderInv'
  BY <1>1 DEF QtyInv, OrderInv, Later
<1> QED BY <1>5, <1>7, <1>8 DEF IInv

LEMMA TightenStep == IInv /\ TightenStop => IInv'
<1> SUFFICES ASSUME IInv, TightenStop PROVE IInv'
  OBVIOUS
<1> DEFINE tightened == sl + signal.side * Fee
<1>1. /\ stage = "tighten" /\ stage' = "size" /\ UNCHANGED <<signal, mode, tp, base, qty, order>>
      /\ \/ sl' = tightened /\ mode.sizing = "tighten"
         \/ sl' = sl /\ (mode.sizing = "tighten" => tightened = Entry)
  BY DEF TightenStop, Given
<1>2. signal \in Signals /\ mode \in Modes /\ sl \in Int /\ base \in Nat
  BY DEF IInv, TypeOK
<1>3. Gain(sl, Entry) = base /\ mode.sizing # "scalper"
  BY <1>1 DEF IInv, StageInv
<1>4. tightened \in Int
  BY <1>2, Inputs, Signed
<1>5. TypeOK'
  BY <1>1, <1>2, <1>4 DEF IInv, TypeOK, Stages
<1>6. StopInv'
  <2>1. CASE sl' = tightened /\ mode.sizing = "tighten"
    <3>1. Gain(sl, Entry)' = base - Fee
      BY <1>1, <1>2, <1>3, <2>1, Inputs, Signed DEF Gain, Entry
    <3> QED BY <1>1, <2>1, <3>1 DEF StopInv
  <2>2. CASE sl' = sl /\ (mode.sizing = "tighten" => tightened = Entry)
    <3>1. tightened = Entry => base = Fee
      BY <1>2, <1>3, Inputs, Signed DEF Gain, Entry
    <3>2. Gain(sl, Entry)' = base
      BY <1>1, <1>3, <2>2 DEF Gain, Entry
    <3> QED BY <1>1, <2>2, <3>1, <3>2 DEF StopInv
  <2> QED BY <1>1, <2>1, <2>2
<1>7. StageInv'
  BY <1>1, <1>3, <1>6 DEF StageInv, Later
<1>8. QtyInv' /\ OrderInv'
  BY <1>1 DEF QtyInv, OrderInv, Later
<1> QED BY <1>5, <1>7, <1>8 DEF IInv

LEMMA QtyStep == IInv /\ ComputeQty => IInv'
<1> SUFFICES ASSUME IInv, ComputeQty PROVE IInv'
  OBVIOUS
<1>1. /\ stage = "size" /\ stage' = "snap" /\ ~BelowMinimum
      /\ qty' = NormalizedQty(Divisor)
      /\ tp' \in {tp, Entry + signal.side * (RR * base + (RR + 1) * Fee)}
      /\ UNCHANGED <<signal, mode, sl, base, order>>
  BY DEF ComputeQty, Given
<1>2. signal \in Signals /\ mode \in Modes /\ sl \in Int /\ tp \in Int /\ base \in Nat
  BY DEF IInv, TypeOK
<1>3. base # 0 /\ ~(Risk < MinQty * Divisor)
  BY <1>1 DEF BelowMinimum
<1>4. Divisor \in Nat \ {0}
  BY <1>2, <1>3, Inputs DEF Divisor
<1>5. qty' \in MinQty..MaxQty /\ qty' % Step = 0
  BY <1>1, <1>4, Normalized
<1>6. qty' * Divisor <= Risk
  <2>1. CASE qty' = MinQty
    BY <1>2, <1>3, <1>4, <2>1, Inputs
  <2> QED BY <1>1, <1>4, <2>1, Normalized
<1>7. Divisor' = Divisor
  BY <1>1 DEF Divisor
<1>8. tp' \in Int
  <2>1. RR * base + (RR + 1) * Fee \in Int
    BY <1>2, Inputs
  <2> QED BY <1>1, <1>2, <2>1, Inputs, Signed
<1>9. qty' \in 0..MaxQty
  BY <1>2, <1>5, Inputs
<1>10. TypeOK'
  BY <1>1, <1>8, <1>9 DEF IInv, TypeOK, Stages
<1>11. mode.sizing # "scalper" /\ StopInv
  BY <1>1 DEF IInv, StageInv
<1>12. StageInv'
  BY <1>1, <1>11 DEF StageInv, StopInv, Gain, Entry, Later
<1>13. QtyInv'
  BY <1>1, <1>5, <1>6, <1>7, <1>11 DEF QtyInv
<1>14. OrderInv'
  BY <1>1 DEF OrderInv
<1> QED BY <1>10, <1>12, <1>13, <1>14 DEF IInv

(* Snapped and nearest prices are integers.                                *)
LEMMA SnappedType ==
  ASSUME signal \in Signals, mode \in Modes, sl \in Int, tp \in Int
  PROVE  Snapped \in [entry: Int, sl: Int, tp: Int]
<1>1. Entry \in Int
  BY Inputs
<1>2. /\ Down(Entry) \in Int /\ Down(sl) \in Int /\ Down(tp) \in Int
      /\ Up(Entry) \in Int /\ Up(sl) \in Int /\ Up(tp) \in Int
  BY <1>1, DownTick, UpTick
<1> QED BY <1>2 DEF Snapped, Snap

LEMMA CreateStep == IInv /\ Create => IInv'
<1> SUFFICES ASSUME IInv, Create PROVE IInv'
  OBVIOUS
<1>1. /\ stage = "create" /\ stage' = "sent" /\ Geometry(Snapped) /\ order' = Snapped
      /\ UNCHANGED <<signal, mode, sl, tp, base, qty>>
  BY DEF Create, Given
<1>2. signal \in Signals /\ mode \in Modes /\ sl \in Int /\ tp \in Int
  BY DEF IInv, TypeOK
<1>3. TypeOK'
  BY <1>1, <1>2, SnappedType DEF IInv, TypeOK, Stages
<1>4. mode.sizing # "scalper" /\ StopInv
  BY <1>1 DEF IInv, StageInv, Later
<1>5. StageInv'
  BY <1>1, <1>4 DEF StageInv, StopInv, Gain, Entry, Later
<1>6. QtyInv'
  BY <1>1, <1>4 DEF IInv, QtyInv, Divisor, Later
<1>7. Snapped' = Snapped
  BY <1>1 DEF Snapped, Snap, Entry
<1>8. OrderInv'
  BY <1>1, <1>4, <1>7 DEF IInv, OrderInv, Stale, Geometry, Gain, Distance, Entry
<1> QED BY <1>3, <1>5, <1>6, <1>8 DEF IInv

LEMMA ScalpStep == IInv /\ Scalp => IInv'
<1> SUFFICES ASSUME IInv, Scalp PROVE IInv'
  OBVIOUS
<1>1. /\ stage = "scalp" /\ stage' = "sent" /\ signal.dist > 0
      /\ base' = signal.dist /\ qty' = NormalizedQty(signal.dist)
      /\ UNCHANGED <<signal, mode, sl, tp>>
  BY DEF Scalp, Given
<1>2. PICK slip \in Slips :
        order' = [entry |-> Entry + signal.side * slip, sl |-> Nearest(sl), tp |-> Nearest(tp)]
  BY DEF Scalp
<1>3. signal \in Signals /\ mode \in Modes /\ sl \in Int /\ tp \in Int
  BY DEF IInv, TypeOK
<1>4. mode.sizing = "scalper" /\ Unmoved
  BY <1>1 DEF IInv, StageInv
<1>5. signal.dist \in Nat \ {0}
  BY <1>1, <1>3, Inputs
<1>6. qty' \in MinQty..MaxQty /\ qty' % Step = 0
      /\ (qty' * base' <= Risk \/ qty' = MinQty)
  BY <1>1, <1>5, Normalized
<1>7. qty' \in 0..MaxQty
  BY <1>3, <1>6, Inputs
<1>8. order' \in [entry: Int, sl: Int, tp: Int]
  <2>1. slip \in Int
    BY InputAssumption
  <2>2. Entry + signal.side * slip \in Int
    BY <1>3, <2>1, Inputs, Signed
  <2> QED BY <1>2, <1>3, <2>2, NearestTick
<1>9. TypeOK'
  BY <1>1, <1>3, <1>5, <1>7, <1>8 DEF IInv, TypeOK, Stages
<1>10. StageInv'
  BY <1>1, <1>4 DEF StageInv
<1>11. qty' * base' <= Allowed'
  <2> DEFINE least == MinQty * base'
             loss == qty' * base'
  <2>1. least \in Int /\ loss \in Int /\ Risk \in Int
    BY <1>1, <1>3, <1>5, <1>7, Inputs
  <2>2. loss <= Risk \/ loss = least
    BY <1>6
  <2>3. Allowed' = IF Risk < least THEN least ELSE Risk
    BY DEF Allowed, Bigger
  <2> HIDE DEF least, loss
  <2>4. loss <= Allowed'
    BY <2>1, <2>2, <2>3
  <2> QED BY <2>4 DEF loss
<1>12. QtyInv'
  BY <1>1, <1>4, <1>6, <1>11 DEF QtyInv
<1>13. Gain(sl, Entry)' = base'
  BY <1>1, <1>3, <1>4, Inputs, Signed DEF Unmoved, Gain, Entry
<1>14. OrderInv'
  BY <1>1, <1>2, <1>4, <1>13 DEF OrderInv, Nearest
<1> QED BY <1>9, <1>10, <1>12, <1>14 DEF IInv

LEMMA InvStutter == IInv /\ UNCHANGED vars => IInv'
<1> SUFFICES ASSUME IInv, UNCHANGED vars PROVE IInv'
  OBVIOUS
<1> USE DEF IInv, vars
<1>1. TypeOK' BY DEF TypeOK
<1>2. StageInv' BY DEF StageInv, StopInv, Gain, Entry, Unmoved
<1>3. QtyInv' BY DEF QtyInv, Divisor, Allowed
<1>4. OrderInv'
  BY DEF OrderInv, Stale, Snapped, Snap, Geometry, Gain, Distance, Entry, Nearest
<1> QED BY <1>1, <1>2, <1>3, <1>4

LEMMA InvCorrect == Spec => []IInv
<1>1. IInv /\ [Next]_vars => IInv'
  BY KeepStep, FloorStep, TightenStep, QtyStep, CreateStep, ScalpStep, InvStutter DEF Next
<1> QED BY <1>1, InvInit, PTL DEF Spec

---------------------------------------------------------------------------
(* Every number keeps its range; the quantity never exceeds the largest.   *)
THEOREM TypeCorrect == Spec => []TypeOK
<1>1. IInv => TypeOK
  BY DEF IInv
<1> QED BY <1>1, InvCorrect, PTL

(* Snapping takes the stop away from the entry, by less than two ticks.    *)
THEOREM StopSnappedCorrect == Spec => []StopSnapped
<1>1. IInv => StopSnapped
  <2> SUFFICES ASSUME IInv PROVE StopSnapped
    OBVIOUS
  <2>1. signal \in Signals /\ mode \in Modes /\ sl \in Int /\ tp \in Int
    BY DEF IInv, TypeOK
  <2>2. ASSUME Sent(FALSE)
        PROVE  Gain(order.sl, order.entry) - Gain(sl, Entry) \in 0..(2 * (Tick - 1))
    <3>1. order = Snapped
      BY <2>2 DEF IInv, OrderInv, Sent
    <3>4. Entry \in Int /\ sl \in Int /\ Tick \in Nat \ {0}
      BY <2>1, Inputs
    <3>5. /\ Up(Entry) \in Int /\ Up(Entry) - Entry \in 0..(Tick - 1)
          /\ Up(sl) \in Int /\ Up(sl) - sl \in 0..(Tick - 1)
          /\ Down(Entry) \in Int /\ Entry - Down(Entry) \in 0..(Tick - 1)
          /\ Down(sl) \in Int /\ sl - Down(sl) \in 0..(Tick - 1)
      BY <3>4, UpTick, DownTick
    <3>2. CASE signal.side = 1
      <4>1. order.entry = Up(Entry) /\ order.sl = Down(sl)
        BY <3>1, <3>2 DEF Snapped, Snap
      <4>2. Gain(order.sl, order.entry) = Up(Entry) - Down(sl) /\ Gain(sl, Entry) = Entry - sl
        BY <3>2, <3>4, <3>5, <4>1 DEF Gain
      <4> QED BY <3>4, <3>5, <4>2
    <3>3. CASE signal.side = -1
      <4>1. order.entry = Down(Entry) /\ order.sl = Up(sl)
        BY <3>1, <3>3 DEF Snapped, Snap
      <4>2. Gain(order.sl, order.entry) = Up(sl) - Down(Entry) /\ Gain(sl, Entry) = sl - Entry
        BY <3>3, <3>4, <3>5, <4>1 DEF Gain
      <4> QED BY <3>4, <3>5, <4>2
    <3> QED BY <2>1, <3>2, <3>3, Inputs
  <2>3. ASSUME Sent(TRUE)
        PROVE  2 * Distance(order.sl, sl) <= Tick
    BY <2>1, <2>3, NearestTick DEF IInv, OrderInv, Sent
  <2> QED BY <2>2, <2>3 DEF StopSnapped
<1> QED BY <1>1, InvCorrect, PTL

(* What a stop may cost: before snapping and at its entry, an entry order  *)
(* costs at most the risk, fees included unless they are its whole         *)
(* distance; the multi-scalper's position costs at most the larger of the  *)
(* risk and the smallest quantity's, beside slippage and half a tick.      *)
THEOREM RiskKeptCorrect == Spec => []RiskKept
<1>1. IInv => RiskKept
  <2> SUFFICES ASSUME IInv PROVE RiskKept
    OBVIOUS
  <2>1. signal \in Signals /\ mode \in Modes /\ sl \in Int /\ base \in Nat /\ qty \in Int
        /\ Fee \in Nat
    BY InputAssumption DEF IInv, TypeOK
  <2>2. ASSUME Sent(FALSE)
        PROVE  \/ qty * (Gain(sl, Entry) + Fees) <= Risk
               \/ mode.sizing = "tighten" /\ Gain(sl, Entry) = Fee /\ qty * base <= Risk
    <3>1. stage = "sent" /\ mode.sizing # "scalper" /\ StopInv /\ qty * Divisor <= Risk
      BY <2>2 DEF IInv, StageInv, QtyInv, Sent, Later
    <3>2. mode.sizing \in {"plain", "tighten", "adjusted"}
      BY <2>1, <3>1 DEF Modes
    <3>3. CASE mode.sizing = "adjusted"
      <4>1. Gain(sl, Entry) + Fees = Divisor
        BY <3>1, <3>3 DEF StopInv, Fees, Divisor
      <4> QED BY <3>1, <4>1
    <3>4. CASE mode.sizing = "plain"
      <4>1. Gain(sl, Entry) + Fees = Divisor
        BY <2>1, <3>1, <3>4 DEF StopInv, Fees, Divisor
      <4> QED BY <3>1, <4>1
    <3>5. CASE mode.sizing = "tighten" /\ Gain(sl, Entry) = base - Fee
      <4>1. Gain(sl, Entry) + Fees = Divisor
        BY <2>1, <3>5 DEF Fees, Divisor
      <4> QED BY <3>1, <4>1
    <3>6. CASE mode.sizing = "tighten" /\ Gain(sl, Entry) = base /\ base = Fee
      BY <3>1, <3>6 DEF Divisor
    <3> QED BY <3>1, <3>2, <3>3, <3>4, <3>5, <3>6 DEF StopInv
  <2>3. ASSUME Sent(TRUE)
        PROVE  2 * (qty * Gain(order.sl, order.entry))
                 <= 2 * Allowed + qty * (2 * Gain(Entry, order.entry) + Tick)
    <3> DEFINE slip == Gain(Entry, order.entry)
               off == Gain(order.sl, sl)
    <3>1. /\ qty * base <= Allowed /\ qty \in Nat
          /\ order.sl = Nearest(sl) /\ Gain(sl, Entry) = base
      BY <2>1, <2>3, Inputs DEF IInv, TypeOK, QtyInv, OrderInv, Sent, Later
    <3>2. order.sl \in Int /\ order.entry \in Int /\ Entry \in Int /\ Tick \in Int
      BY <2>1, Inputs DEF IInv, TypeOK
    <3>3. slip \in Int /\ off \in Int
      BY <2>1, <3>2, Inputs, Signed DEF Gain
    <3>4. Gain(order.sl, order.entry) = base + slip + off
      BY <2>1, <3>1, <3>2, Inputs, Signed DEF Gain
    <3>5. 2 * off <= Tick
      BY <2>1, <3>1, <3>2, NearestTick, Inputs, Signed DEF Gain, Distance
    <3>6. Allowed \in Int
      BY <2>1, Inputs DEF Allowed, Bigger
    <3> HIDE DEF slip, off
    <3>7. qty * (Tick - 2 * off) >= 0
      BY <3>1, <3>2, <3>3, <3>5
    <3>8. 2 * (qty * (base + slip + off)) = 2 * (qty * base) + qty * (2 * slip + Tick) - qty * (Tick - 2 * off)
      BY <2>1, <3>1, <3>2, <3>3
    <3>9. qty * base \in Int /\ qty * (2 * slip + Tick) \in Int /\ qty * (Tick - 2 * off) \in Int
      BY <2>1, <3>1, <3>2, <3>3
    <3>10. 2 * (qty * (base + slip + off)) <= 2 * Allowed + qty * (2 * slip + Tick)
      BY <3>1, <3>6, <3>7, <3>8, <3>9
    <3> QED BY <3>4, <3>10 DEF slip
  <2> QED BY <2>2, <2>3 DEF RiskKept
<1> QED BY <1>1, InvCorrect, PTL

(* An entry order is on the grids, with stop and target on their sides.    *)
THEOREM SoundOrderCorrect == Spec => []SoundOrder
<1>1. IInv => SoundOrder
  <2> SUFFICES ASSUME IInv, Sent(FALSE)
               PROVE  /\ {order.entry % Tick, order.sl % Tick, order.tp % Tick, qty % Step} = {0}
                      /\ order.sl > 0 /\ order.tp > 0 /\ qty \in MinQty..MaxQty
                      /\ Gain(order.sl, order.entry) > 0 /\ Gain(order.entry, order.tp) > 0
                      /\ 2 * Gain(order.entry, order.tp) >= Gain(sl, Entry)
    BY DEF SoundOrder
  <2>1. signal \in Signals /\ mode \in Modes /\ sl \in Int /\ tp \in Int
    BY DEF IInv, TypeOK
  <2>2. stage = "sent" /\ order = Snapped /\ Geometry(Snapped) /\ ~Stale
    BY DEF IInv, OrderInv, Sent
  <2>3. qty % Step = 0 /\ qty \in MinQty..MaxQty
    BY <2>2 DEF IInv, QtyInv, Later
  <2>4. order.entry % Tick = 0 /\ order.sl % Tick = 0 /\ order.tp % Tick = 0
    <3>1. Entry \in Int
      BY <2>1, Inputs
    <3>2. /\ Up(Entry) % Tick = 0 /\ Up(sl) % Tick = 0 /\ Up(tp) % Tick = 0
          /\ Down(Entry) % Tick = 0 /\ Down(sl) % Tick = 0 /\ Down(tp) % Tick = 0
      BY <2>1, <3>1, UpTick, DownTick
    <3> QED BY <2>2, <3>2 DEF Snapped, Snap
  <2>5. order.sl > 0 /\ order.tp > 0
        /\ Gain(order.sl, order.entry) > 0 /\ Gain(order.entry, order.tp) > 0
    BY <2>2 DEF Geometry
  <2>6. 2 * Gain(order.entry, order.tp) >= Gain(sl, Entry)
    <3>1. order \in [entry: Int, sl: Int, tp: Int]
      BY DEF IInv, TypeOK
    <3>2. Gain(order.entry, order.tp) \in Int /\ Gain(sl, Entry) \in Int
      BY <2>1, <3>1, Inputs, Signed DEF Gain
    <3>3. Gain(sl, Entry) <= Distance(Entry, sl) /\ Distance(Entry, sl) \in Int
      BY <2>1, Inputs, Signed DEF Gain, Distance
    <3>4. ~(2 * Gain(order.entry, order.tp) < Distance(Entry, sl))
      BY <2>2 DEF Stale
    <3> QED BY <3>2, <3>3, <3>4
  <2> QED BY <2>3, <2>4, <2>5, <2>6
<1> QED BY <1>1, InvCorrect, PTL
===========================================================================
