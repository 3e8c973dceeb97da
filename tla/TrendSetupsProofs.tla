------------------------ MODULE TrendSetupsProofs ------------------------
(***************************************************************************)
(* The newest setup of the frames is one the bot saw when its bar closed,  *)
(* and the backtest makes exactly the trades that are due: for frames and  *)
(* hours of any length, any candles and any settings.                      *)
(*                                                                         *)
(* The walk and the orders that are due both go along the bars; that they  *)
(* go together follows by induction, which is stated here for sets of      *)
(* numbers and for functions, from the well-foundedness of <.              *)
(***************************************************************************)
EXTENDS TrendSetups, FiniteSetTheorems, WellFoundedInduction, TLAPS

(* An hour is closed as soon as its last bar is, and every hour has a      *)
(* trend.                                                                  *)
FramesInv ==
  /\ m5 \in Seq(Candles) /\ hours \in Seq(Trends)
  /\ Len(hours) = ClosedAt(Last)

---------------------------------------------------------------------------
(* Bars and hours.                                                         *)

LEMMA Division ==
  ASSUME NEW i \in Int, NEW d \in Nat \ {0}
  PROVE  /\ i \div d \in Int /\ i % d \in 0..(d - 1)
         /\ i = d * (i \div d) + (i % d)
<1> DEFINE q == i \div d
           r == i % d
<1>1. q \in Int /\ r \in 0..(d - 1) /\ i = d * q + r
  OBVIOUS
<1> QED BY <1>1

(* A product tells the factors apart up to the remainder.                  *)
LEMMA Quotient ==
  ASSUME NEW d \in Nat \ {0}, NEW q \in Int, NEW r \in Int,
         NEW x \in Int, NEW y \in Int,
         d * q + x <= d * r + y, x >= 0, y < d
  PROVE  q <= r
<1> SUFFICES ASSUME q >= r + 1 PROVE FALSE
  OBVIOUS
<1>1. d * q >= d * (r + 1)
  OBVIOUS
<1>2. d * (r + 1) = d * r + d
  OBVIOUS
<1> QED BY <1>1, <1>2

(* The next bar belongs to the same hour, or it is the first of the next.  *)
LEMMA NextDivision ==
  ASSUME NEW i \in Int, NEW d \in Nat \ {0}
  PROVE  (i + 1) \div d = IF (i + 1) % d = 0 THEN (i \div d) + 1 ELSE i \div d
<1> DEFINE q == i \div d
           r == i % d
           q1 == (i + 1) \div d
           r1 == (i + 1) % d
<1>1. q \in Int /\ r \in 0..(d - 1) /\ i = d * q + r
  BY Division
<1>2. q1 \in Int /\ r1 \in 0..(d - 1) /\ i + 1 = d * q1 + r1
  BY Division
<1> HIDE DEF q, r, q1, r1
<1>3. d * q + (r + 1) = d * q1 + r1
  BY <1>1, <1>2
<1>4. q <= q1
  <2>1. d * q + r <= d * q1 + r1
    BY <1>1, <1>2
  <2> QED BY <1>1, <1>2, <2>1, Quotient
<1>5. CASE r1 = 0
  <2>1. d * q1 = d * q + (r + 1)
    BY <1>1, <1>2, <1>3, <1>5
  <2>2. q1 # q
    BY <1>1, <2>1
  <2>3. d * (q + 1) = d * q + d
    BY <1>1
  <2>4. d * q1 + 0 <= d * (q + 1) + 0
    BY <1>1, <1>2, <2>1, <2>3
  <2>5. q1 <= q + 1
    BY <1>1, <1>2, <2>4, Quotient
  <2> QED BY <1>1, <1>2, <1>4, <1>5, <2>2, <2>5 DEF q, q1, r1
<1>6. CASE r1 # 0
  <2>1. d * q1 + (r1 - 1) <= d * q + r
    BY <1>1, <1>2, <1>3
  <2>2. q1 <= q
    BY <1>1, <1>2, <1>6, <2>1, Quotient
  <2> QED BY <1>1, <1>2, <1>4, <1>6, <2>2 DEF q, q1, r1
<1> QED BY <1>5, <1>6

(* What is later is not in an earlier hour.                                *)
LEMMA Monotone ==
  ASSUME NEW i \in Int, NEW j \in Int, NEW d \in Nat \ {0}, i <= j
  PROVE  i \div d <= j \div d
<1>1. /\ i \div d \in Int /\ i % d \in 0..(d - 1) /\ i = d * (i \div d) + (i % d)
      /\ j \div d \in Int /\ j % d \in 0..(d - 1) /\ j = d * (j \div d) + (j % d)
  BY Division
<1> QED BY <1>1, Quotient

LEMMA Smallest ==
  ASSUME NEW a \in Int, NEW b \in Int
  PROVE  Min({a, b}) = IF a <= b THEN a ELSE b
BY DEF Min

---------------------------------------------------------------------------
LEMMA FramesInit == Init => FramesInv
<1> SUFFICES ASSUME Init PROVE FramesInv
  OBVIOUS
<1>1. PerHour \in Nat \ {0}
  BY SetupAssumption
<1>2. 0 \div PerHour = 0
  <2>1. PerHour * 0 = 0
    BY <1>1
  <2>2. /\ 0 \div PerHour \in Int /\ 0 % PerHour \in 0..(PerHour - 1)
        /\ 0 = PerHour * (0 \div PerHour) + (0 % PerHour)
    BY <1>1, Division
  <2>3. 0 \div PerHour <= 0 /\ 0 <= 0 \div PerHour
    BY <1>1, <2>1, <2>2, Quotient
  <2> QED BY <2>2, <2>3
<1>3. /\ m5 \in Seq(Candles) /\ hours \in Seq(Trends)
      /\ Len(hours) = 1 /\ Last = 0
  <2>1. PICK t \in Trends : hours = <<t>>
    BY DEF Init
  <2>2. hours \in Seq(Trends) /\ Len(hours) = 1
    BY <2>1
  <2> QED BY <2>2 DEF Init, Last
<1>4. ClosedAt(Last) = 1
  BY <1>2, <1>3 DEF ClosedAt
<1> QED BY <1>3, <1>4 DEF FramesInv

LEMMA FramesStep == FramesInv /\ [Next]_<<m5, hours>> => FramesInv'
<1> SUFFICES ASSUME FramesInv, Next PROVE FramesInv'
  BY DEF FramesInv, Last, ClosedAt
<1>1. PICK c \in Candles, t \in Trends : Close(c, t)
  BY DEF Next
<1>2. PerHour \in Nat \ {0} /\ Last \in Nat
  BY SetupAssumption DEF FramesInv, Last
<1>3. m5' \in Seq(Candles) /\ Last' = Last + 1
  BY <1>1 DEF Close, FramesInv, Last
<1>4. ClosedAt(Last + 1) = IF (Last + 1) % PerHour = 0 THEN ClosedAt(Last) + 1 ELSE ClosedAt(Last)
  <2>1. Last \div PerHour \in Int
    BY <1>2, Division
  <2>2. (Last + 1) \div PerHour
          = IF (Last + 1) % PerHour = 0 THEN (Last \div PerHour) + 1 ELSE Last \div PerHour
    <3>1. Last \in Int
      BY <1>2
    <3> QED BY <1>2, <3>1, NextDivision, Zenon
  <2> QED BY <2>1, <2>2 DEF ClosedAt
<1>5. hours' \in Seq(Trends) /\ Len(hours') = ClosedAt(Last + 1)
  BY <1>1, <1>4 DEF Close, FramesInv
<1> QED BY <1>3, <1>5 DEF FramesInv, ClosedAt

(* A closed hour shows at each of its bars: if it closed after bar i, then *)
(* bar i is not the newest to show it.                                     *)
LEMMA FramesStood == FramesInv => NewestStood
<1> SUFFICES ASSUME FramesInv, NEW i \in Signals, \A j \in Signals : j <= i
             PROVE  Side(i, ClosedAt(i)) = Side(i, Len(hours))
  BY DEF NewestStood
<1> DEFINE known == ClosedAt(i)
           hour == HourOf(i)
           now == Len(hours)
<1>1. PerHour \in Nat \ {0} /\ Last \in Nat /\ LookBack \in Nat
  BY SetupAssumption DEF FramesInv, Last
<1>2. i \in 1..Last /\ i > LookBack /\ Trend(i, now) # 0
  BY DEF Signals, Side
<1>3. i \div PerHour \in Int /\ (i - 1) \div PerHour \in Int /\ Last \div PerHour \in Int
  BY <1>1, <1>2, Division
<1>4. known \in Int /\ hour \in Int /\ now = ClosedAt(Last) /\ now \in Int /\ known <= now
  <2>1. i \div PerHour <= Last \div PerHour
    BY <1>1, <1>2, Monotone
  <2> QED BY <1>3, <2>1 DEF ClosedAt, HourOf, FramesInv
<1>5. i \div PerHour = IF i % PerHour = 0 THEN ((i - 1) \div PerHour) + 1 ELSE (i - 1) \div PerHour
  <2>1. i - 1 \in Int /\ (i - 1) + 1 = i
    BY <1>2
  <2> QED BY <1>1, <2>1, NextDivision
<1>6. CASE i % PerHour = 0
  <2>1. known = hour
    BY <1>3, <1>5, <1>6 DEF ClosedAt, HourOf
  <2> QED BY <1>4, <2>1, Smallest DEF Side, Trend
<1>7. CASE i % PerHour # 0
  <2>1. known = hour - 1
    BY <1>3, <1>5, <1>7 DEF ClosedAt, HourOf
  <2>2. CASE now = known
    BY <2>2
  <2>3. CASE now # known
    <3>1. now >= hour
      BY <1>4, <2>1, <2>3
    <3>2. i + 1 \in 1..Last
      <4>1. i # Last
        BY <1>4, <2>3
      <4> QED BY <1>1, <1>2, <4>1
    <3>3. HourOf(i + 1) = hour
      BY <1>2, <1>3, <1>5, <1>7 DEF HourOf
    <3>4. Trend(i + 1, now) = Trend(i, now)
      BY <3>3 DEF Trend
    <3>5. i + 1 \in Signals
      BY <1>1, <1>2, <3>2, <3>4 DEF Signals, Side
    <3> QED BY <1>2, <3>5
  <2> QED BY <2>2, <2>3
<1> QED BY <1>6, <1>7

(* The bot never acts on a setup that an hour's trend has put on a bar     *)
(* after the fact.                                                         *)
THEOREM NewestStoodCorrect == Spec => []NewestStood
<1>1. FramesInv /\ [Next]_<<m5, hours>> => FramesInv'
  BY FramesStep
<1> QED BY FramesInit, <1>1, FramesStood, PTL DEF Spec

---------------------------------------------------------------------------
(* Induction along the bars.                                               *)

(* A set of numbers has a least element, and so there is induction.        *)
LEMMA LeastElement ==
  ASSUME NEW T \in SUBSET Nat, T # {}
  PROVE  \E x \in T : \A y \in T : x <= y
<1> DEFINE R == {ss \in Nat \X Nat : ss[1] < ss[2]}
<1>1. \E x \in T : \A y \in T : <<y, x>> \notin R
  <2>1. IsWellFoundedOn(R, Nat)
    BY NatLessThanWellFounded, Zenon DEF OpToRel
  <2> HIDE DEF R
  <2> QED BY <2>1, WFMin, Zenon
<1>2. \A x, y \in Nat : <<y, x>> \notin R => x <= y
  OBVIOUS
<1> QED BY <1>1, <1>2

LEMMA Induction ==
  ASSUME NEW P, 0 \in P, \A n \in Nat : n \in P => n + 1 \in P
  PROVE  Nat \subseteq P
<1> SUFFICES ASSUME Nat \ P # {} PROVE FALSE OBVIOUS
<1>1. PICK n \in Nat \ P : \A k \in Nat \ P : n <= k
  BY LeastElement
<1>2. n - 1 \in Nat /\ n - 1 \in P
  BY <1>1
<1> QED BY <1>1, <1>2

(* A function that is given by its first value and by a step exists.       *)
Follows(g, a, b, init, step) ==
  \A i \in a..b : g[i] = IF i = a THEN init ELSE step[<<i, g[i - 1]>>]

LEMMA Recursion ==
  ASSUME NEW a \in Int, NEW b \in Int, NEW S, NEW init \in S, NEW step \in [Int \X S -> S]
  PROVE  \E g \in [a..b -> S] : Follows(g, a, b, init, step)
<1> USE DEF Follows
<1> DEFINE Good(g, n) == Follows(g, a, a + n, init, step)
    P == {n \in Nat : \E g \in [a..(a + n) -> S] : Good(g, n)}
<1>1. 0 \in P
  <2> DEFINE g == [i \in a..(a + 0) |-> init]
  <2>1. g \in [a..(a + 0) -> S] /\ Good(g, 0) OBVIOUS
  <2> QED BY <2>1
<1>2. ASSUME NEW n \in Nat, n \in P PROVE n + 1 \in P
  <2>1. PICK g \in [a..(a + n) -> S] : Good(g, n) BY <1>2
  <2> DEFINE e == a + (n + 1)
    h == [i \in a..e |-> IF i = e THEN step[<<i, g[i - 1]>>] ELSE g[i]]
  <2>2. h \in [a..e -> S]
    <3>1. g[e - 1] \in S OBVIOUS
    <3>2. step[<<e, g[e - 1]>>] \in S BY <3>1
    <3>3. \A i \in a..e : i # e => g[i] \in S OBVIOUS
    <3> QED BY <3>2, <3>3
  <2>3. Good(h, n + 1)
    <3> SUFFICES ASSUME NEW i \in a..e
                 PROVE h[i] = IF i = a THEN init ELSE step[<<i, h[i - 1]>>]
      OBVIOUS
    <3>1. CASE i = e
      <4>1. h[i] = step[<<i, g[i - 1]>>] /\ i # a BY <3>1
      <4>2. h[i - 1] = g[i - 1] BY <3>1
      <4> QED BY <4>1, <4>2
    <3>2. CASE i # e
      <4>1. i \in a..(a + n) /\ h[i] = g[i] BY <3>2
      <4>2. i # a => h[i - 1] = g[i - 1] BY <3>2
      <4> QED BY <2>1, <4>1, <4>2
    <3> QED BY <3>1, <3>2
  <2> HIDE DEF h, Good
  <2> QED BY <2>2, <2>3
<1>3. Nat \subseteq P
  <2> HIDE DEF P
  <2> QED BY <1>1, <1>2, Induction
<1>4. CASE a <= b
  <2>1. b - a \in P
    <3> HIDE DEF P
    <3> QED BY <1>3, <1>4
  <2>2. a + (b - a) = b OBVIOUS
  <2> QED BY <2>1, <2>2
<1>5. CASE b < a
  <2> DEFINE g == [i \in a..b |-> init]
  <2>1. g \in [a..b -> S] OBVIOUS
  <2>2. a..b = {} BY <1>5
  <2> QED BY <2>1, <2>2
<1> QED BY <1>4, <1>5

---------------------------------------------------------------------------
(* What becomes of an order.                                               *)

LEMMA LeastBar ==
  ASSUME NEW S \in SUBSET Nat, S # {}
  PROVE  Min(S) \in S /\ \A y \in S : Min(S) <= y
BY LeastElement DEF Min

(* Bars at which the position of an order entered at bar e may close.      *)
Ends(s, i) == HitsStop(s, i) \/ HitsTarget(s, i)

LEMMA EntryBars ==
  ASSUME Last \in Nat, NEW s \in 1..Last
  PROVE  /\ Entries(s) \in SUBSET Nat
         /\ \A i : i \in Entries(s) <=>
              i \in (s + 1)..Last /\ i <= s + Expiry /\ Triggers(s, i)
         /\ Entries(s) # {} =>
              Min(Entries(s)) \in Entries(s) /\ \A i \in Entries(s) : Min(Entries(s)) <= i
<1>1. Expiry \in Nat \ {0} /\ s + Expiry \in Int /\ Last \in Int
  BY SetupAssumption
<1>2. Min({s + Expiry, Last}) = IF s + Expiry <= Last THEN s + Expiry ELSE Last
  BY <1>1, Smallest
<1>3. \A i : i \in Entries(s) <=> i \in (s + 1)..Last /\ i <= s + Expiry /\ Triggers(s, i)
  BY <1>1, <1>2 DEF Entries
<1>4. Entries(s) \in SUBSET Nat
  BY <1>3
<1> QED BY <1>3, <1>4, LeastBar

LEMMA ExitBars ==
  ASSUME Last \in Nat, NEW s \in 1..Last, Entries(s) # {}
  PROVE  /\ Min(Entries(s)) \in Nat
         /\ Exits(s) \in SUBSET Nat
         /\ \A i : i \in Exits(s) <=> i \in (Min(Entries(s)) + 1)..Last /\ Ends(s, i)
         /\ Exits(s) # {} =>
              Min(Exits(s)) \in Exits(s) /\ \A i \in Exits(s) : Min(Exits(s)) <= i
<1>1. Min(Entries(s)) \in Nat
  BY EntryBars
<1>2. \A i : i \in Exits(s) <=> i \in (Min(Entries(s)) + 1)..Last /\ Ends(s, i)
  BY DEF Exits, Ends
<1>3. Exits(s) \in SUBSET Nat
  BY <1>1, <1>2
<1> QED BY <1>1, <1>2, <1>3, LeastBar

(* An order is over by bar i, expired or closed.                           *)
IsOver(s, i) ==
  \/ Entries(s) = {} /\ s + Expiry <= i
  \/ Entries(s) # {} /\ Exits(s) # {} /\ Min(Exits(s)) <= i

(* At bar i it is pending, or has become the position at bar e.            *)
Pends(s, i) == i <= s + Expiry /\ \A k \in (s + 1)..i : ~Triggers(s, k)
Holds(s, e, i) ==
  /\ Entries(s) # {} /\ e = Min(Entries(s)) /\ e <= i
  /\ \A k \in (e + 1)..i : ~Ends(s, k)

LEMMA FreeType ==
  ASSUME Last \in Nat, NEW s \in 1..Last
  PROVE  FreeFrom(s) \in Int
<1>1. Expiry \in Nat
  BY SetupAssumption
<1> QED BY <1>1, ExitBars DEF FreeFrom

LEMMA OverIsFree ==
  ASSUME Last \in Nat, NEW s \in 1..Last, NEW i \in Int, IsOver(s, i)
  PROVE  FreeFrom(s) <= i + 1
<1>1. Expiry \in Nat
  BY SetupAssumption
<1> QED BY <1>1, ExitBars DEF IsOver, FreeFrom

LEMMA OverStays ==
  ASSUME Last \in Nat, NEW s \in 1..Last, NEW i \in Int, IsOver(s, i - 1)
  PROVE  IsOver(s, i)
<1>1. Expiry \in Nat
  BY SetupAssumption
<1> QED BY <1>1, ExitBars DEF IsOver

(* A pending order and a position occupy the bar.                          *)
LEMMA PendsIsBusy ==
  ASSUME Last \in Nat, NEW s \in 1..Last, NEW i \in s..Last, Pends(s, i)
  PROVE  /\ FreeFrom(s) > i
         /\ Entries(s) # {} => Min(Entries(s)) > i
<1>1. Expiry \in Nat \ {0}
  BY SetupAssumption
<1>2. \A k \in Entries(s) : k \in Int /\ k > i
  BY EntryBars DEF Pends
<1>3. Entries(s) # {} => Min(Entries(s)) > i
  BY <1>2, EntryBars
<1>4. CASE Entries(s) = {}
  BY <1>1, <1>4 DEF Pends, FreeFrom
<1>5. CASE Entries(s) # {}
  <2>1. \A k \in Exits(s) : k \in Int /\ k > i
    BY <1>3, <1>5, ExitBars
  <2>2. Exits(s) # {} => Min(Exits(s)) > i /\ Min(Exits(s)) \in Int
    BY <1>5, <2>1, ExitBars
  <2>3. FreeFrom(s) > i
    BY <1>5, <2>2 DEF FreeFrom
  <2> QED BY <1>3, <2>3
<1> QED BY <1>3, <1>4, <1>5

LEMMA HoldsIsBusy ==
  ASSUME Last \in Nat, NEW s \in 1..Last, NEW e, NEW i \in s..Last, Holds(s, e, i)
  PROVE  /\ FreeFrom(s) > i /\ e \in Nat
         /\ Exits(s) # {} => Min(Exits(s)) > i
<1>1. e \in Nat /\ \A k \in Exits(s) : k \in Int /\ k > i
  BY ExitBars DEF Holds
<1>2. Exits(s) # {} => Min(Exits(s)) > i /\ Min(Exits(s)) \in Int
  BY <1>1, ExitBars DEF Holds
<1> QED BY <1>1, <1>2 DEF FreeFrom, Holds

---------------------------------------------------------------------------
(* The bars at which an order is due, and the walk, bar by bar.            *)

Occupations == [bars: SUBSET (1..Last), free: Int]
NoOrder == [bars |-> {}, free |-> 1]
DueTo(upto, last) ==
  \A i \in 0..last : upto[i] = IF i = 0 THEN NoOrder ELSE Due(i, upto[i - 1])

LEMMA PlacedBars ==
  ASSUME Last \in Nat
  PROVE  \E upto : DueTo(upto, Last) /\ Placed = upto[Last].bars
<1> DEFINE zero == 0
           last == Last
           step == [p \in Int \X Occupations |->
                      IF p[1] \in 1..last THEN Due(p[1], p[2]) ELSE NoOrder]
           upto[i \in zero..last] == IF i = zero THEN NoOrder ELSE Due(i, upto[i - 1])
<1>1. NoOrder \in Occupations
  BY DEF NoOrder, Occupations
<1>2. \A i \in 1..last, was \in Occupations : Due(i, was) \in Occupations
  <2> TAKE i \in 1..last, was \in Occupations
  <2>1. FreeFrom(i) \in Int
    BY FreeType
  <2> QED BY <2>1 DEF Due, Occupations
<1>3. step \in [Int \X Occupations -> Occupations]
  <2> HIDE DEF last
  <2> QED BY <1>1, <1>2
<1>4. zero \in Int /\ last \in Int
  OBVIOUS
<1>5. PICK g \in [zero..last -> Occupations] : Follows(g, zero, last, NoOrder, step)
  <2> HIDE DEF zero, last, step
  <2> QED BY <1>1, <1>3, <1>4, Recursion
<1>6. \A i \in zero..last : i # zero => step[<<i, g[i - 1]>>] = Due(i, g[i - 1])
  <2> SUFFICES ASSUME NEW i \in zero..last, i # zero
               PROVE  step[<<i, g[i - 1]>>] = Due(i, g[i - 1])
    OBVIOUS
  <2>1. i \in Int /\ i \in 1..last /\ g[i - 1] \in Occupations
    OBVIOUS
  <2> HIDE DEF zero, last
  <2> QED BY <2>1
<1>7. g = [i \in zero..last |-> IF i = zero THEN NoOrder ELSE Due(i, g[i - 1])]
  <2> HIDE DEF zero, last, step
  <2> QED BY <1>5, <1>6 DEF Follows
<1>8. upto = [i \in zero..last |-> IF i = zero THEN NoOrder ELSE Due(i, upto[i - 1])]
  <2> HIDE DEF zero, last
  <2> QED BY <1>7, Zenon DEF upto
<1>9. Placed = upto[Last].bars
  BY Zenon DEF Placed, NoOrder
<1>10. \A i \in zero..last : upto[i] = IF i = zero THEN NoOrder ELSE Due(i, upto[i - 1])
  <2> HIDE DEF upto, zero, last
  <2> QED BY <1>8
<1> HIDE DEF upto
<1> QED BY <1>9, <1>10 DEF DueTo

AllTrades == [signal: Int, entered: Int, exited: Int, won: BOOLEAN]
Walks == [signal: Int, entered: Int, trades: Seq(AllTrades)]

WalksTo(at, last) ==
  \A i \in 0..last :
    at[i] = IF i <= LookBack THEN Idle ELSE Bar(i, at[i - 1])

LEMMA IdleType == Idle \in Walks
BY DEF Idle, Walks

LEMMA TradeType ==
  ASSUME NEW s \in Int, NEW e \in Int, NEW x \in Int
  PROVE  Trade(s, e, x) \in AllTrades
BY DEF Trade, AllTrades

LEMMA PlaceType ==
  ASSUME NEW i \in Int, NEW was \in Walks
  PROVE  /\ Place(i, was) \in Walks
         /\ Place(i, was).signal = IF Side(i, Len(hours)) # 0 THEN i ELSE 0
         /\ Place(i, was).entered = was.entered /\ Place(i, was).trades = was.trades
BY DEF Place, Walks

LEMMA BarType ==
  ASSUME NEW i \in Int, NEW was \in Walks
  PROVE  Bar(i, was) \in Walks
<1>1. was.signal \in Int /\ was.entered \in Int /\ was.trades \in Seq(AllTrades)
  BY DEF Walks
<1> DEFINE trade == Trade(was.signal, was.entered, i)
           done == [Idle EXCEPT !.trades = Append(was.trades, trade)]
           in == [was EXCEPT !.entered = i]
<1>2. done \in Walks
  <2>1. trade \in AllTrades
    BY <1>1, TradeType
  <2> HIDE DEF trade
  <2> QED BY <1>1, <2>1 DEF Idle, Walks
<1>3. in \in Walks
  BY DEF Walks
<1>4. Place(i, was) \in Walks
  BY PlaceType
<1>5. Bar(i, was) \in {done, in, was, Place(i, was)}
  BY DEF Bar
<1> HIDE DEF done, in
<1> QED BY <1>2, <1>3, <1>4, <1>5

LEMMA WalkBars ==
  ASSUME Last \in Nat
  PROVE  \E at : WalksTo(at, Last) /\ Walk = at[Last]
<1> DEFINE zero == 0
           last == Last
           step == [p \in Int \X Walks |->
                      IF p[1] <= LookBack THEN Idle ELSE Bar(p[1], p[2])]
           at[i \in zero..last] == IF i <= LookBack THEN Idle ELSE Bar(i, at[i - 1])
<1>1. LookBack \in Nat \ {0} /\ zero \in Int /\ last \in Int
  BY SetupAssumption
<1>2. step \in [Int \X Walks -> Walks]
  <2>1. \A i \in Int, was \in Walks : Bar(i, was) \in Walks
    BY BarType
  <2> QED BY <2>1, IdleType
<1>3. PICK g \in [zero..last -> Walks] : Follows(g, zero, last, Idle, step)
  <2> HIDE DEF zero, last, step
  <2> QED BY <1>1, <1>2, IdleType, Recursion
<1>4. \A i \in zero..last : i # zero =>
        step[<<i, g[i - 1]>>] = IF i <= LookBack THEN Idle ELSE Bar(i, g[i - 1])
  <2> SUFFICES ASSUME NEW i \in zero..last, i # zero
               PROVE  step[<<i, g[i - 1]>>] = IF i <= LookBack THEN Idle ELSE Bar(i, g[i - 1])
    OBVIOUS
  <2>1. i \in Int /\ g[i - 1] \in Walks
    BY <1>1
  <2> HIDE DEF zero, last
  <2> QED BY <2>1
<1>5. zero <= LookBack
  BY <1>1
<1>6. g = [i \in zero..last |-> IF i <= LookBack THEN Idle ELSE Bar(i, g[i - 1])]
  <2> HIDE DEF zero, last, step
  <2>1. \A i \in zero..last : g[i] = IF i <= LookBack THEN Idle ELSE Bar(i, g[i - 1])
    BY <1>3, <1>4, <1>5 DEF Follows
  <2> QED BY <1>3, <2>1
<1>7. at = [i \in zero..last |-> IF i <= LookBack THEN Idle ELSE Bar(i, at[i - 1])]
  <2> HIDE DEF zero, last
  <2> QED BY <1>6, Zenon DEF at
<1>8. Walk = at[Last]
  BY Zenon DEF Walk
<1>9. \A i \in zero..last : at[i] = IF i <= LookBack THEN Idle ELSE Bar(i, at[i - 1])
  <2> HIDE DEF at, zero, last
  <2> QED BY <1>7
<1> HIDE DEF at
<1> QED BY <1>8, <1>9 DEF WalksTo

---------------------------------------------------------------------------
(* The walk and the orders that are due go together.                       *)

ClosedBy(bars, i) ==
  {s \in bars : Entries(s) # {} /\ Exits(s) # {} /\ Min(Exits(s)) <= i}
DueTrade(s) == Trade(s, Min(Entries(s)), Min(Exits(s)))

(* The trades are those of these orders, each once.                        *)
Reports(trades, closed) ==
  /\ IsFiniteSet(closed)
  /\ {trades[k] : k \in 1..Len(trades)} = {DueTrade(s) : s \in closed}
  /\ Len(trades) = Cardinality(closed)

OccupationInv(due, i) ==
  /\ due \in Occupations /\ due.bars \subseteq Signals
  /\ \A s \in due.bars : s <= i /\ FreeFrom(s) <= due.free
  /\ \/ due.bars = {} /\ due.free = 1
     \/ \E s \in due.bars : due.free = FreeFrom(s)

WalkInv(walk, due, i) ==
  /\ walk \in Walks /\ OccupationInv(due, i)
  /\ \A s \in due.bars : s # walk.signal => IsOver(s, i)
  /\ Reports(walk.trades, ClosedBy(due.bars, i))
  /\ \/ walk.signal = 0 /\ walk.entered = 0
     \/ walk.signal \in due.bars /\ walk.entered = 0 /\ Pends(walk.signal, i)
     \/ walk.signal \in due.bars /\ walk.entered # 0 /\ Holds(walk.signal, walk.entered, i)

LEMMA AddTrade ==
  ASSUME NEW trades \in Seq(AllTrades), NEW closed, NEW s, s \notin closed,
         DueTrade(s) \in AllTrades, Reports(trades, closed)
  PROVE  Reports(Append(trades, DueTrade(s)), closed \cup {s})
<1> DEFINE more == Append(trades, DueTrade(s))
           n == Len(trades)
<1>1. /\ n \in Nat /\ Len(more) = n + 1 /\ more[n + 1] = DueTrade(s)
      /\ \A k \in 1..n : more[k] = trades[k]
  OBVIOUS
<1>2. IsFiniteSet(closed \cup {s}) /\ Cardinality(closed \cup {s}) = Cardinality(closed) + 1
  BY FS_AddElement DEF Reports
<1>3. {trades[k] : k \in 1..n} = {DueTrade(x) : x \in closed} /\ n = Cardinality(closed)
  BY DEF Reports
<1> HIDE DEF more, n
<1>4. {more[k] : k \in 1..(n + 1)} = {trades[k] : k \in 1..n} \cup {DueTrade(s)}
  BY <1>1
<1>5. {DueTrade(x) : x \in closed \cup {s}} = {DueTrade(x) : x \in closed} \cup {DueTrade(s)}
  OBVIOUS
<1> QED BY <1>1, <1>2, <1>3, <1>4, <1>5 DEF Reports, more

(* What is over had closed, or never does.                                 *)
LEMMA ClosedSame ==
  ASSUME Last \in Nat, NEW bars \in SUBSET (1..Last), NEW i \in Int,
         \A s \in bars :
            IsOver(s, i - 1) \/ (Entries(s) # {} /\ Exits(s) # {} => Min(Exits(s)) > i)
  PROVE  ClosedBy(bars, i) = ClosedBy(bars, i - 1)
<1> SUFFICES ASSUME NEW s \in bars, Entries(s) # {}, Exits(s) # {}
             PROVE  Min(Exits(s)) <= i <=> Min(Exits(s)) <= i - 1
  BY DEF ClosedBy
<1>1. Min(Exits(s)) \in Nat
  BY ExitBars
<1> QED BY <1>1 DEF IsOver

(* The order that the walk has holds the bar, so that none is due.         *)
LEMMA BusyBar ==
  ASSUME Last \in Nat, NEW i \in 1..Last, NEW due, OccupationInv(due, i - 1),
         NEW s \in due.bars, FreeFrom(s) > i
  PROVE  Due(i, due) = due /\ OccupationInv(due, i)
<1>1. FreeFrom(s) \in Int /\ due.free \in Int /\ FreeFrom(s) <= due.free
  BY FreeType DEF OccupationInv, Occupations
<1>2. \A x \in due.bars : x \in Int
  BY DEF OccupationInv, Occupations
<1> QED BY <1>1, <1>2 DEF Due, OccupationInv

LEMMA FreeBar ==
  ASSUME Last \in Nat, NEW i \in 1..Last, NEW due, OccupationInv(due, i - 1),
         \A s \in due.bars : IsOver(s, i - 1)
  PROVE  /\ Due(i, due) = IF i \in Signals
                          THEN [bars |-> due.bars \cup {i}, free |-> FreeFrom(i)] ELSE due
         /\ OccupationInv(Due(i, due), i)
<1>1. due.bars \subseteq 1..Last /\ due.free \in Int /\ Last \in Int /\ i \in Int
  BY DEF OccupationInv, Occupations
<1>2. \A s \in due.bars : FreeFrom(s) \in Int /\ FreeFrom(s) <= i
  <2> TAKE s \in due.bars
  <2>1. FreeFrom(s) <= (i - 1) + 1
    BY <1>1, OverIsFree
  <2> QED BY <1>1, <2>1, FreeType
<1>3. due.free <= i
  BY <1>2 DEF OccupationInv
<1>4. Due(i, due) = IF i \in Signals
                    THEN [bars |-> due.bars \cup {i}, free |-> FreeFrom(i)] ELSE due
  BY <1>3 DEF Due
<1>5. CASE i \notin Signals
  BY <1>1, <1>4, <1>5 DEF OccupationInv
<1>6. CASE i \in Signals
  <2> DEFINE new == [bars |-> due.bars \cup {i}, free |-> FreeFrom(i)]
  <2>1. FreeFrom(i) \in Int /\ FreeFrom(i) > i
    <3>1. Pends(i, i)
      BY SetupAssumption DEF Pends
    <3> QED BY <3>1, FreeType, PendsIsBusy
  <2>2. new \in Occupations
    BY <1>1, <2>1 DEF Occupations
  <2>3. new.bars \subseteq Signals
    BY <1>6 DEF OccupationInv
  <2>4. \A s \in new.bars : s <= i /\ FreeFrom(s) <= new.free
    BY <1>1, <1>2, <2>1 DEF OccupationInv
  <2> QED BY <1>4, <1>6, <2>2, <2>3, <2>4 DEF OccupationInv
<1> QED BY <1>4, <1>5, <1>6

LEMMA PlaceStep ==
  ASSUME Last \in Nat, NEW i \in 1..Last, NEW walk, NEW due, WalkInv(walk, due, i - 1),
         walk.entered = 0, walk.signal = 0 \/ i - walk.signal > Expiry
  PROVE  WalkInv(Place(i, walk), Due(i, due), i)
<1>1. /\ walk \in Walks /\ OccupationInv(due, i - 1) /\ due.bars \subseteq 1..Last
      /\ Reports(walk.trades, ClosedBy(due.bars, i - 1)) /\ 0 \notin due.bars
      /\ Expiry \in Nat \ {0}
  BY SetupAssumption DEF WalkInv, OccupationInv, Occupations
<1>2. \A s \in due.bars : IsOver(s, i - 1)
  <2> SUFFICES ASSUME NEW s \in due.bars, s = walk.signal PROVE IsOver(s, i - 1)
    BY DEF WalkInv
  <2>1. Pends(s, i - 1) /\ s \in 1..Last /\ i - s > Expiry
    BY <1>1 DEF WalkInv
  <2>2. i - 1 = s + Expiry
    BY <1>1, <2>1 DEF Pends
  <2>3. Entries(s) = {}
    <3>1. \A k \in Entries(s) : k \in (s + 1)..(i - 1) /\ Triggers(s, k)
      BY <1>1, <2>1, <2>2, EntryBars
    <3> QED BY <2>1, <3>1 DEF Pends
  <2> QED BY <2>2, <2>3 DEF IsOver
<1>3. /\ Due(i, due) = IF i \in Signals
                       THEN [bars |-> due.bars \cup {i}, free |-> FreeFrom(i)] ELSE due
      /\ OccupationInv(Due(i, due), i)
  BY <1>1, <1>2, FreeBar
<1>4. /\ Place(i, walk) \in Walks /\ Place(i, walk).trades = walk.trades
      /\ Place(i, walk).entered = 0
      /\ Place(i, walk).signal = IF i \in Signals THEN i ELSE 0
  BY <1>1, PlaceType DEF Signals
<1>5. \A s \in due.bars : IsOver(s, i)
  BY <1>1, <1>2, OverStays
<1>6. Pends(i, i)
  BY <1>1 DEF Pends
<1>7. ClosedBy(Due(i, due).bars, i) = ClosedBy(due.bars, i - 1)
  <2>1. ClosedBy(due.bars, i) = ClosedBy(due.bars, i - 1)
    BY <1>1, <1>2, ClosedSame
  <2>2. ~(Entries(i) # {} /\ Exits(i) # {} /\ Min(Exits(i)) <= i)
    <3> SUFFICES ASSUME Entries(i) # {}, Exits(i) # {} PROVE ~(Min(Exits(i)) <= i)
      OBVIOUS
    <3>1. Min(Entries(i)) > i /\ Min(Entries(i)) \in Nat
      BY <1>6, PendsIsBusy, ExitBars
    <3>2. Min(Exits(i)) \in (Min(Entries(i)) + 1)..Last
      BY ExitBars
    <3> QED BY <3>1, <3>2
  <2>3. ClosedBy(due.bars \cup {i}, i) = ClosedBy(due.bars, i)
    BY <2>2 DEF ClosedBy
  <2> QED BY <1>3, <2>1, <2>3
<1>8. \A s \in Due(i, due).bars : s # Place(i, walk).signal => IsOver(s, i)
  BY <1>3, <1>4, <1>5
<1>9. \/ Place(i, walk).signal = 0
      \/ Place(i, walk).signal \in Due(i, due).bars /\ Pends(Place(i, walk).signal, i)
  BY <1>3, <1>4, <1>6
<1> QED BY <1>1, <1>3, <1>4, <1>7, <1>8, <1>9 DEF WalkInv

(* What the other bars have in common.                                     *)
LEMMA BusyStep ==
  ASSUME Last \in Nat, NEW i \in 1..Last, NEW walk, NEW due, WalkInv(walk, due, i - 1),
         walk.signal \in due.bars, FreeFrom(walk.signal) > i
  PROVE  /\ Due(i, due) = due /\ OccupationInv(due, i) /\ due.bars \in SUBSET (1..Last)
         /\ walk \in Walks /\ walk.signal \in 1..Last /\ walk.signal <= i - 1
         /\ Reports(walk.trades, ClosedBy(due.bars, i - 1))
         /\ \A s \in due.bars : s # walk.signal => IsOver(s, i - 1) /\ IsOver(s, i)
<1>1. /\ walk \in Walks /\ OccupationInv(due, i - 1) /\ due.bars \in SUBSET (1..Last)
      /\ Reports(walk.trades, ClosedBy(due.bars, i - 1))
      /\ walk.signal <= i - 1
  BY DEF WalkInv, OccupationInv, Occupations
<1>2. Due(i, due) = due /\ OccupationInv(due, i)
  BY <1>1, BusyBar
<1>3. \A s \in due.bars : s # walk.signal => IsOver(s, i - 1) /\ IsOver(s, i)
  <2> TAKE s \in due.bars
  <2> HAVE s # walk.signal
  <2>1. IsOver(s, i - 1) /\ s \in 1..Last
    BY <1>1 DEF WalkInv
  <2> QED BY <2>1, OverStays
<1> QED BY <1>1, <1>2, <1>3

LEMMA PendingStep ==
  ASSUME Last \in Nat, NEW i \in 1..Last, NEW walk, NEW due, WalkInv(walk, due, i - 1),
         walk.entered = 0, walk.signal # 0, ~(i - walk.signal > Expiry)
  PROVE  WalkInv(IF Triggers(walk.signal, i) THEN [walk EXCEPT !.entered = i] ELSE walk,
                 Due(i, due), i)
<1> DEFINE s == walk.signal
<1>1. s \in due.bars /\ Pends(s, i - 1) /\ s \in 1..Last /\ s <= i - 1 /\ walk \in Walks
  BY DEF WalkInv, OccupationInv, Occupations
<1>2. Expiry \in Nat \ {0} /\ i <= s + Expiry
  BY <1>1, SetupAssumption
<1>3. CASE ~Triggers(s, i)
  <2>1. Pends(s, i)
    BY <1>1, <1>2, <1>3 DEF Pends
  <2>2. /\ FreeFrom(s) > i
        /\ Entries(s) # {} /\ Exits(s) # {} => Min(Exits(s)) > i
    <3>1. Entries(s) # {} => Min(Entries(s)) > i /\ Min(Entries(s)) \in Nat
      BY <1>1, <2>1, PendsIsBusy, ExitBars
    <3>2. Entries(s) # {} /\ Exits(s) # {} => Min(Exits(s)) \in (Min(Entries(s)) + 1)..Last
      BY <1>1, ExitBars
    <3>3. Entries(s) # {} /\ Exits(s) # {} => Min(Exits(s)) > i
      BY <3>1, <3>2
    <3> QED BY <1>1, <2>1, <3>3, PendsIsBusy
  <2>3. /\ Due(i, due) = due /\ OccupationInv(due, i) /\ due.bars \in SUBSET (1..Last)
        /\ Reports(walk.trades, ClosedBy(due.bars, i - 1))
        /\ \A x \in due.bars : x # s => IsOver(x, i - 1) /\ IsOver(x, i)
    BY <1>1, <2>2, BusyStep
  <2>4. ClosedBy(due.bars, i) = ClosedBy(due.bars, i - 1)
    BY <2>2, <2>3, ClosedSame
  <2> QED BY <1>1, <1>3, <2>1, <2>3, <2>4 DEF WalkInv
<1>4. CASE Triggers(s, i)
  <2>1. i \in Entries(s) /\ \A k \in Entries(s) : i <= k
    <3>1. i \in (s + 1)..Last
      BY <1>1
    <3>2. \A k \in Entries(s) : k \in (s + 1)..Last /\ Triggers(s, k)
      BY <1>1, EntryBars
    <3>3. i \in Entries(s)
      BY <1>1, <1>2, <1>4, <3>1, EntryBars
    <3> QED BY <1>1, <3>2, <3>3 DEF Pends
  <2>2. Min(Entries(s)) = i
    BY <1>1, <2>1, EntryBars
  <2>3. Holds(s, i, i)
    BY <2>1, <2>2 DEF Holds
  <2>4. FreeFrom(s) > i /\ (Exits(s) # {} => Min(Exits(s)) > i)
    BY <1>1, <2>3, HoldsIsBusy
  <2>5. /\ Due(i, due) = due /\ OccupationInv(due, i) /\ due.bars \in SUBSET (1..Last)
        /\ Reports(walk.trades, ClosedBy(due.bars, i - 1))
        /\ \A x \in due.bars : x # s => IsOver(x, i - 1) /\ IsOver(x, i)
    BY <1>1, <2>4, BusyStep
  <2>6. ClosedBy(due.bars, i) = ClosedBy(due.bars, i - 1)
    BY <2>4, <2>5, ClosedSame
  <2> DEFINE next == [walk EXCEPT !.entered = i]
  <2>7. /\ next \in Walks /\ next.signal = s /\ next.entered = i
        /\ next.trades = walk.trades /\ i # 0
    BY <1>1 DEF Walks
  <2> HIDE DEF next
  <2>8. WalkInv(next, due, i)
    BY <1>1, <2>3, <2>5, <2>6, <2>7 DEF WalkInv
  <2> QED BY <1>4, <2>5, <2>8 DEF next
<1> QED BY <1>3, <1>4

LEMMA PositionStep ==
  ASSUME Last \in Nat, NEW i \in 1..Last, NEW walk, NEW due, WalkInv(walk, due, i - 1),
         walk.entered # 0
  PROVE  WalkInv(IF Ends(walk.signal, i)
                 THEN [Idle EXCEPT !.trades =
                         Append(walk.trades, Trade(walk.signal, walk.entered, i))]
                 ELSE walk,
                 Due(i, due), i)
<1> DEFINE s == walk.signal
           e == walk.entered
<1>1. /\ s \in due.bars /\ Holds(s, e, i - 1) /\ s \in 1..Last /\ s <= i - 1
      /\ walk \in Walks
  BY DEF WalkInv, OccupationInv, Occupations
<1>2. /\ Entries(s) # {} /\ e = Min(Entries(s)) /\ e <= i - 1 /\ e \in Nat
      /\ Exits(s) # {} => Min(Exits(s)) > i - 1
      /\ FreeFrom(s) > i - 1
  BY <1>1, HoldsIsBusy DEF Holds
<1>3. \A k \in Exits(s) : k \in Int /\ k >= i
  <2>1. \A k \in Exits(s) : k \in Nat /\ Min(Exits(s)) <= k /\ Min(Exits(s)) \in Nat
    BY <1>1, <1>2, ExitBars
  <2> QED BY <1>2, <2>1
<1>4. CASE ~Ends(s, i)
  <2>1. Holds(s, e, i)
    BY <1>1, <1>2, <1>4 DEF Holds
  <2>2. FreeFrom(s) > i /\ (Exits(s) # {} => Min(Exits(s)) > i)
    BY <1>1, <2>1, HoldsIsBusy
  <2>3. /\ Due(i, due) = due /\ OccupationInv(due, i) /\ due.bars \in SUBSET (1..Last)
        /\ Reports(walk.trades, ClosedBy(due.bars, i - 1))
        /\ \A x \in due.bars : x # s => IsOver(x, i - 1) /\ IsOver(x, i)
    BY <1>1, <2>2, BusyStep
  <2>4. ClosedBy(due.bars, i) = ClosedBy(due.bars, i - 1)
    BY <2>2, <2>3, ClosedSame
  <2> QED BY <1>1, <1>4, <2>1, <2>3, <2>4 DEF WalkInv
<1>5. CASE Ends(s, i)
  <2>1. i \in Exits(s)
    <3>1. i \in (Min(Entries(s)) + 1)..Last
      BY <1>2
    <3> QED BY <1>1, <1>2, <1>5, <3>1, ExitBars
  <2>2. Min(Exits(s)) = i
    BY <1>1, <1>2, <1>3, <2>1, ExitBars
  <2>3. FreeFrom(s) > i /\ IsOver(s, i)
    BY <1>2, <2>1, <2>2 DEF FreeFrom, IsOver
  <2>4. /\ Due(i, due) = due /\ OccupationInv(due, i) /\ due.bars \in SUBSET (1..Last)
        /\ Reports(walk.trades, ClosedBy(due.bars, i - 1))
        /\ \A x \in due.bars : x # s => IsOver(x, i - 1) /\ IsOver(x, i)
    BY <1>1, <2>3, BusyStep
  <2>5. s \notin ClosedBy(due.bars, i - 1)
    BY <2>2 DEF ClosedBy
  <2>6. ClosedBy(due.bars, i) = ClosedBy(due.bars, i - 1) \cup {s}
    <3> DEFINE rest == due.bars \ {s}
    <3>1. ClosedBy(rest, i) = ClosedBy(rest, i - 1)
      BY <2>4, ClosedSame
    <3>2. /\ ClosedBy(due.bars, i) = ClosedBy(rest, i) \cup {s}
          /\ ClosedBy(due.bars, i - 1) = ClosedBy(rest, i - 1)
      BY <1>1, <1>2, <2>1, <2>2 DEF ClosedBy
    <3> QED BY <3>1, <3>2
  <2>7. Trade(s, e, i) = DueTrade(s) /\ DueTrade(s) \in AllTrades
    BY <1>1, <1>2, <2>2, TradeType DEF DueTrade
  <2> DEFINE trades == Append(walk.trades, DueTrade(s))
             next == [Idle EXCEPT !.trades = trades]
  <2>8. walk.trades \in Seq(AllTrades) /\ trades \in Seq(AllTrades)
    BY <1>1, <2>7 DEF Walks
  <2>9. Reports(trades, ClosedBy(due.bars, i))
    BY <2>4, <2>5, <2>6, <2>7, <2>8, AddTrade
  <2> HIDE DEF trades
  <2>10. next \in Walks /\ next.signal = 0 /\ next.entered = 0 /\ next.trades = trades
    BY <2>8 DEF Idle, Walks
  <2> HIDE DEF next
  <2>11. \A x \in due.bars : IsOver(x, i)
    BY <2>3, <2>4
  <2>12. WalkInv(next, due, i)
    BY <2>4, <2>9, <2>10, <2>11 DEF WalkInv
  <2> QED BY <1>5, <2>4, <2>7, <2>12 DEF next, trades
<1> QED BY <1>4, <1>5

LEMMA NoTrades ==
  ASSUME NEW i
  PROVE  Reports(<<>>, ClosedBy({}, i))
<1>1. ClosedBy({}, i) = {}
  BY DEF ClosedBy
<1>2. {<<>>[k] : k \in 1..Len(<<>>)} = {} /\ Len(<<>>) = 0
  OBVIOUS
<1>3. {DueTrade(s) : s \in {}} = {}
  OBVIOUS
<1> QED BY <1>1, <1>2, <1>3, FS_EmptySet DEF Reports

(* The first bars have no setup, and the walk does nothing there.          *)
LEMMA QuietStep ==
  ASSUME Last \in Nat, NEW i \in 1..Last, i <= LookBack,
         NEW due, OccupationInv(due, i - 1), due.bars = {}
  PROVE  WalkInv(Idle, Due(i, due), i) /\ Due(i, due).bars = {}
<1>1. i \notin Signals
  BY SetupAssumption DEF Signals, Side
<1>2. Due(i, due) = due /\ OccupationInv(due, i)
  BY <1>1, FreeBar
<1>3. Reports(<<>>, ClosedBy({}, i))
  BY NoTrades
<1>4. Idle \in Walks /\ Idle.signal = 0 /\ Idle.entered = 0 /\ Idle.trades = <<>>
  BY IdleType DEF Idle
<1> QED BY <1>2, <1>3, <1>4 DEF WalkInv

LEMMA BarStep ==
  ASSUME Last \in Nat, NEW i \in 1..Last, NEW walk, NEW due, WalkInv(walk, due, i - 1)
  PROVE  WalkInv(Bar(i, walk), Due(i, due), i)
<1>1. walk.entered \in Int /\ walk.signal \in Int
  BY DEF WalkInv, Walks
<1>2. CASE walk.entered # 0
  <2>1. Bar(i, walk) = IF Ends(walk.signal, i)
                       THEN [Idle EXCEPT !.trades =
                               Append(walk.trades, Trade(walk.signal, walk.entered, i))]
                       ELSE walk
    BY <1>2 DEF Bar, Ends
  <2> QED BY <1>2, <2>1, PositionStep
<1>3. CASE walk.entered = 0 /\ (walk.signal = 0 \/ i - walk.signal > Expiry)
  BY <1>3, PlaceStep DEF Bar
<1>4. CASE walk.entered = 0 /\ walk.signal # 0 /\ ~(i - walk.signal > Expiry)
  <2>1. Bar(i, walk) = IF Triggers(walk.signal, i) THEN [walk EXCEPT !.entered = i] ELSE walk
    BY <1>4 DEF Bar
  <2> QED BY <1>4, <2>1, PendingStep
<1> QED BY <1>2, <1>3, <1>4

LEMMA WalkIsDue ==
  ASSUME Last \in Nat
  PROVE  \E due : WalkInv(Walk, due, Last) /\ Placed = due.bars
<1>1. PICK at : WalksTo(at, Last) /\ Walk = at[Last]
  BY WalkBars
<1>2. PICK upto : DueTo(upto, Last) /\ Placed = upto[Last].bars
  BY PlacedBars
<1>3. LookBack \in Nat \ {0}
  BY SetupAssumption
<1> DEFINE Together(i) ==
             /\ WalkInv(at[i], upto[i], i)
             /\ i <= LookBack => at[i] = Idle /\ upto[i].bars = {}
           last == Last
           P == {n \in Nat : n <= last => Together(n)}
<1>4. 0 \in P
  <2>1. at[0] = Idle /\ upto[0] = NoOrder
    BY <1>1, <1>2, <1>3 DEF WalksTo, DueTo
  <2>2. OccupationInv(NoOrder, 0)
    BY DEF OccupationInv, Occupations, NoOrder
  <2>3. Reports(<<>>, ClosedBy({}, 0))
    BY NoTrades
  <2>4. /\ Idle \in Walks /\ Idle.signal = 0 /\ Idle.entered = 0 /\ Idle.trades = <<>>
        /\ NoOrder.bars = {}
    BY IdleType DEF Idle, NoOrder
  <2>5. WalkInv(Idle, NoOrder, 0)
    BY <2>2, <2>3, <2>4 DEF WalkInv
  <2> QED BY <2>1, <2>4, <2>5
<1>5. ASSUME NEW n \in Nat, n \in P PROVE n + 1 \in P
  <2> DEFINE i == n + 1
  <2> SUFFICES ASSUME i <= last PROVE Together(i)
    OBVIOUS
  <2>1. i \in 1..Last /\ i - 1 = n /\ i \in 0..Last /\ i # 0
    OBVIOUS
  <2>2. Together(n)
    <3> HIDE DEF Together
    <3> QED BY <1>5
  <2>3. /\ at[i] = IF i <= LookBack THEN Idle ELSE Bar(i, at[n])
        /\ upto[i] = Due(i, upto[n])
    BY <1>1, <1>2, <2>1 DEF WalksTo, DueTo
  <2>4. WalkInv(at[n], upto[n], i - 1)
    BY <2>1, <2>2
  <2> HIDE DEF i
  <2>5. CASE i <= LookBack
    <3>1. upto[n].bars = {} /\ OccupationInv(upto[n], i - 1)
      BY <1>3, <2>1, <2>2, <2>4, <2>5 DEF WalkInv
    <3>2. WalkInv(Idle, Due(i, upto[n]), i) /\ Due(i, upto[n]).bars = {}
      BY <2>1, <2>5, <3>1, QuietStep
    <3> QED BY <2>3, <2>5, <3>2
  <2>6. CASE ~(i <= LookBack)
    <3>1. WalkInv(Bar(i, at[n]), Due(i, upto[n]), i)
      BY <2>1, <2>4, BarStep
    <3> QED BY <2>3, <2>6, <3>1
  <2> QED BY <2>5, <2>6
<1>6. Nat \subseteq P
  <2> HIDE DEF P
  <2> QED BY <1>4, <1>5, Induction
<1>7. WalkInv(at[Last], upto[Last], Last)
  <2> HIDE DEF WalkInv
  <2>1. last \in P
    <3> HIDE DEF P
    <3> QED BY <1>6
  <2> QED BY <2>1
<1> QED BY <1>1, <1>2, <1>7

(* The backtest misses and invents nothing: run_backtest makes exactly the *)
(* trades that are due, whatever the candles, the hours and the settings.  *)
THEOREM TradesAreDueCorrect == Spec => []TradesAreDue
<1>1. FramesInv => TradesAreDue
  <2> SUFFICES ASSUME FramesInv PROVE TradesAreDue
    OBVIOUS
  <2>1. Last \in Nat
    BY DEF FramesInv, Last
  <2>2. PICK due : WalkInv(Walk, due, Last) /\ Placed = due.bars
    BY <2>1, WalkIsDue
  <2> DEFINE entered == {s \in Placed : Entries(s) # {}}
             closed == {s \in entered : Exits(s) # {}}
  <2>3. Placed \subseteq 1..Last
    BY <2>2 DEF WalkInv, OccupationInv, Occupations
  <2>4. \A s \in Placed : Entries(s) # {} /\ Exits(s) # {} => Min(Exits(s)) <= Last
    BY <2>1, <2>3, ExitBars
  <2>5. closed = ClosedBy(due.bars, Last)
    BY <2>2, <2>4 DEF ClosedBy
  <2>6. Reports(Walk.trades, closed)
    BY <2>2, <2>5 DEF WalkInv
  <2>7. ASSUME NEW s \in 1..Last, s \in entered \ closed
        PROVE  Walk.signal = s /\ Walk.entered # 0 /\ Walk.entered = Min(Entries(s))
    <3>1. s \in due.bars /\ Entries(s) # {} /\ Exits(s) = {}
      BY <2>2, <2>7
    <3>2. Walk.signal = s
      BY <2>2, <3>1 DEF WalkInv, IsOver
    <3>3. ~Pends(s, Last)
      <4>1. Min(Entries(s)) \in (s + 1)..Last
        BY <2>1, <3>1, EntryBars
      <4> QED BY <2>1, <3>1, <4>1, PendsIsBusy
    <3> QED BY <2>1, <2>2, <3>2, <3>3 DEF WalkInv, Holds
  <2>8. ASSUME NEW s \in 1..Last, Walk.signal = s, Walk.entered # 0
        PROVE  s \in entered \ closed
    <3>1. s \in Placed /\ Holds(s, Walk.entered, Last)
      BY <2>2, <2>8 DEF WalkInv
    <3>2. \A k : k \notin Exits(s)
      BY <2>1, <3>1, ExitBars DEF Holds
    <3> QED BY <3>1, <3>2 DEF Holds
  <2>9. /\ {Walk.trades[k] : k \in 1..Len(Walk.trades)}
             = {Trade(s, Min(Entries(s)), Min(Exits(s))) : s \in closed}
        /\ Len(Walk.trades) = Cardinality(closed)
    BY <2>6 DEF Reports, DueTrade
  <2> HIDE DEF entered, closed
  <2>10. \A s \in 1..Last :
           s \in entered \ closed <=>
             Walk.signal = s /\ Walk.entered # 0 /\ Walk.entered = Min(Entries(s))
    BY <2>7, <2>8
  <2> QED BY <2>9, <2>10 DEF TradesAreDue, entered, closed
<1>2. FramesInv /\ [Next]_<<m5, hours>> => FramesInv'
  BY FramesStep
<1> QED BY FramesInit, <1>1, <1>2, PTL DEF Spec
===========================================================================
