------------------------- MODULE OrderBlocksProofs -------------------------
(***************************************************************************)
(* What the scan of an order block finds, and what of it stays when the    *)
(* frame slides: for frames, candles and parameters of any size.           *)
(*                                                                         *)
(* The scan goes along the bars.  What it computes follows by induction,   *)
(* which is stated here for sets of numbers and for functions, from the    *)
(* well-foundedness of <.                                                  *)
(***************************************************************************)
EXTENDS OrderBlocks, WellFoundedInduction, TLAPS

(* A set of numbers has a least element, and so there is induction.        *)
LEMMA LeastElement ==
  ASSUME NEW T \in SUBSET Nat, T # {}
  PROVE  \E x \in T : \A y \in T : x <= y
<1> DEFINE R == {ss \in Nat \X Nat : ss[1] < ss[2]}
<1>1. \E x \in T : \A y \in T : <<y, x>> \notin R
  <2>1. IsWellFoundedOn(R, Nat)
    BY NatLessThanWellFounded, Zenon DEF OpToRel
  <2> HIDE DEF R
  <2> QED BY <2>1, WFMin, Zenon
<1>2. \A x, y \in Nat : <<y, x>> \notin R => x <= y
  OBVIOUS
<1> QED BY <1>1, <1>2

LEMMA Induction ==
  ASSUME NEW P, 0 \in P, \A n \in Nat : n \in P => n + 1 \in P
  PROVE  Nat \subseteq P
<1> SUFFICES ASSUME Nat \ P # {} PROVE FALSE OBVIOUS
<1>1. PICK n \in Nat \ P : \A k \in Nat \ P : n <= k
  BY LeastElement
<1>2. n - 1 \in Nat /\ n - 1 \in P
  BY <1>1
<1> QED BY <1>1, <1>2

(* A function that is given by its first value and by a step exists.       *)
Follows(g, a, b, init, step) ==
  \A i \in a..b : g[i] = IF i = a THEN init ELSE step[<<i, g[i - 1]>>]

LEMMA Recursion ==
  ASSUME NEW a \in Int, NEW b \in Int, NEW S, NEW init \in S, NEW step \in [Int \X S -> S]
  PROVE  \E g \in [a..b -> S] : Follows(g, a, b, init, step)
<1> USE DEF Follows
<1> DEFINE Good(g, n) == Follows(g, a, a + n, init, step)
    P == {n \in Nat : \E g \in [a..(a + n) -> S] : Good(g, n)}
<1>1. 0 \in P
  <2> DEFINE g == [i \in a..(a + 0) |-> init]
  <2>1. g \in [a..(a + 0) -> S] /\ Good(g, 0) OBVIOUS
  <2> QED BY <2>1
<1>2. ASSUME NEW n \in Nat, n \in P PROVE n + 1 \in P
  <2>1. PICK g \in [a..(a + n) -> S] : Good(g, n) BY <1>2
  <2> DEFINE e == a + (n + 1)
    h == [i \in a..e |-> IF i = e THEN step[<<i, g[i - 1]>>] ELSE g[i]]
  <2>2. h \in [a..e -> S]
    <3>1. g[e - 1] \in S OBVIOUS
    <3>2. step[<<e, g[e - 1]>>] \in S BY <3>1
    <3>3. \A i \in a..e : i # e => g[i] \in S OBVIOUS
    <3> QED BY <3>2, <3>3
  <2>3. Good(h, n + 1)
    <3> SUFFICES ASSUME NEW i \in a..e
                 PROVE h[i] = IF i = a THEN init ELSE step[<<i, h[i - 1]>>]
      OBVIOUS
    <3>1. CASE i = e
      <4>1. h[i] = step[<<i, g[i - 1]>>] /\ i # a BY <3>1
      <4>2. h[i - 1] = g[i - 1] BY <3>1
      <4> QED BY <4>1, <4>2
    <3>2. CASE i # e
      <4>1. i \in a..(a + n) /\ h[i] = g[i] BY <3>2
      <4>2. i # a => h[i - 1] = g[i - 1] BY <3>2
      <4> QED BY <2>1, <4>1, <4>2
    <3> QED BY <3>1, <3>2
  <2> HIDE DEF h, Good
  <2> QED BY <2>2, <2>3
<1>3. Nat \subseteq P
  <2> HIDE DEF P
  <2> QED BY <1>1, <1>2, Induction
<1>4. CASE a <= b
  <2>1. b - a \in P
    <3> HIDE DEF P
    <3> QED BY <1>3, <1>4
  <2>2. a + (b - a) = b OBVIOUS
  <2> QED BY <2>1, <2>2
<1>5. CASE b < a
  <2> DEFINE g == [i \in a..b |-> init]
  <2>1. g \in [a..b -> S] OBVIOUS
  <2>2. a..b = {} BY <1>5
  <2> QED BY <2>1, <2>2
<1> QED BY <1>4, <1>5

---------------------------------------------------------------------------
(* The scan of a block.                                                    *)

Stages == {"waiting", "left", "signal", "over"}

ScansTo(at, b, last) ==
  \A i \in b.bar..last :
    at[i] = IF i = b.bar THEN "waiting" ELSE Advance(b, i, at[i - 1])

(* The scan goes through the bars of the block's lifetime one by one.      *)
LEMMA ScanBars ==
  ASSUME NEW b, b.bar \in Int, LastScanned(b) \in Int
  PROVE  \E at :
           /\ ScansTo(at, b, LastScanned(b))
           /\ Scan(b) = {i \in b.bar..LastScanned(b) : at[i] = "signal"}
<1> DEFINE first == b.bar
           last == LastScanned(b)
           init == "waiting"
           step == [p \in Int \X Stages |-> Advance(b, p[1], p[2])]
           at[i \in first..last] == IF i = first THEN init ELSE Advance(b, i, at[i - 1])
<1>1. init \in Stages /\ step \in [Int \X Stages -> Stages]
  BY DEF Advance, Stages
<1>2. first \in Int /\ last \in Int
  OBVIOUS
<1>3. PICK g \in [first..last -> Stages] : Follows(g, first, last, init, step)
  <2> HIDE DEF first, last, init, step
  <2> QED BY <1>1, <1>2, Recursion
<1>4. g = [i \in first..last |-> IF i = first THEN init ELSE Advance(b, i, g[i - 1])]
  <2>1. \A i \in first..last : i # first => step[<<i, g[i - 1]>>] = Advance(b, i, g[i - 1])
    BY <1>2
  <2> HIDE DEF first, last, init, step
  <2> QED BY <1>3, <2>1 DEF Follows
<1>5. at = [i \in first..last |-> IF i = first THEN init ELSE Advance(b, i, at[i - 1])]
  <2> HIDE DEF first, last, init
  <2> QED BY <1>4, Zenon DEF at
<1>6. Scan(b) = {i \in first..last : at[i] = "signal"}
  BY Zenon DEF Scan
<1>7. \A i \in first..last : at[i] = IF i = first THEN init ELSE Advance(b, i, at[i - 1])
  <2> HIDE DEF at, first, last, init
  <2> QED BY <1>5
<1> HIDE DEF at
<1> QED BY <1>6, <1>7 DEF ScansTo

(* Up to bar i, price has not left the block; or it has, and was neither   *)
(* rejected nor closed through the block since.                            *)
Waits(b, i) == \A k \in (b.bar + 1)..i : ~Leaves(b, k)
Rests(b, k) == ~Breaks(b, k) /\ ~(Retests(b, k) /\ Rejects(b, k))
HasLeft(b, i) ==
  \E j \in (b.bar + 1)..i :
     Leaves(b, j) /\ Waits(b, j - 1) /\ \A k \in (j + 1)..i : Rests(b, k)

LEMMA WaitsStep ==
  ASSUME NEW b, b.bar \in Int, NEW i \in Int, i > b.bar
  PROVE  Waits(b, i) <=> Waits(b, i - 1) /\ ~Leaves(b, i)
BY DEF Waits

LEMMA HasLeftStep ==
  ASSUME NEW b, b.bar \in Int, NEW i \in Int, i > b.bar
  PROVE  HasLeft(b, i) <=> \/ Waits(b, i - 1) /\ Leaves(b, i)
                           \/ HasLeft(b, i - 1) /\ Rests(b, i)
<1>1. ASSUME HasLeft(b, i)
      PROVE  \/ Waits(b, i - 1) /\ Leaves(b, i)
             \/ HasLeft(b, i - 1) /\ Rests(b, i)
  <2>1. PICK j \in (b.bar + 1)..i :
          Leaves(b, j) /\ Waits(b, j - 1) /\ \A k \in (j + 1)..i : Rests(b, k)
    BY <1>1 DEF HasLeft
  <2>2. CASE j = i
    BY <2>1, <2>2
  <2>3. CASE j < i
    <3>1. Rests(b, i) /\ j \in (b.bar + 1)..(i - 1)
      BY <2>1, <2>3
    <3>2. \A k \in (j + 1)..(i - 1) : Rests(b, k)
      BY <2>1
    <3> QED BY <2>1, <3>1, <3>2 DEF HasLeft
  <2> QED BY <2>2, <2>3
<1>2. ASSUME Waits(b, i - 1), Leaves(b, i) PROVE HasLeft(b, i)
  BY <1>2 DEF HasLeft
<1>3. ASSUME HasLeft(b, i - 1), Rests(b, i) PROVE HasLeft(b, i)
  <2>1. PICK j \in (b.bar + 1)..(i - 1) :
          Leaves(b, j) /\ Waits(b, j - 1) /\ \A k \in (j + 1)..(i - 1) : Rests(b, k)
    BY <1>3 DEF HasLeft
  <2>2. \A k \in (j + 1)..i : Rests(b, k)
    BY <1>3, <2>1
  <2> QED BY <2>1, <2>2 DEF HasLeft
<1> QED BY <1>1, <1>2, <1>3

(* What the scan remembers of the bars before is just that.                *)
LEMMA StageMeans ==
  ASSUME NEW b, b.bar \in Int, NEW last \in Int, NEW at,
         ScansTo(at, b, last)
  PROVE  \A i \in b.bar..last :
           /\ at[i] = "waiting" <=> Waits(b, i)
           /\ at[i] = "left" <=> HasLeft(b, i)
<1> DEFINE Means(i) ==
             /\ at[i] = "waiting" <=> Waits(b, i)
             /\ at[i] = "left" <=> HasLeft(b, i)
           P == {n \in Nat : b.bar + n <= last => Means(b.bar + n)}
<1>1. 0 \in P
  <2>1. Waits(b, b.bar) /\ ~HasLeft(b, b.bar)
    BY DEF Waits, HasLeft
  <2>2. b.bar <= last => at[b.bar] = "waiting"
    BY DEF ScansTo
  <2>3. b.bar + 0 = b.bar
    OBVIOUS
  <2> HIDE DEF Means
  <2>4. b.bar <= last => Means(b.bar)
    <3> SUFFICES ASSUME b.bar <= last PROVE Means(b.bar)
      OBVIOUS
    <3>1. at[b.bar] = "waiting"
      BY <2>2
    <3> QED BY <2>1, <3>1 DEF Means
  <2> QED BY <2>3, <2>4
<1>2. ASSUME NEW n \in Nat, n \in P PROVE n + 1 \in P
  <2> DEFINE i == b.bar + (n + 1)
  <2> SUFFICES ASSUME i <= last PROVE Means(i)
    OBVIOUS
  <2>1. i - 1 = b.bar + n /\ i > b.bar /\ i \in b.bar..last
    OBVIOUS
  <2>2. Means(i - 1)
    BY <1>2, <2>1
  <2>3. at[i] = Advance(b, i, at[i - 1])
    BY <2>1 DEF ScansTo
  <2> HIDE DEF i
  <2>4. /\ Waits(b, i) <=> Waits(b, i - 1) /\ ~Leaves(b, i)
        /\ HasLeft(b, i) <=> \/ Waits(b, i - 1) /\ Leaves(b, i)
                             \/ HasLeft(b, i - 1) /\ Rests(b, i)
    BY <2>1, WaitsStep, HasLeftStep
  <2> QED BY <2>2, <2>3, <2>4 DEF Advance, Rests
<1>3. Nat \subseteq P
  <2> HIDE DEF P
  <2> QED BY <1>1, <1>2, Induction
<1> SUFFICES ASSUME NEW i \in b.bar..last PROVE Means(i)
  OBVIOUS
<1>4. i - b.bar \in P /\ b.bar + (i - b.bar) = i
  <2> HIDE DEF P
  <2> QED BY <1>3
<1> QED BY <1>4

LEMMA Smallest ==
  ASSUME NEW x \in Int, NEW y \in Int
  PROVE  Min({x, y}) = IF x <= y THEN x ELSE y
BY DEF Min

FrameOK == frame \in Seq(Candles) /\ Len(frame) <= Size

AnySpan == [side: Sides, from: Int, to: Int]
AllBlocks == [bar: Int, side: Sides, run: AnySpan]
ScanMeans ==
  \A b \in AllBlocks, i \in Int :
    i \in Scan(b) <=>
      Retested(b, i) /\ IsWide(b) /\ i < Len(frame) /\ i < b.bar + ExpiryBars

LEMMA ScanCorrect == FrameOK => ScanMeans
<1> SUFFICES ASSUME FrameOK, NEW b \in AllBlocks, NEW i \in Int
             PROVE  i \in Scan(b) <=>
                      /\ Retested(b, i) /\ IsWide(b)
                      /\ i < Len(frame) /\ i < b.bar + ExpiryBars
  BY DEF ScanMeans
<1>1. b.bar \in Int /\ Len(frame) \in Nat /\ ExpiryBars \in Nat \ {0}
  BY SizeAssumption DEF FrameOK, AllBlocks
<1>2. LastScanned(b) = IF b.bar + ExpiryBars - 1 <= Len(frame) - 1
                       THEN b.bar + ExpiryBars - 1 ELSE Len(frame) - 1
  BY <1>1, Smallest DEF LastScanned
<1>3. PICK at :
        /\ ScansTo(at, b, LastScanned(b))
        /\ Scan(b) = {k \in b.bar..LastScanned(b) : at[k] = "signal"}
  BY <1>1, <1>2, ScanBars
<1>4. \A k \in b.bar..LastScanned(b) :
        /\ at[k] = "waiting" <=> Waits(b, k)
        /\ at[k] = "left" <=> HasLeft(b, k)
  <2>1. LastScanned(b) \in Int
    BY <1>1, <1>2
  <2> QED BY <1>1, <1>3, <2>1, StageMeans
<1>5. Retested(b, i) <=> HasLeft(b, i - 1) /\ Retests(b, i) /\ Rejects(b, i)
  BY <1>1 DEF Retested, HasLeft, Waits, Rests
<1>6. HasLeft(b, i - 1) => i > b.bar
  BY <1>1 DEF HasLeft
<1>7. ASSUME i \in b.bar..LastScanned(b), i > b.bar
      PROVE  at[i] = "signal" <=>
               HasLeft(b, i - 1) /\ Retests(b, i) /\ Rejects(b, i) /\ IsWide(b)
  <2>1. at[i] = Advance(b, i, at[i - 1]) /\ (at[i - 1] = "left" <=> HasLeft(b, i - 1))
    BY <1>1, <1>2, <1>3, <1>4, <1>7 DEF ScansTo
  <2> QED BY <2>1 DEF Advance, Retests
<1>8. b.bar \notin Scan(b)
  BY <1>1, <1>2, <1>3 DEF ScansTo
<1>9. i \in b.bar..LastScanned(b) <=>
        b.bar <= i /\ i < Len(frame) /\ i < b.bar + ExpiryBars
  BY <1>1, <1>2
<1> QED BY <1>1, <1>3, <1>5, <1>6, <1>7, <1>8, <1>9

---------------------------------------------------------------------------
(* The frame, and its blocks.                                              *)

LEMMA FrameInit == Init => FrameOK
BY SizeAssumption DEF Init, FrameOK

LEMMA FrameStep == FrameOK /\ [Next]_frame => FrameOK'
<1> SUFFICES ASSUME FrameOK, [Next]_frame PROVE FrameOK'
  OBVIOUS
<1>1. CASE UNCHANGED frame
  BY <1>1 DEF FrameOK
<1>2. ASSUME NEW c \in Candles, NextCandle(c) PROVE FrameOK'
  <2> DEFINE kept == IF Len(frame) < Size THEN frame ELSE Tail(frame)
  <2>1. Len(frame) >= Size => frame # <<>>
    BY SizeAssumption DEF FrameOK
  <2>2. kept \in Seq(Candles) /\ Len(kept) < Size
    BY <2>1, SizeAssumption DEF FrameOK
  <2>3. frame' = Append(kept, c)
    BY <1>2 DEF NextCandle
  <2>4. Append(kept, c) \in Seq(Candles) /\ Len(Append(kept, c)) = Len(kept) + 1
    <3> HIDE DEF kept
    <3> QED BY <2>2
  <2> HIDE DEF kept
  <2> QED BY <2>2, <2>3, <2>4, SizeAssumption DEF FrameOK
<1> QED BY <1>1, <1>2 DEF Next

LEMMA FrameHolds == Spec => []FrameOK
BY FrameInit, FrameStep, PTL DEF Spec

(* A set of bars has a last one.                                          *)
LEMMA LargestBar ==
  ASSUME NEW S, NEW n \in Nat, S \subseteq 1..n, S # {}
  PROVE  Max(S) \in S /\ \A y \in S : y <= Max(S)
<1> DEFINE T == {k \in Nat : n - k \in S}
<1>1. T # {} /\ T \in SUBSET Nat
  <2>1. PICK x \in S : TRUE
    OBVIOUS
  <2>2. n - x \in Nat /\ n - (n - x) = x
    BY <2>1
  <2> QED BY <2>1, <2>2
<1>2. PICK k \in T : \A l \in T : k <= l
  <2> HIDE DEF T
  <2> QED BY <1>1, LeastElement
<1>3. \A y \in S : n - y \in T
  <2> TAKE y \in S
  <2>1. n - y \in Nat /\ n - (n - y) = y
    OBVIOUS
  <2> QED BY <2>1
<1>4. n - k \in S /\ \A y \in S : n - k >= y
  BY <1>2, <1>3
<1> QED BY <1>4 DEF Max

LEMMA BlockTypes == FrameOK => Blocks \subseteq AllBlocks
<1> SUFFICES ASSUME FrameOK, NEW b \in Blocks PROVE b \in AllBlocks
  OBVIOUS
<1>1. PICK d \in Displacements :
        Opposite(d) # {} /\ b = [bar |-> Max(Opposite(d)), side |-> d.side, run |-> d]
  BY DEF Blocks
<1>2. Len(frame) \in Nat /\ Opposite(d) \subseteq 1..Len(frame)
  BY DEF FrameOK, Opposite, Bars
<1>3. Max(Opposite(d)) \in Int
  BY <1>1, <1>2, LargestBar
<1>4. d.side \in Sides /\ d \in AnySpan
  BY <1>2 DEF Displacements, Spans, Bars, AnySpan
<1> QED BY <1>1, <1>3, <1>4 DEF AllBlocks

(* A signal is the first rejected retest of its block: list_ob_signals     *)
(* finds every one of them in the lifetime of a block, the last candle     *)
(* apart, and no other, in any frame of any candles.                       *)
THEOREM SignalsAreRetestsCorrect == Spec => []SignalsAreRetests
<1>1. FrameOK => SignalsAreRetests
  <2> SUFFICES ASSUME FrameOK PROVE SignalsAreRetests
    OBVIOUS
  <2>1. Len(frame) \in Nat
    BY DEF FrameOK
  <2> QED BY <2>1, BlockTypes, ScanCorrect DEF ScanMeans, SignalsAreRetests, Bars
<1> QED BY <1>1, FrameHolds, PTL

---------------------------------------------------------------------------
(* What a step of the frame moves.                                         *)

(* A candle is added at the end, and s candles leave at the front.         *)
Slides(s) ==
  /\ s \in {0, 1} /\ Len(frame) \in Nat /\ s <= Len(frame)
  /\ Len(frame)' = Len(frame) + 1 - s
  /\ \A i \in (s + 1)..Len(frame) : frame'[i - s] = frame[i]

LEMMA FrameSlides == FrameOK /\ Next => \E s \in {0, 1} : s = Slid /\ Slides(s)
<1> SUFFICES ASSUME FrameOK, NEW c \in Candles, NextCandle(c)
             PROVE  Slid \in {0, 1} /\ \A s \in {0, 1} : s = Slid => Slides(s)
  BY DEF Next
<1>1. Len(frame) \in Nat /\ Size \in Nat \ {0} /\ Len(frame) <= Size
  BY SizeAssumption DEF FrameOK
<1>2. CASE Len(frame) < Size
  <2>1. frame' = Append(frame, c) /\ Slid = 0
    BY <1>1, <1>2 DEF NextCandle, Slid
  <2>2. \A i \in 1..Len(frame) : frame'[i] = frame[i]
    BY <2>1 DEF FrameOK
  <2>3. Len(frame') = Len(frame) + 1
    BY <2>1 DEF FrameOK
  <2>4. Slides(0)
    <3>1. \A i \in (0 + 1)..Len(frame) : frame'[i - 0] = frame[i]
      BY <1>1, <2>2
    <3> QED BY <1>1, <2>3, <3>1 DEF Slides
  <2> QED BY <2>1, <2>4
<1>3. CASE Len(frame) = Size
  <2>1. frame' = Append(Tail(frame), c) /\ Slid = 1
    BY <1>1, <1>3 DEF NextCandle, Slid
  <2>2. frame # <<>>
    BY <1>1, <1>3
  <2>3. /\ Tail(frame) \in Seq(Candles) /\ Len(Tail(frame)) = Len(frame) - 1
        /\ \A i \in 1..(Len(frame) - 1) : Tail(frame)[i] = frame[i + 1]
    BY <2>2 DEF FrameOK
  <2>4. Len(frame') = Len(frame)
    BY <1>1, <2>1, <2>3
  <2>5. \A i \in 2..Len(frame) : frame'[i - 1] = frame[i]
    <3> SUFFICES ASSUME NEW i \in 2..Len(frame) PROVE frame'[i - 1] = frame[i]
      OBVIOUS
    <3> DEFINE k == i - 1
    <3>1. k \in 1..(Len(frame) - 1) /\ k + 1 = i
      BY <1>1
    <3> HIDE DEF k
    <3>2. Append(Tail(frame), c)[k] = Tail(frame)[k]
      BY <2>3, <3>1
    <3>3. frame'[k] = frame[i]
      BY <2>1, <2>3, <3>1, <3>2
    <3> QED BY <3>3 DEF k
  <2>6. Slides(1)
    BY <1>1, <1>3, <2>4, <2>5 DEF Slides
  <2> QED BY <2>1, <2>6
<1> QED BY <1>1, <1>2, <1>3

(* Where a displacement and a block are in the next frame.                 *)
Back(d, s) == [side |-> d.side, from |-> d.from - s, to |-> d.to - s]
BackBlock(b, s) == [bar |-> b.bar - s, side |-> b.side, run |-> Back(b.run, s)]

(* What holds of a frame holds of the next one.                            *)
LEMMA NextScan == FrameOK' => ScanMeans'
<1>1. (FrameOK => ScanMeans)'
  BY ScanCorrect, PTL
<1> QED BY <1>1

(* A frame that grows has the ATRs it had, and a displacement its          *)
(* strength.  One that loses its first candle has others.                  *)
LEMMA StrongStays ==
  ASSUME Slides(0), NEW d \in AnySpan, 1 <= d.from, d.from <= d.to, d.to <= Len(frame)
  PROVE  IsStrong(d) <=> IsStrong(d)'
<1>1. d.from \in 1..Len(frame) /\ d.to \in 1..Len(frame)
  BY DEF AnySpan, Slides
<1>2. \A i \in 1..Len(frame) : frame'[i] = frame[i]
  <2>1. \A i \in (0 + 1)..Len(frame) : frame'[i - 0] = frame[i]
    BY DEF Slides
  <2>2. \A i \in 1..Len(frame) : i \in (0 + 1)..Len(frame) /\ i - 0 = i
    OBVIOUS
  <2> QED BY <2>1, <2>2
<1>3. ASSUME NEW i \in 2..d.to PROVE TrueRange(i)' = TrueRange(i)
  <2>1. i \in 1..Len(frame) /\ i - 1 \in 1..Len(frame)
    BY <1>1 DEF Slides
  <2>2. frame'[i] = frame[i] /\ frame'[i - 1] = frame[i - 1]
    BY <1>2, <2>1
  <2> QED BY <2>2 DEF TrueRange
<1>4. [i \in 2..d.to |-> TrueRange(i)] = [i \in 2..d.to |-> TrueRange(i)']
  BY <1>3
<1>5. frame'[d.to] = frame[d.to] /\ frame'[d.from] = frame[d.from]
  BY <1>1, <1>2
<1> QED BY <1>4, <1>5 DEF IsStrong

(* What the scan asks of a block and a candle is what it was, wherever     *)
(* they are.                                                               *)
LEMMA CandleMoves ==
  ASSUME NEW s \in {0, 1}, Slides(s),
         NEW b \in AllBlocks, b.bar \in (s + 1)..Len(frame)
  PROVE  /\ IsWide(b) <=> IsWide(BackBlock(b, s))'
         /\ \A k \in (s + 1)..Len(frame) :
              /\ Leaves(b, k) <=> Leaves(BackBlock(b, s), k - s)'
              /\ Breaks(b, k) <=> Breaks(BackBlock(b, s), k - s)'
              /\ Retests(b, k) <=> Retests(BackBlock(b, s), k - s)'
              /\ Rejects(b, k) <=> Rejects(BackBlock(b, s), k - s)'
<1> DEFINE c == BackBlock(b, s)
<1>1. c.bar = b.bar - s /\ c.side = b.side
  BY DEF BackBlock
<1>2. \A k \in (s + 1)..Len(frame) : frame'[k - s] = frame[k]
  BY DEF Slides
<1>3. Entry(b) = Entry(c)' /\ Stop(b) = Stop(c)'
  BY <1>1, <1>2 DEF Entry, Stop, Low, High
<1> HIDE DEF c
<1>4. IsWide(b) <=> IsWide(c)'
  BY <1>1, <1>3 DEF IsWide
<1>5. ASSUME NEW k \in (s + 1)..Len(frame)
      PROVE  /\ Leaves(b, k) <=> Leaves(c, k - s)'
             /\ Breaks(b, k) <=> Breaks(c, k - s)'
             /\ Retests(b, k) <=> Retests(c, k - s)'
             /\ Rejects(b, k) <=> Rejects(c, k - s)'
  <2>1. frame'[k - s] = frame[k]
    BY <1>2
  <2>2. Leaves(b, k) <=> Leaves(c, k - s)'
    BY <1>1, <1>3, <2>1 DEF Leaves, Beyond
  <2>3. Breaks(b, k) <=> Breaks(c, k - s)'
    BY <1>1, <1>3, <2>1 DEF Breaks, Beyond
  <2>4. Retests(b, k) <=> Retests(c, k - s)'
    BY <1>1, <1>3, <2>1, <2>3 DEF Retests, Beyond, Low, High
  <2>5. Rejects(b, k) <=> Rejects(c, k - s)'
    BY <1>1, <2>1 DEF Rejects, Low, High
  <2> QED BY <2>2, <2>3, <2>4, <2>5
<1> QED BY <1>4, <1>5 DEF c

(* A retest stays one, and becomes none, when the frame slides.            *)
LEMMA RetestMoves ==
  ASSUME NEW s \in {0, 1}, Slides(s),
         NEW b \in AllBlocks, b.bar \in (s + 1)..Len(frame),
         NEW i \in (s + 1)..Len(frame)
  PROVE  Retested(b, i) <=> Retested(BackBlock(b, s), i - s)'
<1> DEFINE c == BackBlock(b, s)
<1>1. b.bar \in Int /\ c.bar = b.bar - s /\ Len(frame) \in Nat
  BY DEF BackBlock, AllBlocks, Slides
<1>2. \A k \in (s + 1)..Len(frame) :
        /\ Leaves(b, k) <=> Leaves(c, k - s)'
        /\ Breaks(b, k) <=> Breaks(c, k - s)'
        /\ Retests(b, k) <=> Retests(c, k - s)'
        /\ Rejects(b, k) <=> Rejects(c, k - s)'
  BY CandleMoves
<1> HIDE DEF c
<1>3. \A k \in 1..(Len(frame) - s) :
        /\ Leaves(c, k)' <=> Leaves(b, k + s)
        /\ Breaks(c, k)' <=> Breaks(b, k + s)
        /\ Retests(c, k)' <=> Retests(b, k + s)
        /\ Rejects(c, k)' <=> Rejects(b, k + s)
  <2> TAKE k \in 1..(Len(frame) - s)
  <2>1. k + s \in (s + 1)..Len(frame) /\ (k + s) - s = k
    BY <1>1
  <2> QED BY <1>2, <2>1
<1>4. ASSUME Retested(b, i) PROVE Retested(c, i - s)'
  <2>1. PICK j \in (b.bar + 1)..(i - 1) :
          /\ Leaves(b, j) /\ \A k \in (b.bar + 1)..(j - 1) : ~Leaves(b, k)
          /\ Retests(b, i) /\ Rejects(b, i)
          /\ \A k \in (j + 1)..(i - 1) : ~Breaks(b, k) /\ ~(Retests(b, k) /\ Rejects(b, k))
    BY <1>4 DEF Retested
  <2>2. j \in (s + 1)..Len(frame) /\ j - s \in (c.bar + 1)..((i - s) - 1)
    BY <1>1
  <2>3. Leaves(c, j - s)' /\ Retests(c, i - s)' /\ Rejects(c, i - s)'
    BY <1>2, <2>1, <2>2
  <2>4. ASSUME NEW k \in (c.bar + 1)..((j - s) - 1) PROVE ~Leaves(c, k)'
    <3>1. k \in 1..(Len(frame) - s) /\ k + s \in (b.bar + 1)..(j - 1)
      BY <1>1, <2>2
    <3> QED BY <1>3, <2>1, <3>1
  <2>5. ASSUME NEW k \in ((j - s) + 1)..((i - s) - 1)
        PROVE  ~Breaks(c, k)' /\ ~(Retests(c, k)' /\ Rejects(c, k)')
    <3>1. k \in 1..(Len(frame) - s) /\ k + s \in (j + 1)..(i - 1)
      BY <1>1, <2>2
    <3> QED BY <1>3, <2>1, <3>1
  <2> QED BY <2>2, <2>3, <2>4, <2>5 DEF Retested
<1>5. ASSUME Retested(c, i - s)' PROVE Retested(b, i)
  <2>1. PICK j \in (c.bar + 1)..((i - s) - 1) :
          /\ Leaves(c, j)' /\ \A k \in (c.bar + 1)..(j - 1) : ~Leaves(c, k)'
          /\ Retests(c, i - s)' /\ Rejects(c, i - s)'
          /\ \A k \in (j + 1)..((i - s) - 1) :
               ~Breaks(c, k)' /\ ~(Retests(c, k)' /\ Rejects(c, k)')
    BY <1>5 DEF Retested
  <2>2. j \in 1..(Len(frame) - s) /\ j + s \in (b.bar + 1)..(i - 1)
    BY <1>1
  <2>3. Leaves(b, j + s) /\ Retests(b, i) /\ Rejects(b, i)
    BY <1>2, <1>3, <2>1, <2>2
  <2>4. ASSUME NEW k \in (b.bar + 1)..((j + s) - 1) PROVE ~Leaves(b, k)
    <3>1. k \in (s + 1)..Len(frame) /\ k - s \in (c.bar + 1)..(j - 1)
      BY <1>1, <2>2
    <3> QED BY <1>2, <2>1, <3>1
  <2>5. ASSUME NEW k \in ((j + s) + 1)..(i - 1)
        PROVE  ~Breaks(b, k) /\ ~(Retests(b, k) /\ Rejects(b, k))
    <3>1. k \in (s + 1)..Len(frame) /\ k - s \in (j + 1)..((i - s) - 1)
      BY <1>1, <2>2
    <3> QED BY <1>2, <2>1, <3>1
  <2> QED BY <2>2, <2>3, <2>4, <2>5 DEF Retested
<1> QED BY <1>4, <1>5 DEF c

LEMMA GoesMoves ==
  ASSUME NEW s \in {0, 1}, Slides(s), NEW side \in Sides
  PROVE  \A k \in (s + 1)..Len(frame) : Goes(k, side) <=> Goes(k - s, side)'
<1>1. \A k \in (s + 1)..Len(frame) : frame'[k - s] = frame[k]
  BY DEF Slides
<1> QED BY <1>1 DEF Goes

(* A displacement that had ended goes on being one, and one that starts    *)
(* behind the first candle was one.                                        *)
LEMMA RunMoves ==
  ASSUME NEW s \in {0, 1}, Slides(s),
         NEW d \in AnySpan, s + 1 < d.from, d.from <= d.to, d.to <= Len(frame)
  PROVE  /\ IsRun(d) /\ d.to < Len(frame) => IsRun(Back(d, s))'
         /\ IsRun(Back(d, s))' => IsRun(d)
<1> DEFINE e == Back(d, s)
<1>1. /\ d.side \in Sides /\ d.from \in Int /\ d.to \in Int
      /\ e.side = d.side /\ e.from = d.from - s /\ e.to = d.to - s
  BY DEF AnySpan, Back
<1>2. Len(frame) \in Nat /\ Len(frame') = Len(frame) + 1 - s
  BY DEF Slides
<1> DEFINE f == d.from
           t == d.to
           G(k) == Goes(k, d.side)
           H(k) == Goes(k, e.side)'
<1>3. \A k \in (s + 1)..Len(frame) : G(k) <=> H(k - s)
  BY <1>1, GoesMoves
<1>4. \A k \in 1..(Len(frame) - s) : H(k) <=> G(k + s)
  <2> HIDE DEF G, H
  <2> TAKE k \in 1..(Len(frame) - s)
  <2>1. k + s \in (s + 1)..Len(frame) /\ (k + s) - s = k
    BY <1>2
  <2> QED BY <1>3, <2>1
<1>5. IsRun(d) <=>
        /\ \A k \in f..t : G(k)
        /\ ~G(f - 1)
        /\ t = Len(frame) \/ ~G(t + 1)
  BY <1>1 DEF IsRun
<1>6. IsRun(e)' <=>
        /\ \A k \in (f - s)..(t - s) : H(k)
        /\ ~H((f - 1) - s)
        /\ ~H((t + 1) - s)
  <2>1. ~(e.from = 1) /\ ~(e.to = Len(frame')) /\ e.from <= e.to
    BY <1>1, <1>2
  <2>2. e.from - 1 = (f - 1) - s /\ e.to + 1 = (t + 1) - s
    BY <1>1
  <2> HIDE DEF e
  <2> QED BY <1>1, <2>1, <2>2 DEF IsRun
<1>7. f \in Int /\ t \in Int /\ s + 1 < f /\ f <= t /\ t <= Len(frame)
  BY <1>1
<1> HIDE DEF G, H, f, t
<1>8. G(f - 1) <=> H((f - 1) - s)
  BY <1>2, <1>3, <1>7
<1>9. t < Len(frame) => (G(t + 1) <=> H((t + 1) - s))
  BY <1>2, <1>3, <1>7
<1>10. (\A k \in f..t : G(k)) <=> (\A k \in (f - s)..(t - s) : H(k))
  <2>1. ASSUME \A k \in f..t : G(k), NEW k \in (f - s)..(t - s) PROVE H(k)
    <3>1. k \in 1..(Len(frame) - s) /\ k + s \in f..t
      BY <1>2, <1>7
    <3> QED BY <1>4, <2>1, <3>1
  <2>2. ASSUME \A k \in (f - s)..(t - s) : H(k), NEW k \in f..t PROVE G(k)
    <3>1. k \in (s + 1)..Len(frame) /\ k - s \in (f - s)..(t - s)
      BY <1>2, <1>7
    <3> QED BY <1>3, <2>2, <3>1
  <2> QED BY <2>1, <2>2
<1>11. t = Len(frame) \/ t < Len(frame)
  BY <1>2, <1>7
<1> QED BY <1>2, <1>5, <1>6, <1>8, <1>9, <1>10, <1>11 DEF t

(* The block of a displacement, if it is still in the frame.               *)
LEMMA BlockMoves ==
  ASSUME NEW s \in {0, 1}, Slides(s),
         NEW d \in AnySpan, d.from <= Len(frame),
         \/ Opposite(d) # {} /\ Max(Opposite(d)) > s
         \/ Opposite(Back(d, s))' # {}
  PROVE  /\ Opposite(d) # {} /\ Opposite(Back(d, s))' # {}
         /\ Max(Opposite(d)) \in (s + 1)..(d.from - 1)
         /\ Max(Opposite(Back(d, s))') = Max(Opposite(d)) - s
<1> DEFINE e == Back(d, s)
           O == Opposite(d)
           N == Opposite(e)'
<1>1. /\ d.side \in Sides /\ -d.side \in Sides /\ d.from \in Int
      /\ e.side = d.side /\ e.from = d.from - s
  BY DEF AnySpan, Back, Sides
<1>2. Len(frame) \in Nat /\ Len(frame') = Len(frame) + 1 - s
  BY DEF Slides
<1>3. \A k \in (s + 1)..Len(frame) : Goes(k, -d.side) <=> Goes(k - s, -e.side)'
  BY <1>1, GoesMoves
<1> HIDE DEF e
<1>4. /\ O \subseteq 1..Len(frame) /\ N \subseteq 1..Len(frame')
      /\ \A k \in O : k < d.from
      /\ \A k \in N : k < e.from
  BY <1>1, SizeAssumption DEF Opposite, Bars
<1>5. \A k \in (s + 1)..Len(frame) : k \in O <=> k - s \in N
  <2> TAKE k \in (s + 1)..Len(frame)
  <2>1. k \in O <=> k \in (d.from - LookBack)..(d.from - 1) /\ Goes(k, -d.side)
    BY <1>2 DEF Opposite, Bars
  <2>2. k - s \in N <=> k - s \in (e.from - LookBack)..(e.from - 1) /\ Goes(k - s, -e.side)'
    BY <1>2 DEF Opposite, Bars
  <2>3. k \in (d.from - LookBack)..(d.from - 1) <=> k - s \in (e.from - LookBack)..(e.from - 1)
    <3>1. LookBack \in Int
      BY SizeAssumption
    <3> QED BY <1>1, <3>1
  <2> QED BY <1>3, <2>1, <2>2, <2>3
<1>6. \A k \in N : k + s \in (s + 1)..Len(frame) /\ (k + s) - s = k
  BY <1>1, <1>2, <1>4
<1> HIDE DEF O, N
<1>7. N # {} => \E k \in O : k > s
  BY <1>5, <1>6
<1>8. O # {} /\ \E k \in O : k > s
  <2>1. O # {} /\ Max(O) > s => Max(O) \in O
    BY <1>2, <1>4, LargestBar
  <2> QED BY <1>7, <2>1 DEF O, N, e
<1>9. Max(O) \in O /\ \A k \in O : k <= Max(O)
  <2>1. O \subseteq 1..Len(frame) /\ O # {}
    BY <1>4, <1>8
  <2> QED BY <1>2, <2>1, LargestBar
<1>10. Max(O) \in (s + 1)..Len(frame) /\ Max(O) < d.from
  <2>1. PICK k \in O : k > s
    BY <1>8
  <2>2. k \in 1..Len(frame) /\ Max(O) \in 1..Len(frame)
    BY <1>4, <1>9
  <2>3. k <= Max(O) /\ Max(O) < d.from
    BY <1>4, <1>9
  <2> QED BY <1>2, <2>1, <2>2, <2>3
<1>11. Max(O) - s \in N
  BY <1>5, <1>9, <1>10
<1>12. Max(N) \in N /\ \A k \in N : k <= Max(N)
  <2>1. N \subseteq 1..Len(frame') /\ N # {} /\ Len(frame') \in Nat
    BY <1>2, <1>4, <1>11
  <2> QED BY <2>1, LargestBar
<1>13. Max(N) + s \in O
  BY <1>5, <1>6, <1>12
<1>14. Max(N) = Max(O) - s
  <2>1. Max(N) \in Int /\ Max(O) \in Int
    <3>1. Max(N) \in 1..Len(frame')
      BY <1>4, <1>12
    <3> QED BY <1>2, <1>10, <3>1
  <2> QED BY <1>9, <1>11, <1>12, <1>13, <2>1
<1> QED BY <1>1, <1>8, <1>10, <1>11, <1>14 DEF O, N, e

BlockOf(d) == [bar |-> Max(Opposite(d)), side |-> d.side, run |-> d]

(* A signal is a bar of the scan of the block of a displacement.           *)
SignalsMean ==
  \A r : r \in Signals <=>
    \E d \in Displacements :
      Opposite(d) # {} /\ \E i \in Scan(BlockOf(d)) : r = [block |-> BlockOf(d), bar |-> i]

LEMMA SignalIs == SignalsMean
<1> SUFFICES ASSUME NEW r
             PROVE  r \in Signals <=>
                      \E d \in Displacements :
                        /\ Opposite(d) # {}
                        /\ \E i \in Scan(BlockOf(d)) : r = [block |-> BlockOf(d), bar |-> i]
  BY DEF SignalsMean
<1>1. r \in Signals <=> \E b \in Blocks : \E i \in Scan(b) : r = [block |-> b, bar |-> i]
  BY DEF Signals
<1>2. \A b : b \in Blocks <=> \E d \in Displacements : Opposite(d) # {} /\ b = BlockOf(d)
  BY DEF Blocks, BlockOf
<1> QED BY <1>1, <1>2

LEMMA NextSignal == SignalsMean'
BY SignalIs, PTL

(* A signal of this frame is one of the next, if its block stays in the    *)
(* frame, its displacement had ended and is strong by the next ATRs.       *)
LEMMA SignalKept ==
  ASSUME FrameOK, FrameOK', NEW s \in {0, 1}, Slides(s),
         NEW d \in Displacements, Opposite(d) # {},
         BlockOf(d).bar > s, d.to < Len(frame),
         s = 1 => Back(d, s) \in StrongSpans',
         NEW i \in Scan(BlockOf(d))
  PROVE  [block |-> BackBlock(BlockOf(d), s), bar |-> i - s] \in Signals'
<1> DEFINE e == Back(d, s)
<1>a. PICK b : b = BlockOf(d)
  OBVIOUS
<1>b. PICK c : c = BackBlock(b, s)
  OBVIOUS
<1>1. /\ d \in AnySpan /\ d.side \in Sides /\ d.from \in Bars /\ d.to \in Bars
      /\ d.from <= d.to /\ IsRun(d) /\ IsStrong(d)
  BY DEF Displacements, Spans, AnySpan, Bars, IsRun
<1>2. /\ Len(frame) \in Nat /\ Len(frame') = Len(frame) + 1 - s /\ ExpiryBars \in Nat
  BY SizeAssumption DEF Slides
<1>3. b.bar = Max(Opposite(d)) /\ b.side = d.side /\ b.run = d
  BY <1>a DEF BlockOf
<1>4. /\ Opposite(e)' # {} /\ b.bar \in (s + 1)..(d.from - 1)
      /\ Max(Opposite(e))' = b.bar - s
  BY <1>1, <1>2, <1>3, <1>a, BlockMoves DEF Bars
<1>5. /\ e \in AnySpan /\ e.side = d.side /\ e.from = d.from - s /\ e.to = d.to - s
  BY <1>1 DEF Back, AnySpan, Bars
<1>6. e \in Displacements'
  <2>1. IsRun(e)'
    BY <1>1, <1>2, <1>4, RunMoves DEF Bars
  <2>2. IsStrong(e)'
    <3>1. CASE s = 1
      BY <3>1 DEF StrongSpans
    <3>2. CASE s = 0
      <4>1. e = d
        BY <1>1, <3>2 DEF Back, AnySpan
      <4>2. IsStrong(d)'
        BY <1>1, <3>2, StrongStays DEF Bars
      <4> QED BY <4>1, <4>2
    <3> QED BY <3>1, <3>2
  <2>3. e.from \in Bars' /\ e.to \in Bars'
    <3>1. d.from \in Int /\ d.to \in Int /\ s + 1 < d.from /\ d.to <= Len(frame)
      BY <1>1, <1>2, <1>4 DEF Bars
    <3> QED BY <1>1, <1>2, <1>5, <3>1 DEF Bars
  <2>4. e \in Spans'
    BY <1>1, <2>3 DEF Back, Spans
  <2> QED BY <2>1, <2>2, <2>4 DEF Displacements
<1>7. BlockOf(e)' = c
  BY <1>3, <1>4, <1>5, <1>b DEF BlockOf, BackBlock
<1>8. /\ b \in AllBlocks /\ c \in AllBlocks
      /\ c.bar = b.bar - s
  <2>1. /\ b = [bar |-> b.bar, side |-> d.side, run |-> d]
        /\ c = [bar |-> b.bar - s, side |-> d.side, run |-> e]
    BY <1>3, <1>a, <1>b DEF BackBlock, BlockOf
  <2>2. b.bar \in Int
    BY <1>1, <1>4 DEF AnySpan
  <2> QED BY <1>1, <1>5, <2>1, <2>2 DEF AllBlocks
<1>c. i \in Scan(b)
  BY <1>a
<1> HIDE DEF e
<1>9. i \in Int /\ i > b.bar
  <2>1. b.bar \in Int /\ LastScanned(b) \in Int
    BY <1>2, <1>8, Smallest DEF AllBlocks, LastScanned
  <2>2. i \in Int
    BY <2>1, <1>c DEF Scan
  <2>3. Retested(b, i)
    BY <1>8, <1>c, <2>2, ScanCorrect DEF ScanMeans
  <2> QED BY <2>1, <2>2, <2>3 DEF Retested
<1>10. Retested(b, i) /\ IsWide(b) /\ i < Len(frame) /\ i < b.bar + ExpiryBars
  BY <1>8, <1>9, <1>c, ScanCorrect DEF ScanMeans
<1>11. b.bar \in (s + 1)..Len(frame) /\ i \in (s + 1)..Len(frame)
  BY <1>1, <1>2, <1>4, <1>9, <1>10 DEF Bars
<1>12. Retested(c, i - s)' /\ IsWide(c)'
  BY <1>8, <1>10, <1>11, <1>b, RetestMoves, CandleMoves
<1>13. i - s \in Scan(c)'
  <2>1. i - s \in Int /\ i - s < Len(frame') /\ i - s < c.bar + ExpiryBars
    BY <1>2, <1>8, <1>9, <1>10, <1>11
  <2> QED BY <1>8, <1>12, <2>1, NextScan DEF ScanMeans
<1> QED BY <1>4, <1>6, <1>7, <1>13, <1>a, <1>b, NextSignal DEF SignalsMean

(* A signal of the next frame is one of this one, unless its displacement  *)
(* goes on, or it is one of the candle that was the last, or its           *)
(* displacement was not strong by the ATRs of this frame.                  *)
LEMMA SignalFound ==
  ASSUME FrameOK, FrameOK', NEW s \in {0, 1}, Slides(s),
         NEW e \in Displacements', Opposite(e)' # {},
         s = 1 => \A d \in Spans : e = Back(d, s) => d \in StrongSpans,
         e.to < Len(frame'), NEW k \in Scan(BlockOf(e))', k < Len(frame') - 1
  PROVE  /\ k \in Int
         /\ \E d \in Displacements :
              /\ Opposite(d) # {} /\ BlockOf(e)' = BackBlock(BlockOf(d), s)
              /\ k + s \in Scan(BlockOf(d))
<1> DEFINE d == [side |-> e.side, from |-> e.from + s, to |-> e.to + s]
<1>a. PICK b : b = BlockOf(d)
  OBVIOUS
<1>b. PICK c : c = BlockOf(e)'
  OBVIOUS
<1>1. /\ e.side \in Sides /\ e.from \in 1..Len(frame') /\ e.to \in 1..Len(frame')
      /\ e.from <= e.to /\ IsRun(e)' /\ IsStrong(e)'
      /\ e = [side |-> e.side, from |-> e.from, to |-> e.to]
  BY DEF Displacements, Spans, Bars, IsRun
<1>2. /\ Len(frame) \in Nat /\ Len(frame') = Len(frame) + 1 - s /\ ExpiryBars \in Nat
  BY SizeAssumption DEF Slides
<1>3. /\ d \in AnySpan /\ d.side = e.side /\ d.from = e.from + s /\ d.to = e.to + s
      /\ d.from <= d.to /\ d.to <= Len(frame) /\ s < d.from
  BY <1>1, <1>2 DEF AnySpan
<1>4. Back(d, s) = e
  BY <1>1, <1>2 DEF Back
<1>d. d \in Spans
  BY <1>1, <1>2, <1>3 DEF Spans, Bars
<1> HIDE DEF d
<1>5. /\ Opposite(d) # {} /\ Max(Opposite(d)) \in (s + 1)..(d.from - 1)
      /\ Max(Opposite(e)') = Max(Opposite(d)) - s
  BY <1>2, <1>3, <1>4, BlockMoves DEF AnySpan
<1>6. d \in Displacements
  <2>1. IsRun(d)
    BY <1>1, <1>3, <1>4, <1>5, RunMoves DEF AnySpan
  <2>2. IsStrong(d)
    <3>1. CASE s = 1
      BY <1>4, <1>d, <3>1 DEF StrongSpans
    <3>2. CASE s = 0
      <4>1. e = d
        BY <1>3, <1>4, <3>2 DEF Back, AnySpan
      <4>2. 1 <= d.from
        BY <1>1, <1>3, <3>2
      <4> QED BY <1>1, <1>3, <3>2, <4>1, <4>2, StrongStays
    <3> QED BY <3>1, <3>2
  <2> QED BY <1>d, <2>1, <2>2 DEF Displacements
<1>7. /\ b.bar \in (s + 1)..(d.from - 1) /\ b.side = d.side /\ b.run = d
      /\ c = BackBlock(b, s) /\ c.bar = b.bar - s
  <2>1. b = [bar |-> Max(Opposite(d)), side |-> d.side, run |-> d]
    BY <1>a DEF BlockOf
  <2>2. c = [bar |-> Max(Opposite(e)'), side |-> e.side, run |-> e]
    BY <1>b DEF BlockOf
  <2> QED BY <1>3, <1>4, <1>5, <2>1, <2>2 DEF BackBlock
<1>8. b \in AllBlocks /\ c \in AllBlocks
  BY <1>3, <1>7, <1>a DEF AllBlocks, Back, BackBlock, BlockOf, AnySpan
<1>c. k \in Scan(c)'
  BY <1>b
<1>9. k \in Int /\ Retested(c, k)' /\ k > c.bar
  <2>1. c.bar \in Int /\ LastScanned(c)' \in Int
    BY <1>2, <1>8, Smallest DEF AllBlocks, LastScanned
  <2>2. k \in Int
    BY <1>c, <2>1 DEF Scan
  <2>3. Retested(c, k)'
    BY <1>8, <1>c, <2>2, NextScan DEF ScanMeans
  <2> QED BY <2>1, <2>2, <2>3 DEF Retested
<1>10. IsWide(c)' /\ k < c.bar + ExpiryBars
  BY <1>8, <1>9, <1>c, NextScan DEF ScanMeans
<1>11. /\ b.bar \in (s + 1)..Len(frame) /\ k + s \in (s + 1)..Len(frame)
       /\ (k + s) - s = k /\ k + s < Len(frame) /\ k + s < b.bar + ExpiryBars
  <2>1. /\ b.bar \in Int /\ d.from \in Int /\ d.to \in Int
        /\ s + 1 <= b.bar /\ b.bar <= d.from - 1
    BY <1>3, <1>7 DEF AnySpan
  <2>2. k + s > b.bar /\ k + s < b.bar + ExpiryBars
    BY <1>2, <1>7, <1>9, <1>10, <2>1
  <2> QED BY <1>2, <1>3, <1>9, <2>1, <2>2
<1>12. Retested(b, k + s) /\ IsWide(b)
  BY <1>7, <1>8, <1>9, <1>10, <1>11, RetestMoves, CandleMoves
<1>13. k + s \in Scan(b)
  BY <1>8, <1>11, <1>12, ScanCorrect DEF ScanMeans
<1> QED BY <1>5, <1>6, <1>7, <1>9, <1>13, <1>a, <1>b

(* What list_ob_signals has said of a frame it says of the next one, and   *)
(* nothing is back-dated, whatever the candles: but for a block that       *)
(* slides out, a displacement that goes on, and one that the ATRs, seeded  *)
(* anew when a full frame slides, judge differently than before.           *)
THEOREM SignalsStayCorrect == Spec => SignalsStay
<1> DEFINE Kept(r) ==
      (/\ r.block.bar > Slid /\ r.block.run.to < Len(frame)
       /\ Slid = 1 => Moved(r).block.run \in StrongSpans')
        => Moved(r) \in Signals'
    Found(r) ==
      r.block.run.to < Len(frame') /\ r.bar < Len(frame') - 1
        => \/ \E q \in Signals : r = Moved(q)
           \/ Slid = 1 /\ \E d \in Spans \ StrongSpans : r.block.run = Shifted(d)
    Stay == (\A r \in Signals : Kept(r)) /\ (\A r \in Signals' : Found(r))
<1>1. ASSUME FrameOK, FrameOK', Next PROVE Stay
  <2>1. PICK s \in {0, 1} : s = Slid /\ Slides(s)
    BY <1>1, FrameSlides
  <2>2. ASSUME NEW d, NEW i
        PROVE  /\ Moved([block |-> BlockOf(d), bar |-> i])
                    = [block |-> BackBlock(BlockOf(d), s), bar |-> i - s]
               /\ Shifted(d) = Back(d, s)
    <3> DEFINE r == [block |-> BlockOf(d), bar |-> i]
    <3>1. /\ r.bar = i /\ r.block = BlockOf(d)
          /\ BlockOf(d) = [bar |-> Max(Opposite(d)), side |-> d.side, run |-> d]
      BY DEF BlockOf
    <3>2. \A x : Shifted(x) = Back(x, s)
      BY <2>1 DEF Shifted, Back
    <3> HIDE DEF r
    <3> QED BY <2>1, <3>1, <3>2 DEF Moved, BackBlock, r
  <2>3. ASSUME NEW r \in Signals, r.block.bar > Slid, r.block.run.to < Len(frame),
               Slid = 1 => Moved(r).block.run \in StrongSpans'
        PROVE  Moved(r) \in Signals'
    <3>1. PICK d \in Displacements :
            Opposite(d) # {} /\ \E i \in Scan(BlockOf(d)) : r = [block |-> BlockOf(d), bar |-> i]
      BY SignalIs DEF SignalsMean
    <3>2. PICK i \in Scan(BlockOf(d)) : r = [block |-> BlockOf(d), bar |-> i]
      BY <3>1
    <3>3. BlockOf(d).bar > s /\ d.to < Len(frame)
      BY <2>1, <2>3, <3>2 DEF BlockOf
    <3>4. Moved(r) = [block |-> BackBlock(BlockOf(d), s), bar |-> i - s]
      BY <2>2, <3>2
    <3>5. s = 1 => Back(d, s) \in StrongSpans'
      BY <2>1, <2>3, <3>4 DEF BackBlock, BlockOf
    <3>6. [block |-> BackBlock(BlockOf(d), s), bar |-> i - s] \in Signals'
      BY <1>1, <2>1, <3>1, <3>3, <3>5, SignalKept
    <3> QED BY <3>4, <3>6
  <2>4. ASSUME NEW r \in Signals', r.block.run.to < Len(frame'), r.bar < Len(frame') - 1,
               ~(Slid = 1 /\ \E d \in Spans \ StrongSpans : r.block.run = Shifted(d))
        PROVE  \E q \in Signals : r = Moved(q)
    <3>1. PICK e \in Displacements' :
            /\ Opposite(e)' # {}
            /\ \E k \in Scan(BlockOf(e))' : r = [block |-> BlockOf(e)', bar |-> k]
      BY NextSignal DEF SignalsMean
    <3>2. PICK k \in Scan(BlockOf(e))' : r = [block |-> BlockOf(e)', bar |-> k]
      BY <3>1
    <3>3. e.to < Len(frame') /\ k < Len(frame') - 1 /\ r.block.run = e
      BY <2>4, <3>2 DEF BlockOf
    <3>4. s = 1 => \A d \in Spans : e = Back(d, s) => d \in StrongSpans
      BY <2>1, <2>2, <2>4, <3>3
    <3>5. /\ k \in Int
          /\ \E d \in Displacements :
               /\ Opposite(d) # {} /\ BlockOf(e)' = BackBlock(BlockOf(d), s)
               /\ k + s \in Scan(BlockOf(d))
      BY <1>1, <2>1, <3>1, <3>3, <3>4, SignalFound
    <3>6. PICK d \in Displacements :
            /\ Opposite(d) # {} /\ BlockOf(e)' = BackBlock(BlockOf(d), s)
            /\ k + s \in Scan(BlockOf(d))
      BY <3>5
    <3> DEFINE q == [block |-> BlockOf(d), bar |-> k + s]
    <3>7. q \in Signals
      BY <3>6, SignalIs DEF SignalsMean
    <3>8. (k + s) - s = k
      <4>1. k \in Int
        BY <3>5
      <4> QED BY <4>1
    <3>9. r = Moved(q)
      BY <2>2, <3>2, <3>6, <3>8
    <3> QED BY <3>7, <3>9
  <2> QED BY <2>3, <2>4
<1>2. FrameOK /\ FrameOK' /\ [Next]_frame => [Stay]_frame
  BY <1>1
<1> QED BY <1>2, FrameHolds, PTL DEF Spec, SignalsStay
===========================================================================
