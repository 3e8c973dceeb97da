------------------------- MODULE EventStreamProofs -------------------------
(***************************************************************************)
(* Types, the accounting of every event, the refinement of LossyLog and    *)
(* what the report recovers from the journal, for any number of symbols,   *)
(* events and process runs and any capacity.                               *)
(***************************************************************************)
EXTENDS TradeReport, WellFoundedInduction, TLAPS

(* What an appended, a taken and a transferred element do to Elements.     *)
LEMMA ElementsAppend ==
  ASSUME NEW S, NEW q \in Seq(S), NEW x
  PROVE  Elements(Append(q, x)) = Elements(q) \cup {x}
<1>1. Len(Append(q, x)) = Len(q) + 1 /\ Len(q) \in Nat
  OBVIOUS
<1>2. \A i \in 1..Len(q) : Append(q, x)[i] = q[i]
  OBVIOUS
<1>3. Append(q, x)[Len(q) + 1] = x
  OBVIOUS
<1> QED BY <1>1, <1>2, <1>3 DEF Elements

LEMMA ElementIn ==
  ASSUME NEW S, NEW q \in Seq(S), NEW i \in 1..Len(q)
  PROVE  q[i] \in S
OBVIOUS

LEMMA ElementsTail ==
  ASSUME NEW S, NEW q \in Seq(S), q # <<>>
  PROVE  /\ Elements(q) = {Head(q)} \cup Elements(Tail(q))
         /\ Tail(q) \in Seq(S) /\ Head(q) \in S /\ Len(Tail(q)) = Len(q) - 1
<1>1. Len(q) \in Nat \ {0} /\ Head(q) = q[1] /\ Len(Tail(q)) = Len(q) - 1
  OBVIOUS
<1>2. \A i \in 1..(Len(q) - 1) : Tail(q)[i] = q[i + 1]
  OBVIOUS
<1>3. \A i \in 1..Len(q) : i = 1 \/ (i - 1 \in 1..(Len(q) - 1) /\ q[i] = Tail(q)[i - 1])
  BY <1>1, <1>2
<1>4. Elements(q) \subseteq {Head(q)} \cup Elements(Tail(q))
  BY <1>1, <1>3 DEF Elements
<1>5. {Head(q)} \cup Elements(Tail(q)) \subseteq Elements(q)
  BY <1>1, <1>2 DEF Elements
<1> QED BY <1>1, <1>4, <1>5

LEMMA ElementsMove ==
  ASSUME NEW S, NEW q \in Seq(S), NEW r \in Seq(S), NEW k \in 0..Len(r)
  PROVE  /\ q \o SubSeq(r, 1, k) \in Seq(S)
         /\ Len(q \o SubSeq(r, 1, k)) = Len(q) + k
         /\ \A i \in 1..Len(q) : (q \o SubSeq(r, 1, k))[i] = q[i]
         /\ \A i \in 1..k : (q \o SubSeq(r, 1, k))[Len(q) + i] = r[i]
         /\ Elements(q \o SubSeq(r, 1, k)) = Elements(q) \cup {r[i] : i \in 1..k}
<1> DEFINE m == SubSeq(r, 1, k)
<1>1. m \in Seq(S) /\ Len(m) = k /\ \A i \in 1..k : m[i] = r[i]
  OBVIOUS
<1> HIDE DEF m
<1>2. q \o m \in Seq(S) /\ Len(q \o m) = Len(q) + k /\ Len(q) \in Nat
  BY <1>1
<1>3. \A i \in 1..Len(q) : (q \o m)[i] = q[i]
  BY <1>1
<1>4. \A i \in 1..k : (q \o m)[Len(q) + i] = r[i]
  BY <1>1
<1>5. Elements(q \o m) = Elements(q) \cup {r[i] : i \in 1..k}
  <2>1. \A i \in 1..(Len(q) + k) : i \in 1..Len(q) \/ (i - Len(q) \in 1..k /\ Len(q) + (i - Len(q)) = i)
    BY <1>2
  <2>2. Elements(q \o m) \subseteq Elements(q) \cup {r[i] : i \in 1..k}
    BY <1>2, <1>3, <1>4, <2>1 DEF Elements
  <2>3. \A i \in 1..Len(q) : i \in 1..(Len(q) + k)
    BY <1>2
  <2>4. \A i \in 1..k : Len(q) + i \in 1..(Len(q) + k)
    BY <1>2
  <2>5. Elements(q) \subseteq Elements(q \o m)
    BY <1>2, <1>3, <2>3 DEF Elements
  <2>6. {r[i] : i \in 1..k} \subseteq Elements(q \o m)
    BY <1>2, <1>4, <2>4 DEF Elements
  <2> QED BY <2>2, <2>5, <2>6
<1> QED BY <1>2, <1>3, <1>4, <1>5 DEF m

---------------------------------------------------------------------------
(* Every event has a number up to Count, and the journal, the queue and    *)
(* the callbacks hold ascending numbers, one after the other.              *)
Ascending(q) == \A i, j \in 1..Len(q) : i < j => q[i] < q[j]
Below(S, T) == \A x \in S, y \in T : x < y

OrderInv ==
  /\ Elements(journal) \cup Waiting \subseteq 1..Count
  /\ Ascending(journal) /\ Ascending(queue) /\ Ascending(ready)
  /\ Below(Elements(journal), Waiting)
  /\ Below(Elements(queue), Elements(ready))

IInv == TypeOK /\ OrderInv /\ Accounted

LEMMA ElementsEmpty == Elements(<<>>) = {}
BY DEF Elements

(* Nothing has happened yet.                                               *)
LEMMA InvInit == Init => IInv
<1> SUFFICES ASSUME Init PROVE IInv
  OBVIOUS
<1> USE DEF Init
<1>1. TypeOK
  <2>1. cum \in [Symbols -> Int]
    OBVIOUS
  <2>2. runs \in 0..MaxRuns
    BY StreamAssumption
  <2>3. Len(queue) <= Capacity
    <3>1. Len(<<>>) = 0
      OBVIOUS
    <3> QED BY <3>1, StreamAssumption
  <2>4. sent \in Seq([msg: Messages, gain: Int]) /\ ready \in Seq(Numbers)
        /\ queue \in Seq(Numbers) /\ journal \in Seq(Numbers)
    OBVIOUS
  <2>5. /\ link \in {"none", "up", "down"} /\ proc \in {"off", "started", "on"}
        /\ open \in SUBSET Symbols /\ excused \in SUBSET Numbers
    OBVIOUS
  <2>6. asleep \in BOOLEAN /\ sending \in BOOLEAN /\ torn \in BOOLEAN
    BY Zenon
  <2>7. added \in Int
    OBVIOUS
  <2> HIDE DEF Init
  <2> QED BY <2>1, <2>2, <2>3, <2>4, <2>5, <2>6, <2>7 DEF TypeOK
<1>2. OrderInv
  BY ElementsEmpty DEF OrderInv, Waiting, Ascending, Below
<1>3. Accounted
  BY ElementsEmpty DEF Accounted, Count, Waiting
<1> QED BY <1>1, <1>2, <1>3 DEF IInv

(* A number above all others keeps a sequence ascending.                   *)
LEMMA AscendingAppend ==
  ASSUME NEW q \in Seq(Nat), Ascending(q), NEW n \in Nat, \A x \in Elements(q) : x < n
  PROVE  Ascending(Append(q, n))
<1>1. Len(Append(q, n)) = Len(q) + 1 /\ Len(q) \in Nat
  OBVIOUS
<1>2. \A i \in 1..Len(q) : Append(q, n)[i] = q[i] /\ q[i] \in Elements(q)
  BY DEF Elements
<1>3. Append(q, n)[Len(q) + 1] = n
  OBVIOUS
<1> QED BY <1>1, <1>2, <1>3 DEF Ascending

(* Bybit sends an event.                                                   *)
LEMMA EmitStep ==
  ASSUME IInv, NEW message \in Messages, NEW gain \in Int, Emit(message, gain),
         open' \in SUBSET Symbols, cum' \in [Symbols -> Int]
  PROVE  IInv'
<1> USE DEF IInv
<1>1. Count \in Nat /\ Count' = Count + 1 /\ Count + 1 \in Numbers
      /\ sent' \in Seq([msg: Messages, gain: Int])
  BY DEF Emit, Count, TypeOK, Numbers
<1>2. UNCHANGED <<link, proc, runs, asleep, queue, sending, journal, torn, added>>
  BY DEF Emit, notifier
<1>3. CASE link = "up"
  <2>1. ready' = Append(ready, Count + 1) /\ excused' = excused
    BY <1>3 DEF Emit
  <2>2. ready' \in Seq(Numbers) /\ ready \in Seq(Nat)
    BY <1>1, <2>1 DEF TypeOK, Numbers
  <2>3. Elements(ready)' = Elements(ready) \cup {Count + 1}
    BY <2>1, ElementsAppend DEF TypeOK
  <2>4. Elements(queue)' = Elements(queue) /\ Elements(journal)' = Elements(journal)
    BY <1>2
  <2>5. TypeOK'
    BY <1>1, <1>2, <2>1, <2>2 DEF TypeOK
  <2>6. \A x \in Elements(journal) \cup Waiting : x < Count + 1
    BY <1>1 DEF OrderInv
  <2>7. Ascending(ready)'
    BY <1>1, <2>1, <2>2, <2>6, AscendingAppend DEF OrderInv, Waiting
  <2>8. OrderInv'
    BY <1>1, <1>2, <2>3, <2>4, <2>6, <2>7 DEF OrderInv, Ascending, Below, Waiting
  <2>9. Accounted'
    BY <1>1, <2>1, <2>3, <2>4 DEF Accounted, Waiting
  <2> QED BY <2>5, <2>8, <2>9
<1>4. CASE link # "up"
  <2>1. ready' = ready /\ excused' = excused \cup {Count + 1}
    BY <1>4 DEF Emit
  <2>2. TypeOK'
    BY <1>1, <1>2, <2>1 DEF TypeOK
  <2>3. Elements(queue)' = Elements(queue) /\ Elements(journal)' = Elements(journal)
        /\ Elements(ready)' = Elements(ready)
    BY <1>2, <2>1
  <2>4. OrderInv'
    BY <1>1, <1>2, <2>1, <2>3 DEF OrderInv, Ascending, Below, Waiting
  <2>5. Accounted'
    BY <1>1, <2>1, <2>3 DEF Accounted, Waiting
  <2> QED BY <2>2, <2>4, <2>5
<1> QED BY <1>3, <1>4

(* Steps that touch no stream keep the order and the accounting.           *)
LEMMA StreamsKept ==
  ASSUME IInv, UNCHANGED <<sent, ready, queue, journal, excused>>, TypeOK'
  PROVE  IInv'
BY DEF IInv, OrderInv, Accounted, Count, Waiting, Elements, Ascending, Below

(* The subscription, the process and the sleep.                            *)
LEMMA QuietStep ==
  ASSUME IInv,
         \/ LinkDrops \/ LinkReturns \/ Start \/ (\E ok \in BOOLEAN : Connect(ok))
         \/ Sleep \/ Wake \/ NewDay \/ Sent \/ UNCHANGED vars
  PROVE  IInv'
<1> USE DEF account, bridge, notifier
<1>1. UNCHANGED <<sent, ready, queue, journal, excused>>
  BY DEF LinkDrops, LinkReturns, Start, Connect, Sleep, Wake, NewDay, Sent, vars
<1>2. TypeOK'
  <2> USE DEF IInv, TypeOK
  <2>1. /\ sent' \in Seq([msg: Messages, gain: Int])
        /\ ready' \in Seq(Numbers) /\ journal' \in Seq(Numbers)
        /\ queue' \in Seq(Numbers) /\ Len(queue') <= Capacity
        /\ excused' \in SUBSET Numbers
    BY <1>1
  <2>2. open' \in SUBSET Symbols /\ cum' \in [Symbols -> Int]
    BY DEF LinkDrops, LinkReturns, Start, Connect, Sleep, Wake, NewDay, Sent, vars
  <2>3. link' \in {"none", "up", "down"} /\ proc' \in {"off", "started", "on"}
    BY DEF LinkDrops, LinkReturns, Start, Connect, Sleep, Wake, NewDay, Sent, vars
  <2>4. runs' \in 0..MaxRuns
    BY StreamAssumption DEF LinkDrops, LinkReturns, Start, Connect, Sleep, Wake, NewDay, Sent, vars
  <2>5. added' \in Int
    BY DEF LinkDrops, LinkReturns, Start, Connect, Sleep, Wake, NewDay, Sent, vars
  <2>6. asleep' \in BOOLEAN /\ sending' \in BOOLEAN /\ torn' \in BOOLEAN
    BY Zenon DEF LinkDrops, LinkReturns, Start, Connect, Sleep, Wake, NewDay, Sent, vars
  <2> HIDE DEF IInv
  <2> QED BY <2>1, <2>2, <2>3, <2>4, <2>5, <2>6
<1> QED BY <1>1, <1>2, StreamsKept

(* The exchange numbers its events.                                        *)
LEMMA BybitStep == IInv /\ Bybit => IInv'
<1> SUFFICES ASSUME IInv, Bybit PROVE IInv'
  OBVIOUS
<1> USE DEF IInv, TypeOK, Messages, Topics, Message
<1>1. ASSUME NEW s \in Symbols, PositionOpens(s) PROVE IInv'
  <2>1. open' \in SUBSET Symbols /\ cum' \in [Symbols -> Int]
    BY <1>1, StreamAssumption DEF PositionOpens
  <2>2. Message("position", s, 1, cum'[s]) \in Messages
    BY <2>1
  <2>3. Emit(Message("position", s, 1, cum'[s]), -Fee) /\ -Fee \in Int
    BY <1>1, StreamAssumption DEF PositionOpens
  <2> HIDE DEF Message, Messages, IInv, TypeOK
  <2> QED BY <2>1, <2>2, <2>3, EmitStep
<1>2. ASSUME NEW s \in Symbols, NEW p \in Profits, PositionCloses(s, p) PROVE IInv'
  <2>1. open' \in SUBSET Symbols /\ cum' \in [Symbols -> Int] /\ p \in Int
    BY <1>2, StreamAssumption DEF PositionCloses
  <2>2. Message("position", s, 0, cum'[s]) \in Messages
    BY <2>1
  <2> QED BY <1>2, <2>1, <2>2, EmitStep DEF PositionCloses
<1>3. CASE OrderChanges
  <2>1. Message("order", None, 0, 0) \in Messages
    OBVIOUS
  <2> QED BY <1>3, <2>1, EmitStep DEF OrderChanges
<1>4. ASSUME NEW s \in Symbols, NEW d \in Moves, PositionMoves(s, d) PROVE IInv'
  <2>1. open' \in SUBSET Symbols /\ cum' \in [Symbols -> Int] /\ d \in Int
    BY <1>4, StreamAssumption DEF PositionMoves
  <2>2. Message("position", s, 1, cum'[s]) \in Messages
    BY <2>1
  <2> QED BY <1>4, <2>1, <2>2, EmitStep DEF PositionMoves
<1> QED BY <1>1, <1>2, <1>3, <1>4, QuietStep DEF Bybit

(* The callbacks fill the queue up to its capacity.                        *)
LEMMA CallbacksStep == IInv /\ RunCallbacks => IInv'
<1> SUFFICES ASSUME IInv, RunCallbacks PROVE IInv'
  OBVIOUS
<1> DEFINE k == Least(Capacity - Len(queue), Len(ready))
           moved == {ready[i] : i \in 1..k}
           left == {ready[i] : i \in (k + 1)..Len(ready)}
<1>1. queue \in Seq(Numbers) /\ ready \in Seq(Numbers) /\ Len(queue) <= Capacity
  BY DEF IInv, TypeOK
<1>2. k \in 0..Len(ready) /\ Len(queue) + k <= Capacity
  BY <1>1, StreamAssumption DEF Least
<1>3. /\ queue' = queue \o SubSeq(ready, 1, k) /\ ready' = <<>>
      /\ excused' = excused \cup left
      /\ UNCHANGED <<account, link, proc, runs, asleep, notifier>>
  BY DEF RunCallbacks
<1> HIDE DEF k
<1>4. /\ queue' \in Seq(Numbers) /\ Len(queue') = Len(queue) + k
      /\ \A i \in 1..Len(queue) : queue'[i] = queue[i]
      /\ \A i \in 1..k : queue'[Len(queue) + i] = ready[i]
      /\ Elements(queue)' = Elements(queue) \cup moved
  BY <1>1, <1>2, <1>3, ElementsMove
<1>5. moved \subseteq Elements(ready) /\ left \subseteq Elements(ready)
      /\ Elements(ready) = moved \cup left
  <2>1. \A i \in 1..Len(ready) : i \in 1..k \/ i \in (k + 1)..Len(ready)
    BY <1>1, <1>2
  <2>2. \A i \in 1..k : i \in 1..Len(ready)
    BY <1>1, <1>2
  <2>3. \A i \in (k + 1)..Len(ready) : i \in 1..Len(ready)
    BY <1>1, <1>2
  <2> QED BY <2>1, <2>2, <2>3 DEF Elements
<1>6. Elements(ready)' = {}
  BY <1>3, ElementsEmpty
<1>7. TypeOK'
  <2>3. Elements(ready) \subseteq Numbers
    BY <1>1 DEF Elements
  <2>1. excused' \in SUBSET Numbers
    BY <1>3, <1>5, <2>3 DEF IInv, TypeOK
  <2>2. ready' \in Seq(Numbers) /\ Len(queue') <= Capacity
    BY <1>2, <1>3, <1>4
  <2> QED BY <1>3, <1>4, <2>1, <2>2 DEF IInv, TypeOK, account, notifier
<1>8. Elements(journal)' = Elements(journal) /\ Count' = Count
  BY <1>3 DEF notifier, account, Count
<1>9. OrderInv'
  <2>1. Ascending(queue)'
    <3> SUFFICES ASSUME NEW i \in 1..Len(queue'), NEW j \in 1..Len(queue'), i < j
                 PROVE  queue'[i] < queue'[j]
      BY DEF Ascending
    <3>1. Len(queue) \in Nat /\ Len(ready) \in Nat /\ k \in 0..Len(ready)
      BY <1>1, <1>2
    <3>2. CASE j \in 1..Len(queue)
      BY <1>4, <3>1, <3>2 DEF IInv, OrderInv, Ascending
    <3>3. CASE i \in 1..Len(queue) /\ j \notin 1..Len(queue)
      <4>1. j - Len(queue) \in 1..k /\ Len(queue) + (j - Len(queue)) = j
        BY <1>4, <3>1, <3>3
      <4>2. queue'[j] = ready[j - Len(queue)] /\ queue'[j] \in Elements(ready)
        BY <1>4, <1>5, <4>1
      <4>3. queue'[i] = queue[i] /\ queue[i] \in Elements(queue)
        BY <1>4, <3>3 DEF Elements
      <4> QED BY <4>2, <4>3 DEF IInv, OrderInv, Below
    <3>4. CASE i \notin 1..Len(queue)
      <4>1. /\ i - Len(queue) \in 1..k /\ Len(queue) + (i - Len(queue)) = i
            /\ j - Len(queue) \in 1..k /\ Len(queue) + (j - Len(queue)) = j
            /\ i - Len(queue) < j - Len(queue)
        BY <1>4, <3>1, <3>4
      <4>2. queue'[i] = ready[i - Len(queue)] /\ queue'[j] = ready[j - Len(queue)]
        BY <1>4, <4>1
      <4>3. i - Len(queue) \in 1..Len(ready) /\ j - Len(queue) \in 1..Len(ready)
        BY <3>1, <4>1
      <4> QED BY <4>1, <4>2, <4>3 DEF IInv, OrderInv, Ascending
    <3> QED BY <3>2, <3>3, <3>4
  <2>2. Ascending(ready)' /\ Ascending(journal)'
    BY <1>3 DEF IInv, OrderInv, Ascending, notifier
  <2> QED BY <1>4, <1>5, <1>6, <1>8, <2>1, <2>2 DEF IInv, OrderInv, Below, Waiting
<1>10. Accounted'
  BY <1>3, <1>4, <1>5, <1>6, <1>8 DEF IInv, Accounted, Waiting
<1> QED BY <1>7, <1>9, <1>10 DEF IInv

(* The notifier takes the head of the queue and journals it, or its line   *)
(* breaks.                                                                 *)
LEMMA ConsumeStep == IInv /\ Consume => IInv'
<1> SUFFICES ASSUME IInv, NEW n \in Elements(queue),
                    DispatchOrder(n) \/ DispatchPosition(n)
             PROVE  IInv'
  BY DEF Consume
<1>1. queue \in Seq(Numbers) /\ journal \in Seq(Numbers) /\ Len(queue) <= Capacity
  BY DEF IInv, TypeOK
<1>2. /\ queue # <<>> /\ n = Head(queue) /\ queue' = Tail(queue)
      /\ UNCHANGED <<account, link, proc, runs, asleep, ready>> /\ LogEvent(n)
  BY DEF DispatchOrder, DispatchPosition, Receive
<1>3. /\ Elements(queue) = {n} \cup Elements(queue)' /\ n \in Numbers
      /\ queue' \in Seq(Numbers) /\ Len(queue') = Len(queue) - 1
  BY <1>1, <1>2, ElementsTail
<1>4. \A x \in Elements(queue)' : n < x
  <2>1. Len(queue) \in Nat \ {0} /\ n = queue[1]
    BY <1>1, <1>2
  <2>2. \A i \in 1..Len(queue') : queue'[i] = queue[i + 1] /\ i + 1 \in 1..Len(queue) /\ 1 < i + 1
    BY <1>1, <1>2, <1>3, <2>1
  <2> QED BY <2>1, <2>2 DEF IInv, OrderInv, Ascending, Elements
<1>5. Ascending(queue)' /\ Ascending(ready)' /\ Elements(ready)' = Elements(ready)
      /\ Count' = Count
  <2>1. \A i \in 1..Len(queue') : queue'[i] = queue[i + 1] /\ i + 1 \in 1..Len(queue)
    BY <1>1, <1>2, <1>3
  <2>2. Ascending(queue)'
    BY <2>1, <1>3 DEF IInv, OrderInv, Ascending
  <2> QED BY <1>2, <2>2 DEF IInv, OrderInv, Ascending, account, Count
<1>6. \A x \in Elements(journal) : x < n
  BY DEF IInv, OrderInv, Below, Waiting
<1>7. \/ journal' = Append(journal, n) /\ excused' = excused
      \/ journal' = journal /\ excused' = excused \cup {n}
  BY <1>2 DEF LogEvent
<1>8. \/ Elements(journal)' = Elements(journal) \cup {n} /\ excused' = excused
      \/ Elements(journal)' = Elements(journal) /\ excused' = excused \cup {n}
  BY <1>1, <1>7, ElementsAppend
<1>9. Ascending(journal)'
  <2>1. journal \in Seq(Nat) /\ n \in Nat
    BY <1>1, <1>3 DEF Numbers
  <2>2. Ascending(journal)
    BY DEF IInv, OrderInv
  <2> QED BY <1>6, <1>7, <2>1, <2>2, AscendingAppend DEF Ascending
<1>10. OrderInv'
  <2>1. Elements(journal)' \subseteq Elements(journal) \cup {n}
    BY <1>8
  <2> QED BY <1>3, <1>4, <1>5, <1>6, <1>9, <2>1
          DEF IInv, OrderInv, Below, Waiting
<1>11. Accounted'
  BY <1>3, <1>5, <1>8 DEF IInv, Accounted, Waiting
<1>12. TypeOK'
  <2> USE DEF IInv, TypeOK
  <2>1. /\ open' \in SUBSET Symbols /\ cum' \in [Symbols -> Int]
        /\ sent' \in Seq([msg: Messages, gain: Int])
        /\ link' \in {"none", "up", "down"} /\ proc' \in {"off", "started", "on"}
        /\ runs' \in 0..MaxRuns /\ ready' \in Seq(Numbers)
    BY <1>2 DEF account
  <2>2. Len(queue') <= Capacity /\ journal' \in Seq(Numbers) /\ excused' \in SUBSET Numbers
    <3>1. Len(queue') <= Capacity
      <4>1. Len(queue) \in Nat
        BY <1>1
      <4> QED BY <1>1, <1>3, <4>1, StreamAssumption
    <3>2. journal' \in Seq(Numbers)
      <4>1. Append(journal, n) \in Seq(Numbers)
        BY <1>1, <1>3
      <4> QED BY <1>1, <1>7, <4>1
    <3>3. excused' \in SUBSET Numbers
      BY <1>3, <1>7
    <3> QED BY <3>1, <3>2, <3>3
  <2>3. added' \in Int
    <3>1. CASE DispatchOrder(n) BY <3>1 DEF DispatchOrder
    <3>2. CASE DispatchPosition(n)
      <4>1. n \in 1..Len(sent)
        BY DEF OrderInv, Waiting, Count
      <4>2. Event(n) \in Messages
        <5>1. sent \in Seq([msg: Messages, gain: Int])
          OBVIOUS
        <5> HIDE DEF IInv, TypeOK
        <5>2. sent[n] \in [msg: Messages, gain: Int]
          BY <4>1, <5>1, ElementIn
        <5> QED BY <5>2 DEF Event
      <4>3. RealisedPnl(Event(n)) = 0
        BY <4>2 DEF Messages, RealisedPnl
      <4> QED BY <3>2, <4>3 DEF DispatchPosition
    <3> QED BY <3>1, <3>2
  <2>4. asleep' \in BOOLEAN /\ sending' \in BOOLEAN
    BY <1>2, Zenon DEF DispatchOrder, DispatchPosition
  <2>5. torn' \in BOOLEAN
    <3>1. torn' = torn \/ torn' \in BOOLEAN
      BY <1>2, Zenon DEF LogEvent
    <3> QED BY <3>1
  <2> HIDE DEF IInv
  <2> QED BY <1>3, <2>1, <2>2, <2>3, <2>4, <2>5
<1> QED BY <1>10, <1>11, <1>12 DEF IInv

(* The process ends and what it held is lost.                              *)
LEMMA EndsStep == IInv /\ Ends => IInv'
<1> SUFFICES ASSUME IInv, Ends PROVE IInv'
  OBVIOUS
<1> USE DEF IInv
<1>1. /\ ready' = <<>> /\ queue' = <<>> /\ journal' = journal /\ sent' = sent
      /\ excused' = excused \cup Waiting
  BY DEF Ends, account
<1>2. Elements(ready)' = {} /\ Elements(queue)' = {} /\ Elements(journal)' = Elements(journal)
      /\ Count' = Count
  BY <1>1, ElementsEmpty DEF Count
<1>3. OrderInv'
  BY <1>1, <1>2 DEF OrderInv, Waiting, Ascending, Below
<1>4. Accounted'
  BY <1>1, <1>2 DEF Accounted, Waiting
<1>5. TypeOK'
  <2>1. Len(queue') <= Capacity /\ ready' \in Seq(Numbers) /\ queue' \in Seq(Numbers)
    <3>1. Len(<<>>) = 0
      OBVIOUS
    <3> QED BY <1>1, <3>1, StreamAssumption
  <2>2. Waiting \subseteq Numbers
    BY DEF OrderInv, Numbers, Count, TypeOK
  <2>3. asleep' \in BOOLEAN /\ sending' \in BOOLEAN /\ torn' \in BOOLEAN
    BY Zenon DEF Ends, TypeOK
  <2> QED BY <1>1, <2>1, <2>2, <2>3 DEF Ends, TypeOK, account
<1> QED BY <1>3, <1>4, <1>5

(* The invariant is inductive.                                             *)
LEMMA InvStep == IInv /\ [Next]_vars => IInv'
BY QuietStep, BybitStep, CallbacksStep, ConsumeStep, EndsStep DEF Next

LEMMA InvCorrect == Spec => []IInv
BY InvInit, InvStep, PTL DEF Spec

(* Every variable keeps its range; the queue never exceeds its capacity.   *)
THEOREM TypeCorrect == Spec => []TypeOK
<1>1. IInv => TypeOK
  BY DEF IInv
<1> QED BY <1>1, InvCorrect, PTL

(* No event disappears except in the four ways that Accounted allows.      *)
THEOREM AccountedCorrect == Spec => []Accounted
<1>1. IInv => Accounted
  BY DEF IInv
<1> QED BY <1>1, InvCorrect, PTL

---------------------------------------------------------------------------
(* Every step sends an event, writes one, or does neither.                 *)
LEMMA LogStep ==
  ASSUME IInv, [Next]_vars
  PROVE  [Log!Send \/ Log!Write]_<<Count, journal>>
<1>1. CASE UNCHANGED vars \/ LinkDrops \/ LinkReturns \/ Start
           \/ (\E ok \in BOOLEAN : Connect(ok)) \/ Sleep \/ Wake \/ RunCallbacks
           \/ NewDay \/ Sent \/ Ends
  <2>1. UNCHANGED <<sent, journal>>
    BY <1>1 DEF LinkDrops, LinkReturns, Start, Connect, Sleep, Wake, RunCallbacks,
                NewDay, Sent, Ends, vars, account, notifier
  <2> QED BY <2>1 DEF Count
<1>2. CASE \/ \E s \in Symbols :
                 \/ PositionOpens(s)
                 \/ \E d \in Moves : PositionMoves(s, d)
                 \/ \E p \in Profits : PositionCloses(s, p)
           \/ OrderChanges
  <2>1. \E message, gain : Emit(message, gain)
    BY <1>2 DEF PositionOpens, PositionMoves, PositionCloses, OrderChanges
  <2>2. sent \in Seq([msg: Messages, gain: Int])
    BY DEF IInv, TypeOK
  <2>3. Count' = Count + 1 /\ journal' = journal
    BY <2>1, <2>2 DEF Emit, Count, notifier
  <2> QED BY <2>3 DEF Log!Send
<1>3. CASE Consume
  <2>1. PICK n \in Elements(queue) : DispatchOrder(n) \/ DispatchPosition(n)
    BY <1>3 DEF Consume
  <2>2. n \in 1..Count /\ \A x \in Elements(journal) : x < n
    BY DEF IInv, OrderInv, Waiting, Below
  <2>3. \A i \in 1..Len(journal) : journal[i] < n
    BY <2>2 DEF Elements
  <2>4. UNCHANGED sent /\ (journal' = Append(journal, n) \/ journal' = journal)
    BY <2>1 DEF DispatchOrder, DispatchPosition, Receive, LogEvent, account
  <2>5. Count' = Count
    BY <2>4 DEF Count
  <2> QED BY <2>2, <2>3, <2>4, <2>5 DEF Log!Write
<1> QED BY <1>1, <1>2, <1>3 DEF Next, Bybit

(* The journal is a LossyLog of what Bybit sent, through overflow, lost    *)
(* subscriptions, broken lines, crashes and restarts.                      *)
THEOREM LogRefined == Spec => ImplementsLog
<1>1. Init => Log!Init
  BY DEF Init, Log!Init, Count
<1>2. IInv /\ [Next]_vars => [Log!Send \/ Log!Write]_<<Count, journal>>
  BY LogStep
<1> QED BY <1>1, <1>2, InvCorrect, PTL DEF Spec, ImplementsLog, Log!Spec
---------------------------------------------------------------------------
(* The trade report.  What going through the journal computes follows by   *)
(* induction, stated for sets of numbers and for functions, from the       *)
(* well-foundedness of <.                                                  *)

(* A set of numbers has a least element, and so there is induction.        *)
LEMMA LeastElement ==
  ASSUME NEW T \in SUBSET Nat, T # {}
  PROVE  \E x \in T : \A y \in T : x <= y
<1> DEFINE R == {ss \in Nat \X Nat : ss[1] < ss[2]}
<1>1. \E x \in T : \A y \in T : <<y, x>> \notin R
  <2>1. IsWellFoundedOn(R, Nat)
    BY NatLessThanWellFounded, Zenon DEF OpToRel
  <2> HIDE DEF R
  <2> QED BY <2>1, WFMin, Zenon
<1>2. \A x, y \in Nat : <<y, x>> \notin R => x <= y
  OBVIOUS
<1> QED BY <1>1, <1>2

LEMMA Induction ==
  ASSUME NEW P, 0 \in P, \A n \in Nat : n \in P => n + 1 \in P
  PROVE  Nat \subseteq P
<1> SUFFICES ASSUME Nat \ P # {} PROVE FALSE OBVIOUS
<1>1. PICK n \in Nat \ P : \A k \in Nat \ P : n <= k
  BY LeastElement
<1>2. n - 1 \in Nat /\ n - 1 \in P
  BY <1>1
<1> QED BY <1>1, <1>2

(* A function that is given by its first value and by a step exists.       *)
Follows(g, a, b, init, step) ==
  \A i \in a..b : g[i] = IF i = a THEN init ELSE step[<<i, g[i - 1]>>]

LEMMA Recursion ==
  ASSUME NEW a \in Int, NEW b \in Int, NEW S, NEW init \in S, NEW step \in [Int \X S -> S]
  PROVE  \E g \in [a..b -> S] : Follows(g, a, b, init, step)
<1> USE DEF Follows
<1> DEFINE Good(g, n) == Follows(g, a, a + n, init, step)
    P == {n \in Nat : \E g \in [a..(a + n) -> S] : Good(g, n)}
<1>1. 0 \in P
  <2> DEFINE g == [i \in a..(a + 0) |-> init]
  <2>1. g \in [a..(a + 0) -> S] /\ Good(g, 0) OBVIOUS
  <2> QED BY <2>1
<1>2. ASSUME NEW n \in Nat, n \in P PROVE n + 1 \in P
  <2>1. PICK g \in [a..(a + n) -> S] : Good(g, n) BY <1>2
  <2> DEFINE e == a + (n + 1)
    h == [i \in a..e |-> IF i = e THEN step[<<i, g[i - 1]>>] ELSE g[i]]
  <2>2. h \in [a..e -> S]
    <3>1. g[e - 1] \in S OBVIOUS
    <3>2. step[<<e, g[e - 1]>>] \in S BY <3>1
    <3>3. \A i \in a..e : i # e => g[i] \in S OBVIOUS
    <3> QED BY <3>2, <3>3
  <2>3. Good(h, n + 1)
    <3> SUFFICES ASSUME NEW i \in a..e
                 PROVE h[i] = IF i = a THEN init ELSE step[<<i, h[i - 1]>>]
      OBVIOUS
    <3>1. CASE i = e
      <4>1. h[i] = step[<<i, g[i - 1]>>] /\ i # a BY <3>1
      <4>2. h[i - 1] = g[i - 1] BY <3>1
      <4> QED BY <4>1, <4>2
    <3>2. CASE i # e
      <4>1. i \in a..(a + n) /\ h[i] = g[i] BY <3>2
      <4>2. i # a => h[i - 1] = g[i - 1] BY <3>2
      <4> QED BY <2>1, <4>1, <4>2
    <3> QED BY <3>1, <3>2
  <2> HIDE DEF h, Good
  <2> QED BY <2>2, <2>3
<1>3. Nat \subseteq P
  <2> HIDE DEF P
  <2> QED BY <1>1, <1>2, Induction
<1>4. CASE a <= b
  <2>1. b - a \in P
    <3> HIDE DEF P
    <3> QED BY <1>3, <1>4
  <2>2. a + (b - a) = b OBVIOUS
  <2> QED BY <2>1, <2>2
<1>5. CASE b < a
  <2> DEFINE g == [i \in a..b |-> init]
  <2>1. g \in [a..b -> S] OBVIOUS
  <2>2. a..b = {} BY <1>5
  <2> QED BY <2>1, <2>2
<1> QED BY <1>4, <1>5

---------------------------------------------------------------------------
(* The cumulative profit that a position's record carries: that of its     *)
(* symbol's record before it plus what happened since, and the exchange's  *)
(* figure is that of the last record.                                      *)

LastOf(k, n, s) == IsOf(k, s) /\ \A l \in (k + 1)..n : ~IsOf(l, s)

CumInv ==
  /\ \A n \in 1..Count : \A k \in 1..(n - 1) :
       Event(n).topic = "position" /\ LastOf(k, n - 1, Event(n).symbol)
         => Event(n).cum = Event(k).cum + sent[n].gain
  /\ \A k \in 1..Count, s \in Symbols : LastOf(k, Count, s) => cum[s] = Event(k).cum

LEMMA CumInit == Init => CumInv
<1> SUFFICES ASSUME Init PROVE CumInv
  OBVIOUS
<1>1. Count = 0
  BY DEF Init, Count
<1> QED BY <1>1 DEF CumInv

(* What was sent stays what it was.                                        *)
LEMMA SentGrows ==
  ASSUME TypeOK, NEW message \in Messages, NEW gain \in Int, Emit(message, gain)
  PROVE  /\ Count \in Nat /\ Count' = Count + 1
         /\ \A n \in 1..Count : sent'[n] = sent[n]
         /\ sent'[Count + 1].msg = message /\ sent'[Count + 1].gain = gain
<1>1. sent' = Append(sent, [msg |-> message, gain |-> gain])
      /\ sent \in Seq([msg: Messages, gain: Int])
  BY DEF Emit, TypeOK
<1>2. Len(sent) \in Nat /\ Len(sent') = Len(sent) + 1
  BY <1>1
<1>3. \A n \in 1..Len(sent) : sent'[n] = sent[n]
  BY <1>1
<1>4. sent'[Len(sent) + 1] = [msg |-> message, gain |-> gain]
  BY <1>1
<1> QED BY <1>2, <1>3, <1>4 DEF Count

(* A position's record: the figure moves by the gain of a close.           *)
LEMMA PositionSent ==
  ASSUME TypeOK, CumInv, NEW s \in Symbols, NEW size \in {0, 1}, NEW gain \in Int,
         Emit(Message("position", s, size, cum'[s]), gain),
         cum' \in [Symbols -> Int], \A x \in Symbols \ {s} : cum'[x] = cum[x],
         cum'[s] = cum[s] + gain
  PROVE  CumInv'
<1> DEFINE message == Message("position", s, size, cum'[s])
<1>1. message \in Messages /\ message.topic = "position" /\ message.symbol = s
      /\ message.size = size /\ message.cum = cum'[s]
  BY DEF Message, Messages, Topics
<1>2. Emit(message, gain)
  OBVIOUS
<1> HIDE DEF message
<1>3. /\ Count \in Nat /\ Count' = Count + 1
      /\ \A n \in 1..Count : sent'[n] = sent[n]
      /\ sent'[Count + 1].msg = message /\ sent'[Count + 1].gain = gain
  BY <1>1, <1>2, SentGrows
<1> USE DEF IsOf, Event
<1>4. sent'[Count + 1].msg.topic = "position" /\ sent'[Count + 1].msg.symbol = s
  BY <1>1, <1>3
<1>5. \A m \in 0..Count : \A k \in 1..m : \A x : LastOf(k, m, x)' <=> LastOf(k, m, x)
  BY <1>3 DEF LastOf
<1>6. ASSUME NEW n \in 1..(Count + 1), NEW k \in 1..(n - 1),
             (Event(n).topic = "position")', LastOf(k, n - 1, Event(n).symbol)'
      PROVE  (Event(n).cum = Event(k).cum + sent[n].gain)'
  <2>1. CASE n \in 1..Count
    <3>1. Event(n)' = Event(n) /\ Event(k)' = Event(k) /\ sent'[n] = sent[n]
      BY <1>3, <2>1
    <3>2. Event(n).topic = "position" /\ LastOf(k, n - 1, Event(n).symbol)
      BY <1>3, <1>5, <1>6, <2>1, <3>1 DEF IsClose
    <3> QED BY <2>1, <3>1, <3>2 DEF CumInv
  <2>2. CASE n = Count + 1
    <3>1. Event(n)' = message /\ sent'[n].gain = gain /\ Event(k)' = Event(k) /\ n - 1 = Count
      BY <1>3, <2>2
    <3>2. LastOf(k, Count, s)
      BY <1>1, <1>3, <1>5, <1>6, <2>2, <3>1
    <3>3. cum[s] = Event(k).cum
      BY <1>3, <2>2, <3>2 DEF CumInv
    <3> QED BY <1>1, <3>1, <3>2, <3>3
  <2> QED BY <1>3, <2>1, <2>2
<1>7. ASSUME NEW k \in 1..(Count + 1), NEW x \in Symbols, LastOf(k, Count, x)'
      PROVE  cum'[x] = Event(k)'.cum
  <2>1. CASE k = Count + 1
    BY <1>1, <1>3, <1>4, <1>7, <2>1 DEF LastOf
  <2>2. CASE k \in 1..Count
    <3>1. Count + 1 \in (k + 1)..(Count + 1)
      BY <1>3, <2>2
    <3>2. x # s
      BY <1>3, <1>4, <1>7, <2>2, <3>1 DEF LastOf
    <3>3. LastOf(k, Count, x)
      <4>1. \A l \in (k + 1)..Count : l \in (k + 1)..(Count + 1) /\ l \in 1..Count
        BY <1>3, <2>2
      <4> QED BY <1>3, <1>7, <2>2, <4>1 DEF LastOf
    <3> QED BY <1>3, <2>2, <3>2, <3>3 DEF CumInv
  <2> QED BY <1>3, <2>1, <2>2
<1>8. 1..Count' = 1..(Count + 1)
  BY <1>3
<1>9. (\A n \in 1..Count : \A k \in 1..(n - 1) :
         Event(n).topic = "position" /\ LastOf(k, n - 1, Event(n).symbol)
           => Event(n).cum = Event(k).cum + sent[n].gain)'
  BY <1>6, <1>8
<1>10. (\A k \in 1..Count, x \in Symbols : LastOf(k, Count, x) => cum[x] = Event(k).cum)'
  BY <1>3, <1>7, <1>8
<1> QED BY <1>9, <1>10 DEF CumInv

(* An order's record belongs to no position.                               *)
LEMMA OrderSent ==
  ASSUME TypeOK, CumInv, OrderChanges
  PROVE  CumInv'
<1> DEFINE message == Message("order", None, 0, 0)
<1>1. message \in Messages /\ message.topic = "order"
  BY DEF Message, Messages, Topics
<1>2. Emit(message, 0) /\ 0 \in Int /\ cum' = cum
  BY DEF OrderChanges
<1> HIDE DEF message
<1>3. /\ Count \in Nat /\ Count' = Count + 1
      /\ \A n \in 1..Count : sent'[n] = sent[n]
      /\ sent'[Count + 1].msg = message
  BY <1>1, <1>2, SentGrows
<1> USE DEF IsOf, Event
<1>4. sent'[Count + 1].msg.topic # "position"
  BY <1>1, <1>3
<1>5. \A m \in 0..Count : \A k \in 1..m : \A x : LastOf(k, m, x)' <=> LastOf(k, m, x)
  BY <1>3 DEF LastOf
<1>6. ASSUME NEW n \in 1..(Count + 1), NEW k \in 1..(n - 1),
             (Event(n).topic = "position")', LastOf(k, n - 1, Event(n).symbol)'
      PROVE  (Event(n).cum = Event(k).cum + sent[n].gain)'
  <2>1. n \in 1..Count
    BY <1>3, <1>4, <1>6 DEF IsClose
  <2>2. Event(n)' = Event(n) /\ Event(k)' = Event(k) /\ sent'[n] = sent[n]
    BY <1>3, <2>1
  <2>3. Event(n).topic = "position" /\ LastOf(k, n - 1, Event(n).symbol)
    BY <1>3, <1>5, <1>6, <2>1, <2>2 DEF IsClose
  <2> QED BY <2>1, <2>2, <2>3 DEF CumInv
<1>7. ASSUME NEW k \in 1..(Count + 1), NEW x \in Symbols, LastOf(k, Count, x)'
      PROVE  cum'[x] = Event(k)'.cum
  <2>1. k \in 1..Count
    BY <1>3, <1>4, <1>7 DEF LastOf
  <2>2. LastOf(k, Count, x)
    <3>1. \A l \in (k + 1)..Count : l \in (k + 1)..(Count + 1) /\ l \in 1..Count
      BY <1>3, <2>1
    <3> QED BY <1>3, <1>7, <2>1, <3>1 DEF LastOf
  <2> QED BY <1>2, <1>3, <2>1, <2>2 DEF CumInv
<1>8. 1..Count' = 1..(Count + 1)
  BY <1>3
<1>9. (\A n \in 1..Count : \A k \in 1..(n - 1) :
         Event(n).topic = "position" /\ LastOf(k, n - 1, Event(n).symbol)
           => Event(n).cum = Event(k).cum + sent[n].gain)'
  BY <1>6, <1>8
<1>10. (\A k \in 1..Count, x \in Symbols : LastOf(k, Count, x) => cum[x] = Event(k).cum)'
  BY <1>3, <1>7, <1>8
<1> QED BY <1>9, <1>10 DEF CumInv

LEMMA CumStep == IInv /\ CumInv /\ [Next]_vars => CumInv'
<1> SUFFICES ASSUME IInv, CumInv, [Next]_vars PROVE CumInv'
  OBVIOUS
<1>1. TypeOK
  BY DEF IInv
<1>2. ASSUME NEW s \in Symbols, PositionOpens(s) PROVE CumInv'
  <2>1. cum' = [cum EXCEPT ![s] = @ - Fee] /\ Emit(Message("position", s, 1, cum'[s]), -Fee)
        /\ -Fee \in Int
    BY <1>2, StreamAssumption DEF PositionOpens
  <2>2. cum' \in [Symbols -> Int] /\ (\A x \in Symbols \ {s} : cum'[x] = cum[x])
        /\ cum'[s] = cum[s] + (-Fee)
    BY <1>1, <2>1, StreamAssumption DEF TypeOK
  <2> QED BY <1>1, <2>1, <2>2, PositionSent
<1>3. ASSUME NEW s \in Symbols, NEW p \in Profits, PositionCloses(s, p) PROVE CumInv'
  <2>1. cum' = [cum EXCEPT ![s] = @ + p] /\ Emit(Message("position", s, 0, cum'[s]), p)
        /\ p \in Int
    BY <1>3, StreamAssumption DEF PositionCloses
  <2>2. cum' \in [Symbols -> Int] /\ (\A x \in Symbols \ {s} : cum'[x] = cum[x])
        /\ cum'[s] = cum[s] + p
    BY <1>1, <2>1 DEF TypeOK
  <2> QED BY <1>1, <2>1, <2>2, PositionSent
<1>4. CASE OrderChanges
  BY <1>1, <1>4, OrderSent
<1>6. ASSUME NEW s \in Symbols, NEW d \in Moves, PositionMoves(s, d) PROVE CumInv'
  <2>1. cum' = [cum EXCEPT ![s] = @ + d] /\ Emit(Message("position", s, 1, cum'[s]), d)
        /\ d \in Int
    BY <1>6, StreamAssumption DEF PositionMoves
  <2>2. cum' \in [Symbols -> Int] /\ (\A x \in Symbols \ {s} : cum'[x] = cum[x])
        /\ cum'[s] = cum[s] + d
    BY <1>1, <2>1 DEF TypeOK
  <2> QED BY <1>1, <2>1, <2>2, PositionSent
<1>5. CASE \/ LinkDrops \/ LinkReturns \/ Start \/ (\E ok \in BOOLEAN : Connect(ok))
           \/ Sleep \/ Wake \/ RunCallbacks \/ NewDay \/ Consume \/ Sent \/ Ends
           \/ UNCHANGED vars
  <2>1. UNCHANGED <<sent, cum>>
    BY <1>5 DEF LinkDrops, LinkReturns, Start, Connect, Sleep, Wake, RunCallbacks, NewDay,
                Consume, DispatchOrder, DispatchPosition, Receive, Sent, Ends, vars, account
  <2> QED BY <2>1 DEF CumInv, Count, LastOf, IsOf, Event
<1> QED BY <1>2, <1>3, <1>4, <1>5, <1>6 DEF Next, Bybit

---------------------------------------------------------------------------
(* What the report of the journal's first records contains: a baseline for *)
(* each symbol with a record, the one of its last record; no trade but a   *)
(* close with a record of its symbol before it; and for each such close a  *)
(* trade whose profit is the difference to the record before it.           *)

Latest(k, i, s) ==
  IsOf(journal[k], s) /\ \A l \in (k + 1)..i : ~IsOf(journal[l], s)

Trade(j, k) ==
  [event |-> journal[j], pnl |-> Event(journal[j]).cum - Event(journal[k]).cum]

BaselinesMean(r, i) ==
  /\ \A s : s \in DOMAIN r.last <=> \E j \in 1..i : IsOf(journal[j], s)
  /\ \A j \in 1..i : \A s : Latest(j, i, s) => r.last[s] = Event(journal[j]).cum

TradesMean(r, i) ==
  \A t \in 1..Len(r.trades) : \E j \in 1..i :
     /\ r.trades[t].event = journal[j] /\ IsClose(Event(journal[j]))
     /\ \E k \in 1..(j - 1) : IsOf(journal[k], Event(journal[j]).symbol)

ClosesMean(r, i) ==
  \A j \in 1..i : \A k \in 1..(j - 1) :
     IsClose(Event(journal[j])) /\ Latest(k, j - 1, Event(journal[j]).symbol)
       => \E t \in 1..Len(r.trades) : r.trades[t] = Trade(j, k)

Baselines == UNION {[D -> Int] : D \in SUBSET (Symbols \cup {None})}
Trades == [event: Numbers, pnl: Int]
Reports == [trades: Seq(Trades), last: Baselines]
NoReport == [trades |-> <<>>, last |-> <<>>]

(* The journal holds records of events that were sent.                     *)
LEMMA JournalTyped ==
  ASSUME IInv
  PROVE  /\ journal \in Seq(Numbers) /\ Len(journal) \in Nat /\ Count \in Nat
         /\ \A i \in 1..Len(journal) :
              journal[i] \in 1..Count /\ journal[i] \in Numbers
              /\ Event(journal[i]) \in Messages
         /\ \A i, j \in 1..Len(journal) : i < j => journal[i] < journal[j]
<1>1. journal \in Seq(Numbers) /\ sent \in Seq([msg: Messages, gain: Int])
  BY DEF IInv, TypeOK
<1>2. \A i \in 1..Len(journal) : journal[i] \in 1..Count
  BY DEF IInv, OrderInv, Elements
<1>3. ASSUME NEW n \in 1..Count PROVE Event(n) \in Messages
  <2>1. sent[n] \in [msg: Messages, gain: Int]
    BY <1>1, ElementIn DEF Count
  <2> QED BY <2>1 DEF Event
<1>4. \A i \in 1..Len(journal) : journal[i] \in Numbers
  BY <1>1
<1> QED BY <1>1, <1>2, <1>3, <1>4 DEF IInv, OrderInv, Ascending, Count

(* A record leads from report to report.                                   *)
LEMMA ExtractTyped ==
  ASSUME NEW r \in Reports, NEW n \in Numbers, Event(n) \in Messages
  PROVE  Extract(r, n) \in Reports
<1> DEFINE m == Event(n)
           last == Baseline(r.last, m.symbol, m.cum)
<1>1. PICK D \in SUBSET (Symbols \cup {None}) : r.last \in [D -> Int]
  BY DEF Reports, Baselines
<1>2. m.symbol \in Symbols \cup {None} /\ m.cum \in Int
  BY DEF Messages
<1>3. last \in [D \cup {m.symbol} -> Int]
  BY <1>1, <1>2 DEF Baseline
<1>4. last \in Baselines
  BY <1>2, <1>3 DEF Baselines
<1>5. ASSUME m.symbol \in DOMAIN r.last
      PROVE  [event |-> n, pnl |-> m.cum - r.last[m.symbol]] \in Trades
  BY <1>1, <1>2, <1>5 DEF Trades
<1>6. r.trades \in Seq(Trades)
  BY DEF Reports
<1> HIDE DEF m, last
<1> QED BY <1>4, <1>5, <1>6 DEF Extract, Reports, m, last

(* The report goes through the journal record by record.                   *)
LEMMA ReportRuns ==
  ASSUME IInv
  PROVE  \E after \in [0..Len(journal) -> Reports] :
           /\ after[0] = NoReport /\ Report = after[Len(journal)]
           /\ \A i \in 1..Len(journal) : after[i] = Extract(after[i - 1], journal[i])
<1> DEFINE last == Len(journal)
           Step(i, r) == IF i \in 1..last THEN Extract(r, journal[i]) ELSE r
           step == [p \in Int \X Reports |-> Step(p[1], p[2])]
           after[i \in 0..last] ==
             IF i = 0 THEN NoReport ELSE Extract(after[i - 1], journal[i])
<1>1. NoReport \in Reports
  <2>1. <<>> \in [{} -> Int]
    OBVIOUS
  <2>2. <<>> \in Baselines
    BY <2>1 DEF Baselines
  <2> QED BY <2>2 DEF NoReport, Reports
<1>2. step \in [Int \X Reports -> Reports]
  <2>1. \A i \in Int, r \in Reports : Step(i, r) \in Reports
    BY JournalTyped, ExtractTyped
  <2> HIDE DEF Step
  <2> QED BY <2>1
<1>3. 0 \in Int /\ last \in Int /\ last \in Nat
  BY JournalTyped
<1>4. PICK g \in [0..last -> Reports] : Follows(g, 0, last, NoReport, step)
  <2> HIDE DEF last, step
  <2> QED BY <1>1, <1>2, <1>3, Recursion
<1>5. \A i \in 0..last : g[i] = IF i = 0 THEN NoReport ELSE Extract(g[i - 1], journal[i])
  <2>1. \A i \in 1..last : g[i - 1] \in Reports /\ i \in Int
    BY <1>3
  <2>2. \A i \in 1..last : step[<<i, g[i - 1]>>] = Extract(g[i - 1], journal[i])
    BY <2>1
  <2> HIDE DEF step, last
  <2>3. \A i \in 0..last : i = 0 \/ i \in 1..last
    BY <1>3
  <2> QED BY <1>4, <2>2, <2>3 DEF Follows
<1>6. g = [i \in 0..last |-> IF i = 0 THEN NoReport ELSE Extract(g[i - 1], journal[i])]
  <2> HIDE DEF last
  <2> QED BY <1>4, <1>5
<1>7. after = [i \in 0..last |-> IF i = 0 THEN NoReport ELSE Extract(after[i - 1], journal[i])]
  <2> HIDE DEF last
  <2> QED BY <1>6, Zenon DEF after
<1>8. Report = after[last]
  BY Zenon DEF Report, NoReport
<1>9. \A i \in 0..last : after[i] = IF i = 0 THEN NoReport ELSE Extract(after[i - 1], journal[i])
  <2> HIDE DEF after, last
  <2> QED BY <1>7
<1>10. after \in [0..last -> Reports]
  <2> DEFINE P == {n \in Nat : n <= last => after[n] \in Reports}
  <2>1. 0 \in P
    <3> HIDE DEF after, last
    <3> QED BY <1>1, <1>3, <1>9
  <2>2. ASSUME NEW n \in Nat, n \in P PROVE n + 1 \in P
    <3> HIDE DEF after
    <3> SUFFICES ASSUME n + 1 <= last PROVE after[n + 1] \in Reports
      OBVIOUS
    <3>1. after[n] \in Reports /\ n + 1 \in 1..last
      BY <1>3, <2>2
    <3>2. after[n + 1] = Extract(after[n], journal[n + 1])
      <4> HIDE DEF last
      <4> QED BY <1>3, <1>9, <3>1
    <3> QED BY <3>1, <3>2, JournalTyped, ExtractTyped
  <2>3. Nat \subseteq P
    <3> HIDE DEF P
    <3> QED BY <2>1, <2>2, Induction
  <2>4. \A i \in 0..last : after[i] \in Reports
    <3> HIDE DEF after, last
    <3> QED BY <1>3, <2>3
  <2> HIDE DEF after, last
  <2> QED BY <1>7, <2>4
<1> HIDE DEF after
<1>11. after[0] = NoReport
  BY <1>3, <1>9
<1>12. \A i \in 1..last : after[i] = Extract(after[i - 1], journal[i])
  <2> HIDE DEF last
  <2> QED BY <1>3, <1>9
<1> QED BY <1>8, <1>10, <1>11, <1>12

(* One more record keeps what the report means.                            *)
LEMMA BaselinesStep ==
  ASSUME IInv, NEW i \in 1..Len(journal), NEW r \in Reports, BaselinesMean(r, i - 1)
  PROVE  BaselinesMean(Extract(r, journal[i]), i)
<1> DEFINE m == Event(journal[i])
           e == Extract(r, journal[i])
<1>1. Len(journal) \in Nat
  BY JournalTyped
<1>2. \A s : IsOf(journal[i], s) <=> m.topic = "position" /\ s = m.symbol
  BY DEF IsOf
<1>3. CASE m.topic # "position"
  <2>1. e = r
    BY <1>3 DEF Extract
  <2>2. \A s : ~IsOf(journal[i], s)
    BY <1>2, <1>3
  <2>3. \A j \in 1..i : j = i \/ j \in 1..(i - 1)
    OBVIOUS
  <2>4. \A j \in 1..(i - 1) : j \in 1..i
    OBVIOUS
  <2>5. \A j \in 1..(i - 1) : \A s : Latest(j, i, s) => Latest(j, i - 1, s)
    BY DEF Latest
  <2>6. \A j \in 1..i : \A s : Latest(j, i, s) => j # i
    BY <2>2 DEF Latest
  <2> HIDE DEF m, e
  <2>7. \A s : s \in DOMAIN e.last <=> \E j \in 1..i : IsOf(journal[j], s)
    BY <2>1, <2>2, <2>3, <2>4, Zenon DEF BaselinesMean
  <2>8. \A j \in 1..i : \A s : Latest(j, i, s) => e.last[s] = Event(journal[j]).cum
    BY <2>1, <2>3, <2>5, <2>6 DEF BaselinesMean
  <2> QED BY <2>7, <2>8 DEF BaselinesMean, e
<1>4. CASE m.topic = "position"
  <2>1. e.last = Baseline(r.last, m.symbol, m.cum)
    BY <1>4 DEF Extract
  <2>2. DOMAIN e.last = DOMAIN r.last \cup {m.symbol}
    BY <2>1 DEF Baseline
  <2>3. e.last[m.symbol] = m.cum
    BY <2>1 DEF Baseline
  <2>4. \A s \in DOMAIN r.last : s # m.symbol => e.last[s] = r.last[s]
    BY <2>1 DEF Baseline
  <2>5. \A j \in 1..i : j = i \/ j \in 1..(i - 1)
    OBVIOUS
  <2>6. \A j \in 1..(i - 1) : j \in 1..i
    OBVIOUS
  <2>7. i \in 1..i
    OBVIOUS
  <2>8. \A j \in 1..(i - 1) : \A s : Latest(j, i, s) =>
           Latest(j, i - 1, s) /\ s # m.symbol /\ IsOf(journal[j], s)
    <3>1. \A j \in 1..(i - 1) : i \in (j + 1)..i
      OBVIOUS
    <3>2. IsOf(journal[i], m.symbol)
      BY <1>2, <1>4
    <3> HIDE DEF m
    <3> QED BY <3>1, <3>2 DEF Latest
  <2>9. \A s : Latest(i, i, s) => s = m.symbol
    BY <1>2 DEF Latest
  <2>10. \A s : IsOf(journal[i], s) <=> s = m.symbol
    BY <1>2, <1>4
  <2>11. \A s : s \in DOMAIN e.last <=> \E j \in 1..i : IsOf(journal[j], s)
    <3> HIDE DEF m, e
    <3> QED BY <2>2, <2>5, <2>6, <2>7, <2>10, Zenon DEF BaselinesMean
  <2>12. ASSUME NEW j \in 1..i, NEW s, Latest(j, i, s)
         PROVE  e.last[s] = Event(journal[j]).cum
    <3>1. CASE j = i
      <4>1. s = m.symbol
        BY <2>9, <2>12, <3>1
      <4> QED BY <2>3, <3>1, <4>1
    <3>2. CASE j \in 1..(i - 1)
      <4>1. Latest(j, i - 1, s) /\ s # m.symbol /\ IsOf(journal[j], s)
        BY <2>8, <2>12, <3>2
      <4>2. s \in DOMAIN r.last /\ r.last[s] = Event(journal[j]).cum
        BY <3>2, <4>1 DEF BaselinesMean
      <4> QED BY <2>4, <4>1, <4>2
    <3> QED BY <2>5, <3>1, <3>2
  <2> HIDE DEF e
  <2> QED BY <2>11, <2>12 DEF BaselinesMean, e
<1> QED BY <1>3, <1>4

LEMMA TradesStep ==
  ASSUME IInv, NEW i \in 1..Len(journal), NEW r \in Reports,
         BaselinesMean(r, i - 1), TradesMean(r, i - 1), ClosesMean(r, i - 1)
  PROVE  /\ TradesMean(Extract(r, journal[i]), i)
         /\ ClosesMean(Extract(r, journal[i]), i)
<1> DEFINE m == Event(journal[i])
           e == Extract(r, journal[i])
           trade == [event |-> journal[i], pnl |-> m.cum - r.last[m.symbol]]
           reported == IsClose(m) /\ m.symbol \in DOMAIN r.last
<1>1. Len(journal) \in Nat /\ r.trades \in Seq(Trades) /\ Len(r.trades) \in Nat
  BY JournalTyped DEF Reports
<1>2. \A j \in 1..i : j = i \/ j \in 1..(i - 1)
  OBVIOUS
<1>3. \A j \in 1..(i - 1) : j \in 1..i
  OBVIOUS
<1>4. m.symbol \in DOMAIN r.last <=> \E k \in 1..(i - 1) : IsOf(journal[k], m.symbol)
  BY DEF BaselinesMean
<1>5. CASE ~reported
  <2>1. e.trades = r.trades
    BY <1>5 DEF Extract, IsClose
  <2>2. TradesMean(e, i)
    <3> HIDE DEF e
    <3> QED BY <1>3, <2>1 DEF TradesMean
  <2>3. \A k \in 1..(i - 1) : ~(IsClose(m) /\ Latest(k, i - 1, m.symbol))
    <3> HIDE DEF m
    <3> QED BY <1>4, <1>5 DEF Latest
  <2>4. ClosesMean(e, i)
    <3> SUFFICES ASSUME NEW j \in 1..i, NEW k \in 1..(j - 1), IsClose(Event(journal[j])),
                        Latest(k, j - 1, Event(journal[j]).symbol)
                 PROVE  \E t \in 1..Len(e.trades) : e.trades[t] = Trade(j, k)
      BY DEF ClosesMean
    <3>1. j \in 1..(i - 1)
      BY <1>2, <2>3
    <3> QED BY <2>1, <3>1 DEF ClosesMean
  <2> QED BY <2>2, <2>4
<1>6. CASE reported
  <2>1. e.trades = Append(r.trades, trade)
    BY <1>6 DEF Extract, IsClose
  <2>2. Len(e.trades) = Len(r.trades) + 1
    BY <1>1, <2>1
  <2>3. \A t \in 1..Len(r.trades) : t \in 1..Len(e.trades) /\ e.trades[t] = r.trades[t]
    <3> HIDE DEF trade, e
    <3> QED BY <1>1, <2>1, <2>2
  <2>4. Len(r.trades) + 1 \in 1..Len(e.trades) /\ e.trades[Len(r.trades) + 1] = trade
    <3> HIDE DEF trade, e
    <3> QED BY <1>1, <2>1, <2>2
  <2>5. TradesMean(e, i)
    <3> SUFFICES ASSUME NEW t \in 1..Len(e.trades)
                 PROVE  \E j \in 1..i :
                          /\ e.trades[t].event = journal[j] /\ IsClose(Event(journal[j]))
                          /\ \E k \in 1..(j - 1) : IsOf(journal[k], Event(journal[j]).symbol)
      BY DEF TradesMean
    <3>1. CASE t \in 1..Len(r.trades)
      BY <1>3, <2>3, <3>1 DEF TradesMean
    <3>2. CASE t = Len(r.trades) + 1
      <4>1. i \in 1..i /\ e.trades[t].event = journal[i]
        BY <2>4, <3>2
      <4> HIDE DEF e
      <4> QED BY <1>4, <1>6, <4>1
    <3> HIDE DEF e
    <3> QED BY <1>1, <2>2, <3>1, <3>2
  <2>6. ClosesMean(e, i)
    <3> SUFFICES ASSUME NEW j \in 1..i, NEW k \in 1..(j - 1), IsClose(Event(journal[j])),
                        Latest(k, j - 1, Event(journal[j]).symbol)
                 PROVE  \E t \in 1..Len(e.trades) : e.trades[t] = Trade(j, k)
      BY DEF ClosesMean
    <3>1. CASE j \in 1..(i - 1)
      <4>1. PICK t \in 1..Len(r.trades) : r.trades[t] = Trade(j, k)
        BY <3>1 DEF ClosesMean
      <4> HIDE DEF e
      <4> QED BY <2>3, <4>1
    <3>2. CASE j = i
      <4>1. r.last[m.symbol] = Event(journal[k]).cum
        BY <3>2 DEF BaselinesMean
      <4>2. trade = Trade(j, k)
        BY <3>2, <4>1 DEF Trade
      <4> HIDE DEF e, trade
      <4> QED BY <2>4, <4>2
    <3> QED BY <1>2, <3>1, <3>2
  <2> QED BY <2>5, <2>6
<1> QED BY <1>5, <1>6

LEMMA ReportMeans ==
  ASSUME IInv
  PROVE  TradesMean(Report, Len(journal)) /\ ClosesMean(Report, Len(journal))
<1> DEFINE last == Len(journal)
<1>1. last \in Nat
  BY JournalTyped
<1>2. PICK after \in [0..last -> Reports] :
        /\ after[0] = NoReport /\ Report = after[last]
        /\ \A i \in 1..last : after[i] = Extract(after[i - 1], journal[i])
  BY ReportRuns
<1> DEFINE Means(r, i) == BaselinesMean(r, i) /\ TradesMean(r, i) /\ ClosesMean(r, i)
           P == {n \in Nat : n <= last => Means(after[n], n)}
<1>3. 0 \in P
  <2>1. DOMAIN NoReport.last = {} /\ Len(NoReport.trades) = 0
    BY DEF NoReport
  <2>2. Means(NoReport, 0)
    BY <2>1 DEF BaselinesMean, TradesMean, ClosesMean
  <2> HIDE DEF Means
  <2> QED BY <1>2, <2>2
<1>4. ASSUME NEW n \in Nat, n \in P PROVE n + 1 \in P
  <2> SUFFICES ASSUME n + 1 <= last PROVE Means(after[n + 1], n + 1)
    OBVIOUS
  <2>1. n + 1 \in 1..last /\ n \in 0..last /\ (n + 1) - 1 = n
    BY <1>1
  <2>2. after[n] \in Reports /\ after[n + 1] = Extract(after[n], journal[n + 1])
    BY <1>2, <2>1
  <2>3. Means(after[n], n)
    BY <1>1, <1>4
  <2> QED BY <2>1, <2>2, <2>3, BaselinesStep, TradesStep
<1>5. Nat \subseteq P
  <2> HIDE DEF P
  <2> QED BY <1>3, <1>4, Induction
<1>6. Means(after[last], last)
  <2> HIDE DEF Means, last
  <2> QED BY <1>1, <1>5
<1> QED BY <1>2, <1>6

(* Of the records before an event, one is the latest.                      *)
LEMMA MaxIs ==
  ASSUME NEW n \in Nat, NEW T \in SUBSET (1..(n - 1)), T # {}
  PROVE  Max(T) \in T /\ \A x \in T : x <= Max(T)
<1> DEFINE U == {n - x : x \in T}
<1>1. U \in SUBSET Nat /\ U # {}
  <2>1. \A x \in T : n - x \in Nat
    OBVIOUS
  <2> QED BY <2>1
<1>2. PICK u \in U : \A y \in U : u <= y
  <2> HIDE DEF U
  <2> QED BY <1>1, LeastElement
<1>3. PICK x \in T : u = n - x
  OBVIOUS
<1>4. \A y \in T : x >= y
  BY <1>2, <1>3
<1>5. Max(T) \in T /\ \A y \in T : Max(T) >= y
  BY <1>4, Zenon DEF Max
<1> QED BY <1>5

(* What a symbol realised between two of its records is the difference of  *)
(* their figures: the running total goes through the records in between.   *)
LEMMA RealisedIs ==
  ASSUME IInv, CumInv, NEW n \in 1..Count, NEW k \in 1..(n - 1),
         Event(n).topic = "position", IsOf(k, Event(n).symbol)
  PROVE  RealisedSince(k, n) = Event(n).cum - Event(k).cum
<1> DEFINE s == Event(n).symbol
           Move(i) == IF IsOf(i, s) THEN sent[i].gain ELSE 0
           total[i \in k..n] == IF i = k THEN 0 ELSE total[i - 1] + Move(i)
<1>1. Count \in Nat /\ k \in Nat /\ n \in Nat /\ k < n
  BY DEF IInv, TypeOK, Count
<1>2. \A i \in 1..Count : sent[i].gain \in Int /\ Event(i).cum \in Int
  <2> SUFFICES ASSUME NEW i \in 1..Count PROVE sent[i].gain \in Int /\ Event(i).cum \in Int
    OBVIOUS
  <2>1. sent[i] \in [msg: Messages, gain: Int]
    BY ElementIn DEF IInv, TypeOK, Count
  <2> QED BY <2>1 DEF Event, Messages
<1>3. \A i \in k..n : Move(i) \in Int
  BY <1>1, <1>2
<1> HIDE DEF Move
<1>4. \A i \in k..n : total[i] = IF i = k THEN 0 ELSE total[i - 1] + Move(i)
  <2> DEFINE step == [p \in Int \X Int |-> IF p[1] \in k..n THEN p[2] + Move(p[1]) ELSE 0]
  <2>1. step \in [Int \X Int -> Int]
    BY <1>3
  <2>2. PICK g \in [k..n -> Int] : Follows(g, k, n, 0, step)
    <3>1. k \in Int /\ n \in Int /\ 0 \in Int
      BY <1>1
    <3> HIDE DEF step
    <3> QED BY <2>1, <3>1, Recursion
  <2>3. \A i \in k..n : g[i] = IF i = k THEN 0 ELSE g[i - 1] + Move(i)
    <3>1. \A i \in (k + 1)..n : g[i - 1] \in Int /\ i \in Int /\ i \in k..n
      BY <1>1
    <3>2. \A i \in (k + 1)..n : step[<<i, g[i - 1]>>] = g[i - 1] + Move(i)
      BY <3>1
    <3> HIDE DEF step
    <3>3. \A i \in k..n : i = k \/ i \in (k + 1)..n
      BY <1>1
    <3> QED BY <2>2, <3>2, <3>3 DEF Follows
  <2>4. g = [i \in k..n |-> IF i = k THEN 0 ELSE g[i - 1] + Move(i)]
    BY <2>2, <2>3
  <2>5. total = [i \in k..n |-> IF i = k THEN 0 ELSE total[i - 1] + Move(i)]
    BY <2>4, Zenon DEF total
  <2> HIDE DEF total
  <2> QED BY <2>5
<1>5. RealisedSince(k, n) = total[n]
  BY Zenon DEF RealisedSince, Move
<1> HIDE DEF total
<1> DEFINE Reached(i) == \E l \in k..i : LastOf(l, i, s) /\ total[i] = Event(l).cum - Event(k).cum
           P == {d \in Nat : k + d <= n => Reached(k + d)}
<1>6. 0 \in P
  <2>1. LastOf(k, k, s)
    BY <1>1 DEF LastOf
  <2>2. k \in k..n /\ k \in 1..Count /\ k \in k..k
    BY <1>1
  <2>3. total[k] = Event(k).cum - Event(k).cum
    BY <1>2, <1>4, <2>2
  <2> QED BY <1>1, <2>1, <2>2, <2>3
<1>7. ASSUME NEW d \in Nat, d \in P PROVE d + 1 \in P
  <2> SUFFICES ASSUME k + (d + 1) <= n PROVE Reached(k + (d + 1))
    OBVIOUS
  <2> DEFINE i == k + (d + 1)
  <2>1. i \in k..n /\ i # k /\ i - 1 = k + d /\ k + d <= n /\ i \in 1..Count /\ i \in Nat
    BY <1>1
  <2>2. PICK l \in k..(k + d) : LastOf(l, k + d, s) /\ total[k + d] = Event(l).cum - Event(k).cum
    BY <1>7, <2>1
  <2>3. l \in 1..(i - 1) /\ l \in 1..Count /\ l \in k..i /\ k \in 1..Count
    BY <1>1, <2>1, <2>2
  <2>4. total[i] = total[i - 1] + Move(i)
    BY <1>4, <2>1
  <2> HIDE DEF i
  <2>5. CASE IsOf(i, s)
    <3>1. Event(i).topic = "position" /\ Event(i).symbol = s
      BY <2>5 DEF IsOf
    <3>2. LastOf(l, i - 1, Event(i).symbol)
      BY <2>1, <2>2, <3>1
    <3>3. Event(i).cum = Event(l).cum + sent[i].gain
      BY <2>1, <2>3, <3>1, <3>2 DEF CumInv
    <3>4. Move(i) = sent[i].gain
      BY <2>5 DEF Move
    <3>5. LastOf(i, i, s) /\ i \in k..i
      BY <2>1, <2>5 DEF LastOf
    <3>6. total[i] = Event(i).cum - Event(k).cum
      BY <1>2, <2>1, <2>2, <2>3, <2>4, <3>3, <3>4
    <3> QED BY <3>5, <3>6 DEF i
  <2>6. CASE ~IsOf(i, s)
    <3>1. total[i] = total[k + d]
      BY <1>2, <2>1, <2>2, <2>3, <2>4, <2>6 DEF Move
    <3>2. LastOf(l, i, s)
      <4>1. \A x \in (l + 1)..i : x = i \/ x \in (l + 1)..(k + d)
        BY <2>1, <2>3
      <4> QED BY <2>2, <2>6, <4>1 DEF LastOf
    <3> QED BY <2>2, <2>3, <3>1, <3>2 DEF i
  <2> QED BY <2>5, <2>6
<1>8. Nat \subseteq P
  <2> HIDE DEF P
  <2> QED BY <1>6, <1>7, Induction
<1>9. Reached(n)
  <2>1. n - k \in Nat /\ k + (n - k) = n
    BY <1>1
  <2>2. n - k \in P
    BY <1>8, <2>1
  <2> HIDE DEF Reached
  <2> QED BY <1>1, <2>1, <2>2
<1>10. PICK l \in k..n : LastOf(l, n, s) /\ total[n] = Event(l).cum - Event(k).cum
  BY <1>9
<1>11. l = n
  <2>1. IsOf(n, s)
    BY DEF IsOf
  <2>2. l < n => n \in (l + 1)..n
    BY <1>1, <1>10
  <2> QED BY <1>1, <1>10, <2>1, <2>2 DEF LastOf
<1> QED BY <1>5, <1>10, <1>11

(* What the report holds of the closes.                                    *)
LEMMA ReportRecovers == IInv /\ CumInv => ClosesRecovered
<1> SUFFICES ASSUME IInv, CumInv PROVE ClosesRecovered
  OBVIOUS
<1> DEFINE trades == Report.trades
           last == Len(journal)
<1>1. TradesMean(Report, last) /\ ClosesMean(Report, last)
  BY ReportMeans
<1>2. /\ last \in Nat /\ Count \in Nat
      /\ \A i \in 1..last : journal[i] \in 1..Count /\ Event(journal[i]) \in Messages
      /\ \A i, j \in 1..last : i < j => journal[i] < journal[j]
  BY JournalTyped
<1>3. \A n : Logged(n) <=> \E i \in 1..last : n = journal[i]
  BY DEF Logged, Elements
<1>4. ASSUME NEW t \in 1..Len(trades)
      PROVE  Logged(trades[t].event) /\ IsClose(Event(trades[t].event))
  BY <1>1, <1>3 DEF TradesMean
<1>5. ASSUME NEW n \in 1..Count, Logged(n), IsClose(Event(n)),
             \A k \in Before(n) : ~Logged(k), NEW t \in 1..Len(trades)
      PROVE  trades[t].event # n
  <2> SUFFICES ASSUME trades[t].event = n PROVE FALSE
    OBVIOUS
  <2>1. PICK j \in 1..last : n = journal[j] /\ \E k \in 1..(j - 1) : IsOf(journal[k], Event(n).symbol)
    BY <1>1 DEF TradesMean
  <2>2. PICK k \in 1..(j - 1) : IsOf(journal[k], Event(n).symbol)
    BY <2>1
  <2>3. k \in 1..last /\ k < j
    BY <1>2
  <2>4. journal[k] \in 1..(n - 1)
    BY <1>2, <2>1, <2>3
  <2>5. journal[k] \in Before(n) /\ Logged(journal[k])
    BY <1>3, <2>2, <2>3, <2>4 DEF Before
  <2> QED BY <1>5, <2>5
<1>6. ASSUME NEW n \in 1..Count, Logged(n), IsClose(Event(n)),
             NEW b \in Before(n), Logged(b), \A k \in Before(n) : Logged(k) => k <= b
      PROVE  \E t \in 1..Len(trades) : trades[t] = [event |-> n, pnl |-> RealisedSince(b, n)]
  <2> DEFINE s == Event(n).symbol
  <2>1. PICK j \in 1..last : n = journal[j]
    BY <1>3, <1>6
  <2>2. PICK k \in 1..last : b = journal[k]
    BY <1>3, <1>6
  <2>3. b \in 1..(n - 1) /\ IsOf(b, s)
    BY DEF Before
  <2>4. k \in 1..(j - 1)
    BY <1>2, <2>1, <2>2, <2>3
  <2>5. \A l \in (k + 1)..(j - 1) : ~IsOf(journal[l], s)
    <3> SUFFICES ASSUME NEW l \in (k + 1)..(j - 1), IsOf(journal[l], s) PROVE FALSE
      OBVIOUS
    <3>1. l \in 1..last /\ k < l /\ l < j
      BY <1>2, <2>1, <2>2
    <3>2. journal[l] \in 1..(n - 1) /\ ~(journal[l] <= b)
      BY <1>2, <2>1, <2>2, <3>1
    <3>3. journal[l] \in Before(n) /\ Logged(journal[l])
      BY <1>3, <3>1, <3>2 DEF Before
    <3> QED BY <1>6, <3>2, <3>3
  <2>6. Latest(k, j - 1, s)
    <3> HIDE DEF s
    <3> QED BY <2>2, <2>3, <2>5 DEF Latest
  <2>7. PICK t \in 1..Len(trades) : trades[t] = Trade(j, k)
    BY <1>1, <1>6, <2>1, <2>4, <2>6 DEF ClosesMean
  <2>8. RealisedSince(b, n) = Event(n).cum - Event(b).cum
    BY <1>6, <2>3, RealisedIs DEF IsClose
  <2>9. Trade(j, k) = [event |-> n, pnl |-> RealisedSince(b, n)]
    BY <2>1, <2>2, <2>8 DEF Trade
  <2> QED BY <2>7, <2>9
<1>7. ASSUME NEW n \in 1..Count, Logged(n), IsClose(Event(n)),
             NEW known, known = {k \in Before(n) : Logged(k)}
      PROVE  IF known = {} THEN \A t \in 1..Len(trades) : trades[t].event # n
             ELSE \E t \in 1..Len(trades) :
                     trades[t] = [event |-> n, pnl |-> RealisedSince(Max(known), n)]
  <2>1. CASE known = {}
    BY <1>5, <1>7, <2>1
  <2>2. CASE known # {}
    <3>1. known \in SUBSET (1..(n - 1)) /\ n \in Nat
      BY <1>2, <1>7 DEF Before
    <3>2. Max(known) \in known /\ \A k \in known : k <= Max(known)
      BY <2>2, <3>1, MaxIs
    <3> HIDE DEF trades
    <3> QED BY <1>6, <1>7, <2>2, <3>2
  <2> QED BY <2>1, <2>2
<1> HIDE DEF trades
<1> QED BY <1>4, <1>7 DEF ClosesRecovered, trades

(* The report charges to each close in the journal what its symbol realised*)
(* since the newest earlier record of it in the journal, whichever records *)
(* were lost on the way; it leaves out a close without such a record, and  *)
(* it invents nothing.                                                     *)
THEOREM ClosesRecoveredCorrect == Spec => []ClosesRecovered
<1>1. Init => CumInv
  BY CumInit
<1>2. IInv /\ CumInv /\ [Next]_vars => CumInv'
  BY CumStep
<1>3. IInv /\ CumInv => ClosesRecovered
  BY ReportRecovers
<1> QED BY <1>1, <1>2, <1>3, InvCorrect, PTL DEF Spec
===========================================================================
