--------------------------- MODULE ScalperProofs ---------------------------
(***************************************************************************)
(* What holds of the multi-scalper for every set of symbols, signals and   *)
(* results, every loss limit and any number of restarts.                   *)
(***************************************************************************)
EXTENDS Scalper, TLAPS

---------------------------------------------------------------------------
(* What one step may do to the loss guard and to the open positions.       *)

GuardMove ==
  \/ UNCHANGED guardVars
  \/ AskGuard \/ GuardAnswers
  \/ EmptiedCache /\ UNCHANGED <<realised, request, breachVars, guessed>>
  \/ request' = NoRequest /\ UNCHANGED <<realised, cacheVars, breachVars, guessed>>
  \/ \E r \in Results : Realise(r)
  \/ CacheExpires \/ RequestExpires \/ Midnight

LEMMA GuardMoves == Next => GuardMove
BY DEF Next, Step, Start, NextCycle, FetchSkips, FetchGives, PositionsAnswer,
       PositionsFail, ReportClose, ForgetPosition, AskGuard, GuardAnswers, NoEntry,
       LowVolatility, Enter, OrderRefused, OrderExecuted, Answered, AnswerLost, Verify, Crash,
       CrashInWrite, Forgotten, PositionCloses, TimePasses, GuardMove

OpenMove ==
  \/ open' \subseteq open
  \/ pc = "place" /\ pc' = "answer" /\ open' \subseteq open \cup {at} /\ UNCHANGED at

(* Only an executed order opens a position, and at its own symbol.         *)
LEMMA OpenMoves == Next => OpenMove
BY DEF Next, Step, Start, NextCycle, FetchSkips, FetchGives, PositionsAnswer,
       PositionsFail, ReportClose, ForgetPosition, AskGuard, GuardAnswers, NoEntry,
       LowVolatility, Enter, OrderRefused, OrderExecuted, Answered, AnswerLost, Verify, Crash,
       CrashInWrite, Forgotten, PositionCloses, TimePasses, OpenMove, visit

---------------------------------------------------------------------------
(* Type correctness.                                                       *)

LEMMA NoPnl == 0 \in -MaxPnl..MaxPnl
BY LimitAssumption

LEMMA NoRequestType == NoRequest \in Requests
BY NoPnl DEF NoRequest, Requests

LEMMA TypeInit == Init => TypeOK
<1> SUFFICES ASSUME Init PROVE TypeOK
  OBVIOUS
<1> USE DEF Init, GuardInit, EmptyCache
<1>1. GuardTypeOK
  BY NoPnl, NoRequestType DEF GuardTypeOK
<1>2. ProcessTypeOK
  BY ScalperAssumption DEF ProcessTypeOK, AwaitSites
<1>3. VisitTypeOK
  BY DEF VisitTypeOK, Visiting
<1>4. RecordsTypeOK
  BY DEF RecordsTypeOK, Nothing
<1> QED BY <1>1, <1>2, <1>3, <1>4 DEF TypeOK

LEMMA GuardTypeStep ==
  ASSUME TypeOK, Next
  PROVE  GuardTypeOK'
<1> USE DEF TypeOK, GuardTypeOK, cacheVars, breachVars
<1>1. CASE UNCHANGED guardVars
  BY <1>1 DEF guardVars
<1>2. CASE AskGuard
  <2>1. CASE AnswerAtOnce(blocked')
    BY <1>2, <2>1 DEF AskGuard, AnswerAtOnce
  <2>2. CASE RequestPnl
    <3>1. (breach = "old") \in BOOLEAN
      OBVIOUS
    <3>2. request' \in Requests
      BY <2>2, <3>1, Zenon DEF RequestPnl, Requests
    <3> QED BY <1>2, <2>2, <3>2 DEF AskGuard, RequestPnl
  <2> QED BY <1>2, <2>1, <2>2 DEF AskGuard
<1>3. CASE GuardAnswers
  BY <1>3, NoRequestType DEF GuardAnswers, PnlArrives, PnlFails, Requests
<1>4. CASE EmptiedCache /\ UNCHANGED <<realised, request, breachVars, guessed>>
  BY <1>4, NoPnl DEF EmptiedCache
<1>5. CASE request' = NoRequest /\ UNCHANGED <<realised, cacheVars, breachVars, guessed>>
  BY <1>5, NoRequestType
<1>6. ASSUME NEW r \in Results, Realise(r)
      PROVE  GuardTypeOK'
  BY <1>6 DEF Realise, OverLimit
<1>7. CASE CacheExpires
  BY <1>7 DEF CacheExpires, Aged
<1>8. CASE RequestExpires
  BY <1>8 DEF RequestExpires, Aged, Requests
<1>9. CASE Midnight
  BY <1>9, NoPnl DEF Midnight, Requests
<1> QED BY GuardMoves, <1>1, <1>2, <1>3, <1>4, <1>5, <1>6, <1>7, <1>8, <1>9 DEF GuardMove

LEMMA OpenTypeStep ==
  ASSUME TypeOK, Next
  PROVE  open' \in SUBSET Symbols
BY OpenMoves DEF OpenMove, TypeOK, VisitTypeOK, Visiting

LEMMA ProcessTypeStep ==
  ASSUME TypeOK, Next
  PROVE  ProcessTypeOK'
<1> USE DEF TypeOK, ProcessTypeOK, AwaitSites
<1>1. CASE Start
  BY <1>1, ScalperAssumption DEF Start
<1>2. pc' \in AwaitSites
  BY DEF Next, Step, Start, NextCycle, FetchSkips, FetchGives, PositionsAnswer,
       PositionsFail, Reconcile, Decide, LookUpClose, SymbolDone, ReportClose,
       ForgetPosition, AskGuard, GuardAnswers, NoEntry, LowVolatility, Enter, OrderRefused,
       OrderExecuted, Answered, AnswerLost, Verify, Crash, CrashInWrite, Forgotten,
       PositionCloses, TimePasses
<1>3. CASE ~Start
  <2>1. UNCHANGED runs
    BY <1>3 DEF Next, Step, NextCycle, FetchSkips, FetchGives, PositionsAnswer,
       PositionsFail, ReportClose, ForgetPosition, AskGuard, GuardAnswers, NoEntry,
       LowVolatility, Enter, OrderRefused, OrderExecuted, Answered, AnswerLost, Verify, Crash,
       CrashInWrite, Forgotten, PositionCloses, TimePasses
  <2>2. \/ UNCHANGED contexts /\ (todo' = contexts \/ todo' \subseteq todo)
        \/ contexts' = {} /\ todo' = {}
    BY <1>3 DEF Next, Step, NextCycle, FetchSkips, FetchGives, PositionsAnswer,
       PositionsFail, ReportClose, ForgetPosition, AskGuard, GuardAnswers, NoEntry,
       LowVolatility, Enter, OrderRefused, OrderExecuted, Answered, AnswerLost, Verify, Crash,
       CrashInWrite, Forgotten, PositionCloses, TimePasses
  <2> QED BY <1>2, <2>1, <2>2
<1> QED BY <1>1, <1>2, <1>3

(* The close detection ends the visit, goes on to the entry, or looks up a *)
(* close; the first two may take up a position that is there.              *)
LEMMA ReconcileMoves ==
  ASSUME NEW o \in BOOLEAN, NEW b \in BOOLEAN, Reconcile(o, b)
  PROVE  \/ Decide(o, b) /\ (Track \/ UNCHANGED <<memory, disk>>)
         \/ o = FALSE /\ LookUpClose(o, b)
BY DEF Reconcile

LEMMA VisitTypeStep ==
  ASSUME TypeOK, Next
  PROVE  VisitTypeOK'
<1> USE DEF TypeOK, VisitTypeOK, Visiting, visit
<1>1. CASE Start \/ NextCycle \/ \E s \in Symbols : FetchSkips(s)
  BY <1>1 DEF Start, NextCycle, FetchSkips
<1>2. ASSUME NEW s \in Symbols, FetchGives(s)
      PROVE  VisitTypeOK'
  BY <1>2 DEF FetchGives
<1>3. CASE PositionsAnswer \/ PositionsFail
  <2>1. ASSUME NEW o \in BOOLEAN, NEW b \in BOOLEAN, pc = "positions", Reconcile(o, b)
        PROVE  VisitTypeOK'
    <3>1. CASE Decide(o, b)
      BY <2>1, <3>1 DEF Decide, SymbolDone
    <3>2. CASE LookUpClose(o, b)
      BY <2>1, <3>2 DEF LookUpClose
    <3> QED BY <2>1, <3>1, <3>2, ReconcileMoves
  <2>2. (at \in open) \in BOOLEAN /\ FALSE \in BOOLEAN /\ TRUE \in BOOLEAN
    OBVIOUS
  <2> QED BY <1>3, <2>1, <2>2, Zenon DEF PositionsAnswer, PositionsFail
<1>4. CASE ForgetPosition
  BY <1>4 DEF ForgetPosition, Decide, SymbolDone
<1>5. CASE ReportClose \/ Enter \/ OrderExecuted \/ Answered
  BY <1>5 DEF ReportClose, Enter, OrderExecuted, Answered
<1>6. CASE AskGuard \/ GuardAnswers
  BY <1>6 DEF AskGuard, GuardAnswers, AnswerAtOnce, PnlArrives, PnlFails, OverLimit
<1>7. CASE NoEntry \/ LowVolatility \/ OrderRefused \/ AnswerLost \/ Verify
  BY <1>7 DEF NoEntry, LowVolatility, OrderRefused, AnswerLost, Verify, SymbolDone
<1>8. CASE Crash \/ CrashInWrite
  BY <1>8 DEF Crash, CrashInWrite, Forgotten
<1>9. CASE TimePasses \/ \E s \in Symbols : PositionCloses(s)
  BY <1>9 DEF TimePasses, PositionCloses
<1> QED BY <1>1, <1>2, <1>3, <1>4, <1>5, <1>6, <1>7, <1>8, <1>9 DEF Next, Step

LEMMA RecordsTypeStep ==
  ASSUME TypeOK, Next
  PROVE  RecordsTypeOK'
<1> USE DEF TypeOK, VisitTypeOK, Visiting, RecordsTypeOK, disk, memory, history
<1>1. CASE Start
  BY <1>1 DEF Start
<1>2. CASE \/ NextCycle \/ \E s \in Symbols : FetchSkips(s) \/ FetchGives(s)
           \/ ReportClose \/ AskGuard \/ GuardAnswers \/ NoEntry \/ Enter \/ OrderRefused
  BY <1>2 DEF NextCycle, FetchSkips, FetchGives, ReportClose, AskGuard, GuardAnswers,
     NoEntry, Enter, OrderRefused
<1>3. CASE PositionsAnswer \/ PositionsFail
  BY <1>3 DEF PositionsAnswer, PositionsFail, Reconcile, LookUpClose, Track
<1>4. CASE ForgetPosition
  BY <1>4 DEF ForgetPosition, Untrack
<1>5. CASE LowVolatility \/ Answered
  BY <1>5 DEF LowVolatility, Answered, Remember
<1>6. CASE OrderExecuted
  BY <1>6 DEF OrderExecuted
<1>7. CASE AnswerLost
  BY <1>7 DEF AnswerLost
<1>8. CASE Verify
  BY <1>8 DEF Verify, Track
<1>9. CASE Crash
  BY <1>9 DEF Crash, Forgotten, Nothing
<1>10. CASE CrashInWrite
  BY <1>10 DEF CrashInWrite, Forgotten, Nothing
<1>11. CASE TimePasses \/ \E s \in Symbols : PositionCloses(s)
  BY <1>11 DEF TimePasses, PositionCloses
<1> QED BY <1>1, <1>2, <1>3, <1>4, <1>5, <1>6, <1>7, <1>8, <1>9, <1>10, <1>11 DEF Next, Step

LEMMA TypeStep == TypeOK /\ [Next]_vars => TypeOK'
<1>1. ASSUME TypeOK, Next PROVE TypeOK'
  BY <1>1, GuardTypeStep, OpenTypeStep, ProcessTypeStep, VisitTypeStep, RecordsTypeStep
     DEF TypeOK
<1>2. ASSUME TypeOK, UNCHANGED vars PROVE TypeOK'
  BY <1>2 DEF TypeOK, GuardTypeOK, ProcessTypeOK, VisitTypeOK, RecordsTypeOK, Visiting,
     vars, guardVars, cacheVars, breachVars, disk, visit, memory, history
<1> QED BY <1>1, <1>2

(* Type correctness: every variable keeps its range, a visit has a symbol, *)
(* and the loss guard is asked and an order sent only with a signal.       *)
THEOREM TypeCorrect == Spec => []TypeOK
BY TypeInit, TypeStep, PTL DEF Spec

---------------------------------------------------------------------------
(* A signal is traded once.                                                *)

(* The signals of s whose order is executed and not yet recorded.          *)
Unrecorded(s) == IF pc = "answer" /\ at = s THEN {sig} ELSE {}

(* Every traded signal is in the seen file, on its way there, or excused.  *)
TradedIsSeen ==
  \A s \in Symbols : traded[s] \subseteq seenFile[s] \cup excused[s] \cup Unrecorded(s)

(* A signal that is on its way to an order was not seen.                   *)
FreshAtEntry == pc \in {"guard", "profit", "enter", "place"} => sig \notin seen[at]

RecordInv == Durable /\ TradedIsSeen /\ FreshAtEntry

LEMMA RecordInit == Init => RecordInv
BY DEF Init, RecordInv, Durable, TradedIsSeen, FreshAtEntry, Nothing, Unrecorded

LEMMA DurableStep ==
  ASSUME TypeOK, Durable, Next
  PROVE  Durable'
<1> USE DEF TypeOK, VisitTypeOK, Visiting, RecordsTypeOK, Durable, disk, memory, history
<1>1. CASE Start \/ Crash \/ CrashInWrite
  BY <1>1 DEF Start, Crash, CrashInWrite, Forgotten
<1>2. CASE \/ NextCycle \/ \E s \in Symbols : FetchSkips(s) \/ FetchGives(s)
           \/ ReportClose \/ AskGuard \/ GuardAnswers \/ NoEntry \/ Enter
           \/ OrderRefused \/ OrderExecuted \/ AnswerLost
  BY <1>2 DEF NextCycle, FetchSkips, FetchGives, ReportClose, AskGuard, GuardAnswers,
     NoEntry, Enter, OrderRefused, OrderExecuted, AnswerLost
<1>3. CASE PositionsAnswer \/ PositionsFail
  BY <1>3 DEF PositionsAnswer, PositionsFail, Reconcile, LookUpClose, Track
<1>4. CASE ForgetPosition
  BY <1>4 DEF ForgetPosition, Untrack
<1>5. CASE LowVolatility \/ Answered
  BY <1>5 DEF LowVolatility, Answered, Remember
<1>6. CASE Verify
  BY <1>6 DEF Verify, Track
<1>7. CASE TimePasses \/ \E s \in Symbols : PositionCloses(s)
  BY <1>7 DEF TimePasses, PositionCloses
<1> QED BY <1>1, <1>2, <1>3, <1>4, <1>5, <1>6, <1>7 DEF Next, Step

(* Only these steps change what was traded, recorded or excused.           *)
LEMMA TradedStep ==
  ASSUME TypeOK, RecordInv, Next
  PROVE  TradedIsSeen'
<1> USE DEF TypeOK, VisitTypeOK, Visiting, RecordsTypeOK, RecordInv, Durable, TradedIsSeen,
        Unrecorded, disk, memory, history
<1>1. CASE OrderExecuted
  BY <1>1 DEF OrderExecuted, visit
<1>2. CASE Answered
  BY <1>2 DEF Answered, Remember
<1>3. CASE AnswerLost
  BY <1>3 DEF AnswerLost
<1>4. CASE Crash
  BY <1>4 DEF Crash, Forgotten
<1>5. CASE CrashInWrite
  BY <1>5 DEF CrashInWrite, Forgotten
<1>6. CASE LowVolatility
  BY <1>6 DEF LowVolatility, Remember, SymbolDone
<1>7. CASE TimePasses \/ \E s \in Symbols : PositionCloses(s)
  BY <1>7 DEF TimePasses, PositionCloses, visit
<1>8. ASSUME pc # "answer", pc' # "answer", UNCHANGED <<traded, excused, seenFile>>
      PROVE  TradedIsSeen'
  BY <1>8
<1>9. CASE Start \/ NextCycle \/ \E s \in Symbols : FetchSkips(s) \/ FetchGives(s)
  BY <1>8, <1>9 DEF Start, NextCycle, FetchSkips, FetchGives
<1>10. CASE PositionsAnswer \/ PositionsFail \/ ReportClose \/ ForgetPosition
  BY <1>8, <1>10 DEF PositionsAnswer, PositionsFail, Reconcile, Decide, LookUpClose, Track,
     ReportClose, ForgetPosition, Untrack, SymbolDone
<1>11. CASE AskGuard \/ GuardAnswers \/ NoEntry \/ Enter \/ OrderRefused \/ Verify
  BY <1>8, <1>11 DEF AskGuard, GuardAnswers, NoEntry, Enter, OrderRefused, Verify, Track,
     SymbolDone
<1> QED BY <1>1, <1>2, <1>3, <1>4, <1>5, <1>6, <1>7, <1>9, <1>10, <1>11 DEF Next, Step

(* Decide lets only a signal through that is not in the set.               *)
LEMMA FreshStep ==
  ASSUME FreshAtEntry, Next
  PROVE  FreshAtEntry'
<1> USE DEF FreshAtEntry, visit, memory
<1>1. CASE PositionsAnswer \/ PositionsFail
  BY <1>1 DEF PositionsAnswer, PositionsFail, Reconcile, Decide, LookUpClose, Track,
     SymbolDone
<1>2. CASE ForgetPosition
  BY <1>2 DEF ForgetPosition, Decide, Untrack, SymbolDone
<1>3. CASE AskGuard \/ GuardAnswers \/ Enter
  BY <1>3 DEF AskGuard, GuardAnswers, Enter
<1>4. CASE TimePasses \/ \E s \in Symbols : PositionCloses(s)
  BY <1>4 DEF TimePasses, PositionCloses
<1>5. CASE \/ Start \/ NextCycle \/ \E s \in Symbols : FetchSkips(s) \/ FetchGives(s)
           \/ ReportClose \/ NoEntry \/ LowVolatility \/ OrderRefused \/ OrderExecuted
           \/ Answered \/ AnswerLost \/ Verify \/ Crash \/ CrashInWrite
  BY <1>5 DEF Start, NextCycle, FetchSkips, FetchGives, ReportClose, NoEntry, LowVolatility,
     OrderRefused, OrderExecuted, Answered, AnswerLost, Verify, Crash, CrashInWrite,
     Forgotten, SymbolDone
<1> QED BY <1>1, <1>2, <1>3, <1>4, <1>5 DEF Next, Step

LEMMA RecordStep == TypeOK /\ RecordInv /\ [Next]_vars => RecordInv'
<1>1. ASSUME TypeOK, RecordInv, Next PROVE RecordInv'
  BY <1>1, DurableStep, TradedStep, FreshStep DEF RecordInv
<1>2. ASSUME RecordInv, UNCHANGED vars PROVE RecordInv'
  BY <1>2 DEF RecordInv, Durable, TradedIsSeen, FreshAtEntry, Unrecorded, vars, disk, visit,
     memory, history
<1> QED BY <1>1, <1>2

LEMMA RecordsHold == Spec => [](TypeOK /\ RecordInv)
<1>1. Init => TypeOK /\ RecordInv
  BY TypeInit, RecordInit
<1>2. TypeOK /\ RecordInv /\ [Next]_vars => (TypeOK /\ RecordInv)'
  BY TypeStep, RecordStep
<1> QED BY <1>1, <1>2, PTL DEF Spec

(* While the process runs, the two files of a symbol say what its memory   *)
(* says, whatever step it died in before.                                  *)
THEOREM DurableCorrect == Spec => []Durable
<1>1. TypeOK /\ RecordInv => Durable
  BY DEF RecordInv
<1> QED BY <1>1, RecordsHold, PTL

(* No signal is traded twice over all cycles and restarts, unless the      *)
(* record of its order was lost.                                           *)
THEOREM TradedOnceCorrect == Spec => TradedOnce
<1>1. TypeOK /\ RecordInv /\ [Next]_vars
        => [pc = "place" /\ pc' = "answer" /\ sig \in traded[at] => sig \in excused[at]]_vars
  <2> SUFFICES ASSUME TypeOK, RecordInv, pc = "place", sig \in traded[at]
               PROVE  sig \in excused[at]
    OBVIOUS
  <2>1. at \in Symbols
    BY DEF TypeOK, VisitTypeOK, Visiting
  <2>2. sig \notin seenFile[at] /\ Unrecorded(at) = {}
    BY DEF RecordInv, Durable, FreshAtEntry, Unrecorded
  <2> QED BY <2>1, <2>2 DEF RecordInv, TradedIsSeen
<1> QED BY <1>1, RecordsHold, PTL DEF Spec, TradedOnce

---------------------------------------------------------------------------
(* Entries and close reports.                                              *)

(* What a visit has seen of the position stays true while it decides: only *)
(* its own order can open one.                                             *)
SawTheTruth ==
  /\ pc \in {"closing", "notify", "guard", "profit", "enter", "place"}
       => at \notin open \/ sawOpen \/ blind
  /\ pc \in {"closing", "place"} => sawOpen = FALSE

LEMMA SawInit == Init => SawTheTruth
BY DEF Init, SawTheTruth

LEMMA SawStep == TypeOK /\ SawTheTruth /\ [Next]_vars => SawTheTruth'
<1> SUFFICES ASSUME TypeOK, SawTheTruth, [Next]_vars PROVE SawTheTruth'
  OBVIOUS
<1> USE DEF TypeOK, VisitTypeOK, Visiting, SawTheTruth, visit
<1>1. CASE PositionsAnswer
  <2>1. Reconcile(at \in open, FALSE) /\ UNCHANGED open
    BY <1>1 DEF PositionsAnswer
  <2>2. CASE at \in open
    BY <2>1, <2>2 DEF Reconcile, Decide, LookUpClose, SymbolDone
  <2>3. CASE at \notin open
    <3>1. (at \in open) = FALSE
      BY <2>3
    <3>2. Reconcile(FALSE, FALSE) /\ UNCHANGED open
      BY <2>1, <3>1, Zenon
    <3> QED BY <2>3, <3>2 DEF Reconcile, Decide, LookUpClose, SymbolDone
  <2> QED BY <2>2, <2>3
<1>2. CASE PositionsFail
  BY <1>2 DEF PositionsFail, Reconcile, Decide, LookUpClose, SymbolDone
<1>3. CASE ForgetPosition
  BY <1>3 DEF ForgetPosition, Decide, SymbolDone
<1>4. CASE ReportClose \/ AskGuard \/ GuardAnswers \/ Enter
  BY <1>4 DEF ReportClose, AskGuard, GuardAnswers, Enter
<1>5. CASE TimePasses \/ \E s \in Symbols : PositionCloses(s)
  BY <1>5 DEF TimePasses, PositionCloses
<1>6. CASE \/ Start \/ NextCycle \/ \E s \in Symbols : FetchSkips(s) \/ FetchGives(s)
           \/ NoEntry \/ LowVolatility \/ OrderRefused \/ OrderExecuted
           \/ Answered \/ AnswerLost \/ Verify \/ Crash \/ CrashInWrite
  BY <1>6 DEF Start, NextCycle, FetchSkips, FetchGives, NoEntry, LowVolatility,
     OrderRefused, OrderExecuted, Answered, AnswerLost, Verify, Crash, CrashInWrite,
     Forgotten, SymbolDone
<1>7. CASE UNCHANGED vars
  BY <1>7 DEF vars
<1> QED BY <1>1, <1>2, <1>3, <1>4, <1>5, <1>6, <1>7 DEF Next, Step

LEMMA SawHolds == Spec => [](TypeOK /\ SawTheTruth)
<1>1. Init => TypeOK /\ SawTheTruth
  BY TypeInit, SawInit
<1>2. TypeOK /\ SawTheTruth /\ [Next]_vars => (TypeOK /\ SawTheTruth)'
  BY TypeStep, SawStep
<1> QED BY <1>1, <1>2, PTL DEF Spec

(* An order is sent on top of an open position only by a visit whose       *)
(* position query failed.                                                  *)
THEOREM FlatEntryCorrect == Spec => FlatEntry
<1>1. TypeOK /\ SawTheTruth
        => [pc = "place" /\ pc' = "answer" => at \notin open \/ blind]_vars
  BY DEF SawTheTruth
<1> QED BY <1>1, SawHolds, PTL DEF FlatEntry

(* A close is reported of an open position only by such a visit.           *)
THEOREM ReportIsRealCorrect == Spec => ReportIsReal
<1>1. TypeOK /\ SawTheTruth
        => [pc = "closing" /\ pc' = "notify" => at \notin open \/ blind]_vars
  BY DEF SawTheTruth
<1> QED BY <1>1, SawHolds, PTL DEF ReportIsReal

---------------------------------------------------------------------------
(* The loss guard.                                                         *)

(* A value still in use was asked for after the limit was passed, if that  *)
(* was not just now, and one of today is proof that it was.                *)
CacheInv ==
  /\ breach # "none" <=> OverLimit(realised)
  /\ OverLimit(realised) => hit
  /\ CacheValid /\ breach = "old" => OverLimit(cached)
  /\ cachedToday /\ OverLimit(cached) => hit

(* So will be the value awaited.  What the guard may answer, with it or    *)
(* without, agrees with what was so when it was asked.                     *)
RequestInv ==
  /\ request.today /\ request.fresh /\ breach = "old" => OverLimit(request.sum)
  /\ request.today /\ request.wasHit => hit
  /\ request.wasOld => OverLimit(request.sum)
  /\ OverLimit(request.sum) => request.wasHit
  /\ request.sameDay /\ OverLimit(cached) => request.wasHit

GuardInv == CacheInv /\ RequestInv

LEMMA NothingAsked ==
  /\ ~OverLimit(0)
  /\ ~NoRequest.today /\ ~NoRequest.fresh /\ ~NoRequest.wasOld /\ ~NoRequest.sameDay
  /\ ~OverLimit(NoRequest.sum)
BY LimitAssumption DEF OverLimit, NoRequest

LEMMA GuardInvInit == Init => GuardInv
BY NothingAsked DEF Init, GuardInit, EmptyCache, GuardInv, CacheInv, RequestInv, CacheValid

LEMMA GuardInvStep == TypeOK /\ GuardInv /\ [Next]_vars => GuardInv'
<1> SUFFICES ASSUME TypeOK, GuardInv, [Next]_vars PROVE GuardInv'
  OBVIOUS
<1> USE DEF TypeOK, GuardTypeOK, GuardInv, CacheInv, RequestInv, CacheValid, cacheVars,
        breachVars
<1>1. CASE UNCHANGED guardVars
  BY <1>1 DEF guardVars, OverLimit
<1>2. CASE AskGuard
  <2>1. CASE AnswerAtOnce(blocked')
    BY <1>2, <2>1 DEF AskGuard, AnswerAtOnce, OverLimit
  <2>2. CASE RequestPnl
    BY <1>2, <2>2 DEF AskGuard, RequestPnl, OverLimit
  <2> QED BY <1>2, <2>1, <2>2 DEF AskGuard
<1>3. CASE GuardAnswers
  <2>1. CASE PnlArrives(blocked')
    BY <1>3, <2>1, NothingAsked DEF GuardAnswers, PnlArrives, OverLimit
  <2>2. CASE PnlFails(blocked')
    BY <1>3, <2>2, NothingAsked DEF GuardAnswers, PnlFails, OverLimit
  <2> QED BY <1>3, <2>1, <2>2 DEF GuardAnswers
<1>4. CASE EmptiedCache /\ UNCHANGED <<realised, request, breachVars, guessed>>
  BY <1>4, NothingAsked DEF EmptiedCache, OverLimit
<1>5. CASE request' = NoRequest /\ UNCHANGED <<realised, cacheVars, breachVars, guessed>>
  BY <1>5, NothingAsked DEF OverLimit
<1>6. ASSUME NEW r \in Results, Realise(r)
      PROVE  GuardInv'
  BY <1>6 DEF Realise, OverLimit
<1>7. CASE CacheExpires
  BY <1>7 DEF CacheExpires, Aged, OverLimit
<1>8. CASE RequestExpires
  BY <1>8 DEF RequestExpires, Aged, OverLimit, Requests
<1>9. CASE Midnight
  BY <1>9, NothingAsked DEF Midnight, OverLimit, Requests
<1> QED BY GuardMoves, <1>1, <1>2, <1>3, <1>4, <1>5, <1>6, <1>7, <1>8, <1>9
        DEF GuardMove, vars

LEMMA GuardInvHolds == Spec => [](TypeOK /\ GuardInv)
<1>1. Init => TypeOK /\ GuardInv
  BY TypeInit, GuardInvInit
<1>2. TypeOK /\ GuardInv /\ [Next]_vars => (TypeOK /\ GuardInv)'
  BY TypeStep, GuardInvStep
<1> QED BY <1>1, <1>2, PTL DEF Spec

(* Only the guard's answer leads to the entry.                             *)
LEMMA AnswersStep ==
  Answers /\ Next => \/ pc = "guard" /\ AnswerAtOnce(blocked')
                     \/ pc = "profit" /\ (PnlArrives(blocked') \/ PnlFails(blocked'))
BY DEF Answers, Next, Step, Start, NextCycle, FetchSkips, FetchGives, PositionsAnswer,
       PositionsFail, ReportClose, ForgetPosition, AskGuard, GuardAnswers, NoEntry,
       LowVolatility, Enter, OrderRefused, OrderExecuted, Answered, AnswerLost, Verify,
       Crash, CrashInWrite, Forgotten, PositionCloses, TimePasses

(* Once the limit was reached and the values from before it have expired,  *)
(* a question is answered by a block, unless the profit could not be read; *)
(* however long the answer takes and whatever happens until it comes.      *)
THEOREM GuardClosesCorrect == Spec => GuardCloses
<1>1. TypeOK /\ GuardInv /\ [Next]_vars
        => [Answers /\ ~blocked' => ~BreachWasOld \/ guessed']_vars
  <2> SUFFICES ASSUME TypeOK, GuardInv, Answers, Next, ~blocked', BreachWasOld
               PROVE  guessed'
    BY DEF Answers, vars
  <2>1. CASE pc = "guard" /\ AnswerAtOnce(blocked')
    <3>1. breach = "old" /\ ~OverLimit(cached) /\ (Limit = 0 \/ CacheValid)
      BY <2>1 DEF BreachWasOld, AnswerAtOnce
    <3> QED BY <3>1, LimitAssumption DEF GuardInv, CacheInv, OverLimit
  <2>2. CASE pc = "profit" /\ (PnlArrives(blocked') \/ PnlFails(blocked'))
    BY <2>2 DEF BreachWasOld, PnlArrives, PnlFails, GuardInv, RequestInv
  <2> QED BY <2>1, <2>2, AnswersStep
<1> QED BY <1>1, GuardInvHolds, PTL DEF Spec, GuardCloses

(* The guard blocks only when the limit had been reached on the day on     *)
(* which it was asked.                                                     *)
THEOREM GuardReopensCorrect == Spec => GuardReopens
<1>1. TypeOK /\ GuardInv /\ [Next]_vars => [Answers /\ blocked' => LimitWasHit]_vars
  <2> SUFFICES ASSUME TypeOK, GuardInv, Answers, Next, blocked'
               PROVE  LimitWasHit
    BY DEF Answers, vars
  <2>1. CASE pc = "guard" /\ AnswerAtOnce(blocked')
    <3>1. OverLimit(cached) /\ (Limit = 0 \/ CacheValid)
      BY <2>1 DEF AnswerAtOnce
    <3>2. CacheValid
      BY <3>1, LimitAssumption DEF OverLimit
    <3> QED BY <2>1, <3>1, <3>2 DEF LimitWasHit, GuardInv, CacheInv, CacheValid
  <2>2. CASE pc = "profit" /\ (PnlArrives(blocked') \/ PnlFails(blocked'))
    BY <2>2, NothingAsked DEF LimitWasHit, PnlArrives, PnlFails, GuardInv, RequestInv
  <2> QED BY <2>1, <2>2, AnswersStep
<1> QED BY <1>1, GuardInvHolds, PTL DEF Spec, GuardReopens

===========================================================================
