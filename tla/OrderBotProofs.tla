-------------------------- MODULE OrderBotProofs --------------------------
(***************************************************************************)
(* What holds of one symbol's bot for every set of sides, signal bars and  *)
(* prices, every bound and both kinds of service.  The inductive           *)
(* invariants add to the properties of OrderBot what the control point     *)
(* says about BotState and the locals of the running cycle.                *)
(***************************************************************************)
EXTENDS OrderBot, TLAPS

(* A working order carries prices.                                         *)
PricesKnown == \A l \in Working : price[l] \in Prices

(* Each call site has what the call needs.                                 *)
SitesHold ==
  /\ pc \in {"reconcile"} \cup CancelSites \cup {"amend"} => pending # None
  /\ pc \in {"expire", "flip", "recreate", "create", "amend"} => Signal # None
  /\ pc = "cleanup" <=> adopt # None

TypeInv == TypeOK /\ PricesKnown /\ SitesHold

---------------------------------------------------------------------------
(* Lemmas on the data.                                                     *)

(* The bar _raw_order_to_pending reads from any link id is one of KeyBars. *)
LEMMA SuffixBar ==
  ASSUME NEW l \in Links
  PROVE  Suffix(l) \in KeyBars
BY BarAssumption DEF Links, Suffix, KeyBars

(* Counting a fill keeps the counters within their range.                  *)
LEMMA CountFillType ==
  ASSUME NEW p \in PendingOrders, fills \in [Sides \X KeyBars -> 0..MaxAttempt + 1]
  PROVE  CountFill(p) \in [Sides \X KeyBars -> 0..MaxAttempt + 1]
<1> DEFINE k == <<p.link.side, p.bar>>
<1>1. k \in Sides \X KeyBars
  BY DEF PendingOrders, Links
<1>2. fills[k] \in 0..MaxAttempt + 1
  BY <1>1
<1>3. (IF fills[k] > MaxAttempt THEN fills[k] ELSE fills[k] + 1) \in 0..MaxAttempt + 1
  BY <1>2, BarAssumption
<1>4. CountFill(p) =
        [fills EXCEPT ![k] = IF fills[k] > MaxAttempt THEN fills[k] ELSE fills[k] + 1]
  BY DEF CountFill
<1> HIDE DEF k
<1> QED BY <1>1, <1>3, <1>4

---------------------------------------------------------------------------
LEMMA TypeInit == Init => TypeInv
<1> SUFFICES ASSUME Init PROVE TypeInv
  OBVIOUS
<1> USE DEF Init, ExchangeInit
<1>1. ExchangeTypeOK
  BY DEF ExchangeTypeOK, Statuses
<1>a. 0 \in 0..MaxRuns /\ 1 \in Bars /\ 0 \in 0..MaxBar /\ 0 \in 0..MaxAttempt + 1
  BY BarAssumption, ClockAssumption DEF Bars
<1>2. ProcessTypeOK
  BY <1>a DEF ProcessTypeOK
<1>3. CycleTypeOK
  BY <1>a DEF CycleTypeOK, NoCycle
<1>4. StateTypeOK
  BY <1>a DEF StateTypeOK, NoFills
<1>5. StartupTypeOK
  BY DEF StartupTypeOK
<1>6. HistoryTypeOK
  BY <1>a DEF HistoryTypeOK
<1>7. PricesKnown
  BY DEF PricesKnown, Working
<1>8. SitesHold
  BY DEF SitesHold, CancelSites
<1> QED BY <1>1, <1>2, <1>3, <1>4, <1>5, <1>6, <1>7, <1>8 DEF TypeInv, TypeOK

(* The bounds give the ranges their ends.                                  *)
LEMMA Ranges ==
  /\ 0 \in 0..MaxRuns /\ 1 \in Bars /\ 0 \in 0..MaxBar
  /\ 0 \in 0..MaxAttempt + 1
  /\ Bars \subseteq 0..MaxBar
  /\ \A b \in SignalBars : b \in KeyBars
BY BarAssumption, ClockAssumption DEF Bars, KeyBars

---------------------------------------------------------------------------
(* What one step may do to each group of variables.                        *)

ExchangeMove ==
  \/ UNCHANGED exchangeVars
  \/ \E l \in Links : Cancel(l) \/ Trigger(l) \/ Fill(l)
  \/ CreateAccepted \/ CreateLost
  \/ /\ AmendPrice(pending.link, Signal.price)
     /\ AmendAccepted \/ (AmendFailed /\ amendLost')
  \/ ClosePosition

CycleMove ==
  \/ UNCHANGED cycle
  \/ cycle' = NoCycle
  \/ Peek \/ Fetch \/ CheckPosition \/ Tick

StateMove ==
  \/ UNCHANGED <<pending, fills>>
  \/ pending' = None /\ fills' = NoFills
  \/ pending' = None /\ UNCHANGED fills
  \/ Adopt \/ Reconcile \/ CreateAccepted \/ AmendAccepted

StartupMove ==
  \/ UNCHANGED startupVars
  \/ adopt' = None /\ stale' = {}
  \/ adopt' = None /\ UNCHANGED stale
  \/ ScanOrphans \/ CancelStale

(* Every step of the bot or of its surroundings is one of these moves.     *)
LEMMA Moves == Next => ExchangeMove /\ CycleMove /\ StateMove /\ StartupMove
<1> SUFFICES ASSUME Next PROVE ExchangeMove /\ CycleMove /\ StateMove /\ StartupMove
  OBVIOUS
<1> USE DEF Next, BotStep, Sync, SyncPositionOpen, SyncNoSignal, SyncExpired, SyncSkip,
            SyncCreate, SyncKeep, SyncFlip, SyncAmend, SyncEnds, SyncTo, Forgotten,
            EndCycle, CycleError, Start, StartupFails, ReadFails, CreateRefused,
            CancelReturns, CancelRaises, AmendFailed, Wake, Stop, Crash, Market,
            EntryFills, OutsideCancel
<1>1. ExchangeMove
  BY DEF ExchangeMove, ScanOrphans, CancelStale, Adopt, Peek, Fetch, Reconcile,
         CheckPosition, AmendAccepted, Tick, Working
<1>2. CycleMove
  BY DEF CycleMove, ScanOrphans, CancelStale, Adopt, Reconcile, CreateAccepted,
         CreateLost, AmendAccepted
<1>3. StateMove
  BY DEF StateMove, stateVars, ScanOrphans, CancelStale, Peek, Fetch, CheckPosition,
         CreateLost, Tick
<1>4. StartupMove
  BY DEF StartupMove, startupVars, Adopt, Peek, Fetch, Reconcile, CheckPosition,
         CreateAccepted, CreateLost, AmendAccepted, Tick
<1> QED BY <1>1, <1>2, <1>3, <1>4

---------------------------------------------------------------------------
(* TypeInv is preserved, one part at a time.                               *)

(* An order that becomes live does so with the prices of a signal.         *)
LEMMA ExchangeStep ==
  ASSUME TypeInv, Next
  PROVE  ExchangeTypeOK' /\ PricesKnown'
<1> USE DEF TypeInv, TypeOK, ExchangeTypeOK, PricesKnown, Working, exchangeVars, Statuses
<1>1. ExchangeMove
  BY Moves
<1>2. Signal # None => Signal \in Signals
  BY DEF CycleTypeOK, Signal
<1>3. CASE UNCHANGED exchangeVars
  BY <1>3
<1>4. ASSUME NEW l \in Links, Cancel(l) \/ Trigger(l) \/ Fill(l)
      PROVE  ExchangeTypeOK' /\ PricesKnown'
  <2>1. CASE Cancel(l)
    BY <2>1 DEF Cancel
  <2>2. CASE Trigger(l)
    BY <2>2 DEF Trigger
  <2>3. CASE Fill(l)
    BY <2>3 DEF Fill, Links
  <2> QED BY <1>4, <2>1, <2>2, <2>3
<1>5. ASSUME pc = "create", LinkFor(Signal) \in Links, Accept(LinkFor(Signal), Signal.price)
      PROVE  ExchangeTypeOK' /\ PricesKnown'
  <2>1. Signal.price \in Prices
    BY <1>2, <1>5 DEF SitesHold, Signals
  <2> QED BY <1>5, <2>1 DEF Accept
<1>6. ASSUME pc = "amend", AmendPrice(pending.link, Signal.price)
      PROVE  ExchangeTypeOK' /\ PricesKnown'
  <2>1. Signal.price \in Prices
    BY <1>2, <1>6 DEF SitesHold, Signals
  <2> QED BY <1>6, <2>1 DEF AmendPrice
<1>7. CASE ClosePosition
  BY <1>7 DEF ClosePosition
<1> QED BY <1>1, <1>3, <1>4, <1>5, <1>6, <1>7
        DEF ExchangeMove, CreateAccepted, CreateLost, AmendAccepted, AmendFailed

LEMMA CycleStep ==
  ASSUME TypeInv, Next
  PROVE  CycleTypeOK'
<1> USE DEF TypeInv, TypeOK, CycleTypeOK
<1>1. CASE UNCHANGED cycle
  BY <1>1
<1>2. CASE cycle' = NoCycle
  BY <1>2, Ranges DEF NoCycle
<1>3. CASE Peek
  BY <1>3, Ranges DEF Peek, Published
<1>4. CASE Fetch
  BY <1>4, Ranges DEF Fetch, Published
<1>5. CASE CheckPosition
  BY <1>5 DEF CheckPosition
<1>6. CASE Tick
  <2>1. \A c \in 0..MaxBar : Older(c) \in 0..MaxBar
    BY ClockAssumption DEF Older
  <2> QED BY <1>6, <2>1 DEF Tick
<1> QED BY Moves, <1>1, <1>2, <1>3, <1>4, <1>5, <1>6 DEF CycleMove

LEMMA StateStep ==
  ASSUME TypeInv, Next
  PROVE  StateTypeOK'
<1> USE DEF TypeInv, TypeOK, StateTypeOK
<1>1. lastCandle' \in 0..MaxBar
  <2>1. \A c \in 0..MaxBar : Older(c) \in 0..MaxBar
    BY ClockAssumption DEF Older
  <2>2. \/ UNCHANGED lastCandle \/ lastCandle' = 0
        \/ lastCandle' = cycle.peeked \/ lastCandle' = Older(lastCandle)
    BY DEF Next, BotStep, Start, StartupFails, ScanOrphans, CancelStale, Adopt, Peek,
       Fetch, ReadFails, Reconcile, CheckPosition, Sync, SyncPositionOpen, SyncNoSignal,
       SyncExpired, SyncSkip, SyncCreate, SyncKeep, SyncFlip, SyncAmend, SyncEnds, SyncTo,
       CreateAccepted, CreateRefused, CreateLost, AmendAccepted, AmendFailed,
       CancelReturns, CancelRaises, Wake, Stop, Crash, Tick, Market, EntryFills,
       Forgotten, EndCycle, CycleError, stateVars
  <2> QED BY <2>1, <2>2, Ranges DEF CycleTypeOK
<1>2. pending' \in PendingOrders \cup {None} /\ fills' \in [Sides \X KeyBars -> 0..MaxAttempt + 1]
  <2>1. CASE UNCHANGED <<pending, fills>>
    BY <2>1
  <2>2. CASE pending' = None /\ (UNCHANGED fills \/ fills' = NoFills)
    BY <2>2, Ranges DEF NoFills
  <2>3. CASE Adopt
    BY <2>3 DEF Adopt, StartupTypeOK
  <2>4. CASE Reconcile
    <3>1. pending \in PendingOrders
      BY <2>4 DEF Reconcile, SitesHold
    <3>2. CountFill(pending) \in [Sides \X KeyBars -> 0..MaxAttempt + 1]
      BY <3>1, CountFillType
    <3> QED BY <2>4, <3>2 DEF Reconcile
  <2>5. CASE CreateAccepted
    <3>1. Signal \in Signals
      BY <2>5 DEF CreateAccepted, SitesHold, CycleTypeOK, Signal
    <3>2. Signal.price \in Prices /\ Signal.bar \in KeyBars
      BY <3>1, Ranges DEF Signals
    <3> QED BY <2>5, <3>2 DEF CreateAccepted, PendingOrders
  <2>6. CASE AmendAccepted
    <3>1. Signal \in Signals
      BY <2>6 DEF AmendAccepted, SitesHold, CycleTypeOK, Signal
    <3>2. pending \in PendingOrders
      BY <2>6 DEF AmendAccepted, SitesHold
    <3> QED BY <2>6, <3>1, <3>2 DEF AmendAccepted, PendingOrders, Signals
  <2> QED BY Moves, <2>1, <2>2, <2>3, <2>4, <2>5, <2>6 DEF StateMove
<1> QED BY <1>1, <1>2

LEMMA StartupStep ==
  ASSUME TypeInv, Next
  PROVE  StartupTypeOK'
<1> USE DEF TypeInv, TypeOK, StartupTypeOK
<1>1. CASE UNCHANGED startupVars
  BY <1>1 DEF startupVars
<1>2. CASE adopt' = None /\ (UNCHANGED stale \/ stale' = {})
  BY <1>2
<1>3. CASE ScanOrphans
  <2>1. CASE Live = {}
    BY <1>3, <2>1 DEF ScanOrphans, startupVars
  <2>2. CASE Live # {}
    <3>1. PICK latest \in Live :
            /\ adopt' = [link |-> latest, price |-> price[latest], bar |-> Suffix(latest)]
            /\ stale' = Live \ {latest}
      BY <1>3, <2>2 DEF ScanOrphans
    <3>2. latest \in Links /\ price[latest] \in Prices
      BY DEF Live, Working, PricesKnown
    <3> QED BY <3>1, <3>2, SuffixBar DEF PendingOrders, Live
  <2> QED BY <2>1, <2>2
<1>4. CASE CancelStale
  BY <1>4 DEF CancelStale
<1> QED BY Moves, <1>1, <1>2, <1>3, <1>4 DEF StartupMove

LEMMA ProcessStep ==
  ASSUME TypeInv, Next
  PROVE  ProcessTypeOK' /\ HistoryTypeOK'
<1> USE DEF TypeInv, TypeOK, ProcessTypeOK, HistoryTypeOK
<1>1. /\ stopping' \in BOOLEAN /\ due' \in BOOLEAN
      /\ lost' \in BOOLEAN /\ amendLost' \in BOOLEAN /\ raced' \in BOOLEAN
  BY DEF Next, BotStep, Start, StartupFails, ScanOrphans, CancelStale, Adopt, Peek,
     Fetch, ReadFails, Reconcile, CheckPosition, Sync, SyncPositionOpen, SyncNoSignal,
     SyncExpired, SyncSkip, SyncCreate, SyncKeep, SyncFlip, SyncAmend, SyncEnds, SyncTo,
     CreateAccepted, CreateRefused, CreateLost, AmendAccepted, AmendFailed,
     CancelReturns, CancelRaises, Wake, Stop, Crash, Tick, Market, EntryFills,
     Forgotten, EndCycle, CycleError, history
<1>2. runs' \in 0..MaxRuns
  <2>1. UNCHANGED runs \/ Start
    BY DEF Next, BotStep, StartupFails, ScanOrphans, CancelStale, Adopt, Peek,
       Fetch, ReadFails, Reconcile, CheckPosition, Sync, SyncPositionOpen, SyncNoSignal,
       SyncExpired, SyncSkip, SyncCreate, SyncKeep, SyncFlip, SyncAmend, SyncEnds, SyncTo,
       CreateAccepted, CreateRefused, CreateLost, AmendAccepted, AmendFailed,
       CancelReturns, CancelRaises, Wake, Stop, Crash, Tick, Market, EntryFills,
       Forgotten, EndCycle, CycleError
  <2> QED BY <2>1, ClockAssumption DEF Start
<1>3. now' \in Bars
  <2>1. UNCHANGED now \/ (now < MaxBar /\ now' = now + 1)
    BY DEF Next, BotStep, Start, StartupFails, ScanOrphans, CancelStale, Adopt, Peek,
       Fetch, ReadFails, Reconcile, CheckPosition, Sync, SyncPositionOpen, SyncNoSignal,
       SyncExpired, SyncSkip, SyncCreate, SyncKeep, SyncFlip, SyncAmend, SyncEnds, SyncTo,
       CreateAccepted, CreateRefused, CreateLost, AmendAccepted, AmendFailed,
       CancelReturns, CancelRaises, Wake, Stop, Crash, Tick, Market, EntryFills,
       Forgotten, EndCycle, CycleError
  <2> QED BY <2>1, ClockAssumption DEF Bars
<1>4. pc' \in CallSites \cup {"down", "startup", "cleanup", "sleep", "stopped"}
  BY DEF CallSites, EnterLoop, Leave, Next, BotStep, Start, StartupFails, ScanOrphans,
     CancelStale, Adopt, Peek,
     Fetch, ReadFails, Reconcile, CheckPosition, Sync, SyncPositionOpen, SyncNoSignal,
     SyncExpired, SyncSkip, SyncCreate, SyncKeep, SyncFlip, SyncAmend, SyncEnds, SyncTo,
     CreateAccepted, CreateRefused, CreateLost, AmendAccepted, AmendFailed,
     CancelReturns, CancelRaises, Wake, Stop, Crash, Tick, Market, EntryFills,
     Forgotten, EndCycle, CycleError
<1>5. handled' \in 0..MaxBar
  <2>1. handled' \in {0, handled, cycle.frame, Recent, Older(Recent)}
    BY DEF Next, BotStep, Start, StartupFails, ScanOrphans, CancelStale, Adopt, Peek,
       Fetch, ReadFails, Reconcile, CheckPosition, Sync, SyncPositionOpen, SyncNoSignal,
       SyncExpired, SyncSkip, SyncCreate, SyncKeep, SyncFlip, SyncAmend, SyncEnds, SyncTo,
       CreateAccepted, CreateRefused, CreateLost, AmendAccepted, AmendFailed,
       CancelReturns, CancelRaises, Wake, Stop, Crash, Tick, Market, EntryFills,
       Forgotten, EndCycle, CycleError, history
  <2>2. cycle.frame \in 0..MaxBar
    BY DEF CycleTypeOK
  <2>3. Recent \in 0..MaxBar
    BY ClockAssumption DEF Recent
  <2>4. Older(Recent) \in 0..MaxBar
    BY <2>3, ClockAssumption DEF Older
  <2> QED BY <2>1, <2>2, <2>3, <2>4, ClockAssumption
<1> QED BY <1>1, <1>2, <1>3, <1>4, <1>5

(* What a call site needs is there when the process arrives at it.         *)
LEMMA SitesStep ==
  ASSUME TypeInv, Next
  PROVE  SitesHold'
<1> USE DEF TypeInv, SitesHold, CancelSites, Signal
<1>1. CASE Start \/ StartupFails \/ Crash
  BY <1>1 DEF Start, StartupFails, Crash, Forgotten, startupVars, stateVars, Running, InLoop
<1>2. CASE ScanOrphans
  <2>1. CASE Live = {}
    BY <1>2, <2>1 DEF ScanOrphans, EnterLoop, startupVars, stateVars
  <2>2. CASE Live # {}
    <3>1. PICK latest \in Live :
            adopt' = [link |-> latest, price |-> price[latest], bar |-> Suffix(latest)]
      BY <1>2, <2>2 DEF ScanOrphans
    <3>2. adopt' \in PendingOrders
      BY <3>1, SuffixBar DEF Live, Working, PricesKnown, PendingOrders
    <3>3. pc' = "cleanup"
      BY <1>2, <2>2 DEF ScanOrphans
    <3> QED BY <3>2, <3>3, SentinelAssumption
  <2> QED BY <2>1, <2>2
<1>3. CASE CancelStale \/ Adopt
  BY <1>3 DEF CancelStale, Adopt, EnterLoop, stateVars
<1>4. CASE Peek \/ Fetch \/ ReadFails \/ Reconcile \/ CheckPosition
  BY <1>4 DEF Peek, Fetch, ReadFails, Reconcile, CheckPosition, Leave, CycleError,
     startupVars, stateVars
<1>5. CASE Sync
  BY <1>5 DEF Sync, SyncPositionOpen, SyncNoSignal,
     SyncExpired, SyncSkip, SyncCreate, SyncKeep, SyncFlip, SyncAmend, SyncEnds, SyncTo,
     Syncing, IsValid, EndCycle, Leave, startupVars, stateVars
<1>6. CASE CreateAccepted \/ CreateRefused \/ CreateLost \/ AmendAccepted \/ AmendFailed
  BY <1>6 DEF CreateAccepted, CreateRefused, CreateLost, AmendAccepted, AmendFailed,
     EndCycle, Leave, startupVars, stateVars
<1>7. CASE CancelReturns \/ CancelRaises
  BY <1>7 DEF CancelReturns, CancelRaises, EndCycle, CycleError, Leave, startupVars
<1>8. CASE Wake \/ Stop \/ Tick \/ Market \/ EntryFills
  BY <1>8 DEF TypeOK, CycleTypeOK, Wake, Stop, Tick, Market, EntryFills, EnterLoop, startupVars, stateVars
<1> QED BY <1>1, <1>2, <1>3, <1>4, <1>5, <1>6, <1>7, <1>8 DEF Next, BotStep

LEMMA TypeStep == TypeInv /\ [Next]_vars => TypeInv'
<1> SUFFICES ASSUME TypeInv, [Next]_vars PROVE TypeInv'
  OBVIOUS
<1>1. CASE Next
  BY <1>1, ExchangeStep, CycleStep, StateStep, StartupStep, ProcessStep, SitesStep
     DEF TypeInv, TypeOK
<1>2. CASE UNCHANGED vars
  BY <1>2 DEF TypeInv, TypeOK, ExchangeTypeOK, ProcessTypeOK, CycleTypeOK, StateTypeOK,
     StartupTypeOK, HistoryTypeOK, PricesKnown, Working, SitesHold, Signal,
     vars, exchangeVars, stateVars, startupVars, history
<1> QED BY <1>1, <1>2

(* Through every startup, cycle, failure and crash the variables of the    *)
(* bot and of its exchange keep to their types.                            *)
THEOREM TypeCorrect == Spec => []TypeOK
<1>1. Init => TypeInv
  BY TypeInit
<1>2. TypeInv /\ [Next]_vars => TypeInv'
  BY TypeStep
<1>3. TypeInv => TypeOK
  BY DEF TypeInv
<1> QED BY <1>1, <1>2, <1>3, PTL DEF Spec

---------------------------------------------------------------------------
(* The single slot.  The inductive invariant says where the one live order *)
(* is known: in BotState while the loop runs, in the hands of the startup  *)
(* reconciliation before, nowhere when a new one is about to be sent.      *)

(* create_pending_order is reached with nothing tracked.                   *)
CreateFree == pc = "create" => pending = None

(* A process that has not entered its loop tracks nothing.                 *)
NothingTrackedYet == pc \in {"down", "startup", "cleanup"} => pending = None

(* Startup has every live order either to adopt or to cancel.              *)
Handover == pc = "cleanup" => Live \subseteq stale \cup {adopt.link}

SlotInv == CreateFree /\ NothingTrackedYet /\ Handover /\ SinglePending /\ NoStrayOrder

LEMMA SlotInit == Init => SlotInv
BY DEF Init, ExchangeInit, SlotInv, CreateFree, NothingTrackedYet, Handover,
   SinglePending, NoStrayOrder, Live, InLoop, CallSites

(* Orders become live by an accepted placement only.                       *)
LEMMA LiveMoves ==
  ASSUME TypeInv, Next
  PROVE  \/ Live' \subseteq Live
         \/ CreateAccepted /\ Live' = Live \cup {LinkFor(Signal)}
         \/ CreateLost
<1> USE DEF TypeInv, TypeOK, ExchangeTypeOK, Live, Working, exchangeVars
<1>1. CASE UNCHANGED exchangeVars
  BY <1>1
<1>2. ASSUME NEW l \in Links, Cancel(l) \/ Trigger(l) \/ Fill(l)
      PROVE  Live' \subseteq Live
  BY <1>2 DEF Cancel, Trigger, Fill
<1>3. CASE CreateAccepted
  BY <1>3 DEF CreateAccepted, Accept
<1>4. CASE AmendPrice(pending.link, Signal.price)
  BY <1>4 DEF AmendPrice
<1>5. CASE ClosePosition
  BY <1>5 DEF ClosePosition
<1> QED BY Moves, <1>1, <1>2, <1>3, <1>4, <1>5 DEF ExchangeMove

(* The order that becomes live is the one the cycle's signal asks for.     *)
LEMMA NewlyLive ==
  ASSUME TypeInv, Next, NEW l \in Links, status[l] = "unknown", status'[l] = "live"
  PROVE  pc = "create" /\ l = LinkFor(Signal)
<1> USE DEF TypeInv, TypeOK, ExchangeTypeOK, Working, exchangeVars
<1>1. CASE UNCHANGED exchangeVars
  BY <1>1
<1>2. ASSUME NEW k \in Links, Cancel(k) \/ Trigger(k) \/ Fill(k)
      PROVE  FALSE
  BY <1>2 DEF Cancel, Trigger, Fill
<1>3. CASE CreateAccepted \/ CreateLost
  BY <1>3 DEF CreateAccepted, CreateLost, Accept
<1>4. CASE AmendPrice(pending.link, Signal.price)
  BY <1>4 DEF AmendPrice
<1>5. CASE ClosePosition
  BY <1>5 DEF ClosePosition
<1> QED BY Moves, <1>1, <1>2, <1>3, <1>4, <1>5 DEF ExchangeMove

(* The history variable is reset where the startup has seen every order.   *)
LEMMA LostMoves ==
  ASSUME Next
  PROVE  \/ UNCHANGED lost
         \/ lost' = TRUE
         \/ Adopt
         \/ ScanOrphans /\ Live = {}
BY DEF Next, BotStep, Start, StartupFails, ScanOrphans, CancelStale, Peek,
   Fetch, ReadFails, Reconcile, CheckPosition, Sync, SyncPositionOpen, SyncNoSignal,
   SyncExpired, SyncSkip, SyncCreate, SyncKeep, SyncFlip, SyncAmend, SyncEnds, SyncTo,
   CreateAccepted, CreateRefused, CreateLost, AmendAccepted, AmendFailed,
   CancelReturns, CancelRaises, Wake, Stop, Crash, Tick, Market, EntryFills,
   Forgotten, EndCycle, CycleError, history

(* What BotState tracks after a placement or an amendment was confirmed.   *)
LEMMA CreateTracks ==
  ASSUME TypeInv, CreateAccepted
  PROVE  pending' # None /\ pending'.link = LinkFor(Signal) /\ pending'.price = Signal.price
<1>1. Signal \in Signals
  BY DEF CreateAccepted, TypeInv, TypeOK, SitesHold, CycleTypeOK, Signal
<1>2. Signal.price \in Prices /\ Signal.bar \in KeyBars
  BY <1>1, Ranges DEF Signals
<1>3. pending' \in PendingOrders
  BY <1>2 DEF CreateAccepted, PendingOrders
<1> QED BY <1>3, SentinelAssumption DEF CreateAccepted

LEMMA AmendTracks ==
  ASSUME TypeInv, AmendAccepted
  PROVE  pending' # None /\ pending'.link = pending.link /\ pending'.price = Signal.price
<1>1. Signal \in Signals /\ pending \in PendingOrders
  BY DEF AmendAccepted, TypeInv, TypeOK, SitesHold, CycleTypeOK, StateTypeOK, Signal
<1>2. pending' \in PendingOrders
  BY <1>1 DEF AmendAccepted, PendingOrders, Signals
<1> QED BY <1>1, <1>2, SentinelAssumption DEF AmendAccepted, PendingOrders

LEMMA SingleStep ==
  ASSUME TypeInv, SlotInv, Next
  PROVE  SinglePending'
<1> SUFFICES ASSUME ~lost' PROVE \A k, l \in Live' : k = l
  BY DEF SinglePending
<1>1. CASE CreateAccepted
  <2>1. ~lost /\ pending = None /\ InLoop
    BY <1>1 DEF CreateAccepted, SlotInv, CreateFree, InLoop, CallSites
  <2>2. Live = {}
    BY <2>1 DEF SlotInv, NoStrayOrder, Tracked
  <2> QED BY <1>1, <2>2, LiveMoves DEF CreateLost
<1>2. CASE Live' \subseteq Live
  <2>1. CASE ~lost
    BY <1>2, <2>1 DEF SlotInv, SinglePending
  <2>2. CASE Adopt
    BY <1>2, <2>2 DEF Adopt, SlotInv, Handover
  <2>3. CASE Live = {}
    BY <1>2, <2>3
  <2> QED BY <2>1, <2>2, <2>3, LostMoves
<1> QED BY <1>1, <1>2, LiveMoves DEF CreateLost

LEMMA StrayStep ==
  ASSUME TypeInv, SlotInv, Next
  PROVE  NoStrayOrder'
<1> SUFFICES ASSUME InLoop', ~lost' PROVE Live' \subseteq Tracked'
  BY DEF NoStrayOrder
<1> USE DEF InLoop, CallSites, Tracked
<1>1. CASE Start \/ StartupFails \/ Crash \/ CancelStale
  BY <1>1 DEF Start, StartupFails, Crash, CancelStale
<1>2. CASE ScanOrphans
  <2>1. Live = {}
    BY <1>2 DEF ScanOrphans
  <2> QED BY <1>2, <2>1 DEF ScanOrphans, exchangeVars, Live
<1>3. CASE Adopt
  <2>1. Live' = Live
    BY <1>3 DEF Adopt, exchangeVars, Live
  <2>2. Live \subseteq {adopt.link} /\ adopt # None
    BY <1>3 DEF Adopt, SlotInv, Handover, TypeInv, SitesHold
  <2> QED BY <1>3, <2>1, <2>2 DEF Adopt
<1>4. CASE CreateAccepted
  <2>1. ~lost /\ pending = None
    BY <1>4 DEF CreateAccepted, SlotInv, CreateFree
  <2>2. Live = {}
    BY <1>4, <2>1 DEF SlotInv, NoStrayOrder, CreateAccepted
  <2>3. Live' \subseteq {LinkFor(Signal)}
    BY <1>4, <2>2, LiveMoves DEF CreateLost
  <2> QED BY <1>4, <2>3, CreateTracks
<1>5. CASE CreateLost
  BY <1>5 DEF CreateLost
<1>6. CASE AmendAccepted
  <2>1. Live' \subseteq Live /\ Live \subseteq Tracked /\ pending # None
    BY <1>6, LiveMoves DEF AmendAccepted, CreateAccepted, CreateLost, SlotInv, NoStrayOrder,
       TypeInv, SitesHold
  <2> QED BY <1>6, <2>1, AmendTracks
<1>7. CASE Reconcile
  <2>1. Live' = Live /\ Live \subseteq {pending.link} /\ pending # None
    BY <1>7 DEF Reconcile, SlotInv, NoStrayOrder, TypeInv, SitesHold, exchangeVars, Live
  <2>2. CASE UNCHANGED pending
    BY <2>1, <2>2
  <2>3. CASE pending' = None
    <3>1. CASE pending.link \in Live
      <4>1. QueryAnswers(pending.link) = {"live"}
        BY <3>1 DEF QueryAnswers, Live
      <4>2. "live" \notin {None, "filled", "cancelled"}
        BY NoneAssumption DEF Statuses
      <4> QED BY <1>7, <4>1, <4>2, <2>1, <2>3 DEF Reconcile
    <3>2. CASE pending.link \notin Live
      BY <2>1, <3>2
    <3> QED BY <3>1, <3>2
  <2> QED BY <1>7, <2>2, <2>3 DEF Reconcile
<1>8. CASE CancelReturns
  <2>1. Live \subseteq {pending.link}
    BY <1>8 DEF CancelReturns, CancelSites, SlotInv, NoStrayOrder, TypeInv, SitesHold
  <2>2. CASE pending.link \in Working
    <3>1. status' = [status EXCEPT ![pending.link] = "cancelled"] /\ pending.link \in Links
      BY <1>8, <2>2 DEF CancelReturns, Cancel, Working
    <3>2. Live' = {}
      BY <2>1, <3>1 DEF Live, TypeInv, TypeOK, ExchangeTypeOK
    <3> QED BY <3>2
  <2>3. CASE pending.link \notin Working
    BY <1>8, <2>1, <2>3 DEF CancelReturns, exchangeVars, Live, Working
  <2> QED BY <2>2, <2>3
<1>9. CASE \/ Peek \/ Fetch \/ ReadFails \/ CheckPosition \/ Sync \/ CreateRefused
           \/ AmendFailed \/ CancelRaises \/ Wake \/ Stop \/ Tick \/ Market \/ EntryFills
  <2>1. InLoop
    BY <1>9 DEF Peek, Fetch, ReadFails, CheckPosition, Sync, SyncPositionOpen, SyncNoSignal,
       SyncExpired, SyncSkip, SyncCreate, SyncKeep, SyncFlip, SyncAmend, Syncing,
       CreateRefused, AmendFailed, CancelRaises, CancelSites, Wake, Stop, Tick, Market,
       EntryFills
  <2>2. UNCHANGED <<pending, lost>>
    BY <1>9 DEF Peek, Fetch, ReadFails, CheckPosition, Sync, SyncPositionOpen, SyncNoSignal,
       SyncExpired, SyncSkip, SyncCreate, SyncKeep, SyncFlip, SyncAmend, SyncEnds, SyncTo,
       CreateRefused, AmendFailed, CancelRaises, CycleError, EndCycle, Wake, Stop, Tick,
       Market, EntryFills, stateVars, history
  <2>3. ~CreateAccepted
    BY <2>2, CreateTracks DEF CreateAccepted, SlotInv, CreateFree
  <2> QED BY <2>1, <2>2, <2>3, LiveMoves DEF SlotInv, NoStrayOrder, CreateLost
<1> QED BY <1>1, <1>2, <1>3, <1>4, <1>5, <1>6, <1>7, <1>8, <1>9 DEF Next, BotStep

LEMMA SlotStep == TypeInv /\ SlotInv /\ [Next]_vars => SlotInv'
<1> SUFFICES ASSUME TypeInv, SlotInv, [Next]_vars PROVE SlotInv'
  OBVIOUS
<1>1. CASE UNCHANGED vars
  BY <1>1 DEF SlotInv, CreateFree, NothingTrackedYet, Handover, SinglePending, NoStrayOrder,
     InLoop, Live, Tracked, vars, exchangeVars, stateVars, startupVars, history
<1>2. ASSUME Next PROVE CreateFree'
  BY <1>2 DEF SlotInv, CreateFree, Next, BotStep, Start, StartupFails, ScanOrphans,
     CancelStale, Adopt, EnterLoop, Peek, Leave,
     Fetch, ReadFails, Reconcile, CheckPosition, Sync, SyncPositionOpen, SyncNoSignal,
     SyncExpired, SyncSkip, SyncCreate, SyncKeep, SyncFlip, SyncAmend, SyncEnds, SyncTo,
     CreateAccepted, CreateRefused, CreateLost, AmendAccepted, AmendFailed,
     CancelReturns, CancelRaises, Wake, Stop, Crash, Tick, Market, EntryFills,
     Forgotten, EndCycle, CycleError, stateVars
<1>3. ASSUME Next PROVE NothingTrackedYet'
  BY <1>3 DEF SlotInv, NothingTrackedYet, Next, BotStep, Start, StartupFails, ScanOrphans,
     CancelStale, Adopt, EnterLoop, Peek, Leave, CancelSites,
     Fetch, ReadFails, Reconcile, CheckPosition, Sync, SyncPositionOpen, SyncNoSignal,
     SyncExpired, SyncSkip, SyncCreate, SyncKeep, SyncFlip, SyncAmend, SyncEnds, SyncTo,
     CreateAccepted, CreateRefused, CreateLost, AmendAccepted, AmendFailed,
     CancelReturns, CancelRaises, Wake, Stop, Crash, Tick, Market, EntryFills,
     Forgotten, EndCycle, CycleError, stateVars
<1>4. ASSUME Next PROVE Handover'
  <2> SUFFICES ASSUME pc' = "cleanup" PROVE Live' \subseteq stale' \cup {adopt'.link}
    BY DEF Handover
  <2>1. CASE ScanOrphans
    <3>1. Live # {}
      BY <2>1 DEF ScanOrphans, EnterLoop
    <3>2. PICK latest \in Live :
            /\ adopt' = [link |-> latest, price |-> price[latest], bar |-> Suffix(latest)]
            /\ stale' = Live \ {latest}
      BY <2>1, <3>1 DEF ScanOrphans
    <3>3. Live' = Live
      BY <2>1 DEF ScanOrphans, exchangeVars, Live
    <3> QED BY <3>2, <3>3
  <2>2. CASE CancelStale
    <3>1. PICK l \in stale :
            /\ IF l \in Working THEN Cancel(l) ELSE UNCHANGED exchangeVars
            /\ stale' = stale \ {l}
      BY <2>2 DEF CancelStale
    <3>2. Live' \subseteq Live \ {l}
      BY <3>1 DEF Cancel, Live, Working, exchangeVars, TypeInv, TypeOK, ExchangeTypeOK
    <3>3. pc = "cleanup" /\ adopt' = adopt
      BY <2>2 DEF CancelStale
    <3> QED BY <3>1, <3>2, <3>3 DEF SlotInv, Handover
  <2>3. CASE ~ScanOrphans /\ ~CancelStale
    <3>1. pc = "cleanup" /\ UNCHANGED startupVars
      BY <1>4, <2>3 DEF Next, BotStep, Start, StartupFails, Adopt, EnterLoop, Peek, Leave,
         Fetch, ReadFails, Reconcile, CheckPosition, Sync, SyncPositionOpen, SyncNoSignal,
         SyncExpired, SyncSkip, SyncCreate, SyncKeep, SyncFlip, SyncAmend, SyncEnds, SyncTo,
         CreateAccepted, CreateRefused, CreateLost, AmendAccepted, AmendFailed,
         CancelReturns, CancelRaises, Wake, Stop, Crash, Tick, Market, EntryFills,
         EndCycle, CycleError
    <3>2. Live' \subseteq Live
      BY <1>4, <3>1, LiveMoves DEF CreateAccepted, CreateLost
    <3> QED BY <3>1, <3>2 DEF SlotInv, Handover, startupVars
  <2> QED BY <2>1, <2>2, <2>3
<1> QED BY <1>1, <1>2, <1>3, <1>4, SingleStep, StrayStep DEF SlotInv

(* Unless the answer to a placement was lost and no startup has looked at  *)
(* the exchange since, the bot has at most one conditional order there,    *)
(* and its loop tracks it.                                                 *)
THEOREM SlotCorrect == Spec => [](SinglePending /\ NoStrayOrder)
<1>1. Init => TypeInv /\ SlotInv
  BY TypeInit, SlotInit
<1>2. TypeInv /\ SlotInv /\ [Next]_vars => TypeInv' /\ SlotInv'
  BY TypeStep, SlotStep
<1>3. TypeInv /\ SlotInv => SinglePending /\ NoStrayOrder
  BY DEF SlotInv
<1> QED BY <1>1, <1>2, <1>3, PTL DEF Spec

(* While the loop runs, every order that works is the tracked one: nothing *)
(* is left working that the bot does not know of, unless the answer to a   *)
(* placement was lost.                                                     *)
THEOREM StrayCorrect == Spec => []NoStrayOrder
<1> QED BY SlotCorrect, PTL

---------------------------------------------------------------------------
(* When no answer to a placement is lost, the bot on its exchange is one   *)
(* PendingSlot.                                                            *)

(* The refinement mapping of Slot.                                         *)
SlotValue == IF Live = {} THEN None ELSE CHOOSE l \in Live : TRUE
UsedLinks == {l \in Links : status[l] # "unknown"}

NoLossInv == TypeInv /\ SlotInv /\ ~lost

(* Without CreateLost nothing sets the history variable.                   *)
LEMMA NoLossStep ==
  ASSUME AnswerLoss = FALSE, NoLossInv, [Next]_vars
  PROVE  NoLossInv'
<1>1. UNCHANGED lost \/ lost' = FALSE
  BY DEF NoLossInv, Next, BotStep, Start, StartupFails, ScanOrphans, CancelStale, Adopt,
     Peek, Fetch, ReadFails, Reconcile, CheckPosition, Sync, SyncPositionOpen,
     SyncNoSignal, SyncExpired, SyncSkip, SyncCreate, SyncKeep, SyncFlip, SyncAmend,
     SyncEnds, SyncTo, CreateAccepted, CreateRefused, CreateLost, AmendAccepted,
     AmendFailed, CancelReturns, CancelRaises, Wake, Stop, Crash, Tick, Market,
     EntryFills, Forgotten, EndCycle, CycleError, vars, history
<1> QED BY <1>1, TypeStep, SlotStep DEF NoLossInv

(* The slot holds the one live order.                                      *)
LEMMA SlotOfOne ==
  ASSUME NEW l, Live = {l}
  PROVE  SlotValue = l
BY DEF SlotValue

(* An order leaves the slot, or was not in it.                             *)
LEMMA LeaveSlot ==
  ASSUME NoLossInv, NEW l \in Links, Cancel(l) \/ Trigger(l) \/ Fill(l)
  PROVE  /\ UsedLinks' = UsedLinks
         /\ SlotValue' = SlotValue \/ (SlotValue # None /\ SlotValue' = None)
<1> USE DEF NoLossInv, TypeInv, TypeOK, ExchangeTypeOK, Working
<1>1. UsedLinks' = UsedLinks
  BY DEF Cancel, Trigger, Fill, UsedLinks
<1>2. CASE l \in Live
  <2>1. Live = {l}
    BY <1>2 DEF SlotInv, SinglePending
  <2>2. SlotValue = l /\ l # None
    BY <2>1, SlotOfOne, NoneAssumption
  <2>3. Live' = {}
    BY <1>2, <2>1 DEF Cancel, Trigger, Fill, Live
  <2> QED BY <1>1, <2>2, <2>3 DEF SlotValue
<1>3. CASE l \notin Live
  <2>1. Live' = Live
    BY <1>3 DEF Cancel, Trigger, Fill, Live
  <2> QED BY <1>1, <2>1 DEF SlotValue
<1> QED BY <1>2, <1>3

(* A placement fills the empty slot with a link id never used.             *)
LEMMA EnterSlot ==
  ASSUME NoLossInv, Next, CreateAccepted
  PROVE  /\ SlotValue = None /\ SlotValue' = LinkFor(Signal)
         /\ LinkFor(Signal) \in Links \ UsedLinks
         /\ UsedLinks' = UsedLinks \cup {LinkFor(Signal)}
<1> USE DEF NoLossInv, TypeInv, TypeOK, ExchangeTypeOK
<1>1. Live = {}
  BY DEF CreateAccepted, SlotInv, CreateFree, NoStrayOrder, Tracked, InLoop, CallSites
<1>2. status[LinkFor(Signal)] = "unknown" /\ LinkFor(Signal) \in Links
  BY DEF CreateAccepted, Accept
<1>3. status' = [status EXCEPT ![LinkFor(Signal)] = "live"]
  BY DEF CreateAccepted, Accept
<1>4. Live' = {LinkFor(Signal)}
  BY <1>1, <1>2, <1>3 DEF Live
<1>5. UsedLinks' = UsedLinks \cup {LinkFor(Signal)}
  BY <1>2, <1>3 DEF UsedLinks
<1>6. SlotValue = None /\ SlotValue' = LinkFor(Signal)
  BY <1>1, <1>4 DEF SlotValue
<1> QED BY <1>2, <1>5, <1>6 DEF UsedLinks

LEMMA SlotSimulation ==
  ASSUME AnswerLoss = FALSE, NoLossInv, [Next]_vars
  PROVE  [Slot!Next]_(Slot!vars)
<1> USE DEF Slot!Next, Slot!vars, Slot!Place, Slot!Release
<1>1. CASE UNCHANGED exchangeVars
  BY <1>1 DEF exchangeVars, Live
<1>2. ASSUME NEW l \in Links, Cancel(l) \/ Trigger(l) \/ Fill(l)
      PROVE  [Slot!Next]_(Slot!vars)
  BY <1>2, LeaveSlot DEF SlotValue, UsedLinks
<1>3. CASE Next /\ CreateAccepted
  BY <1>3, EnterSlot DEF SlotValue, UsedLinks
<1>4. ASSUME AmendPrice(pending.link, Signal.price) \/ ClosePosition
      PROVE  [Slot!Next]_(Slot!vars)
  <2>1. UNCHANGED status
    BY <1>4 DEF AmendPrice, ClosePosition
  <2> QED BY <2>1 DEF Live
<1>5. CASE UNCHANGED vars
  BY <1>1, <1>5 DEF vars, exchangeVars
<1> QED BY Moves, <1>1, <1>2, <1>3, <1>4, <1>5 DEF ExchangeMove, CreateLost

(* The bot and its exchange implement the single slot.                     *)
THEOREM SlotRefined ==
  ASSUME AnswerLoss = FALSE
  PROVE  Spec => ImplementsSlot
<1>1. Init => NoLossInv /\ Slot!Init
  BY TypeInit, SlotInit DEF NoLossInv, Init, ExchangeInit, Slot!Init, Live
<1>2. NoLossInv /\ [Next]_vars => NoLossInv'
  BY NoLossStep
<1>3. NoLossInv /\ [Next]_vars => [Slot!Next]_(Slot!vars)
  BY SlotSimulation
<1> QED BY <1>1, <1>2, <1>3, PTL DEF Spec, ImplementsSlot, Slot!Spec

---------------------------------------------------------------------------
(* When the bot may send an order, and what it may believe about the one   *)
(* it tracks: from the type invariant and what holds between the position  *)
(* check of a cycle and its last call.                                     *)

(* The calls that lead to a placement.                                     *)
PlacingSites == {"flip", "recreate", "create", "amend"}

(* They are reached past the guards of sync_pending_orders only.           *)
GuardsPassed == pc \in PlacingSites => IsValid /\ ~cycle.hasPosition

(* What the position check saw is still so, or an entry has filled since.  *)
CheckHolds == pc \in AfterCheck /\ ~cycle.hasPosition => position = None \/ raced

GuardInv == GuardsPassed /\ CheckHolds

LEMMA GuardInit == Init => GuardInv
BY DEF Init, GuardInv, GuardsPassed, CheckHolds, PlacingSites, AfterCheck

(* The clock makes no valid signal invalid within a cycle.                 *)
LEMMA TickKeepsValid ==
  ASSUME TypeInv, IsValid, Tick
  PROVE  IsValid'
<1>1. Signal' = Signal /\ cycle'.frame \in {cycle.frame, Older(cycle.frame)}
  BY DEF Tick, TypeInv, TypeOK, CycleTypeOK, Signal
<1>2. cycle.frame \in 0..MaxBar /\ Signal.bar \in Nat
  BY BarAssumption DEF IsValid, TypeInv, TypeOK, CycleTypeOK, Signal, Signals
<1> QED BY <1>1, <1>2, ClockAssumption DEF IsValid, Older

LEMMA GuardsPassedStep ==
  ASSUME TypeInv, GuardInv, Next
  PROVE  GuardsPassed'
<1> SUFFICES ASSUME pc' \in PlacingSites PROVE IsValid' /\ ~cycle'.hasPosition
  BY DEF GuardsPassed
<1> USE DEF PlacingSites, GuardInv, GuardsPassed
<1>1. CASE Tick
  BY <1>1, TickKeepsValid DEF Tick, TypeInv, TypeOK, CycleTypeOK
<1>2. CASE Sync
  BY <1>2 DEF Sync, SyncPositionOpen, SyncNoSignal, SyncExpired, SyncSkip, SyncCreate,
     SyncKeep, SyncFlip, SyncAmend, SyncEnds, SyncTo, Syncing, IsValid, Signal,
     EndCycle, Leave
<1>3. CASE AmendFailed \/ CancelReturns
  BY <1>3 DEF AmendFailed, CancelReturns, CancelSites, EndCycle, Leave, IsValid, Signal
<1>4. CASE Stop \/ Market \/ EntryFills
  BY <1>4 DEF Stop, Market, EntryFills, IsValid, Signal
<1>5. ~(\/ Start \/ StartupFails \/ ScanOrphans \/ CancelStale \/ Adopt \/ Peek \/ Fetch
        \/ ReadFails \/ Reconcile \/ CheckPosition \/ CreateAccepted \/ CreateRefused
        \/ CreateLost \/ AmendAccepted \/ CancelRaises \/ Wake \/ Crash)
  BY DEF Start, StartupFails, ScanOrphans, CancelStale, Adopt, Peek, Fetch, ReadFails,
     Reconcile, CheckPosition, CreateAccepted, CreateRefused, CreateLost, AmendAccepted,
     CancelRaises, Wake, Crash, EnterLoop, EndCycle, CycleError, Leave
<1> QED BY <1>1, <1>2, <1>3, <1>4, <1>5 DEF Next, BotStep

LEMMA CheckHoldsStep ==
  ASSUME TypeInv, GuardInv, Next
  PROVE  CheckHolds'
<1> SUFFICES ASSUME pc' \in AfterCheck, ~cycle'.hasPosition
             PROVE  position' = None \/ raced'
  BY DEF CheckHolds
<1> USE DEF AfterCheck, GuardInv, CheckHolds
<1>1. CASE CheckPosition
  BY <1>1 DEF CheckPosition, exchangeVars, TypeInv, TypeOK, CycleTypeOK
<1>2. CASE EntryFills
  BY <1>2 DEF EntryFills
<1>3. CASE Market
  BY <1>3 DEF Market, Trigger, OutsideCancel, Cancel, ClosePosition, history
<1>4. CASE Tick
  BY <1>4 DEF Tick, history, exchangeVars, TypeInv, TypeOK, CycleTypeOK
<1>5. CASE Sync \/ AmendFailed \/ CancelReturns \/ Stop
  BY <1>5 DEF Sync, SyncPositionOpen, SyncNoSignal, SyncExpired, SyncSkip, SyncCreate,
     SyncKeep, SyncFlip, SyncAmend, SyncEnds, SyncTo, Syncing, EndCycle, Leave,
     AmendFailed, AmendPrice, CancelReturns, CancelSites, Cancel, Stop, exchangeVars, history
<1>6. ~(\/ Start \/ StartupFails \/ ScanOrphans \/ CancelStale \/ Adopt \/ Peek \/ Fetch
        \/ ReadFails \/ Reconcile \/ CreateAccepted \/ CreateRefused
        \/ CreateLost \/ AmendAccepted \/ CancelRaises \/ Wake \/ Crash)
  BY DEF Start, StartupFails, ScanOrphans, CancelStale, Adopt, Peek, Fetch, ReadFails,
     Reconcile, CreateAccepted, CreateRefused, CreateLost, AmendAccepted,
     CancelRaises, Wake, Crash, EnterLoop, EndCycle, CycleError, Leave
<1> QED BY <1>1, <1>2, <1>3, <1>4, <1>5, <1>6 DEF Next, BotStep

LEMMA GuardStep == TypeInv /\ GuardInv /\ [Next]_vars => GuardInv'
<1>1. ASSUME UNCHANGED vars, GuardInv PROVE GuardInv'
  BY <1>1 DEF GuardInv, GuardsPassed, CheckHolds, IsValid, Signal, vars, exchangeVars, history
<1> QED BY <1>1, GuardsPassedStep, CheckHoldsStep DEF GuardInv

(* An order is sent only while the exchange's position is flat, unless an  *)
(* entry filled after the cycle had checked.                               *)
THEOREM PositionGuardCorrect == Spec => PositionGuard
<1> DEFINE Step == \A l \in Links : status[l] = "unknown" /\ status'[l] = "live"
                     => position = None \/ raced
<1>1. Init => TypeInv /\ GuardInv
  BY TypeInit, GuardInit
<1>2. TypeInv /\ GuardInv /\ [Next]_vars => TypeInv' /\ GuardInv'
  BY TypeStep, GuardStep
<1>3. TypeInv /\ GuardInv /\ [Next]_vars => [Step]_vars
  <2> SUFFICES ASSUME TypeInv, GuardInv, Next, NEW l \in Links,
                      status[l] = "unknown", status'[l] = "live"
               PROVE  position = None \/ raced
    BY DEF vars
  <2>1. pc = "create"
    BY NewlyLive
  <2> QED BY <2>1 DEF GuardInv, GuardsPassed, CheckHolds, PlacingSites, AfterCheck
<1> QED BY <1>1, <1>2, <1>3, PTL DEF Spec, PositionGuard

(* An order is sent only for a signal younger than expiry_bars, however    *)
(* often a candle closes while the cycle waits for the exchange.           *)
THEOREM FreshSignalCorrect == Spec => FreshSignal
<1> DEFINE Step == \A l \in Links : status[l] = "unknown" /\ status'[l] = "live"
                     => cycle.frame < l.bar + Expiry
<1>1. Init => TypeInv /\ GuardInv
  BY TypeInit, GuardInit
<1>2. TypeInv /\ GuardInv /\ [Next]_vars => TypeInv' /\ GuardInv'
  BY TypeStep, GuardStep
<1>3. TypeInv /\ GuardInv /\ [Next]_vars => [Step]_vars
  <2> SUFFICES ASSUME TypeInv, GuardInv, Next, NEW l \in Links,
                      status[l] = "unknown", status'[l] = "live"
               PROVE  cycle.frame < l.bar + Expiry
    BY DEF vars
  <2>1. pc = "create" /\ l = LinkFor(Signal)
    BY NewlyLive
  <2>2. l.bar = Signal.bar
    BY <2>1 DEF LinkFor
  <2> QED BY <2>1, <2>2 DEF GuardInv, GuardsPassed, PlacingSites, IsValid
<1> QED BY <1>1, <1>2, <1>3, PTL DEF Spec, FreshSignal

---------------------------------------------------------------------------
(* What BotState, or the startup, holds of an order.                       *)

(* The order startup is about to adopt is one the exchange accepted, at    *)
(* the prices it has there as long as it waits for its trigger.            *)
AdoptIsReal ==
  adopt # None =>
    /\ status[adopt.link] # "unknown"
    /\ adopt.link \in Live => adopt.price = price[adopt.link]

RealInv == TrackedIsReal /\ AdoptIsReal

LEMMA RealInit == Init => RealInv
BY DEF Init, RealInv, TrackedIsReal, AdoptIsReal

(* An accepted order stays known, and while it is live its prices change   *)
(* by an amendment of the tracked order only.                              *)
LEMMA KnownOrders ==
  ASSUME TypeInv, Next, NEW l \in Links, status[l] # "unknown"
  PROVE  /\ status'[l] # "unknown"
         /\ l \in Live' => /\ l \in Live
                          /\ \/ price'[l] = price[l]
                             \/ /\ pc = "amend" /\ l = pending.link
                                /\ AmendAccepted \/ amendLost'
<1> USE DEF TypeInv, TypeOK, ExchangeTypeOK, Working, Live, exchangeVars
<1>1. CASE UNCHANGED exchangeVars
  BY <1>1
<1>2. CASE \E k \in Links : Cancel(k) \/ Trigger(k) \/ Fill(k)
  BY <1>2 DEF Cancel, Trigger, Fill
<1>3. CASE CreateAccepted \/ CreateLost
  BY <1>3 DEF CreateAccepted, CreateLost, Accept
<1>4. CASE /\ AmendPrice(pending.link, Signal.price)
           /\ AmendAccepted \/ (AmendFailed /\ amendLost')
  <2>1. pc = "amend"
    BY <1>4 DEF AmendAccepted, AmendFailed
  <2>2. pending.link \in Links
    BY <2>1 DEF SitesHold, StateTypeOK, PendingOrders
  <2> QED BY <1>4, <2>1, <2>2 DEF AmendPrice
<1>5. CASE ClosePosition
  BY <1>5 DEF ClosePosition
<1> QED BY Moves, <1>1, <1>2, <1>3, <1>4, <1>5 DEF ExchangeMove

(* The history variable is reset only with the order it is about.          *)
LEMMA AmendLostMoves ==
  ASSUME Next
  PROVE  UNCHANGED amendLost \/ amendLost' \/ pending' = None \/ AmendAccepted
BY DEF Next, BotStep, Start, StartupFails, ScanOrphans, CancelStale, Adopt, Peek, Fetch,
   ReadFails, Reconcile, CheckPosition, Sync, SyncPositionOpen, SyncNoSignal, SyncExpired,
   SyncSkip, SyncCreate, SyncKeep, SyncFlip, SyncAmend, SyncEnds, SyncTo, CreateAccepted,
   CreateRefused, CreateLost, AmendFailed, CancelReturns, CancelRaises, Wake, Stop, Crash,
   Tick, Market, EntryFills, Forgotten, EndCycle, CycleError, history

LEMMA TrackedStep ==
  ASSUME TypeInv, RealInv, Next
  PROVE  TrackedIsReal'
<1> SUFFICES ASSUME pending' # None
             PROVE  /\ status'[pending'.link] # "unknown"
                    /\ pending'.link \in Live' /\ ~amendLost'
                         => pending'.price = price'[pending'.link]
  BY DEF TrackedIsReal
<1> USE DEF TypeInv, TypeOK
<1>1. CASE CreateAccepted
  <2>1. /\ status' = [status EXCEPT ![LinkFor(Signal)] = "live"]
        /\ price' = [price EXCEPT ![LinkFor(Signal)] = Signal.price]
        /\ LinkFor(Signal) \in Links
    BY <1>1 DEF CreateAccepted, Accept
  <2> QED BY <2>1, <1>1, CreateTracks DEF ExchangeTypeOK
<1>2. CASE AmendAccepted
  <2>1. pending \in PendingOrders /\ pending # None
    BY <1>2 DEF AmendAccepted, SitesHold, StateTypeOK
  <2>2. price' = [price EXCEPT ![pending.link] = Signal.price] /\ pending.link \in Links
    BY <1>2, <2>1 DEF AmendAccepted, AmendPrice, PendingOrders
  <2>3. status'[pending.link] # "unknown"
    BY <2>1, <2>2, KnownOrders DEF RealInv, TrackedIsReal
  <2> QED BY <1>2, <2>2, <2>3, AmendTracks DEF ExchangeTypeOK
<1>3. CASE Adopt
  <2>1. adopt # None /\ pending' = adopt /\ UNCHANGED exchangeVars
    BY <1>3 DEF Adopt, SitesHold
  <2> QED BY <2>1 DEF RealInv, AdoptIsReal, exchangeVars, Live
<1>4. CASE UNCHANGED pending /\ ~AmendAccepted
  <2>1. pending # None /\ pending \in PendingOrders
    BY <1>4 DEF StateTypeOK
  <2>2. pending.link \in Links /\ status[pending.link] # "unknown"
    BY <2>1 DEF PendingOrders, RealInv, TrackedIsReal
  <2>3. status'[pending.link] # "unknown"
    BY <2>2, KnownOrders
  <2>4. ASSUME pending.link \in Live', ~amendLost' PROVE pending.price = price'[pending.link]
    <3>1. pending.link \in Live /\ price'[pending.link] = price[pending.link]
      BY <1>4, <2>2, <2>4, KnownOrders
    <3>2. ~amendLost
      BY <1>4, <2>1, <2>4, AmendLostMoves
    <3> QED BY <2>1, <3>1, <3>2 DEF RealInv, TrackedIsReal
  <2> QED BY <1>4, <2>3, <2>4
<1> QED BY Moves, <1>1, <1>2, <1>3, <1>4 DEF StateMove, Reconcile

LEMMA AdoptStep ==
  ASSUME TypeInv, RealInv, Next
  PROVE  AdoptIsReal'
<1> SUFFICES ASSUME adopt' # None
             PROVE  /\ status'[adopt'.link] # "unknown"
                    /\ adopt'.link \in Live' => adopt'.price = price'[adopt'.link]
  BY DEF AdoptIsReal
<1> USE DEF TypeInv, TypeOK
<1>1. CASE UNCHANGED adopt
  <2>1. adopt # None /\ adopt \in PendingOrders /\ pc = "cleanup"
    BY <1>1 DEF StartupTypeOK, SitesHold
  <2>2. adopt.link \in Links /\ status[adopt.link] # "unknown"
    BY <2>1 DEF PendingOrders, RealInv, AdoptIsReal
  <2> QED BY <1>1, <2>1, <2>2, KnownOrders DEF RealInv, AdoptIsReal
<1>2. CASE ScanOrphans
  <2>1. CASE Live = {}
    BY <1>1, <1>2, <2>1 DEF ScanOrphans, startupVars
  <2>2. CASE Live # {}
    <3>1. PICK latest \in Live :
            adopt' = [link |-> latest, price |-> price[latest], bar |-> Suffix(latest)]
      BY <1>2, <2>2 DEF ScanOrphans
    <3> QED BY <1>2, <3>1 DEF ScanOrphans, exchangeVars, Live
  <2> QED BY <2>1, <2>2
<1>3. CASE CancelStale
  BY <1>1, <1>3 DEF CancelStale
<1> QED BY Moves, <1>1, <1>2, <1>3 DEF StartupMove, startupVars

(* BotState never tracks an order the exchange has not accepted, and knows *)
(* the prices at which the tracked order waits, amendments lost aside.     *)
THEOREM TrackedIsRealCorrect == Spec => []TrackedIsReal
<1>1. Init => TypeInv /\ RealInv
  BY TypeInit, RealInit
<1>2. ASSUME UNCHANGED vars, RealInv PROVE RealInv'
  BY <1>2 DEF RealInv, TrackedIsReal, AdoptIsReal, Live, vars, exchangeVars, stateVars,
     startupVars, history
<1>3. TypeInv /\ RealInv /\ [Next]_vars => TypeInv' /\ RealInv'
  BY <1>2, TypeStep, TrackedStep, AdoptStep DEF RealInv
<1>4. RealInv => TrackedIsReal
  BY DEF RealInv
<1> QED BY <1>1, <1>3, <1>4, PTL DEF Spec

---------------------------------------------------------------------------
(* The duplicate-candle guard compares with the last candle only, so it    *)
(* rests on the clock: a loop wakes for a candle later than the one it has *)
(* marked, and the exchange is at most one candle late.                    *)

(* The calls of a cycle after its peek.                                    *)
PastPeek == CallSites \ {"peek"}

CandleInv ==
  /\ due => pc = "sleep"
  /\ lastCandle <= now /\ handled <= now
  /\ cycle.peeked <= now /\ cycle.frame <= now
  /\ pc \in PastPeek /\ cycle.peeked # 0 => cycle.peeked > lastCandle
  /\ pc \notin {"sleep", "stopped"} \/ due => lastCandle < now /\ handled < now

LEMMA CandleInit == Init => CandleInv
BY DEF Init, CandleInv, NoCycle, PastPeek, CallSites

(* What a step other than a peek, a fetch, a wake-up or a tick does to the *)
(* guard and to the history of completed cycles.                           *)
Forgets ==
  /\ pc' = "down" /\ lastCandle' = 0 /\ handled' = 0 /\ cycle' = NoCycle /\ ~due'
  /\ UNCHANGED now
Marks ==
  /\ pc \in PastPeek /\ pc' \in {"sleep", "stopped"}
  /\ lastCandle' \in {lastCandle, cycle.peeked} /\ handled' \in {handled, cycle.frame}
  /\ cycle' = NoCycle
  /\ UNCHANGED <<now, due>>
GoesOn ==
  /\ UNCHANGED <<now, due, lastCandle, handled>>
  /\ cycle'.peeked = cycle.peeked /\ cycle'.frame = cycle.frame
  /\ \/ pc' = pc
     \/ pc \in PastPeek \ {"fetch"} /\ pc' \in PastPeek
     \/ pc \in {"down", "startup", "cleanup"}
        /\ pc' \in {"startup", "cleanup", "peek", "stopped"}

LEMMA CandleMoves ==
  ASSUME TypeInv, Next
  PROVE  Peek \/ Fetch \/ Wake \/ Tick \/ Forgets \/ Marks \/ GoesOn
<1> USE DEF PastPeek, CallSites, stateVars, history
<1>1. CASE StartupFails \/ Crash
  BY <1>1 DEF StartupFails, Crash, Forgotten, Forgets
<1>2. CASE Start \/ ScanOrphans \/ CancelStale \/ Adopt
  BY <1>2 DEF Start, ScanOrphans, CancelStale, Adopt, EnterLoop, GoesOn
<1>3. CASE CheckPosition
  <2>1. cycle'.peeked = cycle.peeked /\ cycle'.frame = cycle.frame
    BY <1>3 DEF CheckPosition, TypeInv, TypeOK, CycleTypeOK
  <2> QED BY <1>3, <2>1 DEF CheckPosition, GoesOn
<1>4. CASE ReadFails \/ Reconcile
  BY <1>4 DEF ReadFails, Reconcile, CycleError, Leave, Marks, GoesOn
<1>5. CASE Sync
  BY <1>5 DEF Sync, SyncPositionOpen, SyncNoSignal, SyncExpired, SyncSkip, SyncCreate,
     SyncKeep, SyncFlip, SyncAmend, SyncEnds, SyncTo, Syncing, EndCycle, Leave, Marks, GoesOn
<1>6. CASE CreateAccepted \/ CreateRefused \/ CreateLost \/ AmendAccepted \/ AmendFailed
  BY <1>6 DEF CreateAccepted, CreateRefused, CreateLost, AmendAccepted, AmendFailed,
     EndCycle, Leave, Marks, GoesOn
<1>7. CASE CancelReturns \/ CancelRaises
  BY <1>7 DEF CancelReturns, CancelRaises, CancelSites, EndCycle, CycleError, Leave, Marks,
     GoesOn
<1>8. CASE Stop \/ Market \/ EntryFills
  BY <1>8 DEF Stop, Market, EntryFills, GoesOn
<1> QED BY <1>1, <1>2, <1>3, <1>4, <1>5, <1>6, <1>7, <1>8 DEF Next, BotStep

LEMMA CandleStep ==
  ASSUME TypeInv, CandleInv, Lag <= 1, [Next]_vars
  PROVE  CandleInv'
<1> USE DEF CandleInv, PastPeek, CallSites
<1>1. /\ now \in Nat \ {0} /\ lastCandle \in Nat /\ handled \in Nat
      /\ cycle.peeked \in Nat /\ cycle.frame \in Nat
      /\ Lag \in Nat /\ MaxBar \in Nat
  BY ClockAssumption DEF TypeInv, TypeOK, ProcessTypeOK, CycleTypeOK, StateTypeOK,
     HistoryTypeOK, Bars
<1>2. CASE Peek
  <2>1. PICK c \in Published \cup {0} :
          IF c # 0 /\ c = lastCandle
          THEN Leave /\ UNCHANGED cycle
          ELSE pc' = "fetch" /\ cycle' = [cycle EXCEPT !.peeked = c]
    BY <1>2 DEF Peek
  <2>2. pc = "peek" /\ UNCHANGED <<now, due, lastCandle, handled>>
    BY <1>2 DEF Peek, stateVars, history
  <2>3. c \in Nat /\ c <= now /\ (c # 0 => lastCandle <= c)
    BY <1>1, <2>1, <2>2 DEF Published, Bars
  <2>4. CASE c # 0 /\ c = lastCandle
    BY <2>1, <2>2, <2>4 DEF Leave
  <2>5. CASE ~(c # 0 /\ c = lastCandle)
    <3>1. pc' = "fetch" /\ cycle'.peeked = c /\ cycle'.frame = cycle.frame
      BY <2>1, <2>5 DEF TypeInv, TypeOK, CycleTypeOK
    <3> QED BY <1>1, <2>2, <2>3, <2>5, <3>1
  <2> QED BY <2>4, <2>5
<1>3. CASE Tick
  <2>1. pc' = pc /\ (due' => pc = "sleep")
    BY <1>3 DEF Tick
  <2>2. CASE now < MaxBar
    <3>1. now' = now + 1 /\ handled' = Recent /\ UNCHANGED <<cycle, lastCandle>>
      BY <1>3, <2>2 DEF Tick
    <3>2. /\ now' \in Nat /\ lastCandle' \in Nat /\ handled' \in Nat
          /\ lastCandle' < now' /\ handled' < now'
          /\ cycle'.peeked <= now' /\ cycle'.frame <= now'
      BY <1>1, <3>1 DEF Recent
    <3>3. pc' \in PastPeek /\ cycle'.peeked # 0 => cycle'.peeked > lastCandle'
      BY <2>1, <3>1
    <3> QED BY <1>1, <2>1, <3>1, <3>2, <3>3
  <2>3. CASE ~(now < MaxBar)
    <3>1. /\ UNCHANGED now /\ lastCandle' = Older(lastCandle)
          /\ handled' = Older(Recent)
          /\ cycle'.peeked = Older(cycle.peeked) /\ cycle'.frame = Older(cycle.frame)
      BY <1>3, <2>3 DEF Tick, TypeInv, TypeOK, CycleTypeOK
    <3>2. /\ now' \in Nat /\ lastCandle' \in Nat /\ handled' \in Nat
          /\ lastCandle' < now' /\ handled' < now'
          /\ cycle'.peeked <= now' /\ cycle'.frame <= now'
      BY <1>1, <3>1 DEF Older, Recent
    <3>3. pc' \in PastPeek /\ cycle'.peeked # 0 => cycle'.peeked > lastCandle'
      BY <1>1, <2>1, <3>1 DEF Older
    <3> QED BY <2>1, <3>2, <3>3
  <2> QED BY <2>2, <2>3
<1>4. CASE Wake
  BY <1>4 DEF Wake, EnterLoop, stateVars, history
<1>5. CASE Forgets
  BY <1>1, <1>5 DEF Forgets, NoCycle
<1>6. CASE Marks
  BY <1>1, <1>6 DEF Marks, NoCycle
<1>7. CASE GoesOn
  BY <1>7 DEF GoesOn
<1>8. CASE UNCHANGED vars
  BY <1>8 DEF vars, stateVars, history
<1>9. CASE Fetch
  <2>1. /\ pc = "fetch" /\ pc' \in {"reconcile", "position"}
        /\ UNCHANGED <<now, due, lastCandle, handled>>
    BY <1>9 DEF Fetch, stateVars, history
  <2>2. cycle'.peeked = cycle.peeked /\ cycle'.frame \in Published
    BY <1>9 DEF Fetch, TypeInv, TypeOK, CycleTypeOK
  <2>3. cycle'.frame <= now'
    BY <2>1, <2>2 DEF Published
  <2> QED BY <2>1, <2>2, <2>3
<1> QED BY <1>2, <1>3, <1>4, <1>5, <1>6, <1>7, <1>8, <1>9, CandleMoves

(* What the duplicate guard gives, as long as the exchange is at most one  *)
(* candle late: no cycle goes back in time, and none repeats a candle that *)
(* an earlier one both ran on and marked, unless its own peek failed.      *)
THEOREM CandleOnceCorrect ==
  ASSUME Lag <= 1
  PROVE  Spec => CandleOnce
<1>1. Init => TypeInv /\ CandleInv
  BY TypeInit, CandleInit
<1>2. TypeInv /\ CandleInv /\ [Next]_vars => TypeInv' /\ CandleInv'
  BY Lag <= 1, TypeStep, CandleStep
<1> DEFINE Once ==
      pc = "fetch" /\ pc' \in {"reconcile", "position"}
        => \/ cycle'.frame > handled
           \/ /\ cycle'.frame = handled
              /\ cycle.peeked = 0 \/ lastCandle < handled
<1>3. TypeInv /\ CandleInv /\ [Next]_vars => [Once]_vars
  <2> SUFFICES ASSUME TypeInv, CandleInv, Next, pc = "fetch",
                      pc' \in {"reconcile", "position"}
               PROVE  Once
    OBVIOUS
  <2>1. Fetch
    BY CandleMoves DEF Peek, Wake, Tick, Forgets, Marks, GoesOn
  <2>2. cycle'.frame \in Published /\ cycle'.frame >= cycle.peeked
    BY <2>1 DEF Fetch, TypeInv, TypeOK, CycleTypeOK
  <2>3. /\ now \in Nat /\ lastCandle \in Nat /\ handled \in Nat /\ Lag \in Nat
        /\ cycle.peeked \in Nat /\ cycle'.frame \in Nat
    BY <2>2, ClockAssumption DEF TypeInv, TypeOK, ProcessTypeOK, CycleTypeOK,
       StateTypeOK, HistoryTypeOK, Bars, Published
  <2>4. handled < now /\ (cycle.peeked # 0 => cycle.peeked > lastCandle)
    BY DEF CandleInv, PastPeek, CallSites
  <2>5. cycle'.frame >= handled
    BY <2>2, <2>3, <2>4, Lag <= 1 DEF Published
  <2> QED BY <2>2, <2>3, <2>4, <2>5
<1> QED BY <1>1, <1>2, <1>3, PTL DEF Spec, CandleOnce
===========================================================================
