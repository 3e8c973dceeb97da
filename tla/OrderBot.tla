----------------------------- MODULE OrderBot -----------------------------
(***************************************************************************)
(* One symbol's trading bot: the loop of TradingService or                 *)
(* OBTradingService, the OrderManager that turns the newest signal into    *)
(* one conditional order, the OrderReconciler that compares the tracked    *)
(* order with the exchange, and the BotState they share.                   *)
(*                                                                         *)
(* Every await on the exchange is one step: the exchange serves the call,  *)
(* the answer comes back (or does not) and the code runs on to its next    *)
(* await.  The market, the clock, an operator's stop and a crash may come  *)
(* between any two steps.                                                  *)
(***************************************************************************)
EXTENDS PerpExchange

CONSTANTS
  Expiry,            \* expiry_bars: age at which a signal is too old
  MaxBar,            \* horizon: bars are numbered 1..MaxBar
  Lag,               \* bound: how many bars a kline answer may be behind
  MaxRuns,           \* bound: how often the process is started
  CancelOnNoSignal,  \* TRUE: OBTradingService; FALSE: TradingService
  AnswerLoss         \* may the answer to an accepted placement be lost?

(* Signals are too old before the horizon, so numbering the bars anew      *)
(* there (Tick) does not change any age that matters.                      *)
ASSUME ClockAssumption ==
  /\ Expiry \in Nat \ {0}
  /\ MaxBar \in Nat \ {0}
  /\ Lag \in Nat
  /\ MaxRuns \in Nat
  /\ \A b \in SignalBars : b + Expiry + Lag <= MaxBar

ASSUME SwitchAssumption ==
  /\ CancelOnNoSignal \in BOOLEAN
  /\ AnswerLoss \in BOOLEAN

VARIABLES
  pc,          \* where the process is: the exchange call it makes next
  stopping,    \* stop() was called
  runs,        \* how often the process was started
  now,         \* the last closed candle
  due,         \* a candle closed since the loop went to sleep
  cycle,       \* local variables of the running cycle
  lastCandle,  \* BotState.last_processed_candle, 0 for None
  pending,     \* BotState.pending
  fills,       \* BotState._ob_fill_counts
  adopt,       \* startup: the orphan to adopt
  stale,       \* startup: the orphans still to cancel
  lost,        \* history: a placement of this or an earlier run, not yet
               \*   recovered from, was accepted but its answer was lost
  amendLost,   \* history: so was an amendment of the tracked order
  raced,       \* history: an entry filled since the cycle's position check
  handled      \* history: the last candle of the frame on which the last
               \*   completed cycle of this process ran; 0 for none, and
               \*   once no kline answer ends with that candle any more

stateVars == <<lastCandle, pending, fills>>
startupVars == <<adopt, stale>>
history == <<lost, amendLost, raced, handled>>
vars == <<exchangeVars, pc, stopping, runs, now, due, cycle, stateVars,
          startupVars, history>>

---------------------------------------------------------------------------
(* Data.                                                                   *)

Bars == 1..MaxBar

Signals == [side : Sides, bar : SignalBars, price : Prices]

(* The number _raw_order_to_pending and the startup sort read from a link  *)
(* id: what follows its last dash, be it the bar or the attempt.           *)
Suffix(l) == IF l.attempt = 0 THEN l.bar ELSE l.attempt

(* The bars under which a fill may be counted.                             *)
KeyBars == SignalBars \cup 1..MaxAttempt

PendingOrders == [link : Links, price : Prices, bar : KeyBars]

ASSUME SentinelAssumption == None \notin Signals \cup PendingOrders

NoCycle == [peeked |-> 0, frame |-> 0, signal |-> None, hasPosition |-> FALSE]

NoFills == [k \in Sides \X KeyBars |-> 0]

CallSites == {"peek", "fetch", "reconcile", "position", "invalidate",
              "sync", "expire", "flip", "recreate", "create", "amend"}
InLoop == pc \in CallSites \cup {"sleep"}
Running == InLoop \/ pc \in {"startup", "cleanup"}

Signal == cycle.signal

(* Fault: one bar too long.                                                *)
FaultValidAtExpiry == Signal # None /\ cycle.frame <= Signal.bar + Expiry

(* The signal is younger than expiry_bars on the fetched frame.            *)
IsValid == Signal # None /\ cycle.frame < Signal.bar + Expiry

(* make_order_link_id: one link per signal bar, side and counted fill.     *)
LinkFor(s) == [side |-> s.side, bar |-> s.bar, attempt |-> fills[<<s.side, s.bar>>]]

Tracked == IF pending = None THEN {} ELSE {pending.link}

(* Volatile state of a process that has just been started, or is gone.     *)
Forgotten ==
  /\ cycle' = NoCycle
  /\ lastCandle' = 0
  /\ pending' = None
  /\ fills' = NoFills
  /\ adopt' = None
  /\ stale' = {}
  /\ amendLost' = FALSE
  /\ raced' = FALSE
  /\ handled' = 0
  /\ due' = FALSE
  /\ UNCHANGED <<runs, now, lost>>

Init ==
  /\ ExchangeInit
  /\ pc = "down" /\ stopping = FALSE /\ runs = 0
  /\ now = 1 /\ due = FALSE
  /\ cycle = NoCycle
  /\ lastCandle = 0
  /\ pending = None
  /\ fills = NoFills
  /\ adopt = None /\ stale = {}
  /\ lost = FALSE /\ amendLost = FALSE /\ raced = FALSE
  /\ handled = 0

---------------------------------------------------------------------------
(* Startup: TradingService.run and _initialize.                            *)

Start ==
  /\ pc = "down"
  /\ runs < MaxRuns
  /\ pc' = "startup"
  /\ stopping' = FALSE
  /\ runs' = runs + 1
  /\ UNCHANGED <<exchangeVars, now, due, cycle, stateVars, startupVars, history>>

(* A call of _initialize raises: run() ends and the process with it.       *)
StartupFails ==
  /\ pc \in {"startup", "cleanup"}
  /\ pc' = "down"
  /\ Forgotten
  /\ UNCHANGED <<exchangeVars, stopping>>

(* The loop is entered unless stop() came first.                           *)
EnterLoop == pc' = IF stopping THEN "stopped" ELSE "peek"

(* Fault: the older orphans are left alone.                                *)
FaultScanKeepsStale ==
  /\ pc = "startup"
  /\ IF Live = {}
     THEN EnterLoop /\ lost' = FALSE /\ UNCHANGED startupVars
     ELSE \E latest \in Live :
          /\ \A l \in Live : Suffix(l) <= Suffix(latest)
          /\ adopt' = [link |-> latest, price |-> price[latest],
                       bar |-> Suffix(latest)]
          /\ stale' = {}
          /\ pc' = "cleanup"
          /\ UNCHANGED lost
  /\ UNCHANGED <<exchangeVars, stopping, runs, now, due, cycle, stateVars,
                 amendLost, raced, handled>>

(* The newest by suffix is kept, the others are to be cancelled.  The      *)
(* adopted order's signal bar, too, is read from its suffix.               *)
ScanOrphans ==
  /\ pc = "startup"
  /\ IF Live = {}
     THEN /\ EnterLoop
          /\ lost' = FALSE
          /\ UNCHANGED startupVars
     ELSE \E latest \in Live :
          /\ \A l \in Live : Suffix(l) <= Suffix(latest)
          /\ adopt' = [link |-> latest, price |-> price[latest],
                       bar |-> Suffix(latest)]
          /\ stale' = Live \ {latest}
          /\ pc' = "cleanup"
          /\ UNCHANGED lost
  /\ UNCHANGED <<exchangeVars, stopping, runs, now, due, cycle, stateVars,
                 amendLost, raced, handled>>

(* cancel_order ignores an order that is gone.                             *)
CancelStale ==
  /\ pc = "cleanup"
  /\ \E l \in stale :
     /\ \A k \in stale : Suffix(k) <= Suffix(l)
     /\ IF l \in Working THEN Cancel(l) ELSE UNCHANGED exchangeVars
     /\ stale' = stale \ {l}
  /\ UNCHANGED <<pc, stopping, runs, now, due, cycle, stateVars, adopt, history>>

(* Fault: set_pending is missing; the orphan is found and left untracked.  *)
FaultAdoptNothing ==
  /\ pc = "cleanup"
  /\ stale = {}
  /\ adopt' = None
  /\ EnterLoop
  /\ lost' = FALSE
  /\ UNCHANGED <<exchangeVars, stopping, runs, now, due, cycle, lastCandle,
                 pending, fills, stale, amendLost, raced, handled>>

(* The row read at the scan is adopted, whatever has happened to it since. *)
Adopt ==
  /\ pc = "cleanup"
  /\ stale = {}
  /\ pending' = adopt
  /\ adopt' = None
  /\ EnterLoop
  /\ lost' = FALSE
  /\ UNCHANGED <<exchangeVars, stopping, runs, now, due, cycle, lastCandle,
                 fills, stale, amendLost, raced, handled>>

---------------------------------------------------------------------------
(* The loop.                                                               *)

Leave == pc' = IF stopping THEN "stopped" ELSE "sleep"

(* The cycle returned: its candle is marked, unless the peek had failed.   *)
EndCycle ==
  /\ Leave
  /\ lastCandle' = IF cycle.peeked # 0 THEN cycle.peeked ELSE lastCandle
  /\ handled' = cycle.frame
  /\ cycle' = NoCycle
  /\ raced' = FALSE
  /\ UNCHANGED <<stopping, runs, now, due, startupVars>>

(* The cycle raised: the loop logs it and does not mark the candle.        *)
CycleError ==
  /\ Leave
  /\ cycle' = NoCycle
  /\ raced' = FALSE
  /\ UNCHANGED <<stopping, runs, now, due, lastCandle, fills, startupVars, lost,
                 handled>>

(* Fault: the forming candle is taken for a closed one.                    *)
FaultFormingCandle == {c \in 1..MaxBar + 1 : c <= now + 1 /\ now < c + Lag}

(* Candles a kline answer may end with: the exchange may publish late.     *)
Published == {c \in Bars : c <= now /\ now <= c + Lag}

(* Fault: no duplicate guard.                                              *)
FaultPeekUnguarded ==
  /\ pc = "peek"
  /\ \E c \in Published \cup {0} : cycle' = [cycle EXCEPT !.peeked = c]
  /\ pc' = "fetch"
  /\ UNCHANGED <<exchangeVars, stopping, runs, now, due, stateVars, startupVars,
                 history>>

(* peek_latest_candle_time and the duplicate guard.  A failed peek answers *)
(* None (0 here) and is never a duplicate.                                 *)
Peek ==
  /\ pc = "peek"
  /\ \E c \in Published \cup {0} :
     IF c # 0 /\ c = lastCandle
     THEN Leave /\ UNCHANGED cycle
     ELSE pc' = "fetch" /\ cycle' = [cycle EXCEPT !.peeked = c]
  /\ UNCHANGED <<exchangeVars, stopping, runs, now, due, stateVars, startupVars,
                 history>>

(* Frames are fetched and the strategy run on them: the last row it gives, *)
(* if any, is a setup on some bar of the frame.                            *)
Fetch ==
  /\ pc = "fetch"
  /\ \E f \in Published, s \in Signals \cup {None} :
     /\ f >= cycle.peeked
     /\ s # None => s.bar <= f
     /\ cycle' = [cycle EXCEPT !.frame = f, !.signal = s]
  /\ pc' = IF pending = None THEN "position" ELSE "reconcile"
  /\ UNCHANGED <<exchangeVars, stopping, runs, now, due, stateVars, startupVars,
                 history>>

(* A call that only reads, or that fails before the exchange acts, raises. *)
ReadFails ==
  /\ pc \in {"fetch", "reconcile", "position"}
  /\ CycleError
  /\ UNCHANGED <<exchangeVars, pending, amendLost>>

(* mark_ob_filled; the count is capped at the last one that matters.       *)
CountFill(p) ==
  [fills EXCEPT ![<<p.link.side, p.bar>>] = IF @ > MaxAttempt THEN @ ELSE @ + 1]

(* Fault: an order that is no longer listed is kept.                       *)
FaultReconcileKeepsMissing ==
  /\ pc = "reconcile"
  /\ \E answer \in QueryAnswers(pending.link) :
     IF answer \in {"filled", "cancelled"}
     THEN /\ pending' = None
          /\ fills' = IF answer = "filled" THEN CountFill(pending) ELSE fills
          /\ amendLost' = FALSE
     ELSE UNCHANGED <<pending, fills, amendLost>>
  /\ pc' = "position"
  /\ UNCHANGED <<exchangeVars, stopping, runs, now, due, cycle, lastCandle,
                 startupVars, lost, raced, handled>>

(* reconcile_cycle.  Only an order listed as filled is counted as a fill.  *)
Reconcile ==
  /\ pc = "reconcile"
  /\ \E answer \in QueryAnswers(pending.link) :
     IF answer \in {None, "filled", "cancelled"}
     THEN /\ pending' = None
          /\ fills' = IF answer = "filled" THEN CountFill(pending) ELSE fills
          /\ amendLost' = FALSE
     ELSE UNCHANGED <<pending, fills, amendLost>>
  /\ pc' = "position"
  /\ UNCHANGED <<exchangeVars, stopping, runs, now, due, cycle, lastCandle,
                 startupVars, lost, raced, handled>>

(* get_balance and has_open_position; then OBTradingService cancels when   *)
(* the strategy gave nothing, whether or not a position is open.           *)
CheckPosition ==
  /\ pc = "position"
  /\ cycle' = [cycle EXCEPT !.hasPosition = (position # None)]
  /\ raced' = FALSE
  /\ pc' = IF CancelOnNoSignal /\ Signal = None /\ pending # None
           THEN "invalidate" ELSE "sync"
  /\ UNCHANGED <<exchangeVars, stopping, runs, now, due, stateVars, startupVars,
                 lost, amendLost, handled>>

---------------------------------------------------------------------------
(* sync_pending_orders: which call to make, if any.                        *)

SyncTo(site) ==
  /\ pc' = site
  /\ UNCHANGED <<exchangeVars, stopping, runs, now, due, cycle, stateVars,
                 startupVars, history>>

SyncEnds ==
  /\ EndCycle
  /\ UNCHANGED <<exchangeVars, pending, fills, lost, amendLost>>

(* Fault: the position guard is dropped.                                   *)
FaultNoPositionGuard == pc = "sync"

Syncing == pc = "sync" /\ ~cycle.hasPosition

SyncPositionOpen == pc = "sync" /\ cycle.hasPosition /\ SyncEnds

SyncNoSignal == Syncing /\ Signal = None /\ SyncEnds

SyncExpired ==
  /\ Syncing /\ Signal # None /\ ~IsValid
  /\ IF pending = None THEN SyncEnds ELSE SyncTo("expire")

(* No free margin, no quantity, a target collapsed by the tick grid or a   *)
(* failed margin check.                                                    *)
SyncSkip == Syncing /\ IsValid /\ SyncEnds

SyncCreate == Syncing /\ IsValid /\ pending = None /\ SyncTo("create")

SyncKeep ==
  /\ Syncing /\ IsValid /\ pending # None
  /\ pending.link.side = Signal.side /\ pending.price = Signal.price
  /\ SyncEnds

SyncFlip ==
  /\ Syncing /\ IsValid /\ pending # None
  /\ pending.link.side # Signal.side
  /\ SyncTo("flip")

SyncAmend ==
  /\ Syncing /\ IsValid /\ pending # None
  /\ pending.link.side = Signal.side /\ pending.price # Signal.price
  /\ SyncTo("amend")

Sync == \/ SyncPositionOpen \/ SyncNoSignal \/ SyncExpired \/ SyncSkip
        \/ SyncCreate \/ SyncKeep \/ SyncFlip \/ SyncAmend

---------------------------------------------------------------------------
(* The calls of OrderManager that change something on the exchange.        *)

(* create_pending_order, the order accepted and the answer received.       *)
CreateAccepted ==
  /\ pc = "create"
  /\ LinkFor(Signal) \in Links
  /\ Accept(LinkFor(Signal), Signal.price)
  /\ pending' = [link |-> LinkFor(Signal), price |-> Signal.price,
                 bar |-> Signal.bar]
  /\ EndCycle
  /\ UNCHANGED <<fills, lost, amendLost>>

(* Fault: the order is tracked although the exchange refused it.           *)
FaultRefusedIsTracked ==
  /\ pc = "create"
  /\ LinkFor(Signal) \in Links
  /\ pending' = [link |-> LinkFor(Signal), price |-> Signal.price,
                 bar |-> Signal.bar]
  /\ EndCycle
  /\ UNCHANGED <<exchangeVars, fills, lost, amendLost>>

(* Invalid geometry or quantity, or the exchange refuses: returns None.    *)
CreateRefused ==
  /\ pc = "create"
  /\ EndCycle
  /\ UNCHANGED <<exchangeVars, pending, fills, lost, amendLost>>

(* The order is accepted but the answer does not come back: the retry of   *)
(* BybitClient._call is refused as a duplicate, or the retries run out.    *)
(* Either way an ExchangeError, and create_pending_order returns None.     *)
CreateLost ==
  /\ pc = "create"
  /\ AnswerLoss
  /\ LinkFor(Signal) \in Links
  /\ Accept(LinkFor(Signal), Signal.price)
  /\ EndCycle
  /\ lost' = TRUE
  /\ UNCHANGED <<pending, fills, amendLost>>

AmendAccepted ==
  /\ pc = "amend"
  /\ AmendPrice(pending.link, Signal.price)
  /\ pending' = [pending EXCEPT !.price = Signal.price]
  /\ EndCycle
  /\ amendLost' = FALSE
  /\ UNCHANGED <<fills, lost>>

(* modify_pending_order returns False and the order is to be recreated;    *)
(* the exchange may have amended it all the same.                          *)
AmendFailed ==
  /\ pc = "amend"
  /\ \/ UNCHANGED <<exchangeVars, amendLost>>
     \/ AmendPrice(pending.link, Signal.price) /\ amendLost' = TRUE
  /\ pc' = "recreate"
  /\ UNCHANGED <<stopping, runs, now, due, cycle, stateVars, startupVars, lost,
                 raced, handled>>

CancelSites == {"invalidate", "expire", "flip", "recreate"}

(* cancel_pending_order: cancelled, or silently not found, then forgotten. *)
CancelReturns ==
  /\ pc \in CancelSites
  /\ IF pending.link \in Working THEN Cancel(pending.link)
     ELSE UNCHANGED exchangeVars
  /\ pending' = None
  /\ amendLost' = FALSE
  /\ CASE pc = "expire" -> EndCycle
       [] pc = "invalidate" -> pc' = "sync" /\ UNCHANGED
            <<stopping, runs, now, due, cycle, lastCandle, startupVars, raced,
              handled>>
       [] OTHER -> pc' = "create" /\ UNCHANGED
            <<stopping, runs, now, due, cycle, lastCandle, startupVars, raced,
              handled>>
  /\ UNCHANGED <<fills, lost>>

(* Fault: clear_pending is reached although the cancel raised.             *)
FaultCancelForgets ==
  /\ pc \in CancelSites
  /\ \/ pending.link \in Working /\ Cancel(pending.link)
     \/ UNCHANGED exchangeVars
  /\ pending' = None /\ amendLost' = FALSE
  /\ CycleError

(* cancel_order raises, the order cancelled or not: clear_pending is not   *)
(* reached and the exception ends the cycle.                               *)
CancelRaises ==
  /\ pc \in CancelSites
  /\ \/ pending.link \in Working /\ Cancel(pending.link)
     \/ UNCHANGED exchangeVars
  /\ CycleError
  /\ UNCHANGED <<pending, amendLost>>

---------------------------------------------------------------------------
(* The surroundings: clock, operator, crash and market.                    *)

(* A candle closes.  At the horizon the candles are numbered anew.         *)
Older(c) == IF c = 0 THEN 0 ELSE c - 1

(* handled, as long as klines may end with it after the next tick.         *)
Recent == IF now < handled + Lag THEN handled ELSE 0

Tick ==
  /\ due' = (pc = "sleep")
  /\ IF now < MaxBar
     THEN /\ now' = now + 1
          /\ handled' = Recent
          /\ UNCHANGED <<cycle, lastCandle>>
     ELSE /\ UNCHANGED now
          /\ handled' = Older(Recent)
          /\ lastCandle' = Older(lastCandle)
          /\ cycle' = [cycle EXCEPT !.peeked = Older(@), !.frame = Older(@)]
  /\ UNCHANGED <<exchangeVars, pc, stopping, runs, pending, fills, startupVars,
                 lost, amendLost, raced>>

(* Fault: the sleep is not interrupted by the shutdown event.              *)
FaultDeafSleep ==
  /\ pc = "sleep"
  /\ due
  /\ EnterLoop
  /\ due' = FALSE
  /\ UNCHANGED <<exchangeVars, stopping, runs, now, cycle, stateVars,
                 startupVars, history>>

(* _sleep_until_next_candle: the boundary is reached, or stop() was called *)
Wake ==
  /\ pc = "sleep"
  /\ due \/ stopping
  /\ EnterLoop
  /\ due' = FALSE
  /\ UNCHANGED <<exchangeVars, stopping, runs, now, cycle, stateVars,
                 startupVars, history>>

Stop ==
  /\ Running /\ ~stopping
  /\ stopping' = TRUE
  /\ UNCHANGED <<exchangeVars, pc, runs, now, due, cycle, stateVars,
                 startupVars, history>>

(* The process is killed, or exits after run() returned; nothing of        *)
(* BotState is persisted.                                                  *)
Crash ==
  /\ Running \/ pc = "stopped"
  /\ pc' = "down"
  /\ Forgotten
  /\ UNCHANGED <<exchangeVars, stopping>>

Market ==
  /\ \/ \E l \in Links : Trigger(l) \/ OutsideCancel(l)
     \/ ClosePosition
  /\ UNCHANGED <<pc, stopping, runs, now, due, cycle, stateVars, startupVars,
                 history>>

(* The steps of a cycle that act on what its position check saw.           *)
AfterCheck == {"invalidate", "sync", "expire", "flip", "recreate", "create",
               "amend"}

EntryFills ==
  /\ \E l \in Links : Fill(l)
  /\ raced' = (raced \/ pc \in AfterCheck)
  /\ UNCHANGED <<pc, stopping, runs, now, due, cycle, stateVars, startupVars,
                 lost, amendLost, handled>>

BotStep ==
  \/ StartupFails \/ ScanOrphans \/ CancelStale \/ Adopt
  \/ Peek \/ Fetch \/ ReadFails \/ Reconcile \/ CheckPosition \/ Sync
  \/ CreateAccepted \/ CreateRefused \/ CreateLost
  \/ AmendAccepted \/ AmendFailed \/ CancelReturns \/ CancelRaises
  \/ Wake

Next ==
  \/ BotStep
  \/ Start \/ Stop \/ Crash
  \/ Tick \/ Market \/ EntryFills

Spec == Init /\ [][Next]_vars

(* asyncio keeps running the loop: the process never just stands still.    *)
RunSpec == Spec /\ WF_vars(BotStep)

(* Candles keep closing, and the two calls that must answer before a cycle *)
(* can notice anything do not fail forever.                                *)
CallsAnswer == WF_vars(Tick) /\ SF_vars(Fetch) /\ SF_vars(Reconcile)

---------------------------------------------------------------------------
(* Properties.                                                             *)

ProcessTypeOK ==
  /\ pc \in CallSites \cup {"down", "startup", "cleanup", "sleep", "stopped"}
  /\ stopping \in BOOLEAN
  /\ runs \in 0..MaxRuns
  /\ now \in Bars
  /\ due \in BOOLEAN

CycleTypeOK ==
  cycle \in [peeked : 0..MaxBar, frame : 0..MaxBar,
             signal : Signals \cup {None}, hasPosition : BOOLEAN]

StateTypeOK ==
  /\ lastCandle \in 0..MaxBar
  /\ pending \in PendingOrders \cup {None}
  /\ fills \in [Sides \X KeyBars -> 0..MaxAttempt + 1]

StartupTypeOK ==
  /\ adopt \in PendingOrders \cup {None}
  /\ stale \in SUBSET Links

HistoryTypeOK ==
  /\ lost \in BOOLEAN
  /\ amendLost \in BOOLEAN
  /\ raced \in BOOLEAN
  /\ handled \in 0..MaxBar

(* The values the variables may take; among them, a candle number is never *)
(* beyond the horizon and what is adopted has a bar and prices.            *)
TypeOK ==
  /\ ExchangeTypeOK
  /\ ProcessTypeOK
  /\ CycleTypeOK
  /\ StateTypeOK
  /\ StartupTypeOK
  /\ HistoryTypeOK

(* Unless the answer to a placement was lost and startup has not run since,*)
(* at most one conditional order of the bot works on the exchange, through *)
(* crashes, restarts, side flips and failed amendments.                    *)
SinglePending == ~lost => \A k, l \in Live : k = l

(* Under the same proviso, a running loop tracks every conditional order   *)
(* it has on the exchange: none is left to fill behind its back.           *)
NoStrayOrder == InLoop /\ ~lost => Live \subseteq Tracked

(* The tracked order is one the exchange accepted and, unless an amendment *)
(* was applied without its answer, BotState holds the prices at which it   *)
(* waits for its trigger.                                                  *)
TrackedIsReal ==
  pending # None =>
    /\ status[pending.link] # "unknown"
    /\ pending.link \in Live /\ ~amendLost => pending.price = price[pending.link]

(* An order is sent while a position is open only if the position opened   *)
(* after the cycle's own check: the guard has no other hole.               *)
PositionGuard ==
  [][\A l \in Links : status[l] = "unknown" /\ status'[l] = "live"
       => position = None \/ raced]_vars

(* An order is only sent for a signal still young on the fetched frame,    *)
(* whichever of the three ways leads to create_pending_order.              *)
FreshSignal ==
  [][\A l \in Links : status[l] = "unknown" /\ status'[l] = "live"
       => cycle.frame < l.bar + Expiry]_vars

(* A cycle never gets older candles than one that completed before it in   *)
(* this process, and it gets the same candle again only if one of the two  *)
(* did not mark it: its own peek failed, or the earlier cycle's peek did,  *)
(* or that peek saw an older candle than the fetch that followed it (the   *)
(* guard compares what was peeked, not what was fetched).                  *)
CandleOnce ==
  [][pc = "fetch" /\ pc' \in {"reconcile", "position"}
       => \/ cycle'.frame > handled
          \/ /\ cycle'.frame = handled
             /\ cycle.peeked = 0 \/ lastCandle < handled]_vars

(* When no answer to a placement is lost, the bot and its exchange are one *)
(* PendingSlot: the live order is the slot, across restarts as well.       *)
Slot == INSTANCE PendingSlot WITH
  LinkIds <- Links,
  Empty   <- None,
  slot    <- IF Live = {} THEN None ELSE CHOOSE l \in Live : TRUE,
  used    <- {l \in Links : status[l] # "unknown"}

ImplementsSlot == Slot!Spec

(* stop() ends the process, in a cycle, in a retried call or asleep, even  *)
(* if no further candle closes.                                            *)
ShutdownEnds == stopping ~> pc \in {"stopped", "down"}

(* An order that was filled or cancelled is eventually no longer tracked,  *)
(* as long as candles close and calls answer.                              *)
GoneIsNoticed ==
  CallsAnswer => ((pending # None /\ Tracked \cap Working = {})
                    ~> (pending = None \/ pc = "stopped"))
===========================================================================
