------------------------------ MODULE Scalper ------------------------------
(***************************************************************************)
(* The multi-scalper, src/app/run_multi_scalper_bybit.py: one process that *)
(* visits its symbols one after the other, once per M5 candle, and enters  *)
(* with market orders.  What it has traded and which positions it follows  *)
(* is kept in two files per symbol, so that it survives a restart.         *)
(*                                                                         *)
(* One step is the code from one await to the next.  The execution of an   *)
(* order and the arrival of its answer are two steps.                      *)
(***************************************************************************)
EXTENDS DailyLossGuard

CONSTANTS
  Symbols,     \* the winners that are configured
  Signals,     \* the (bar, direction) pairs a strategy may answer with
  None,        \* Python's None
  Results,     \* profits a closed position may realise
  AnswerLoss,  \* may the answer to an executed order be lost?
  MaxRuns      \* bound: how often the process is started

ASSUME ScalperAssumption ==
  /\ None \notin Symbols \cup Signals
  /\ Results \subseteq Int
  /\ AnswerLoss \in BOOLEAN
  /\ MaxRuns \in Nat

VARIABLES
  open,       \* the exchange: symbols with an open position
  seenFile,   \* _seen_signals/<symbol>.json
  stateFile,  \* _state/<symbol>.json: symbols with an "open_position"
  runs,       \* how often the process was started
  pc,         \* the await the process is at
  contexts,   \* the symbols build_contexts could set up
  todo,       \* those not yet visited in this cycle
  at,         \* the symbol being visited
  sig,        \* its signal
  sawOpen,    \* has_open
  blocked,    \* answer of the loss guard
  seen,       \* SymbolContext.seen
  tracked,    \* symbols whose SymbolContext.state has an "open_position"
  traded,     \* history: signals for which an order was executed
  excused,    \* history: those whose record was lost on the way
  blind       \* history: this visit's position query failed

disk == <<seenFile, stateFile>>
memory == <<seen, tracked>>
visit == <<at, sig, sawOpen, blocked, blind>>
history == <<traded, excused>>
vars == <<guardVars, open, disk, runs, pc, contexts, todo, visit, memory, history>>

Nothing == [s \in Symbols |-> {}]

Init ==
  /\ GuardInit
  /\ open = {} /\ seenFile = Nothing /\ stateFile = {}
  /\ runs = 0 /\ pc = "down"
  /\ contexts = {} /\ todo = {}
  /\ at = None /\ sig = None
  /\ sawOpen = FALSE /\ blocked = FALSE /\ blind = FALSE
  /\ seen = Nothing /\ tracked = {}
  /\ traded = Nothing /\ excused = Nothing

---------------------------------------------------------------------------
(* Start, and the cycle over the symbols.                                  *)

(* build_contexts: a symbol whose instrument info fails is left out.       *)
Start ==
  /\ pc = "down"
  /\ runs < MaxRuns
  /\ \E cs \in SUBSET Symbols \ {{}} : contexts' = cs /\ todo' = cs
  /\ pc' = "pick"
  /\ runs' = runs + 1
  /\ seen' = seenFile
  /\ tracked' = stateFile
  /\ EmptiedCache
  /\ UNCHANGED <<realised, request, breachVars, guessed, open, disk, visit, history>>

(* The portfolio cycle is over; the next one starts at the next candle.    *)
NextCycle ==
  /\ pc = "pick" /\ todo = {}
  /\ todo' = contexts
  /\ UNCHANGED <<guardVars, open, disk, runs, pc, contexts, visit, memory, history>>

SymbolDone ==
  /\ pc' = "pick"
  /\ at' = None /\ sig' = None
  /\ sawOpen' = FALSE /\ blocked' = FALSE /\ blind' = FALSE

(* Klines fail, are too few or too old, or the strategy raises.            *)
FetchSkips(s) ==
  /\ pc = "pick" /\ s \in todo
  /\ todo' = todo \ {s}
  /\ UNCHANGED <<guardVars, open, disk, runs, pc, contexts, visit, memory, history>>

(* As long as its bar is the last one a signal is given again.             *)
FetchGives(s) ==
  /\ pc = "pick" /\ s \in todo
  /\ todo' = todo \ {s}
  /\ at' = s
  /\ sig' \in Signals \cup {None}
  /\ pc' = "positions"
  /\ UNCHANGED <<guardVars, open, disk, runs, contexts, sawOpen, blocked, blind,
                 memory, history>>

---------------------------------------------------------------------------
(* Position close detection.                                               *)

(* ctx.state is changed and saved.                                         *)
Track ==
  /\ tracked' = tracked \cup {at}
  /\ stateFile' = stateFile \cup {at}
  /\ UNCHANGED <<seen, seenFile>>

Untrack ==
  /\ tracked' = tracked \ {at}
  /\ stateFile' = stateFile \ {at}
  /\ UNCHANGED <<seen, seenFile>>

(* Fault: the missing early return without a signal.                       *)
FaultDecideOnNone(o, b) ==
  IF sig \in seen[at]
  THEN SymbolDone
  ELSE /\ pc' = "guard"
       /\ sawOpen' = o /\ blind' = b
       /\ UNCHANGED <<at, sig, blocked>>

(* No signal, or one already dealt with: nothing more to do.  o and b are  *)
(* the values of sawOpen and blind.                                        *)
Decide(o, b) ==
  IF sig = None \/ sig \in seen[at]
  THEN SymbolDone
  ELSE /\ pc' = "guard"
       /\ sawOpen' = o /\ blind' = b
       /\ UNCHANGED <<at, sig, blocked>>

LookUpClose(o, b) ==
  /\ pc' = "closing"
  /\ sawOpen' = o /\ blind' = b
  /\ UNCHANGED <<at, sig, blocked, memory, disk>>

(* Fault: a tracked position is declared closed while it is open.          *)
FaultCloseAlways(o, b) ==
  IF at \in tracked THEN LookUpClose(o, b)
  ELSE IF o THEN Track /\ Decide(o, b)
  ELSE Decide(o, b) /\ UNCHANGED <<memory, disk>>

(* Fault: without a signal the visit ends before closes are looked for.    *)
FaultCloseOnlyWithSignal(o, b) ==
  CASE o /\ at \notin tracked -> Track /\ Decide(o, b)
    [] ~o /\ at \in tracked /\ sig # None -> LookUpClose(o, b)
    [] OTHER -> Decide(o, b) /\ UNCHANGED <<memory, disk>>

(* Fault: a position that is not tracked yet is left alone.                *)
FaultNoAdoption(o, b) ==
  IF ~o /\ at \in tracked THEN LookUpClose(o, b)
  ELSE Decide(o, b) /\ UNCHANGED <<memory, disk>>

(* _reconcile_position_close.                                              *)
Reconcile(o, b) ==
  CASE o /\ at \notin tracked -> Track /\ Decide(o, b)
    [] ~o /\ at \in tracked -> LookUpClose(o, b)
    [] OTHER -> Decide(o, b) /\ UNCHANGED <<memory, disk>>

PositionsAnswer ==
  /\ pc = "positions"
  /\ Reconcile(at \in open, FALSE)
  /\ UNCHANGED <<guardVars, open, runs, contexts, todo, history>>

(* The query raised: the list of positions is taken to be empty.           *)
PositionsFail ==
  /\ pc = "positions"
  /\ Reconcile(FALSE, TRUE)
  /\ UNCHANGED <<guardVars, open, runs, contexts, todo, history>>

(* The profit is looked up, in vain or not, and position_closed is logged. *)
ReportClose ==
  /\ pc = "closing"
  /\ pc' = "notify"
  /\ UNCHANGED <<guardVars, open, disk, runs, contexts, todo, visit, memory, history>>

(* Fault: the state is not saved.                                          *)
FaultForgetUnsaved ==
  /\ pc = "notify"
  /\ tracked' = tracked \ {at}
  /\ Decide(sawOpen, blind)
  /\ UNCHANGED <<guardVars, open, runs, contexts, todo, seen, disk, history>>

(* Telegram is told, then the position is forgotten.                       *)
ForgetPosition ==
  /\ pc = "notify"
  /\ Untrack
  /\ Decide(sawOpen, blind)
  /\ UNCHANGED <<guardVars, open, runs, contexts, todo, history>>

---------------------------------------------------------------------------
(* Entry.                                                                  *)

(* The guard answers at once, or awaits the day's profit.                  *)
AskGuard ==
  /\ pc = "guard"
  /\ \/ AnswerAtOnce(blocked') /\ pc' = "enter"
     \/ RequestPnl /\ pc' = "profit" /\ UNCHANGED blocked
  /\ UNCHANGED <<realised, breachVars, open, disk, runs, contexts, todo, at, sig,
                 sawOpen, blind, memory, history>>

GuardAnswers ==
  /\ pc = "profit"
  /\ PnlArrives(blocked') \/ PnlFails(blocked')
  /\ pc' = "enter"
  /\ UNCHANGED <<realised, breachVars, open, disk, runs, contexts, todo, at, sig,
                 sawOpen, blind, memory, history>>

(* The signal is added to ctx.seen and the set is saved.                   *)
Remember ==
  /\ seen' = [seen EXCEPT ![at] = @ \cup {sig}]
  /\ seenFile' = [seenFile EXCEPT ![at] = seen[at] \cup {sig}]
  /\ UNCHANGED <<tracked, stateFile>>

(* Blocked, a position open, or no quantity: the signal may come again.    *)
NoEntry ==
  /\ pc = "enter"
  /\ SymbolDone
  /\ UNCHANGED <<guardVars, open, disk, runs, contexts, todo, memory, history>>

(* The volatility gate: only when flat, and once and for all.              *)
LowVolatility ==
  /\ pc = "enter" /\ ~blocked /\ ~sawOpen
  /\ Remember
  /\ SymbolDone
  /\ UNCHANGED <<guardVars, open, runs, contexts, todo, history>>

(* Fault: has_open is not looked at.                                       *)
FaultEnterAnyway ==
  /\ pc = "enter" /\ ~blocked
  /\ pc' = "place"
  /\ UNCHANGED <<guardVars, open, disk, runs, contexts, todo, visit, memory, history>>

Enter ==
  /\ pc = "enter" /\ ~blocked /\ ~sawOpen
  /\ pc' = "place"
  /\ UNCHANGED <<guardVars, open, disk, runs, contexts, todo, visit, memory, history>>

OrderRefused ==
  /\ pc = "place"
  /\ SymbolDone
  /\ UNCHANGED <<guardVars, open, disk, runs, contexts, todo, memory, history>>

(* A market order, immediate or cancel: flat, it opens a position unless   *)
(* nobody trades; against an open position it adds, reduces or closes.     *)
OrderExecuted ==
  /\ pc = "place"
  /\ pc' = "answer"
  /\ IF at \in open
     THEN /\ open' \in {open, open \ {at}}
          /\ UNCHANGED guardVars \/ \E r \in Results : Realise(r)
     ELSE open' \in {open, open \cup {at}} /\ UNCHANGED guardVars
  /\ traded' = [traded EXCEPT ![at] = @ \cup {sig}]
  /\ UNCHANGED <<disk, runs, contexts, todo, visit, memory, excused>>

(* Fault: the set of seen signals is not saved.                            *)
FaultAnsweredUnsaved ==
  /\ pc = "answer"
  /\ seen' = [seen EXCEPT ![at] = @ \cup {sig}]
  /\ pc' = "verify"
  /\ UNCHANGED <<guardVars, open, disk, runs, contexts, todo, visit, tracked, history>>

Answered ==
  /\ pc = "answer"
  /\ Remember
  /\ pc' = "verify"
  /\ UNCHANGED <<guardVars, open, runs, contexts, todo, visit, history>>

(* The answer does not arrive: order_failed, and the signal is not seen.   *)
AnswerLost ==
  /\ pc = "answer"
  /\ AnswerLoss
  /\ excused' = [excused EXCEPT ![at] = @ \cup {sig}]
  /\ SymbolDone
  /\ UNCHANGED <<guardVars, open, disk, runs, contexts, todo, memory, traded>>

(* The fill is read back, if the position query succeeds and shows one.    *)
Verify ==
  /\ pc = "verify"
  /\ \/ at \in open /\ Track
     \/ UNCHANGED <<memory, disk>>
  /\ SymbolDone
  /\ UNCHANGED <<guardVars, open, runs, contexts, todo, history>>

---------------------------------------------------------------------------
(* The surroundings.                                                       *)

Forgotten ==
  /\ pc' = "down"
  /\ contexts' = {} /\ todo' = {}
  /\ at' = None /\ sig' = None
  /\ sawOpen' = FALSE /\ blocked' = FALSE /\ blind' = FALSE
  /\ seen' = Nothing /\ tracked' = {}
  /\ request' = NoRequest
  /\ UNCHANGED <<realised, cacheVars, breachVars, guessed, open, runs, traded>>

(* Killed, or cancelled by a signal, at an await.                          *)
Crash ==
  /\ pc # "down"
  /\ excused' = IF pc = "answer" THEN [excused EXCEPT ![at] = @ \cup {sig}]
                ELSE excused
  /\ UNCHANGED disk
  /\ Forgotten

(* Killed while write_text has emptied a file: it will load as empty.      *)
CrashInWrite ==
  /\ \/ /\ pc = "answer" \/ (pc = "enter" /\ ~blocked /\ ~sawOpen)
        /\ seenFile' = [seenFile EXCEPT ![at] = {}]
        /\ excused' = [excused EXCEPT ![at] = traded[at]]
        /\ UNCHANGED stateFile
     \/ /\ pc = "notify"
        /\ stateFile' = stateFile \ {at}
        /\ UNCHANGED <<seenFile, excused>>
  /\ Forgotten

(* Stop loss, take profit or the user.                                     *)
PositionCloses(s) ==
  /\ s \in open
  /\ open' = open \ {s}
  /\ \E r \in Results : Realise(r)
  /\ UNCHANGED <<disk, runs, pc, contexts, todo, visit, memory, history>>

TimePasses ==
  /\ CacheExpires \/ RequestExpires \/ Midnight
  /\ UNCHANGED <<open, disk, runs, pc, contexts, todo, visit, memory, history>>

Step ==
  \/ NextCycle \/ \E s \in Symbols : FetchSkips(s) \/ FetchGives(s)
  \/ PositionsAnswer \/ PositionsFail \/ ReportClose \/ ForgetPosition
  \/ AskGuard \/ GuardAnswers \/ NoEntry \/ LowVolatility \/ Enter
  \/ OrderRefused \/ OrderExecuted \/ Answered \/ AnswerLost \/ Verify

Next ==
  \/ Step
  \/ Start \/ Crash \/ CrashInWrite
  \/ \E s \in Symbols : PositionCloses(s)
  \/ TimePasses

Spec == Init /\ [][Next]_vars

(* The loop goes on, and no symbol's klines or positions fail for ever.    *)
FairSpec ==
  /\ Spec
  /\ WF_vars(Step)
  /\ \A s \in Symbols : SF_vars(FetchGives(s)) /\ SF_vars(at = s /\ PositionsAnswer)

---------------------------------------------------------------------------
(* Properties.                                                             *)

AwaitSites == {"down", "pick", "positions", "closing", "notify", "guard",
               "profit", "enter", "place", "answer", "verify"}
Visiting == pc \notin {"down", "pick"}

ProcessTypeOK ==
  /\ runs \in 0..MaxRuns
  /\ pc \in AwaitSites
  /\ contexts \in SUBSET Symbols /\ todo \in SUBSET contexts

VisitTypeOK ==
  /\ at \in Symbols \cup {None} /\ sig \in Signals \cup {None}
  /\ sawOpen \in BOOLEAN /\ blocked \in BOOLEAN /\ blind \in BOOLEAN
  /\ Visiting => at \in Symbols
  /\ pc \in {"guard", "profit", "enter", "place", "answer", "verify"}
       => sig \in Signals

RecordsTypeOK ==
  /\ seenFile \in [Symbols -> SUBSET Signals] /\ stateFile \in SUBSET Symbols
  /\ seen \in [Symbols -> SUBSET Signals] /\ tracked \in SUBSET Symbols
  /\ traded \in [Symbols -> SUBSET Signals] /\ excused \in [Symbols -> SUBSET Signals]

(* The values the variables may take; a visit has a symbol, and past the   *)
(* close detection it has a signal.                                        *)
TypeOK ==
  /\ GuardTypeOK
  /\ open \in SUBSET Symbols
  /\ ProcessTypeOK /\ VisitTypeOK /\ RecordsTypeOK

(* While the process runs its files say what its memory says: a restart    *)
(* loses nothing that a visit had concluded.                               *)
Durable == pc # "down" => seenFile = seen /\ stateFile = tracked

(* A signal is traded at most once, over any number of cycles and          *)
(* restarts, unless the record of its order was lost: the answer did not   *)
(* arrive, or the process died before or while it was saved.               *)
TradedOnce ==
  [][pc = "place" /\ pc' = "answer" /\ sig \in traded[at]
       => sig \in excused[at]]_vars

(* No order is sent on top of an open position, unless the position query  *)
(* of the same visit had failed.                                           *)
FlatEntry == [][pc = "place" /\ pc' = "answer" => at \notin open \/ blind]_vars

(* position_closed is logged for a position that is gone, with the same    *)
(* exception.                                                              *)
ReportIsReal == [][pc = "closing" /\ pc' = "notify" => at \notin open \/ blind]_vars

(* The guard gives its answer; what had been so when it was asked.         *)
Answers == pc \in {"guard", "profit"} /\ pc' = "enter"
BreachWasOld == IF pc = "guard" THEN breach = "old" ELSE request.wasOld
LimitWasHit == IF pc = "guard" THEN hit ELSE request.wasHit

(* The guard lets no entry through when the limit had been reached, and    *)
(* every value read before that was too old to be used, at the moment it   *)
(* was asked, unless it could not read the profit.  What is realised while *)
(* it awaits the profit it does not see, however long the call is retried. *)
GuardCloses == [][Answers /\ ~blocked' => ~BreachWasOld \/ guessed']_vars

(* It blocks only if the limit had been reached on the day on which it was *)
(* asked; that is the day before, if midnight passed while it awaited the  *)
(* profit, but never for any later question.                               *)
GuardReopens == [][Answers /\ blocked' => LimitWasHit]_vars

(* A position that closed is eventually found to have closed, signals or   *)
(* not, failing queries or not.                                            *)
CloseNoticed ==
  \A s \in Symbols :
    (s \in contexts \cap tracked /\ s \notin open) ~> (s \notin tracked)

(* A position that was not followed (its first query failed, or the file   *)
(* was lost) is eventually followed, if it stays open.                     *)
PositionFollowed ==
  \A s \in Symbols :
    (s \in contexts \cap open /\ s \notin tracked)
      ~> (s \in tracked \/ s \notin open \/ pc = "down")
===========================================================================
