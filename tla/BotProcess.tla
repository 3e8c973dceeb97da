---------------------------- MODULE BotProcess ----------------------------
(***************************************************************************)
(* One run of app/main.py or app/ob_main.py: the tasks of one event loop,  *)
(* what a signal does to them, and what one of them failing does to the    *)
(* others.  A service is the life cycle of TradingService/OBTradingService *)
(* (their cycle is module OrderBot); beside the services run the Telegram  *)
(* bot, which only waits for its stop event, and the websocket notifier.   *)
(* The command line is chosen in Init and kept in "mode".                  *)
(***************************************************************************)
EXTENDS Naturals

CONSTANTS
  Symbols,      \* symbols that may be given on the command line
  MaxSignals    \* bound on SIGINT/SIGTERM per run

ASSUME SymbolsAssumption == Symbols # {}
ASSUME MaxSignalsAssumption == MaxSignals \in Nat

VARIABLES
  mode,       \* symbols, --symbols given?, Telegram?, notifier?
  main,       \* where the main coroutine is
  svc,        \* where run() of each symbol's service is
  running,    \* _running of each service
  shutdown,   \* _shutdown_event of each service
  tg, tgStop, \* TelegramBot.run and its stop event
  ws, wsStop, \* WsOrderNotifier.run and its stop event
  stopping,   \* a runner.stop() of a signal handler awaits the disconnect
  signals,    \* signals handled
  asked,      \* "no", "early": asked before there was a service, "yes"
  late        \* history: cycles each service began after its stop()

vars == <<mode, main, svc, running, shutdown, tg, tgStop, ws, wsStop,
          stopping, signals, asked, late>>

Modes ==
  [symbols: SUBSET Symbols, multi: BOOLEAN, telegram: BOOLEAN, notifier: BOOLEAN]

(* A single symbol without --symbols; the notifier needs a Telegram bot.   *)
CommandLines ==
  {m \in Modes :
     /\ \E s \in m.symbols : ~m.multi => m.symbols = {s}
     /\ m.notifier => m.telegram}

ServiceStates == {"none", "init", "peek", "cycle", "sleep", "done", "failed"}

Failed == \E s \in mode.symbols : svc[s] = "failed"
(* Fault: gather replaced by a wait for the first to complete.             *)
FaultFirstCompleted ==
  \E s \in mode.symbols : svc[s] = "done"
AllDone ==
  /\ \A s \in mode.symbols : svc[s] = "done"
  /\ mode.telegram => tg = "done"
  /\ mode.notifier => ws = "done"

(* Without Telegram nothing is awaited before the services' run().         *)
Init ==
  /\ mode \in CommandLines
  /\ main = IF mode.telegram THEN "login" ELSE "gather"
  /\ running = [s \in Symbols |-> ~mode.telegram /\ s \in mode.symbols]
  /\ svc = [s \in Symbols |-> IF running[s] THEN "init" ELSE "none"]
  /\ shutdown = [s \in Symbols |-> FALSE]
  /\ tg = "none" /\ tgStop = FALSE
  /\ ws = "none" /\ wsStop = FALSE
  /\ stopping = FALSE /\ signals = 0 /\ asked = "no"
  /\ late = [s \in Symbols |-> 0]

services == <<svc, running, shutdown, late>>
helpers == <<tg, tgStop, ws, wsStop>>
requests == <<stopping, signals, asked>>

---------------------------------------------------------------------------
(* The main coroutine.                                                     *)

(* Fault: the notifier is built whatever ws_notifier_enabled says.         *)
FaultAlwaysNotifier ==
  /\ main = "login" /\ main' = "gather"
  /\ tg' = "waiting" /\ ws' = "starting"
  /\ UNCHANGED <<mode, services, tgStop, wsStop, requests>>

(* tg_bot.login() returns; without another await the services are built    *)
(* and every task is created, although none has run yet.                   *)
LoggedIn ==
  /\ main = "login" /\ main' = "gather"
  /\ tg' = "waiting"
  /\ ws' = IF mode.notifier THEN "starting" ELSE ws
  /\ UNCHANGED <<mode, services, tgStop, wsStop, requests>>

(* It raises, also when a stop has disconnected it: the process ends.      *)
LoginFails ==
  /\ main = "login" /\ main' = "ended"
  /\ UNCHANGED <<mode, services, helpers, requests>>

AllReturned ==
  /\ main = "gather" /\ AllDone /\ main' = "ended"
  /\ UNCHANGED <<mode, services, helpers, requests>>

(* What stop() of the runner, or the single handler, does to the services  *)
(* before its first await.                                                 *)
TellServices ==
  /\ running' = [s \in Symbols |-> FALSE]
  /\ shutdown' = [s \in Symbols |-> s \in mode.symbols]

(* gather() passes on the first exception.  The runner stops everything    *)
(* and raises it again; a single service's exception leaves main at once.  *)
GatherRaises ==
  /\ main = "gather" /\ Failed
  /\ IF mode.multi
     THEN /\ TellServices
          /\ tgStop' = mode.telegram
          /\ main' = IF mode.telegram THEN "disconnecting" ELSE "ended"
     ELSE main' = "ended" /\ UNCHANGED <<running, shutdown, tgStop>>
  /\ UNCHANGED <<mode, svc, late, tg, ws, wsStop, requests>>

(* Telegram is disconnected, the notifier told, the exception raised: the  *)
(* loop is closed on whatever the other tasks were doing.                  *)
RaiseAgain ==
  /\ main = "disconnecting" /\ main' = "ended"
  /\ wsStop' = mode.notifier
  /\ UNCHANGED <<mode, services, tg, tgStop, ws, requests>>

---------------------------------------------------------------------------
(* A signal.                                                               *)

(* The runner's list of services is empty until run() has filled it.       *)
Built == main # "login"

SignalRunner ==
  /\ mode.multi
  /\ IF Built THEN TellServices ELSE UNCHANGED <<running, shutdown>>
  /\ tgStop' = mode.telegram
  /\ stopping' = mode.telegram
  /\ asked' = IF Built THEN "yes" ELSE "early"
  /\ UNCHANGED wsStop

(* The handler of a single symbol stops the service and Telegram only.     *)
SignalSingle ==
  /\ ~mode.multi
  /\ TellServices
  /\ tgStop' = mode.telegram
  /\ asked' = "yes"
  /\ UNCHANGED <<stopping, wsStop>>

Signal ==
  /\ main # "ended" /\ ~stopping
  /\ signals < MaxSignals /\ signals' = signals + 1
  /\ SignalRunner \/ SignalSingle
  /\ UNCHANGED <<mode, main, svc, late, tg, ws>>

(* Fault: runner.stop() forgets the notifier.                              *)
FaultNotifierNotTold ==
  /\ stopping /\ main # "ended"
  /\ stopping' = FALSE
  /\ UNCHANGED <<mode, main, services, helpers, signals, asked>>

(* runner.stop() after the disconnect: the notifier is told last.          *)
StopReturns ==
  /\ stopping /\ main # "ended"
  /\ stopping' = FALSE
  /\ wsStop' = mode.notifier
  /\ UNCHANGED <<mode, main, services, tg, tgStop, ws, signals, asked>>

---------------------------------------------------------------------------
(* The tasks.  Only a live loop runs them.                                 *)

Alive == main \in {"gather", "disconnecting"}

At(s, here, next) ==
  /\ Alive /\ s \in mode.symbols
  /\ svc[s] = here
  /\ svc' = [svc EXCEPT ![s] = next]
  /\ UNCHANGED <<mode, main, helpers, requests>>

(* The loop's test.                                                        *)
LoopTest(s) == IF running[s] THEN "peek" ELSE "done"

(* run() sets _running, also when stop() was already called.               *)
Start(s) ==
  /\ At(s, "none", "init")
  /\ running' = [running EXCEPT ![s] = TRUE]
  /\ UNCHANGED <<shutdown, late>>

Initialized(s) ==
  /\ At(s, "init", LoopTest(s))
  /\ UNCHANGED <<running, shutdown, late>>

StartupFails(s) ==
  /\ At(s, "init", "failed")
  /\ UNCHANGED <<running, shutdown, late>>

(* The peek shows an old candle: sleep.                                    *)
Duplicate(s) ==
  /\ At(s, "peek", "sleep")
  /\ UNCHANGED <<running, shutdown, late>>

(* ... or a new one: a cycle runs, whatever was asked during the peek.     *)
BeginCycle(s) ==
  /\ At(s, "peek", "cycle")
  /\ late' = IF shutdown[s] THEN [late EXCEPT ![s] = @ + 1] ELSE late
  /\ UNCHANGED <<running, shutdown>>

EndCycle(s) ==
  /\ At(s, "cycle", IF running[s] THEN "sleep" ELSE "done")
  /\ UNCHANGED <<running, shutdown, late>>

(* Fault: the sleep does not look at the shutdown event.                   *)
FaultDeafSleep(s) ==
  /\ At(s, "sleep", LoopTest(s))
  /\ UNCHANGED <<running, shutdown, late>>

(* The timeout passes, which it does not once the event is set.            *)
SleepOver(s) ==
  /\ ~shutdown[s]
  /\ At(s, "sleep", LoopTest(s))
  /\ UNCHANGED <<running, shutdown, late>>

SleepCut(s) ==
  /\ shutdown[s]
  /\ At(s, "sleep", "done")
  /\ running' = [running EXCEPT ![s] = FALSE]
  /\ UNCHANGED <<shutdown, late>>

TelegramReturns ==
  /\ Alive /\ tg = "waiting" /\ tgStop
  /\ tg' = "done"
  /\ UNCHANGED <<mode, main, services, tgStop, ws, wsStop, requests>>

(* Connected or not, the notifier stays until it is told to stop.          *)
NotifierConnects ==
  /\ Alive /\ ws = "starting"
  /\ ws' \in {"listening", "inactive"}
  /\ UNCHANGED <<mode, main, services, tg, tgStop, wsStop, requests>>

NotifierReturns ==
  /\ Alive /\ ws \in {"listening", "inactive"} /\ wsStop
  /\ ws' = "done"
  /\ UNCHANGED <<mode, main, services, tg, tgStop, wsStop, requests>>

Serve(s) ==
  \/ Start(s) \/ Initialized(s) \/ StartupFails(s) \/ Duplicate(s)
  \/ BeginCycle(s) \/ EndCycle(s) \/ SleepOver(s) \/ SleepCut(s)
Help == TelegramReturns \/ NotifierConnects \/ NotifierReturns
Run ==
  LoggedIn \/ LoginFails \/ AllReturned \/ GatherRaises \/ RaiseAgain

Next == Run \/ Signal \/ StopReturns \/ Help \/ \E s \in Symbols : Serve(s)

Spec == Init /\ [][Next]_vars

(* The loop is fair to each task, and what the tasks await (a bounded call *)
(* to the exchange, a timeout, a disconnect) returns.                      *)
Fairness ==
  /\ WF_vars(Run) /\ WF_vars(StopReturns)
  /\ WF_vars(TelegramReturns)
  /\ WF_vars(NotifierConnects) /\ WF_vars(NotifierReturns)
  /\ \A s \in Symbols : WF_vars(Serve(s))

FairSpec == Spec /\ Fairness

---------------------------------------------------------------------------
(* Types: each helper runs only if the command line asked for it.          *)
TypeOK ==
  /\ mode \in CommandLines
  /\ main \in {"gather", "ended"} \cup
               IF mode.telegram THEN {"login", "disconnecting"} ELSE {}
  /\ svc \in [Symbols -> ServiceStates]
  /\ running \in [Symbols -> BOOLEAN] /\ shutdown \in [Symbols -> BOOLEAN]
  /\ tg \in {"none"} \cup IF mode.telegram THEN {"waiting", "done"} ELSE {}
  /\ ws \in {"none"} \cup
             IF mode.notifier THEN {"starting", "listening", "inactive", "done"} ELSE {}
  /\ tgStop \in BOOLEAN
  /\ wsStop \in BOOLEAN /\ stopping \in BOOLEAN
  /\ signals \in 0..MaxSignals
  /\ asked \in {"no", "early", "yes"}
  /\ late \in [Symbols -> Nat]

(* However a stop meets a service (before its task ran, during startup, a  *)
(* peek, a cycle or a sleep), at most one more cycle of it begins, and so  *)
(* at most one more decision to place an order.                            *)
OneLateCycle == \A s \in Symbols : late[s] <= 1

(* The process never ends in the middle of a symbol's cycle, which may be  *)
(* between the cancel and the new order of a flip, unless another service  *)
(* has failed.                                                             *)
NoCycleCut ==
  [][main' = "ended" /\ (\E s \in Symbols : svc[s] = "cycle") => Failed]_vars

(* A stop asked for once the services exist ends the process, unless a     *)
(* single symbol runs with a notifier.                                     *)
StopEnds ==
  asked = "yes" /\ (mode.multi \/ ~mode.notifier) ~> main = "ended"
===========================================================================
