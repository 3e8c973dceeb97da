------------------------- MODULE BotProcessProofs -------------------------
(***************************************************************************)
(* The safety properties of BotProcess for any set of symbols, any command *)
(* line and any number of signals.                                         *)
(***************************************************************************)
EXTENDS BotProcess, TLAPS

(* A symbol that is not served never starts, and before the login returns  *)
(* nobody does; only served services are told to stop.                     *)
Idle ==
  /\ \A s \in Symbols : s \notin mode.symbols => svc[s] = "none" /\ ~shutdown[s]
  /\ main = "login" => \A s \in Symbols : svc[s] = "none"

(* A cycle that begins after stop() is a service's last.                   *)
LastCycle ==
  \A s \in Symbols :
     /\ late[s] \in 0..1
     /\ late[s] = 1 => shutdown[s] /\ svc[s] \in {"cycle", "sleep", "done"}

(* The runner stops everybody only because one has failed.                 *)
StoppedByFailure == main = "disconnecting" => Failed

Inv == TypeOK /\ Idle /\ LastCycle /\ StoppedByFailure

---------------------------------------------------------------------------
(* What a step of a service leaves alone, and what it changes.             *)
LEMMA AtStep ==
  ASSUME NEW s \in Symbols, NEW here, NEW next \in ServiceStates,
         TypeOK, At(s, here, next)
  PROVE  /\ svc' \in [Symbols -> ServiceStates]
         /\ svc[s] = here /\ svc'[s] = next
         /\ \A t \in Symbols : t # s => svc'[t] = svc[t]
         /\ s \in mode.symbols /\ main \in {"gather", "disconnecting"}
         /\ UNCHANGED <<mode, main, tg, tgStop, ws, wsStop, stopping, signals, asked>>
BY DEF At, Alive, TypeOK, helpers, requests

LEMMA CommandLineModes ==
  ASSUME NEW m \in CommandLines
  PROVE  /\ m.symbols \subseteq Symbols
         /\ m.multi \in BOOLEAN /\ m.telegram \in BOOLEAN /\ m.notifier \in BOOLEAN
BY DEF CommandLines, Modes

LEMMA InitInv == Init => Inv
<1> SUFFICES ASSUME Init PROVE Inv
  OBVIOUS
<1>1. mode \in CommandLines /\ mode.telegram \in BOOLEAN
  BY CommandLineModes DEF Init
<1>2. running \in [Symbols -> BOOLEAN]
  <2>1. ASSUME NEW s \in Symbols
        PROVE (~mode.telegram /\ s \in mode.symbols) \in BOOLEAN
    OBVIOUS
  <2> QED BY <2>1, Zenon DEF Init
<1>3. svc \in [Symbols -> ServiceStates]
  BY DEF Init, ServiceStates
<1>4. TypeOK
  <2>1. /\ main \in {"gather"} \cup IF mode.telegram THEN {"login"} ELSE {}
        /\ shutdown \in [Symbols -> BOOLEAN] /\ late \in [Symbols -> Nat]
        /\ signals \in 0..MaxSignals
    BY MaxSignalsAssumption DEF Init
  <2>2. /\ tg = "none" /\ ws = "none" /\ asked = "no"
        /\ tgStop = FALSE /\ wsStop = FALSE /\ stopping = FALSE
    BY DEF Init
  <2> QED BY <1>1, <1>2, <1>3, <2>1, <2>2 DEF TypeOK
<1>5. \A s \in Symbols : running[s] <=> (~mode.telegram /\ s \in mode.symbols)
  BY Zenon DEF Init
<1>6. \A s \in Symbols : svc[s] = IF running[s] THEN "init" ELSE "none"
  BY DEF Init
<1>7. \A s \in Symbols : ~shutdown[s] /\ late[s] = 0
  BY DEF Init
<1>8. main = "login" => mode.telegram
  BY DEF Init
<1>9. main # "disconnecting"
  BY DEF Init
<1> QED
  BY <1>4, <1>5, <1>6, <1>7, <1>8, <1>9 DEF Inv, Idle, LastCycle, StoppedByFailure

---------------------------------------------------------------------------
(* A failed service stays failed.                                          *)
LEMMA FailedStays ==
  ASSUME NEW s \in Symbols, NEW here, NEW next \in ServiceStates,
         TypeOK, At(s, here, next), here # "failed", Failed
  PROVE  Failed'
<1>1. PICK f \in mode.symbols : svc[f] = "failed"
  BY DEF Failed
<1>2. f \in Symbols /\ f # s /\ svc'[f] = "failed"
  BY <1>1, AtStep, CommandLineModes DEF TypeOK
<1> QED BY <1>1, <1>2, AtStep DEF Failed

(* A step of a service that neither starts a cycle nor takes back a stop.  *)
LEMMA ServiceStep ==
  ASSUME Inv, NEW s \in Symbols, NEW here, NEW next \in ServiceStates,
         At(s, here, next), here # "failed",
         running' \in [Symbols -> BOOLEAN], UNCHANGED <<shutdown, late>>,
         late[s] = 1 => next \in {"cycle", "sleep", "done"}
  PROVE  Inv'
<1>1. TypeOK' BY AtStep DEF Inv, TypeOK
<1>2. Idle' BY AtStep DEF Inv, Idle
<1>3. LastCycle' BY AtStep DEF Inv, LastCycle
<1>4. StoppedByFailure' BY AtStep, FailedStays DEF Inv, StoppedByFailure
<1> QED BY <1>1, <1>2, <1>3, <1>4 DEF Inv

LEMMA ServeInv ==
  ASSUME Inv, NEW s \in Symbols, Serve(s)
  PROVE  Inv'
<1> USE DEF ServiceStates
<1>0. /\ late[s] = 1 => svc[s] \in {"cycle", "sleep", "done"}
      /\ running \in [Symbols -> BOOLEAN]
  BY DEF Inv, LastCycle, TypeOK
<1>1. CASE Start(s)
  <2>1. running' \in [Symbols -> BOOLEAN]
    BY <1>0, <1>1 DEF Start
  <2>2. At(s, "none", "init") /\ UNCHANGED <<shutdown, late>>
    BY <1>1 DEF Start
  <2> QED BY <1>0, <2>1, <2>2, ServiceStep, AtStep DEF Inv
<1>2. CASE Initialized(s)
  <2>1. LoopTest(s) \in ServiceStates
    BY DEF LoopTest
  <2>2. At(s, "init", LoopTest(s)) /\ UNCHANGED <<running, shutdown, late>>
    BY <1>2 DEF Initialized
  <2> QED BY <1>0, <2>1, <2>2, ServiceStep, AtStep DEF Inv
<1>3. CASE StartupFails(s)
  BY <1>0, <1>3, ServiceStep, AtStep DEF Inv, StartupFails
<1>4. CASE Duplicate(s)
  BY <1>0, <1>4, ServiceStep, AtStep DEF Inv, Duplicate
<1>5. CASE EndCycle(s)
  <2> DEFINE next == IF running[s] THEN "sleep" ELSE "done"
  <2>1. At(s, "cycle", next) /\ UNCHANGED <<running, shutdown, late>>
    BY <1>5 DEF EndCycle
  <2>2. next \in {"sleep", "done"}
    OBVIOUS
  <2> HIDE DEF next
  <2> QED BY <1>0, <2>1, <2>2, ServiceStep, AtStep DEF Inv
<1>6. CASE SleepOver(s)
  <2>1. LoopTest(s) \in ServiceStates
    BY DEF LoopTest
  <2>2. At(s, "sleep", LoopTest(s)) /\ UNCHANGED <<running, shutdown, late>>
    BY <1>6 DEF SleepOver
  <2>3. late[s] # 1
    BY <1>6 DEF SleepOver, Inv, LastCycle
  <2> QED BY <1>0, <2>1, <2>2, <2>3, ServiceStep
<1>7. CASE SleepCut(s)
  <2>1. running' \in [Symbols -> BOOLEAN]
    BY <1>0, <1>7 DEF SleepCut
  <2>2. At(s, "sleep", "done") /\ UNCHANGED <<shutdown, late>>
    BY <1>7 DEF SleepCut
  <2> QED BY <1>0, <2>1, <2>2, ServiceStep
<1>8. CASE BeginCycle(s)
  <2>1. At(s, "peek", "cycle") /\ UNCHANGED <<running, shutdown>>
    BY <1>8 DEF BeginCycle
  <2>2. late[s] = 0
    BY <1>0, <2>1, AtStep DEF Inv, LastCycle
  <2>3. /\ late' \in [Symbols -> Nat]
        /\ late'[s] \in 0..1
        /\ late'[s] = 1 => shutdown[s]
        /\ \A t \in Symbols : t # s => late'[t] = late[t]
    BY <1>8, <2>2 DEF BeginCycle, Inv, TypeOK
  <2>4. TypeOK' BY <2>1, <2>3, AtStep DEF Inv, TypeOK
  <2>5. Idle' BY <2>1, AtStep DEF Inv, Idle
  <2>6. LastCycle' BY <2>1, <2>3, AtStep DEF Inv, LastCycle
  <2>7. StoppedByFailure' BY <2>1, AtStep, FailedStays DEF Inv, StoppedByFailure
  <2> QED BY <2>4, <2>5, <2>6, <2>7 DEF Inv
<1> QED
  BY <1>1, <1>2, <1>3, <1>4, <1>5, <1>6, <1>7, <1>8 DEF Serve

---------------------------------------------------------------------------
(* Telling the served services to stop breaks nothing.                     *)
LEMMA Told ==
  ASSUME Inv, TellServices, UNCHANGED <<mode, svc, late>>
  PROVE  /\ running' \in [Symbols -> BOOLEAN]
         /\ shutdown' \in [Symbols -> BOOLEAN]
         /\ \A s \in Symbols : s \notin mode.symbols => ~shutdown'[s]
         /\ LastCycle'
<1>1. running' \in [Symbols -> BOOLEAN]
  BY DEF TellServices
<1>2. shutdown' \in [Symbols -> BOOLEAN]
  <2>1. ASSUME NEW s \in Symbols PROVE (s \in mode.symbols) \in BOOLEAN
    OBVIOUS
  <2> QED BY <2>1, Zenon DEF TellServices
<1>3. \A s \in Symbols : shutdown'[s] <=> s \in mode.symbols
  BY Zenon DEF TellServices
<1>4. \A s \in Symbols : shutdown[s] => s \in mode.symbols
  BY DEF Inv, Idle
<1>5. LastCycle'
  BY <1>3, <1>4 DEF Inv, LastCycle
<1> QED BY <1>1, <1>2, <1>3, <1>5

(* Steps that leave every service where it is.                             *)
LEMMA OtherSteps ==
  ASSUME Inv, UNCHANGED <<mode, svc, late>>, TypeOK', LastCycle',
         \A s \in Symbols : s \notin mode.symbols => ~shutdown'[s],
         main' = "login" => main = "login",
         main' = "disconnecting" => main = "disconnecting" \/ Failed
  PROVE  Inv'
<1>1. Idle' BY DEF Inv, Idle
<1>2. StoppedByFailure' BY DEF Inv, StoppedByFailure, Failed
<1> QED BY <1>1, <1>2 DEF Inv

LEMMA QuietSteps ==
  ASSUME Inv, UNCHANGED <<mode, svc, running, shutdown, late>>, TypeOK',
         main' = "login" => main = "login",
         main' = "disconnecting" => main = "disconnecting"
  PROVE  Inv'
<1>1. LastCycle' BY DEF Inv, LastCycle
<1>2. \A s \in Symbols : s \notin mode.symbols => ~shutdown'[s]
  BY DEF Inv, Idle
<1> QED BY <1>1, <1>2, OtherSteps

LEMMA RunInv ==
  ASSUME Inv, Run
  PROVE  Inv'
<1>0. TypeOK /\ mode.telegram \in BOOLEAN /\ mode.notifier \in BOOLEAN
  BY CommandLineModes DEF Inv, TypeOK
<1>1. CASE LoggedIn
  BY <1>0, <1>1, QuietSteps DEF LoggedIn, TypeOK, services, requests
<1>2. CASE LoginFails
  BY <1>0, <1>2, QuietSteps DEF LoginFails, TypeOK, services, helpers, requests
<1>3. CASE AllReturned
  BY <1>0, <1>3, QuietSteps DEF AllReturned, TypeOK, services, helpers, requests
<1>4. CASE RaiseAgain
  BY <1>0, <1>4, QuietSteps DEF RaiseAgain, TypeOK, services, requests
<1>5. CASE GatherRaises
  <2>1. CASE ~mode.multi
    BY <1>0, <1>5, <2>1, QuietSteps DEF GatherRaises, TypeOK, requests
  <2>2. CASE mode.multi
    <3>1. TellServices /\ UNCHANGED <<mode, svc, late>> /\ Failed
      BY <1>5, <2>2 DEF GatherRaises
    <3>2. TypeOK'
      BY <1>0, <1>5, <2>2, <3>1, Told DEF GatherRaises, TypeOK, requests
    <3>3. main' # "login"
      BY <1>5, <2>2 DEF GatherRaises
    <3> QED BY <3>1, <3>2, <3>3, Told, OtherSteps
  <2> QED BY <2>1, <2>2
<1> QED BY <1>1, <1>2, <1>3, <1>4, <1>5 DEF Run

LEMMA SignalInv ==
  ASSUME Inv, Signal
  PROVE  Inv'
<1>0. TypeOK /\ mode.telegram \in BOOLEAN
  BY CommandLineModes DEF Inv, TypeOK
<1>1. signals' \in 0..MaxSignals
  BY <1>0, MaxSignalsAssumption DEF Signal, TypeOK
<1>2. UNCHANGED <<mode, main, svc, late, tg, ws>>
  BY DEF Signal
<1>3. /\ wsStop' = wsStop /\ tgStop' \in BOOLEAN /\ stopping' \in BOOLEAN
      /\ asked' \in {"no", "early", "yes"}
      /\ TellServices \/ UNCHANGED <<running, shutdown>>
  BY <1>0 DEF Signal, SignalRunner, SignalSingle, TypeOK
<1>4. CASE TellServices
  <2>1. TypeOK'
    BY <1>0, <1>1, <1>2, <1>3, <1>4, Told DEF TypeOK
  <2> QED BY <1>2, <1>4, <2>1, Told, OtherSteps
<1>5. CASE UNCHANGED <<running, shutdown>>
  <2>1. TypeOK'
    BY <1>0, <1>1, <1>2, <1>3, <1>5 DEF TypeOK
  <2> QED BY <1>2, <1>5, <2>1, QuietSteps
<1> QED BY <1>3, <1>4, <1>5

LEMMA StepInv ==
  ASSUME Inv, [Next]_vars
  PROVE  Inv'
<1>0. TypeOK /\ mode.notifier \in BOOLEAN
  BY CommandLineModes DEF Inv, TypeOK
<1>1. CASE Run BY <1>1, RunInv
<1>2. CASE Signal BY <1>2, SignalInv
<1>3. CASE StopReturns
  BY <1>0, <1>3, QuietSteps DEF StopReturns, TypeOK, services
<1>4. CASE TelegramReturns
  BY <1>0, <1>4, QuietSteps DEF TelegramReturns, TypeOK, services, requests
<1>5. CASE NotifierConnects
  BY <1>0, <1>5, QuietSteps DEF NotifierConnects, TypeOK, services, requests
<1>6. CASE NotifierReturns
  BY <1>0, <1>6, QuietSteps DEF NotifierReturns, TypeOK, services, requests
<1>7. ASSUME NEW s \in Symbols, Serve(s) PROVE Inv'
  BY <1>7, ServeInv
<1>8. CASE UNCHANGED vars
  BY <1>0, <1>8, QuietSteps DEF vars, TypeOK
<1> QED
  BY <1>1, <1>2, <1>3, <1>4, <1>5, <1>6, <1>7, <1>8 DEF Next, Help

LEMMA Invariance == Spec => []Inv
BY InitInv, StepInv, PTL DEF Spec

---------------------------------------------------------------------------
(* Every variable keeps its range.                                         *)
THEOREM TypeCorrect == Spec => []TypeOK
<1>1. Inv => TypeOK
  BY DEF Inv
<1> QED BY <1>1, Invariance, PTL

(* At most one cycle of a service begins after its stop(), wherever the    *)
(* stop meets it.                                                          *)
THEOREM OneLateCycleCorrect == Spec => []OneLateCycle
<1>1. ASSUME Inv PROVE OneLateCycle
  <2>1. \A s \in Symbols : late[s] \in 0..1
    BY <1>1 DEF Inv, LastCycle
  <2>2. \A n \in 0..1 : n <= 1
    OBVIOUS
  <2> QED BY <2>1, <2>2 DEF OneLateCycle
<1> QED BY <1>1, Invariance, PTL

(* The process ends in the middle of a cycle only after a failure.         *)
THEOREM NoCycleCutCorrect == Spec => NoCycleCut
<1> DEFINE Cut ==
      main' = "ended" /\ (\E s \in Symbols : svc[s] = "cycle") => Failed
<1>1. ASSUME Inv, [Next]_vars PROVE [Cut]_vars
  <2> SUFFICES ASSUME main' = "ended", NEW s \in Symbols, svc[s] = "cycle",
                      ~UNCHANGED vars
               PROVE  Failed
    OBVIOUS
  <2>1. s \in mode.symbols /\ main # "login"
    BY <1>1 DEF Inv, Idle
  <2>2. CASE main = "ended"
    <3>1. \A t \in Symbols : ~Serve(t)
      BY <2>2 DEF Serve, Start, Initialized, StartupFails, Duplicate,
        BeginCycle, EndCycle, SleepOver, SleepCut, At, Alive
    <3>2. ~Run /\ ~Signal /\ ~StopReturns /\ ~Help
      BY <2>2 DEF Run, LoggedIn, LoginFails, AllReturned, GatherRaises,
        RaiseAgain, Signal, StopReturns, Help, TelegramReturns,
        NotifierConnects, NotifierReturns, Alive
    <3> QED BY <1>1, <3>1, <3>2 DEF Next
  <2>3. CASE main # "ended"
    <3>1. AllReturned \/ GatherRaises \/ RaiseAgain
      <4>1. \A t \in Symbols : ~Serve(t)
        BY <2>3 DEF Serve, Start, Initialized, StartupFails, Duplicate,
          BeginCycle, EndCycle, SleepOver, SleepCut, At
      <4>2. ~Signal /\ ~StopReturns /\ ~Help
        BY <2>3 DEF Signal, StopReturns, Help, TelegramReturns,
          NotifierConnects, NotifierReturns
      <4> QED BY <1>1, <2>1, <4>1, <4>2 DEF Next, Run, LoggedIn, LoginFails
    <3>2. ~AllReturned
      BY <2>1 DEF AllReturned, AllDone
    <3>3. GatherRaises => Failed
      BY DEF GatherRaises
    <3>4. RaiseAgain => Failed
      BY <1>1 DEF RaiseAgain, Inv, StoppedByFailure
    <3> QED BY <3>1, <3>2, <3>3, <3>4
  <2> QED BY <2>2, <2>3
<1> QED BY <1>1, Invariance, PTL DEF Spec, NoCycleCut
===========================================================================
