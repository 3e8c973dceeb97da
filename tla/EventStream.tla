---------------------------- MODULE EventStream ----------------------------
(***************************************************************************)
(* The private websocket of the multi-scalper: BybitPrivateWebSocket takes *)
(* events on pybit's thread and hands them to the event loop, where        *)
(* WsOrderNotifier journals them, adds up the closed profits and forwards  *)
(* them to Telegram.  The same loop runs the portfolio cycle, which sleeps *)
(* with time.sleep and so blocks it.                                       *)
(*                                                                         *)
(* Events are known by their number in "sent".                             *)
(***************************************************************************)
EXTENDS Integers, Sequences

CONSTANTS
  Symbols,    \* symbols of the account
  None,       \* no symbol
  Profits,    \* what the end of a position may realise
  Moves,      \* what funding or a partial close may, 0 for a repeated figure
  Fee,        \* what opening one costs
  Capacity,   \* maxsize of the queue
  MaxEvents,  \* bound on the events of a behaviour
  MaxRuns     \* bound on the starts of the process

ASSUME StreamAssumption ==
  /\ None \notin Symbols
  /\ Profits \subseteq Int /\ Moves \subseteq Int /\ Fee \in Nat
  /\ Capacity \in Nat \ {0}
  /\ MaxEvents \in Nat /\ MaxRuns \in Nat

VARIABLES
  open,     \* the exchange: symbols with a position
  cum,      \* and the cumulative realised profit of each
  sent,     \* history: every event, with what it realised
  link,     \* the subscription: "none", "up" or "down"
  proc,     \* the process: "off", "started" or "on"
  runs,     \* starts of the process
  asleep,   \* the loop is blocked in sleep_until_next_m5
  ready,    \* callbacks that wait for the loop
  queue,    \* asyncio.Queue
  sending,  \* _dispatch awaits Telegram
  journal,  \* readable records of _ws_events-*.jsonl
  torn,     \* its last line is incomplete
  added,    \* what the PnL tracker added to its sum at startup
  excused   \* history: events that could not reach the journal

account == <<open, cum, sent>>
bridge == <<ready, queue>>
notifier == <<sending, journal, torn, added>>
vars == <<account, link, proc, runs, asleep, bridge, notifier, excused>>

Count == Len(sent)
Elements(q) == {q[i] : i \in 1..Len(q)}
Waiting == Elements(queue) \cup Elements(ready)

Init ==
  /\ open \in SUBSET Symbols /\ cum = [s \in Symbols |-> 0] /\ sent = <<>>
  /\ link = "none" /\ proc = "off" /\ runs = 0 /\ asleep = FALSE
  /\ ready = <<>> /\ queue = <<>> /\ sending = FALSE
  /\ journal = <<>> /\ torn = FALSE /\ added = 0
  /\ excused = {}

---------------------------------------------------------------------------
(* Bybit, as the repository's journals show it: a record for each move of  *)
(* the symbol's cumulative profit, at a change of the size or without one  *)
(* (funding), and records that repeat the last figure, often before a      *)
(* close.  No record carries the profit of a trade.                        *)

Topics == {"position", "order"}

Message(topic, s, size, c) == [topic |-> topic, symbol |-> s, size |-> size, cum |-> c]

(* _on_message, on pybit's thread: a callback for the loop.                *)
Emit(message, gain) ==
  /\ Count < MaxEvents
  /\ sent' = Append(sent, [msg |-> message, gain |-> gain])
  /\ IF link = "up"
     THEN ready' = Append(ready, Count + 1) /\ UNCHANGED excused
     ELSE excused' = excused \cup {Count + 1} /\ UNCHANGED ready
  /\ UNCHANGED <<link, proc, runs, asleep, queue, notifier>>

PositionOpens(s) ==
  /\ s \notin open /\ open' = open \cup {s}
  /\ cum' = [cum EXCEPT ![s] = @ - Fee]
  /\ Emit(Message("position", s, 1, cum'[s]), -Fee)

PositionMoves(s, d) ==
  /\ s \in open /\ UNCHANGED open
  /\ cum' = [cum EXCEPT ![s] = @ + d]
  /\ Emit(Message("position", s, 1, cum'[s]), d)

PositionCloses(s, p) ==
  /\ s \in open /\ open' = open \ {s}
  /\ cum' = [cum EXCEPT ![s] = @ + p]
  /\ Emit(Message("position", s, 0, cum'[s]), p)

OrderChanges ==
  /\ UNCHANGED <<open, cum>>
  /\ Emit(Message("order", None, 0, 0), 0)

LinkDrops ==
  /\ link = "up" /\ link' = "down"
  /\ UNCHANGED <<account, proc, runs, asleep, bridge, notifier, excused>>

(* pybit reconnects by itself; the private stream is not replayed.         *)
LinkReturns ==
  /\ link = "down" /\ link' = "up"
  /\ UNCHANGED <<account, proc, runs, asleep, bridge, notifier, excused>>

---------------------------------------------------------------------------
(* The process.                                                            *)

(* amain builds the tracker and the notifier's task.                       *)
Start ==
  /\ proc = "off" /\ proc' = "started"
  /\ runs < MaxRuns /\ runs' = runs + 1
  /\ added' = 0
  /\ UNCHANGED <<account, link, asleep, bridge, sending, journal, torn, excused>>

(* connect(); after a failure the notifier only waits for its stop event.  *)
Connect(ok) ==
  /\ proc = "started" /\ proc' = "on"
  /\ link' = IF ok THEN "up" ELSE "none"
  /\ UNCHANGED <<account, runs, asleep, bridge, notifier, excused>>

Sleep ==
  /\ proc = "on" /\ ~asleep /\ asleep' = TRUE
  /\ UNCHANGED <<account, link, proc, runs, bridge, notifier, excused>>

Wake ==
  /\ asleep /\ asleep' = FALSE
  /\ UNCHANGED <<account, link, proc, runs, bridge, notifier, excused>>

LoopRuns == proc = "on" /\ ~asleep

Least(a, b) == IF a < b THEN a ELSE b

(* Fault: the queue has no maxsize.                                        *)
FaultUnbounded ==
  /\ LoopRuns /\ ready # <<>>
  /\ queue' = queue \o ready /\ ready' = <<>>
  /\ UNCHANGED <<account, link, proc, runs, asleep, notifier, excused>>

(* One iteration of the loop runs every waiting callback: put_nowait until *)
(* the queue is full, and an exception in the callback for the others.     *)
RunCallbacks ==
  /\ LoopRuns /\ ready # <<>>
  /\ LET taken == Least(Capacity - Len(queue), Len(ready))
     IN /\ queue' = queue \o SubSeq(ready, 1, taken)
        /\ excused' = excused \cup {ready[i] : i \in (taken + 1)..Len(ready)}
  /\ ready' = <<>>
  /\ UNCHANGED <<account, link, proc, runs, asleep, notifier>>

Event(n) == sent[n].msg

(* Fault: the newest event first.                                          *)
FaultReceiveNewest(n) ==
  /\ LoopRuns /\ ~sending
  /\ queue # <<>> /\ n = queue[Len(queue)]
  /\ queue' = SubSeq(queue, 1, Len(queue) - 1)
  /\ UNCHANGED <<account, link, proc, runs, asleep, ready>>

(* events() gives _dispatch the head of the queue.  It would pass over     *)
(* frames without a topic; pybit hands none of them to the callback.       *)
Receive(n) ==
  /\ LoopRuns /\ ~sending
  /\ queue # <<>> /\ n = Head(queue) /\ queue' = Tail(queue)
  /\ UNCHANGED <<account, link, proc, runs, asleep, ready>>

(* log_event appends a line.  A write may fail or break off, which leaves  *)
(* a line open: the next record is appended to it, and neither is parsed.  *)
LogEvent(n) ==
  \/ /\ ~torn
     /\ journal' = Append(journal, n)
     /\ UNCHANGED <<torn, excused>>
  \/ /\ torn' \in BOOLEAN
     /\ excused' = excused \cup {n}
     /\ UNCHANGED journal

(* Every UTC day has a file of its own.                                    *)
NewDay ==
  /\ torn /\ torn' = FALSE
  /\ UNCHANGED <<account, link, proc, runs, asleep, bridge, sending, journal,
                 added, excused>>

(* pos.get("realisedPnl") or 0                                             *)
RealisedPnl(m) == IF "realisedPnl" \in DOMAIN m THEN m.realisedPnl ELSE 0
IsClose(m) == m.topic = "position" /\ m.size = 0

(* Fault: only what is worth a notification is journaled.                  *)
FaultLogNotable(n) ==
  /\ Receive(n) /\ Event(n).topic = "order"
  /\ \/ LogEvent(n) /\ sending' = TRUE
     \/ sending' = FALSE /\ UNCHANGED <<journal, torn, excused>>
  /\ UNCHANGED added

(* Every order event is journaled, only a notable one is sent.             *)
DispatchOrder(n) ==
  /\ Receive(n) /\ Event(n).topic = "order"
  /\ LogEvent(n)
  /\ sending' \in BOOLEAN
  /\ UNCHANGED added

DispatchPosition(n) ==
  /\ Receive(n) /\ Event(n).topic = "position"
  /\ LogEvent(n)
  /\ added' = IF IsClose(Event(n)) THEN added + RealisedPnl(Event(n)) ELSE added
  /\ sending' = TRUE

(* Fault: an exception of the sender ends the notifier's task.             *)
FaultSendRaises ==
  /\ LoopRuns /\ sending
  /\ UNCHANGED vars

(* The worker thread has sent the message, or failed to: both go on.       *)
Sent ==
  /\ LoopRuns /\ sending /\ sending' = FALSE
  /\ UNCHANGED <<account, link, proc, runs, asleep, bridge, journal, torn,
                 added, excused>>

(* A stop or a crash.  A blocked loop obeys no stop, but it can crash.     *)
Ends ==
  /\ proc # "off" /\ proc' = "off" /\ link' = "none" /\ asleep' = FALSE
  /\ ready' = <<>> /\ queue' = <<>> /\ sending' = FALSE
  /\ excused' = excused \cup Waiting
  /\ UNCHANGED <<account, runs, journal, torn, added>>

Consume == \E n \in Elements(queue) : DispatchOrder(n) \/ DispatchPosition(n)
Bybit ==
  \/ \E s \in Symbols :
       \/ PositionOpens(s)
       \/ \E d \in Moves : PositionMoves(s, d)
       \/ \E p \in Profits : PositionCloses(s, p)
  \/ OrderChanges \/ LinkDrops \/ LinkReturns

Next ==
  \/ Bybit \/ Start \/ (\E ok \in BOOLEAN : Connect(ok)) \/ Sleep \/ Wake
  \/ RunCallbacks \/ NewDay \/ Consume \/ Sent \/ Ends

Spec == Init /\ [][Next]_vars

(* The cycle awaits many calls between two sleeps, and the loop runs its   *)
(* callbacks and tasks at each: they are not passed over for ever.         *)
Fairness ==
  WF_vars(Wake) /\ SF_vars(RunCallbacks) /\ SF_vars(Consume) /\ SF_vars(Sent)

FairSpec == Spec /\ Fairness

---------------------------------------------------------------------------
Numbers == Nat \ {0}
Messages == [topic: Topics, symbol: Symbols \cup {None}, size: {0, 1}, cum: Int]

TypeOK ==
  /\ open \in SUBSET Symbols /\ cum \in [Symbols -> Int]
  /\ sent \in Seq([msg: Messages, gain: Int])
  /\ link \in {"none", "up", "down"} /\ proc \in {"off", "started", "on"}
  /\ runs \in 0..MaxRuns /\ asleep \in BOOLEAN
  /\ ready \in Seq(Numbers)
  /\ queue \in Seq(Numbers) /\ Len(queue) <= Capacity
  /\ sending \in BOOLEAN
  /\ journal \in Seq(Numbers) /\ torn \in BOOLEAN
  /\ added \in Int
  /\ excused \in SUBSET Numbers

(* An order or position event that is neither journaled nor on its way was *)
(* sent while the subscription was down, found the queue full, was waiting *)
(* when the process ended, or shares a line with a broken write: nothing   *)
(* is dropped by the filters, by Telegram or by the order of steps.        *)
Accounted ==
  1..Count \subseteq Elements(journal) \cup Waiting \cup excused

(* The journal is a lossy log of what was sent, in order, without repeats. *)
Log == INSTANCE LossyLog WITH count <- Count, log <- journal
ImplementsLog == Log!Spec

(* An event that reached the loop is journaled, unless one of these things *)
(* comes between: the blocked loop and a slow Telegram only delay it.      *)
EventJournaled ==
  \A n \in 1..MaxEvents :
     n \in Waiting ~> n \in Elements(journal) \cup excused
===========================================================================
