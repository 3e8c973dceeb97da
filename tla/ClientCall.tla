----------------------------- MODULE ClientCall -----------------------------
(***************************************************************************)
(* BybitClient._call: the retries of one order's placement or              *)
(* cancellation, whose HTTP requests run on worker threads.  What the      *)
(* OrderBot and Scalper modules assume of an answer rests on this module.  *)
(*                                                                         *)
(* A sleep, be it the gap between two calls or a back-off, only takes      *)
(* time, so its length is left out, and with it _last_call_ts.             *)
(***************************************************************************)
EXTENDS Naturals

CONSTANTS
  Placements,  \* calls of place_conditional_order, each with its link id
  Cancels,     \* calls of cancel_order, each of an order of its own
  MaxRetries   \* _max_retries

ASSUME CallsAssumption == Placements \cap Cancels = {}
ASSUME MaxRetriesAssumption == MaxRetries \in Nat \ {0}

VARIABLES
  pc,        \* where the coroutine of each call is
  attempt,   \* its loop variable
  request,   \* its latest request: "none", "out" on a thread, or the answer
  live,      \* the exchange: orders that work, named by the calls about them
  used,      \* and link ids it has seen
  opened,    \* history: orders that each call opened
  done,      \* history: calls a request of which was effective
  lost       \* history: calls an effective request of which was not answered

exchange == <<live, used>>
history == <<opened, done, lost>>
vars == <<pc, attempt, request, exchange, history>>

Calls == Placements \cup Cancels
Ended == {"ok", "raised", "cancelled"}
Places == {"idle", "waiting", "calling", "sleeping"} \cup Ended

(* What _check_response and the except clauses tell apart.                 *)
Transient == {"rate_limit", "maintenance", "network"}
Final == {"auth", "margin", "not_found", "error", "pybit"}
Answers == {"ok"} \cup Transient \cup Final

(* Fault: every attempt has a link id of its own.                          *)
FaultFreshLink(c) == <<c, attempt[c]>>

(* The keyword arguments, and so the link id, are those of the call.       *)
Link(c) == c

(* An order that is to be cancelled may be gone already.                   *)
Init ==
  /\ pc = [c \in Calls |-> "idle"] /\ attempt = [c \in Calls |-> 1]
  /\ request = [c \in Calls |-> "none"]
  /\ live \in SUBSET Cancels /\ used = Cancels
  /\ opened = [c \in Calls |-> 0] /\ done = {} /\ lost = {}

---------------------------------------------------------------------------
(* The coroutine.                                                          *)

Moves(c, from, to) == pc[c] = from /\ pc' = [pc EXCEPT ![c] = to]

Begin(c) ==
  /\ Moves(c, "idle", "waiting")
  /\ UNCHANGED <<attempt, request, exchange, history>>

(* After the gap: asyncio.to_thread.                                       *)
Send(c) ==
  /\ Moves(c, "waiting", "calling")
  /\ request' = [request EXCEPT ![c] = "out"]
  /\ UNCHANGED <<attempt, exchange, history>>

(* Fault: cancel_order lets "not found" through.                           *)
FaultNotFoundRaises(c) == request[c] = "ok"

(* cancel_order takes "not found" for a success.                           *)
Successful(c) == request[c] = "ok" \/ (c \in Cancels /\ request[c] = "not_found")

Return(c) ==
  /\ Moves(c, "calling", "ok") /\ Successful(c)
  /\ UNCHANGED <<attempt, request, exchange, history>>

Raise(c) ==
  /\ Moves(c, "calling", "raised") /\ request[c] \in Final /\ ~Successful(c)
  /\ UNCHANGED <<attempt, request, exchange, history>>

(* Fault: a timeout around the thread, which goes on.                      *)
FaultGiveUpWaiting(c) ==
  /\ Moves(c, "calling", "sleeping")
  /\ request[c] \in Transient \cup {"out"}
  /\ UNCHANGED <<attempt, request, exchange, history>>

BackOff(c) ==
  /\ Moves(c, "calling", "sleeping") /\ request[c] \in Transient
  /\ UNCHANGED <<attempt, request, exchange, history>>

(* Fault: an attempt during maintenance does not count.                    *)
FaultMaintenanceFree(c) ==
  /\ attempt[c] < MaxRetries /\ Moves(c, "sleeping", "waiting")
  /\ attempt' = [attempt EXCEPT ![c] = IF request[c] = "maintenance" THEN @ ELSE @ + 1]
  /\ UNCHANGED <<request, exchange, history>>

Retry(c) ==
  /\ attempt[c] < MaxRetries /\ Moves(c, "sleeping", "waiting")
  /\ attempt' = [attempt EXCEPT ![c] = @ + 1]
  /\ UNCHANGED <<request, exchange, history>>

(* ExchangeConnectionError, or "exhausted": an ExchangeError either way.   *)
GiveUp(c) ==
  /\ attempt[c] = MaxRetries /\ Moves(c, "sleeping", "raised")
  /\ UNCHANGED <<attempt, request, exchange, history>>

(* The task is cancelled at one of its awaits; a thread cannot be.         *)
CancelTask(c) ==
  /\ pc[c] \in {"waiting", "calling", "sleeping"}
  /\ pc' = [pc EXCEPT ![c] = "cancelled"]
  /\ UNCHANGED <<attempt, request, exchange, history>>

---------------------------------------------------------------------------
(* The thread and Bybit.                                                   *)

Answer(c, a) == request[c] = "out" /\ request' = [request EXCEPT ![c] = a]

(* An effective request is answered with "yes", or its answer is lost:     *)
(* a network error, or pybit gives up.                                     *)
Effective(c, yes) ==
  /\ done' = done \cup {c}
  /\ \/ Answer(c, yes) /\ UNCHANGED lost
     \/ (\E a \in {"network", "pybit"} : Answer(c, a)) /\ lost' = lost \cup {c}
  /\ UNCHANGED <<pc, attempt>>

Place(c) ==
  /\ c \in Placements /\ Link(c) \notin used
  /\ used' = used \cup {Link(c)} /\ live' = live \cup {c}
  /\ opened' = [opened EXCEPT ![c] = @ + 1]
  /\ Effective(c, "ok")

CancelLive(c) ==
  /\ c \in Cancels \cap live
  /\ live' = live \ {c}
  /\ Effective(c, "ok") /\ UNCHANGED <<used, opened>>

CancelGone(c) ==
  /\ c \in Cancels \ live
  /\ Effective(c, "not_found") /\ UNCHANGED <<exchange, opened>>

Refuse(c) ==
  /\ \E a \in Answers \ {"ok", "not_found"} :
        /\ a = "margin" => c \in Placements
        /\ Answer(c, a)
  /\ UNCHANGED <<pc, attempt, exchange, history>>

(* An order is filled or cancelled by somebody else.                       *)
Vanish(c) ==
  /\ c \in live /\ live' = live \ {c}
  /\ UNCHANGED <<pc, attempt, request, used, history>>

Client(c) ==
  Send(c) \/ Return(c) \/ Raise(c) \/ BackOff(c) \/ Retry(c) \/ GiveUp(c)
Serve(c) == Place(c) \/ CancelLive(c) \/ CancelGone(c) \/ Refuse(c)

Next ==
  \E c \in Calls : Begin(c) \/ Client(c) \/ CancelTask(c) \/ Serve(c) \/ Vanish(c)

Spec == Init /\ [][Next]_vars

(* The loop runs its tasks, and a request is answered or times out.        *)
Fairness == \A c \in Calls : WF_vars(Client(c)) /\ WF_vars(Serve(c))
FairSpec == Spec /\ Fairness

---------------------------------------------------------------------------
TypeOK ==
  /\ pc \in [Calls -> Places] /\ attempt \in [Calls -> 1..MaxRetries]
  /\ request \in [Calls -> {"none", "out"} \cup Answers]
  /\ live \in SUBSET Calls /\ used \in SUBSET Calls
  /\ opened \in [Calls -> Nat]
  /\ done \in SUBSET Calls /\ lost \in SUBSET Calls

(* However often a placement is retried, it opens one order at most.       *)
OneOrder == \A c \in Placements : opened[c] <= 1

(* A call that raises although its request was effective has lost the      *)
(* answer: no answer that arrived is turned into the opposite, and a       *)
(* cancellation whose answer was lost succeeds at the next attempt.        *)
FailureExplained ==
  \A c \in Calls : pc[c] = "raised" /\ c \in done => c \in lost

(* The caller sees a RemoteCall: a success is effective, and a call that   *)
(* was not cancelled has no effect after its end.                          *)
Outcome == [c \in Calls |-> IF pc[c] \in Ended THEN pc[c] ELSE "open"]
Remote == INSTANCE RemoteCall WITH outcome <- Outcome, effective <- done
ImplementsRemote == Remote!Spec

(* Every call ends: with a result, an error, or its task.                  *)
CallEnds == \A c \in Calls : pc[c] # "idle" ~> pc[c] \in Ended
=============================================================================
