-------------------------- MODULE DailyLossGuard --------------------------
(***************************************************************************)
(* The account-wide loss limit of src/services/daily_loss_guard.py: the    *)
(* realised profit of the current UTC day, read from the exchange and kept *)
(* for refresh_s seconds.  The day, the clock and the end of the window to *)
(* sum up are taken when the guard is asked; the request that follows may  *)
(* be retried, and the limit reached or midnight passed before its answer. *)
(***************************************************************************)
EXTENDS Integers

CONSTANTS
  Limit,    \* limit in units of profit; 0 disables the guard
  MaxPnl    \* bound: how far the day's profit may move from 0

ASSUME LimitAssumption == Limit \in Nat /\ MaxPnl \in Nat

VARIABLES
  realised,     \* the exchange: the day's realised profit
  cached,       \* _cached_pnl
  cachedToday,  \* _cached_day is today
  cacheFresh,   \* less than refresh_s seconds since _cached_at
  request,      \* locals of day_pnl while it awaits the records
  breach,       \* history: is the limit reached, and since when
  hit,          \* history: it was reached at some time today
  guessed       \* history: the last answer did not come from a read

cacheVars == <<cached, cachedToday, cacheFresh>>
breachVars == <<breach, hit>>
guardVars == <<realised, cacheVars, request, breachVars, guessed>>

OverLimit(pnl) == Limit > 0 /\ pnl <= -Limit

(* sum: what the records in the window of the request add up to; sameDay:  *)
(* today == _cached_day; today: the local variable is still the day it is; *)
(* fresh: less than refresh_s seconds since the local variable now.  As    *)
(* history, what was so when the guard was asked: the breach was old, the  *)
(* limit had been reached that day.                                        *)
Requests == [sum : -MaxPnl..MaxPnl, sameDay : BOOLEAN, today : BOOLEAN,
             fresh : BOOLEAN, wasOld : BOOLEAN, wasHit : BOOLEAN]

NoRequest == [sum |-> 0, sameDay |-> FALSE, today |-> FALSE,
              fresh |-> FALSE, wasOld |-> FALSE, wasHit |-> FALSE]

EmptyCache == cached = 0 /\ cachedToday = FALSE /\ cacheFresh = FALSE

GuardInit ==
  /\ realised = 0
  /\ EmptyCache
  /\ request = NoRequest
  /\ breach = "none" /\ hit = FALSE /\ guessed = FALSE

(* A new DailyLossGuard.                                                   *)
EmptiedCache == cached' = 0 /\ cachedToday' = FALSE /\ cacheFresh' = FALSE

---------------------------------------------------------------------------
(* should_block.                                                           *)

CacheValid == cachedToday /\ cacheFresh

(* A disabled guard does not call day_pnl, and a valid cache answers.      *)
AnswerAtOnce(blocks) ==
  /\ Limit = 0 \/ CacheValid
  /\ blocks = OverLimit(cached)
  /\ guessed' = FALSE
  /\ UNCHANGED <<cacheVars, request>>

(* get_closed_pnl is called with the start of the day and the time it is.  *)
RequestPnl ==
  /\ Limit > 0 /\ ~CacheValid
  /\ request' = [sum |-> realised, sameDay |-> cachedToday, today |-> TRUE,
                 fresh |-> TRUE, wasOld |-> breach = "old", wasHit |-> hit]
  /\ UNCHANGED <<cacheVars, guessed>>

(* Fault: _cached_day is the day of the answer.                            *)
FaultDayOfAnswer(blocks) ==
  /\ blocks = OverLimit(request.sum)
  /\ cached' = request.sum /\ cachedToday' = TRUE /\ cacheFresh' = request.fresh
  /\ guessed' = FALSE
  /\ request' = NoRequest

(* Fault: _cached_at is the time of the answer.                            *)
FaultFreshFromAnswer(blocks) ==
  /\ blocks = OverLimit(request.sum)
  /\ cached' = request.sum /\ cachedToday' = request.today /\ cacheFresh' = TRUE
  /\ guessed' = FALSE
  /\ request' = NoRequest

(* The records arrive; the cache keeps the day and the time of the asking. *)
PnlArrives(blocks) ==
  /\ blocks = OverLimit(request.sum)
  /\ cached' = request.sum /\ cachedToday' = request.today /\ cacheFresh' = request.fresh
  /\ guessed' = FALSE
  /\ request' = NoRequest

(* The call raises: the cached value, if of the day of the asking, else 0. *)
PnlFails(blocks) ==
  /\ blocks = OverLimit(IF request.sameDay THEN cached ELSE 0)
  /\ guessed' = TRUE
  /\ request' = NoRequest
  /\ UNCHANGED cacheVars

---------------------------------------------------------------------------
(* What happens to it.                                                     *)

(* A position is closed, or reduced, with result r.                        *)
Realise(r) ==
  /\ realised + r \in -MaxPnl..MaxPnl
  /\ realised' = realised + r
  /\ breach' = IF ~OverLimit(realised') THEN "none"
               ELSE IF breach = "none" THEN "new" ELSE breach
  /\ hit' = (hit \/ OverLimit(realised'))
  /\ UNCHANGED <<cacheVars, request, guessed>>

Aged == IF breach = "new" THEN "old" ELSE breach

(* refresh_s seconds have passed since the cached value was asked for.  A  *)
(* breach that is there by now is older than any value still to be used,   *)
(* unless a younger one has been asked for.                                *)
CacheExpires ==
  /\ cacheFresh' = FALSE
  /\ breach' = IF request.fresh THEN breach ELSE Aged
  /\ UNCHANGED <<realised, cached, cachedToday, request, hit, guessed>>

(* refresh_s seconds have passed since the profit now awaited was asked    *)
(* for.                                                                    *)
RequestExpires ==
  /\ request.fresh
  /\ request' = [request EXCEPT !.fresh = FALSE]
  /\ cacheFresh' = FALSE
  /\ breach' = Aged
  /\ UNCHANGED <<realised, cached, cachedToday, hit, guessed>>

(* A new UTC day begins.                                                   *)
Midnight ==
  /\ realised' = 0
  /\ cachedToday' = FALSE
  /\ request' = [request EXCEPT !.today = FALSE]
  /\ breach' = "none" /\ hit' = FALSE
  /\ UNCHANGED <<cached, cacheFresh, guessed>>

GuardTypeOK ==
  /\ realised \in -MaxPnl..MaxPnl
  /\ cached \in -MaxPnl..MaxPnl
  /\ cachedToday \in BOOLEAN
  /\ cacheFresh \in BOOLEAN
  /\ request \in Requests
  /\ breach \in {"none", "new", "old"}
  /\ hit \in BOOLEAN
  /\ guessed \in BOOLEAN
===========================================================================
