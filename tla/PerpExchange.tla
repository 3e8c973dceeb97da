--------------------------- MODULE PerpExchange ---------------------------
(***************************************************************************)
(* The exchange as the bot of src/services/trading_service.py sees it, for *)
(* one symbol: the conditional (stop-entry) orders that carry the bot's    *)
(* link ids and the net position.  It is not part of the repository; every *)
(* rule below is one that src/exchange/bybit_client.py and its callers     *)
(* rely on.                                                                *)
(*                                                                         *)
(* A link id is a record: make_order_link_id (src/state/bot_state.py)      *)
(* formats it as <prefix>-<magic>-<side>-<bar>[-<attempt>], and prefix and *)
(* magic are fixed for one bot.                                            *)
(***************************************************************************)
EXTENDS Naturals

CONSTANTS
  Sides,        \* {buy, sell}
  SignalBars,   \* the candles on which a setup may form (open times, in bars)
  MaxAttempt,   \* bound: re-entries on one signal bar that are explored
  Prices,       \* distinguishable (entry, stop loss, take profit) triples
  None          \* "no such thing": Python's None

(* Bars are epoch seconds in the code, attempts are small counters: no     *)
(* attempt number is ever as large as a bar.                               *)
ASSUME BarAssumption ==
  /\ MaxAttempt \in Nat
  /\ SignalBars \subseteq Nat
  /\ \A b \in SignalBars : b > MaxAttempt

Links == [side : Sides, bar : SignalBars, attempt : 0..MaxAttempt]

VARIABLES
  status,     \* life cycle of each link id
  price,      \* the prices each working order carries
  position    \* None when flat, else the side of the net position

exchangeVars == <<status, price, position>>

(* "unknown" is a link id never accepted; "live" is an untriggered         *)
(* conditional order; "triggered" is the limit order it leaves behind.     *)
Statuses == {"unknown", "live", "triggered", "filled", "cancelled"}

(* None is different from everything it stands in for.                     *)
ASSUME NoneAssumption == None \notin Sides \cup Prices \cup Links \cup Statuses

Live    == {l \in Links : status[l] = "live"}
Working == {l \in Links : status[l] \in {"live", "triggered"}}

ExchangeTypeOK ==
  /\ status \in [Links -> Statuses]
  /\ price \in [Links -> Prices \cup {None}]
  /\ position \in Sides \cup {None}

ExchangeInit ==
  /\ status = [l \in Links |-> "unknown"]
  /\ price = [l \in Links |-> None]
  /\ position = None

---------------------------------------------------------------------------
(* What an accepted request does.                                          *)

(* A link id is accepted once only: a second use is ErrCode 110072.        *)
Accept(l, p) ==
  /\ status[l] = "unknown"
  /\ status' = [status EXCEPT ![l] = "live"]
  /\ price' = [price EXCEPT ![l] = p]
  /\ UNCHANGED position

AmendPrice(l, p) ==
  /\ status[l] = "live"
  /\ price' = [price EXCEPT ![l] = p]
  /\ UNCHANGED <<status, position>>

Cancel(l) ==
  /\ l \in Working
  /\ status' = [status EXCEPT ![l] = "cancelled"]
  /\ price' = [price EXCEPT ![l] = None]
  /\ UNCHANGED position

(* What a query by link id may answer: a working stop order is listed, a   *)
(* triggered one has left the stop-order book, a finished one may or may   *)
(* not still be listed with its final status.                              *)
QueryAnswers(l) ==
  CASE status[l] = "live" -> {"live"}
    [] status[l] \in {"triggered", "filled", "cancelled"} -> {status[l], None}
    [] OTHER -> {None}

---------------------------------------------------------------------------
(* What the market does to the orders, at any time.                        *)

Trigger(l) ==
  /\ status[l] = "live"
  /\ status' = [status EXCEPT ![l] = "triggered"]
  /\ UNCHANGED <<price, position>>

(* In one-way mode a fill opens or adds to the position; against an open   *)
(* position of the other side it reduces, closes or reverses it.           *)
Fill(l) ==
  /\ status[l] = "triggered"
  /\ status' = [status EXCEPT ![l] = "filled"]
  /\ position' \in IF position \in {None, l.side} THEN {l.side}
                   ELSE {None, position, l.side}
  /\ price' = [price EXCEPT ![l] = None]

(* The user, or the exchange itself, takes the order down.                 *)
OutsideCancel(l) == Cancel(l)

(* The attached stop loss or take profit, or the user, closes it.          *)
ClosePosition ==
  /\ position # None
  /\ position' = None
  /\ UNCHANGED <<status, price>>
===========================================================================
