---------------------------- MODULE TradeReport ----------------------------
(***************************************************************************)
(* scripts/reconstruct_pnl.py, source "ws": the trades that load_ws_closes *)
(* extracts from the journal that EventStream writes.                      *)
(***************************************************************************)
EXTENDS EventStream, FiniteSetsExt

(* last_cum is a dict: the baselines of the symbols that have one.         *)
Baseline(last, s, c) ==
  [x \in DOMAIN last \cup {s} |-> IF x = s THEN c ELSE last[x]]

(* Fault: the baseline moves on at a close only.                           *)
FaultBaselineAtClose(report, n) ==
  LET m == Event(n)
      known == m.symbol \in DOMAIN report.last
  IN IF m.topic # "position" THEN report
     ELSE [trades |-> IF m.size = 0 /\ known
                      THEN Append(report.trades,
                             [event |-> n, pnl |-> m.cum - report.last[m.symbol]])
                      ELSE report.trades,
           last |-> IF known /\ m.size # 0 THEN report.last
                    ELSE Baseline(report.last, m.symbol, m.cum)]

(* One record: a close is a trade if its symbol has a baseline, and every  *)
(* record of a position is the next baseline of its symbol.                *)
Extract(report, n) ==
  LET m == Event(n)
      trade == [event |-> n, pnl |-> m.cum - report.last[m.symbol]]
  IN IF m.topic # "position" THEN report
     ELSE [trades |-> IF m.size = 0 /\ m.symbol \in DOMAIN report.last
                      THEN Append(report.trades, trade) ELSE report.trades,
           last |-> Baseline(report.last, m.symbol, m.cum)]

(* The files' lines, in the order they were written.                       *)
Report ==
  LET after[i \in 0..Len(journal)] ==
        IF i = 0 THEN [trades |-> <<>>, last |-> <<>>]
        ELSE Extract(after[i - 1], journal[i])
  IN after[Len(journal)]

---------------------------------------------------------------------------
IsOf(n, s) == Event(n).topic = "position" /\ Event(n).symbol = s
Logged(n) == n \in Elements(journal)

(* The records of the same symbol that went before.                        *)
Before(n) == {k \in 1..(n - 1) : IsOf(k, Event(n).symbol)}

(* What event n's symbol realised after event k, up to and with n.         *)
RealisedSince(k, n) ==
  LET total[i \in k..n] ==
        IF i = k THEN 0
        ELSE total[i - 1] + (IF IsOf(i, Event(n).symbol) THEN sent[i].gain ELSE 0)
  IN total[n]

(* load_ws_closes is to give a trade "the delta across the close".  A close*)
(* is reported with all that its symbol realised since the newest earlier  *)
(* record of it in the journal: the close alone if that is the record sent *)
(* just before, otherwise also the funding, partial closes and whole trades*)
(* whose records are missing.  A close without an earlier record is left   *)
(* out, and nothing else is reported.                                      *)
ClosesRecovered ==
  LET trades == Report.trades
  IN /\ \A i \in 1..Len(trades) : Logged(trades[i].event) /\ IsClose(Event(trades[i].event))
     /\ \A n \in 1..Count :
          Logged(n) /\ IsClose(Event(n)) =>
            LET known == {k \in Before(n) : Logged(k)}
            IN IF known = {} THEN \A i \in 1..Len(trades) : trades[i].event # n
               ELSE \E i \in 1..Len(trades) :
                       trades[i] = [event |-> n, pnl |-> RealisedSince(Max(known), n)]
===========================================================================
