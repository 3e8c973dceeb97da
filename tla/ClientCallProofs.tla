-------------------------- MODULE ClientCallProofs --------------------------
(***************************************************************************)
(* Types, single execution and the refinement of RemoteCall, for any       *)
(* number of calls and retries.                                            *)
(***************************************************************************)
EXTENDS ClientCall, TLAPS

(* A request is out only while its call waits for it or was cancelled.     *)
OutInv == \A c \in Calls : request[c] = "out" => pc[c] \in {"calling", "cancelled"}

(* A placement has opened an order only if its link id is used.            *)
LinkInv == \A c \in Placements : opened[c] = IF Link(c) \in used THEN 1 ELSE 0

(* An answer of success, and a success, come from an effective request.    *)
SuccessInv ==
  \A c \in Calls :
     request[c] \in {"ok", "not_found"} \/ pc[c] = "ok" => c \in done

(* An effective request is answered so, or its answer is lost.             *)
AnswerInv ==
  \A c \in done \ lost : Successful(c) /\ pc[c] \in {"calling", "ok", "cancelled"}

IInv == TypeOK /\ OutInv /\ LinkInv /\ SuccessInv /\ AnswerInv

(* Calls keep their places, attempts stay within the limit.                *)
LEMMA TypeInit == Init => TypeOK
<1> SUFFICES ASSUME Init PROVE TypeOK
  OBVIOUS
<1>1. 1 \in 1..MaxRetries /\ 0 \in Nat
  BY MaxRetriesAssumption
<1>2. pc \in [Calls -> Places] /\ attempt \in [Calls -> 1..MaxRetries]
  BY <1>1 DEF Init, Places
<1>3. request \in [Calls -> {"none", "out"} \cup Answers] /\ opened \in [Calls -> Nat]
  BY <1>1 DEF Init
<1>4. live \in SUBSET Calls /\ used \in SUBSET Calls
  BY DEF Init, Calls
<1>5. done \in SUBSET Calls /\ lost \in SUBSET Calls
  BY DEF Init
<1> QED BY <1>2, <1>3, <1>4, <1>5 DEF TypeOK

(* Nothing has been sent.                                                  *)
LEMMA InvInit == Init => IInv
<1> SUFFICES ASSUME Init PROVE IInv
  OBVIOUS
<1>1. TypeOK
  BY TypeInit
<1>2. OutInv /\ AnswerInv
  BY DEF Init, OutInv, AnswerInv
<1>3. SuccessInv
  BY DEF Init, SuccessInv
<1>4. LinkInv
  BY CallsAssumption DEF Init, LinkInv, Link, Calls
<1> QED BY <1>1, <1>2, <1>3, <1>4 DEF IInv

(* The coroutine moves: nothing changes at the exchange.                   *)
LEMMA CoroutineStep ==
  ASSUME IInv, NEW c \in Calls, Begin(c) \/ Client(c) \/ CancelTask(c)
  PROVE  IInv'
<1> USE DEF IInv, TypeOK, Moves, exchange, history
<1>1. CASE Begin(c)
  <2>1. TypeOK' BY <1>1 DEF Begin, Places
  <2>2. OutInv' /\ LinkInv' BY <1>1 DEF Begin, OutInv, LinkInv, Link
  <2>3. SuccessInv' /\ AnswerInv'
    BY <1>1 DEF Begin, SuccessInv, AnswerInv, Successful
  <2> QED BY <2>1, <2>2, <2>3
<1>2. CASE Send(c)
  <2>1. TypeOK' BY <1>2 DEF Send, Places
  <2>2. OutInv' /\ LinkInv' BY <1>2 DEF Send, OutInv, LinkInv, Link
  <2>3. SuccessInv' /\ AnswerInv'
    BY <1>2 DEF Send, SuccessInv, AnswerInv, Successful
  <2> QED BY <2>1, <2>2, <2>3
<1>3. CASE Return(c)
  <2>1. TypeOK' BY <1>3 DEF Return, Places, Ended
  <2>2. OutInv' /\ LinkInv'
    BY <1>3 DEF Return, OutInv, LinkInv, Link, Successful
  <2>3. SuccessInv' /\ AnswerInv'
    BY <1>3 DEF Return, SuccessInv, AnswerInv, Successful
  <2> QED BY <2>1, <2>2, <2>3
<1>4. CASE Raise(c)
  <2>1. TypeOK' BY <1>4 DEF Raise, Places, Ended
  <2>2. OutInv' /\ LinkInv' BY <1>4 DEF Raise, OutInv, LinkInv, Link, Final
  <2>3. SuccessInv' /\ AnswerInv'
    BY <1>4 DEF Raise, SuccessInv, AnswerInv, Successful
  <2> QED BY <2>1, <2>2, <2>3
<1>5. CASE BackOff(c)
  <2>1. TypeOK' BY <1>5 DEF BackOff, Places
  <2>2. OutInv' /\ LinkInv'
    BY <1>5 DEF BackOff, OutInv, LinkInv, Link, Transient
  <2>3. SuccessInv' /\ AnswerInv'
    BY <1>5 DEF BackOff, SuccessInv, AnswerInv, Successful, Transient
  <2> QED BY <2>1, <2>2, <2>3
<1>6. CASE Retry(c)
  <2>1. attempt[c] + 1 \in 1..MaxRetries BY <1>6, MaxRetriesAssumption DEF Retry
  <2>2. TypeOK' BY <1>6, <2>1 DEF Retry, Places
  <2>3. OutInv' /\ LinkInv' BY <1>6 DEF Retry, OutInv, LinkInv, Link
  <2>4. SuccessInv' /\ AnswerInv'
    BY <1>6 DEF Retry, SuccessInv, AnswerInv, Successful
  <2> QED BY <2>2, <2>3, <2>4
<1>7. CASE GiveUp(c)
  <2>1. TypeOK' BY <1>7 DEF GiveUp, Places, Ended
  <2>2. OutInv' /\ LinkInv' BY <1>7 DEF GiveUp, OutInv, LinkInv, Link
  <2>3. SuccessInv' /\ AnswerInv'
    BY <1>7 DEF GiveUp, SuccessInv, AnswerInv, Successful
  <2> QED BY <2>1, <2>2, <2>3
<1>8. CASE CancelTask(c)
  <2>1. TypeOK' BY <1>8 DEF CancelTask, Places, Ended
  <2>2. OutInv' /\ LinkInv' BY <1>8 DEF CancelTask, OutInv, LinkInv, Link
  <2>3. SuccessInv' /\ AnswerInv'
    BY <1>8 DEF CancelTask, SuccessInv, AnswerInv, Successful
  <2> QED BY <2>1, <2>2, <2>3
<1> QED BY <1>1, <1>2, <1>3, <1>4, <1>5, <1>6, <1>7, <1>8 DEF Client

(* What an effective request leaves behind, whatever it did.               *)
LEMMA EffectiveStep ==
  ASSUME IInv, NEW c \in Calls, NEW yes \in {"ok", "not_found"}, Effective(c, yes),
         yes = "not_found" => c \in Cancels
  PROVE  /\ pc' \in [Calls -> Places] /\ attempt' \in [Calls -> 1..MaxRetries]
         /\ request' \in [Calls -> {"none", "out"} \cup Answers]
         /\ done' \in SUBSET Calls /\ lost' \in SUBSET Calls
         /\ OutInv' /\ SuccessInv' /\ AnswerInv'
<1> USE DEF IInv, TypeOK
<1>1. PICK a \in {yes, "network", "pybit"} :
        Answer(c, a) /\ (a = yes \/ lost' = lost \cup {c})
      /\ lost \subseteq lost' /\ lost' \subseteq lost \cup {c}
  BY DEF Effective
<1>2. pc' = pc /\ attempt' = attempt /\ done' = done \cup {c}
  BY DEF Effective
<1>3. a \in Answers
  BY DEF Answers, Transient, Final
<1>4. request' \in [Calls -> {"none", "out"} \cup Answers]
  BY <1>1, <1>3 DEF Answer
<1>5. done' \in SUBSET Calls /\ lost' \in SUBSET Calls
  BY <1>1, <1>2
<1>6. OutInv' /\ SuccessInv'
  BY <1>1, <1>2 DEF OutInv, SuccessInv, Answer
<1>7. pc[c] \in {"calling", "cancelled"}
  BY <1>1 DEF Answer, OutInv
<1>8. AnswerInv'
  <2> SUFFICES ASSUME NEW k \in done' \ lost'
               PROVE  Successful(k)' /\ pc'[k] \in {"calling", "ok", "cancelled"}
    BY DEF AnswerInv
  <2>1. CASE k = c
    BY <1>1, <1>2, <1>7, <2>1 DEF Answer, Successful
  <2>2. CASE k # c
    BY <1>1, <1>2, <1>5, <2>2 DEF Answer, Successful, AnswerInv
  <2> QED BY <2>1, <2>2
<1> QED BY <1>2, <1>4, <1>5, <1>6, <1>8

(* Bybit serves a request, or an order vanishes by itself.                 *)
LEMMA ServeStep ==
  ASSUME IInv, NEW c \in Calls, Serve(c) \/ Vanish(c)
  PROVE  IInv'
<1> USE DEF IInv, TypeOK
<1>1. CASE Place(c)
  <2>1. Effective(c, "ok") BY <1>1 DEF Place
  <2>2. live' \in SUBSET Calls /\ used' \in SUBSET Calls /\ opened' \in [Calls -> Nat]
    BY <1>1 DEF Place, Link
  <2>3. LinkInv'
    BY <1>1 DEF Place, LinkInv, Link, Calls
  <2> QED BY <2>1, <2>2, <2>3, EffectiveStep
<1>2. CASE CancelLive(c)
  <2>1. Effective(c, "ok") BY <1>2 DEF CancelLive
  <2>2. live' \in SUBSET Calls BY <1>2 DEF CancelLive
  <2>3. LinkInv' BY <1>2 DEF CancelLive, LinkInv, Link
  <2> QED BY <1>2, <2>1, <2>2, <2>3, EffectiveStep DEF CancelLive
<1>3. CASE CancelGone(c)
  <2>1. Effective(c, "not_found") /\ c \in Cancels BY <1>3 DEF CancelGone
  <2>2. LinkInv' BY <1>3 DEF CancelGone, LinkInv, Link, exchange
  <2> QED BY <1>3, <2>1, <2>2, EffectiveStep DEF CancelGone, exchange
<1>4. CASE Refuse(c)
  <2>1. PICK a \in Answers \ {"ok", "not_found"} : Answer(c, a)
    BY <1>4 DEF Refuse
  <2>2. a # "out"
    BY DEF Answers, Transient, Final
  <2>3. TypeOK'
    BY <1>4, <2>1 DEF Refuse, Answer, exchange, history
  <2>4. OutInv' /\ LinkInv'
    BY <1>4, <2>1, <2>2 DEF Refuse, Answer, OutInv, LinkInv, Link, exchange, history
  <2>5. SuccessInv' /\ AnswerInv'
    BY <1>4, <2>1, <2>2
    DEF Refuse, Answer, SuccessInv, AnswerInv, Successful, exchange, history
  <2> QED BY <2>3, <2>4, <2>5
<1>5. CASE Vanish(c)
  <2>1. TypeOK' BY <1>5 DEF Vanish, history
  <2>2. OutInv' /\ LinkInv' BY <1>5 DEF Vanish, OutInv, LinkInv, Link, history
  <2>3. SuccessInv' /\ AnswerInv'
    BY <1>5 DEF Vanish, SuccessInv, AnswerInv, Successful, history
  <2> QED BY <2>1, <2>2, <2>3
<1> QED BY <1>1, <1>2, <1>3, <1>4, <1>5 DEF Serve

(* A stutter changes nothing the invariant speaks of.                      *)
LEMMA InvStutter == IInv /\ UNCHANGED vars => IInv'
<1> SUFFICES ASSUME IInv, UNCHANGED vars PROVE IInv'
  OBVIOUS
<1> USE DEF IInv, vars, exchange, history
<1>1. TypeOK' BY DEF TypeOK
<1>2. OutInv' /\ LinkInv' BY DEF OutInv, LinkInv, Link
<1>3. SuccessInv' /\ AnswerInv' BY DEF SuccessInv, AnswerInv, Successful
<1> QED BY <1>1, <1>2, <1>3

(* The invariant is inductive.                                             *)
LEMMA InvStep == IInv /\ [Next]_vars => IInv'
BY CoroutineStep, ServeStep, InvStutter DEF Next

(* The invariant holds in every reachable state.                           *)
LEMMA InvCorrect == Spec => []IInv
BY InvInit, InvStep, PTL DEF Spec

(* Every variable of the calls keeps its range, attempts their limit.      *)
THEOREM TypeCorrect == Spec => []TypeOK
<1>1. IInv => TypeOK
  BY DEF IInv
<1> QED BY <1>1, InvCorrect, PTL

(* Retries never open a second order.                                      *)
THEOREM OneOrderCorrect == Spec => []OneOrder
<1>1. IInv => OneOrder
  <2> SUFFICES ASSUME IInv, NEW c \in Placements PROVE opened[c] <= 1
    BY DEF OneOrder
  <2>1. opened[c] = 1 \/ opened[c] = 0
    BY DEF IInv, LinkInv
  <2> QED BY <2>1
<1> QED BY <1>1, InvCorrect, PTL

(* A raised call that was effective has lost an answer.                    *)
THEOREM FailureExplainedCorrect == Spec => []FailureExplained
<1>1. IInv => FailureExplained
  BY DEF IInv, AnswerInv, FailureExplained
<1> QED BY <1>1, InvCorrect, PTL

---------------------------------------------------------------------------
(* Every step of the client and of Bybit is one of RemoteCall, or none.    *)
LEMMA RemoteStep ==
  ASSUME IInv, [Next]_vars
  PROVE  [Remote!Next]_<<Outcome, done>>
<1> USE DEF IInv, TypeOK, exchange, history
<1>1. CASE UNCHANGED vars
  BY <1>1 DEF vars, Outcome
<1>2. ASSUME NEW c \in Calls, Begin(c) \/ Send(c) \/ BackOff(c) \/ Retry(c) \/ Vanish(c)
      PROVE  UNCHANGED <<Outcome, done>>
  <2>1. UNCHANGED done
    BY <1>2 DEF Begin, Send, BackOff, Retry, Vanish
  <2>2. \A k \in Calls : pc'[k] = pc[k] \/ (pc[k] \notin Ended /\ pc'[k] \notin Ended)
    BY <1>2 DEF Begin, Send, BackOff, Retry, Vanish, Moves, Ended
  <2> QED BY <2>1, <2>2 DEF Outcome
<1>3. ASSUME NEW c \in Calls, NEW how \in Ended, UNCHANGED done,
             pc[c] \notin Ended, pc' = [pc EXCEPT ![c] = how],
             how = "ok" => c \in done
      PROVE  Remote!Next
  <2>1. Outcome[c] = "open"
    BY <1>3 DEF Outcome
  <2>2. Outcome' = [Outcome EXCEPT ![c] = how]
    BY <1>3 DEF Outcome
  <2>3. Remote!Ends(c, how)
    BY <1>3, <2>1, <2>2 DEF Remote!Ends
  <2> QED BY <2>3 DEF Remote!Next, Ended
<1>4. ASSUME NEW c \in Calls, Return(c) PROVE Remote!Next
  <2>1. c \in done
    BY <1>4 DEF Return, Successful, SuccessInv
  <2> QED BY <1>3, <1>4, <2>1 DEF Return, Moves, Ended
<1>5. ASSUME NEW c \in Calls, Raise(c) \/ GiveUp(c) PROVE Remote!Next
  BY <1>3, <1>5 DEF Raise, GiveUp, Moves, Ended
<1>6. ASSUME NEW c \in Calls, CancelTask(c) PROVE Remote!Next
  BY <1>3, <1>6 DEF CancelTask, Ended
<1>7. ASSUME NEW c \in Calls, Serve(c) PROVE [Remote!Next]_<<Outcome, done>>
  <2>1. request[c] = "out" /\ pc' = pc
    BY <1>7 DEF Serve, Place, CancelLive, CancelGone, Refuse, Effective, Answer
  <2>2. done' = done \/ done' = done \cup {c}
    BY <1>7 DEF Serve, Place, CancelLive, CancelGone, Refuse, Effective
  <2>3. Outcome[c] \in {"open", "cancelled"} /\ Outcome' = Outcome
    BY <2>1 DEF OutInv, Outcome, Ended
  <2>4. CASE done' = done
    BY <2>3, <2>4
  <2>5. CASE done' = done \cup {c}
    BY <2>3, <2>5 DEF Remote!TakesEffect, Remote!Next
  <2> QED BY <2>2, <2>4, <2>5
<1> QED BY <1>1, <1>2, <1>4, <1>5, <1>6, <1>7 DEF Next, Client

(* What OrderBot and Scalper assume of an answer is what the client gives: *)
(* ClientCall implements RemoteCall.                                       *)
THEOREM RemoteRefined == Spec => ImplementsRemote
<1>1. Init => Remote!Init
  BY DEF Init, Remote!Init, Outcome, Ended
<1>2. IInv /\ [Next]_vars => [Remote!Next]_<<Outcome, done>>
  BY RemoteStep
<1> QED BY <1>1, <1>2, InvCorrect, PTL DEF Spec, ImplementsRemote, Remote!Spec
=============================================================================
