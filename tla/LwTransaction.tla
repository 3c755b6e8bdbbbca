--------------------------- MODULE LwTransaction ---------------------------
(* The transactions of the LwM2M core: a confirmable request is sent again   *)
(* with a doubling interval until it is acknowledged, answered or given up,  *)
(* and its callback gets the answer, or NULL.                                *)
(*                                                                           *)
(* Times are relative: `left' is retrans_time less the present. Every request *)
(* of the core carries a token; here it is the message id, from which        *)
(* transaction_new makes it. A confirmable response is acknowledged whether  *)
(* or not somebody waits for it, which changes nothing here.                 *)
EXTENDS Naturals, Integers, FiniteSets, FiniteSetsExt

CONSTANTS
  Peers,
  MaxMid,            \* requests made
  MAX_RETRANSMIT, RESPONSE_TIMEOUT,
  MaxLate,           \* time by which lwm2m_step may come late
  MaxCon             \* confirmable responses each peer sends

ASSUME TransactionAssumption ==
  /\ MaxMid \in Nat /\ MAX_RETRANSMIT \in Nat /\ RESPONSE_TIMEOUT \in Nat \ {0}
  /\ MaxLate \in Nat /\ MaxCon \in Nat

VARIABLES transactionList, nextMID, sends, calls, denials, conSeen

lwtvars == <<transactionList, nextMID, sends, calls, denials, conSeen>>

Mids == 1..MaxMid

-----------------------------------------------------------------------------
(* transaction_send: the transaction as it is afterwards; "gone" says that   *)
(* its callback got NULL and that it was removed.                            *)

NewTransaction(mid, peer) ==
  [mID |-> mid, peerH |-> peer, ack_received |-> FALSE, counter |-> 0, left |-> 0,
   gone |-> FALSE]

\* As it would be if an acknowledged request waited for its answer for ever.
TransactionSendWaits(t) ==
  CASE t.ack_received -> [t EXCEPT !.left = 1]
    [] ~t.ack_received /\ t.counter = 0 ->
         [t EXCEPT !.left = RESPONSE_TIMEOUT, !.counter = 2]
    [] ~t.ack_received /\ t.counter \in 1..(MAX_RETRANSMIT + 1) ->
         [t EXCEPT !.left = @ + RESPONSE_TIMEOUT * 2 ^ (t.counter - 1),
                   !.counter = @ + 1]
    [] OTHER -> [t EXCEPT !.gone = TRUE]

TransactionSend(t) ==
  CASE t.ack_received -> [t EXCEPT !.gone = TRUE]
    [] ~t.ack_received /\ t.counter = 0 ->
         [t EXCEPT !.left = RESPONSE_TIMEOUT, !.counter = 2]
    [] ~t.ack_received /\ t.counter \in 1..(MAX_RETRANSMIT + 1) ->
         [t EXCEPT !.left = @ + RESPONSE_TIMEOUT * 2 ^ (t.counter - 1),
                   !.counter = @ + 1]
    [] OTHER -> [t EXCEPT !.gone = TRUE]

Transmits(t) == ~t.ack_received /\ t.counter <= MAX_RETRANSMIT + 1

-----------------------------------------------------------------------------
(* transaction_handleResponse. A message has a type, a message id, a token   *)
(* (0: none) and a code of interest: "unauthorized" or another.              *)

\* prv_checkFinished and the test of the message id.
Concerns(t, from, m) ==
  /\ t.peerH = from
  /\ \/ m.type \in {"ACK", "RST"} /\ ~t.ack_received /\ t.mID = m.mid
     \/ t.mID = m.token

\* An answer of 4.01 puts the transaction off while it may still be sent again.
PutOff(t, m) == m.code = "unauthorized" /\ m.token = t.mID /\ MAX_RETRANSMIT > t.counter

Finishes(t, m) == (m.type = "RST" \/ m.token = t.mID) /\ ~PutOff(t, m)

\* The transaction that a message concerns and does not finish.
Handled(t, m) ==
  IF PutOff(t, m) THEN [t EXCEPT !.ack_received = FALSE, !.left = @ + RESPONSE_TIMEOUT]
  ELSE [t EXCEPT !.ack_received = TRUE, !.left = RESPONSE_TIMEOUT * t.counter]

-----------------------------------------------------------------------------
LwtInit ==
  /\ transactionList = {} /\ nextMID = 1
  /\ sends = [m \in Mids |-> 0] /\ calls = [m \in Mids |-> 0]
  /\ denials = [m \in Mids |-> 0]
  /\ conSeen = [p \in Peers |-> 0]

\* transaction_new, the list and the first transaction_send. A message that
\* cannot be serialized leaves no transaction, and its callback is not called.
StartTransaction(peer, serializes) ==
  /\ nextMID <= MaxMid
  /\ nextMID' = nextMID + 1
  /\ IF serializes
     THEN /\ transactionList' = transactionList
                                \cup {TransactionSend(NewTransaction(nextMID, peer))}
          /\ sends' = [sends EXCEPT ![nextMID] = 1]
     ELSE UNCHANGED <<transactionList, sends>>
  /\ UNCHANGED <<calls, denials, conSeen>>

DueTransactions == {t \in transactionList : t.left <= 0}

\* transaction_step
TransactionStep ==
  /\ DueTransactions # {}
  /\ LET after == {TransactionSend(t) : t \in DueTransactions}
     IN /\ transactionList' = (transactionList \ DueTransactions) \cup {t \in after : ~t.gone}
        /\ sends' = [m \in Mids |->
                       IF \E t \in DueTransactions : t.mID = m /\ Transmits(t) THEN sends[m] + 1 ELSE sends[m]]
        /\ calls' = [m \in Mids |->
                       IF \E t \in after : t.mID = m /\ t.gone THEN calls[m] + 1 ELSE calls[m]]
  /\ UNCHANGED <<nextMID, denials, conSeen>>

\* Calls of the callback of the transaction that a message concerns.
Delivered(t, m) == IF Finishes(t, m) THEN 1 ELSE 0

\* lwm2m_handle_packet for anything that is not a request: the transaction
\* with the lowest message id that it concerns is the one that gets it.
HandleResponse(from, m) ==
  LET concerned == {t \in transactionList : Concerns(t, from, m)}
      first == CHOOSE t \in concerned : \A u \in concerned : t.mID <= u.mID
  IN /\ IF concerned = {} THEN UNCHANGED <<transactionList, calls>>
        ELSE /\ transactionList' = (transactionList \ {first})
                    \cup IF Finishes(first, m) THEN {} ELSE {Handled(first, m)}
             /\ calls' = [calls EXCEPT ![first.mID] = @ + Delivered(first, m)]
     /\ conSeen' = [conSeen EXCEPT ![from] = @ + (IF m.type = "CON" THEN 1 ELSE 0)]
     /\ UNCHANGED <<nextMID, sends>>

\* What a peer may send about a request: an empty acknowledgement, a reset, an
\* answer in the acknowledgement or apart, late and again too. It answers 4.01
\* at most once to each copy of the request.
Answers(mid, own) ==
  [type : {"ACK", "RST"}, mid : {mid}, token : {0}, code : {"empty"}]
  \cup [type : {"ACK"}, mid : {mid}, token : {mid}, code : {"ok", "unauthorized"}]
  \cup [type : {"NON"} \cup own, mid : {0}, token : {mid}, code : {"ok", "unauthorized"}]

Receive(from, mid, m) ==
  /\ mid < nextMID /\ sends[mid] > 0
  /\ m \in Answers(mid, IF conSeen[from] < MaxCon THEN {"CON"} ELSE {})
  /\ (m.code = "unauthorized" => denials[mid] < sends[mid])
  /\ denials' = [denials EXCEPT ![mid] = @ + (IF m.code = "unauthorized" THEN 1 ELSE 0)]
  /\ HandleResponse(from, m)

\* lwm2m_step runs when the first transaction is due, or at most MaxLate late.
LwtTick ==
  /\ transactionList # {} /\ \A t \in transactionList : t.left > -MaxLate
  /\ transactionList' = {[t EXCEPT !.left = @ - 1] : t \in transactionList}
  /\ UNCHANGED <<nextMID, sends, calls, denials, conSeen>>

LwtNext ==
  \/ \E p \in Peers, s \in BOOLEAN : StartTransaction(p, s)
  \/ TransactionStep
  \/ \E p \in Peers, mid \in Mids : \E m \in Answers(mid, {"CON"}) : Receive(p, mid, m)
  \/ LwtTick

LwtSpec == LwtInit /\ [][LwtNext]_lwtvars

-----------------------------------------------------------------------------

(* Properties.                                                               *)

\* The callback of every request that was sent is called in the end, and once
\* for all, when lwm2m_step is called in time (transaction_step,
\* transaction_handleResponse).
EveryEnds == \A m \in Mids : (sends[m] > 0) ~> [](calls[m] = 1)
=============================================================================
