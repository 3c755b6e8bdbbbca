------------------------ MODULE CoapMessagingProofs ------------------------
(***************************************************************************)
(* Machine-checked proofs about CoapMessaging, for any sets of sessions    *)
(* and messages, any NSTART > 0 and any MaxRetransmit.                     *)
(***************************************************************************)
EXTENDS CoapMessagingWindow, InductionFacts

-----------------------------------------------------------------------------
(* Facts about the helpers.                                                *)

\* Sets of messages are finite, so their cardinalities are natural numbers.
LEMMA MsgSetFinite ==
  ASSUME NEW S \in SUBSET Msg
  PROVE  IsFiniteSet(S) /\ Cardinality(S) \in Nat
BY FS_Subset, FS_CardinalityType, MsgAssumption

\* What a prefix of a delay queue contains.
LEMMA PrefixFacts ==
  ASSUME NEW q \in Seq(Msg), NEW n \in 0..Len(q)
  PROVE  /\ ConPrefix(q, n) \subseteq Con
         /\ ConPrefix(q, n) \subseteq Msg
         /\ Prefix(q, n) \subseteq Msg
         /\ ConPrefix(q, n) = Prefix(q, n) \cap Con
         /\ Cardinality(ConPrefix(q, n)) \in Nat
         /\ SubSeq(q, n + 1, Len(q)) \in Seq(Msg)
<1>1. ConPrefix(q, n) \subseteq Con
  BY DEF ConPrefix
<1>2. Prefix(q, n) \subseteq Msg
  BY DEF Prefix
<1>3. ConPrefix(q, n) = Prefix(q, n) \cap Con
  BY DEF Prefix, ConPrefix
<1>4. SubSeq(q, n + 1, Len(q)) \in Seq(Msg)
  OBVIOUS
<1> QED BY <1>1, <1>2, <1>3, <1>4, MsgSetFinite, MsgAssumption

\* An empty prefix.
LEMMA PrefixEmpty ==
  ASSUME NEW q \in Seq(Msg)
  PROVE  /\ ConPrefix(q, 0) = {}
         /\ Cardinality(ConPrefix(q, 0)) = 0
         /\ SubSeq(q, 1, Len(q)) = q
<1>1. ConPrefix(q, 0) = {}
  BY DEF ConPrefix
<1>2. SubSeq(q, 1, Len(q)) = q
  OBVIOUS
<1> QED BY <1>1, <1>2, FS_EmptySet

-----------------------------------------------------------------------------
(* Types.                                                                  *)

\* A record of conclusions that Settle may be given.
Conclusions(out) == \A m \in DOMAIN out : out[m] \in Outcomes

\* The variables Settle assigns keep their types.
LEMMA SettleType ==
  ASSUME TypeOK,
         NEW s \in Session, NEW st \in States, NEW used \in Nat,
         NEW sq \in SUBSET Con, NEW dq \in Seq(Msg), NEW r \in Int,
         NEW out, Conclusions(out),
         Settle(s, st, used, sq, dq, r, out)
  PROVE  /\ state' \in [Session -> States]
         /\ con_active' \in [Session -> Nat]
         /\ delayqueue' \in [Session -> Seq(Msg)]
         /\ sendqueue' \subseteq Con
         /\ ref' \in [Session -> Int]
         /\ freed' \subseteq Session
         /\ outcome' \in [Msg -> Outcomes]
<1>1. state' \in [Session -> States] /\ con_active' \in [Session -> Nat]
  BY DEF TypeOK, Settle
<1>2. sendqueue' \subseteq Con /\ ref' \in [Session -> Int]
  BY DEF TypeOK, Settle
<1>3. delayqueue' \in [Session -> Seq(Msg)]
  <2>1. (IF r = 0 THEN << >> ELSE dq) \in Seq(Msg)
    OBVIOUS
  <2> QED BY <2>1 DEF TypeOK, Settle
<1>4. freed' \subseteq Session
  BY DEF TypeOK, Settle
<1>5. outcome' \in [Msg -> Outcomes]
  BY DEF TypeOK, Settle, Outcomes, Final, Conclusions
<1> QED BY <1>1, <1>2, <1>3, <1>4, <1>5

\* So does the transmission counter.
LEMMA TxOnceType ==
  ASSUME TypeOK, NEW ms, TxOnce(ms)
  PROVE  tx' \in [Msg -> Nat]
BY DEF TypeOK, TxOnce

\* con_active after a decrement.
LEMMA DecrementedType ==
  ASSUME TypeOK, NEW s \in Session
  PROVE  /\ Decremented(s) \in Nat
         /\ Decremented(s) <= con_active[s]
         /\ con_active[s] > 0 => Decremented(s) = con_active[s] - 1
         /\ con_active[s] = 0 => Decremented(s) = 0
BY DEF TypeOK, Decremented

\* A handler that concludes a message keeps every type.
LEMMA ConcludeType ==
  ASSUME TypeOK,
         NEW m \in Msg, NEW o \in Outcomes, NEW used \in Nat,
         NEW flush \in BOOLEAN, NEW n \in 0..Len(delayqueue[SessionOf[m]]),
         NEW err \in BOOLEAN, NEW cancel \in BOOLEAN,
         Conclude(m, o, used, flush, n, err, cancel),
         last_ping_mid' \in [Session -> Ping \cup {NoMsg}]
  PROVE  TypeOK'
<1> DEFINE s == SessionOf[m]
           q == delayqueue[s]
           cs == ConPrefix(q, n)
           sq == sendqueue \cup cs
           gone == {x \in sq : x = m \/ (cancel /\ x \in TokenMates(sq, m))}
           out == [x \in gone \cup (Prefix(q, n) \ Con) |->
                   IF x = m THEN o
                   ELSE IF x \in gone THEN "answered"
                   ELSE IF x \in Transmitted(q, n, err) THEN "sent"
                   ELSE "dropped"]
<1>1. s \in Session /\ q \in Seq(Msg)
  BY SessionAssumption DEF TypeOK
<1>2. /\ cs \subseteq Con
      /\ Cardinality(cs) \in Nat
      /\ SubSeq(q, n + 1, Len(q)) \in Seq(Msg)
  BY <1>1, PrefixFacts
<1>3. sq \subseteq Con /\ gone \subseteq Msg
  BY <1>2, MsgAssumption DEF TypeOK
<1>4. Cardinality(gone) \in Nat
  BY <1>3, MsgSetFinite
<1>5. Conclusions(out)
  BY DEF Outcomes, Final, Conclusions
<1>6. /\ Settle(s, state[s], used + Cardinality(cs), sq \ gone,
                SubSeq(q, n + 1, Len(q)),
                ref[s] + Cardinality(cs) - Cardinality(gone), out)
      /\ TxOnce(Transmitted(q, n, err))
      /\ UNCHANGED <<retransmit_cnt, app>>
  BY DEF Conclude
<1>7. /\ state[s] \in States
      /\ used + Cardinality(cs) \in Nat
      /\ sq \ gone \in SUBSET Con
      /\ ref[s] + Cardinality(cs) - Cardinality(gone) \in Int
  BY <1>1, <1>2, <1>3, <1>4, SMTT(60) DEF TypeOK
<1> HIDE DEF s, q, cs, sq, gone, out
<1>8. /\ state' \in [Session -> States]
      /\ con_active' \in [Session -> Nat]
      /\ delayqueue' \in [Session -> Seq(Msg)]
      /\ sendqueue' \subseteq Con
      /\ ref' \in [Session -> Int]
      /\ freed' \subseteq Session
      /\ outcome' \in [Msg -> Outcomes]
  BY <1>1, <1>2, <1>5, <1>6, <1>7, SettleType
<1>9. tx' \in [Msg -> Nat]
  BY <1>6, TxOnceType
<1> QED BY <1>6, <1>8, <1>9 DEF TypeOK

\* One type-correct record of outcomes.
LEMMA AllType ==
  ASSUME NEW ms, NEW o \in Outcomes
  PROVE  /\ DOMAIN All(ms, o) = ms
         /\ \A m \in ms : All(ms, o)[m] = o
         /\ Conclusions(All(ms, o))
BY DEF All, Conclusions

\* The record that concludes nothing.
LEMMA NoneType == DOMAIN None = {} /\ Conclusions(None)
BY DEF None, All, Conclusions

\* Every action keeps the types.
LEMMA TypeStep == TypeOK /\ [Next]_vars => TypeOK'
<1> SUFFICES ASSUME TypeOK, [Next]_vars PROVE TypeOK'
  OBVIOUS
<1> USE SessionAssumption, MsgAssumption, BoundAssumption
<1>a. /\ {"idle", "pending", "sent", "refused", "acked", "rst", "pong",
          "answered", "retries", "closed", "dropped", "clobbered"}
            \subseteq Outcomes
      /\ {"NONE", "HANDSHAKE", "ESTABLISHED"} \subseteq States
  BY DEF Outcomes, Final, States
<1>b. \A s \in Session : /\ delayqueue[s] \in Seq(Msg)
                         /\ state[s] \in States
                         /\ con_active[s] \in Nat
                         /\ ref[s] \in Int
                         /\ Decremented(s) \in Nat
                         /\ StateAfterDisconnect(s) \in States
                         /\ Flushes(s) \in BOOLEAN
  BY <1>a, DecrementedType DEF TypeOK, StateAfterDisconnect, Flushes
<1>1. CASE UNCHANGED vars
  BY <1>1 DEF TypeOK, vars
<1>2. ASSUME NEW m \in Msg, SendNow(m) \/ SendDelayed(m)
      PROVE  /\ state' \in [Session -> States]
             /\ con_active' \in [Session -> Nat]
             /\ delayqueue' \in [Session -> Seq(Msg)]
             /\ sendqueue' \subseteq Con
             /\ ref' \in [Session -> Int]
             /\ freed' \subseteq Session
             /\ outcome' \in [Msg -> Outcomes]
             /\ tx' \in [Msg -> Nat]
  <2> DEFINE s == SessionOf[m]
  <2>1. s \in Session
    OBVIOUS
  <2>2. CASE SendNow(m) /\ m \in Con
    <3>1. /\ Settle(s, state[s], con_active[s] + 1, sendqueue \cup {m},
                    delayqueue[s], ref[s] + 1, All({m}, "pending"))
          /\ TxOnce({m})
      BY <2>2 DEF SendNow
    <3>2. /\ con_active[s] + 1 \in Nat
          /\ sendqueue \cup {m} \in SUBSET Con
          /\ ref[s] + 1 \in Int
      BY <2>1, <2>2, <1>b DEF TypeOK
    <3>3. Conclusions(All({m}, "pending"))
      BY <1>a, AllType
    <3> QED BY <3>1, <3>2, <3>3, <2>1, <1>b, SettleType, TxOnceType
  <2>3. CASE SendNow(m) /\ m \notin Con
    <3>1. /\ Settle(s, state[s], con_active[s], sendqueue,
                    delayqueue[s], ref[s], All({m}, "sent"))
          /\ TxOnce({m})
      BY <2>3 DEF SendNow
    <3>2. sendqueue \in SUBSET Con
      BY DEF TypeOK
    <3>3. Conclusions(All({m}, "sent"))
      BY <1>a, AllType
    <3> QED BY <3>1, <3>2, <3>3, <2>1, <1>b, SettleType, TxOnceType
  <2>4. CASE SendDelayed(m)
    <3> DEFINE st == IF state[s] = "NONE" THEN "HANDSHAKE" ELSE state[s]
    <3>1. /\ Settle(s, st, con_active[s], sendqueue,
                    Append(delayqueue[s], m), ref[s], All({m}, "pending"))
          /\ UNCHANGED tx
      BY <2>4 DEF SendDelayed
    <3>2. /\ sendqueue \in SUBSET Con
          /\ st \in States
          /\ Append(delayqueue[s], m) \in Seq(Msg)
      BY <2>1, <1>a, <1>b DEF TypeOK
    <3> HIDE DEF st
    <3>3. tx' \in [Msg -> Nat]
      BY <3>1 DEF TypeOK
    <3>4. Conclusions(All({m}, "pending"))
      BY <1>a, AllType
    <3> QED BY <3>1, <3>2, <3>3, <3>4, <2>1, <1>b, SettleType
  <2> QED BY <1>2, <2>2, <2>3, <2>4
<1>3. ASSUME NEW m \in Msg, Send(m) PROVE TypeOK'
  <2>1. CASE SendNow(m) \/ SendDelayed(m)
    BY <1>2, <1>3, <2>1 DEF Send, TypeOK
  <2>2. CASE SendRefused(m)
    BY <1>3, <2>2, <1>a DEF Send, SendRefused, TypeOK
  <2> QED BY <1>3, <2>1, <2>2 DEF Send
<1>4. ASSUME NEW m \in Msg, KeepAlivePing(m) PROVE TypeOK'
  <2>1. SendNow(m) \/ SendDelayed(m)
    BY <1>4 DEF KeepAlivePing
  <2> QED BY <1>4, <1>2, <2>1 DEF KeepAlivePing, TypeOK
<1>5. ASSUME NEW s \in Session, NEW refused \in SUBSET Msg,
             Disconnected(s, refused)
      PROVE  TypeOK'
  <2> DEFINE q == delayqueue[s]
             out == [m \in NodesOf(s) \cup Prefix(q, Len(q)) \cup refused |->
                       IF m \in refused THEN "refused"
                       ELSE IF m \in Con THEN "closed" ELSE "dropped"]
  <2>1. /\ Settle(s, StateAfterDisconnect(s), 0, sendqueue \ NodesOf(s),
                  << >>, ref[s] - Cardinality(NodesOf(s)), out)
        /\ UNCHANGED <<retransmit_cnt, app, last_ping_mid, tx>>
    BY <1>5 DEF Disconnected
  <2>2. Cardinality(NodesOf(s)) \in Nat
    BY MsgSetFinite DEF NodesOf, TypeOK
  <2>3. /\ sendqueue \ NodesOf(s) \in SUBSET Con
        /\ ref[s] - Cardinality(NodesOf(s)) \in Int
        /\ << >> \in Seq(Msg)
    BY <2>2, <1>b DEF TypeOK
  <2>4. Conclusions(out)
    BY <1>a DEF Conclusions
  <2> HIDE DEF out
  <2>5. /\ state' \in [Session -> States]
        /\ con_active' \in [Session -> Nat]
        /\ delayqueue' \in [Session -> Seq(Msg)]
        /\ sendqueue' \subseteq Con
        /\ ref' \in [Session -> Int]
        /\ freed' \subseteq Session
        /\ outcome' \in [Msg -> Outcomes]
    BY <2>1, <2>3, <2>4, <1>b, SettleType
  <2> QED BY <2>1, <2>5 DEF TypeOK
<1>6. ASSUME NEW s \in Session, Close(s) \/ KeepAliveFails(s) PROVE TypeOK'
  BY <1>5, <1>6 DEF Close, KeepAliveFails
<1>7. ASSUME NEW s \in Session, IcmpError(s) PROVE TypeOK'
  <2> DEFINE q == delayqueue[s]
             cs == ConPrefix(q, Len(q))
             out == All(Prefix(q, Len(q)) \ Con, "dropped")
  <2>1. /\ Settle(s, StateAfterDisconnect(s), 0, sendqueue \cup cs, << >>,
                  ref[s] + Cardinality(cs), out)
        /\ UNCHANGED <<retransmit_cnt, app, last_ping_mid, tx>>
    BY <1>7 DEF IcmpError
  <2>2. Len(q) \in 0..Len(q) /\ q \in Seq(Msg)
    BY <1>b
  <2>3. cs \subseteq Con /\ Cardinality(cs) \in Nat
    BY <2>2, PrefixFacts
  <2>4. /\ sendqueue \cup cs \in SUBSET Con
        /\ ref[s] + Cardinality(cs) \in Int
        /\ << >> \in Seq(Msg)
    BY <2>3, <1>b DEF TypeOK
  <2>5. Conclusions(out)
    BY <1>a, AllType
  <2> HIDE DEF cs, out
  <2>6. /\ state' \in [Session -> States]
        /\ con_active' \in [Session -> Nat]
        /\ delayqueue' \in [Session -> Seq(Msg)]
        /\ sendqueue' \subseteq Con
        /\ ref' \in [Session -> Int]
        /\ freed' \subseteq Session
        /\ outcome' \in [Msg -> Outcomes]
    BY <2>1, <2>4, <2>5, <1>b, SettleType
  <2> QED BY <2>1, <2>6 DEF TypeOK
<1>8. ASSUME NEW s \in Session, HandshakeDone(s) PROVE TypeOK'
  <2>1. PICK n \in 0..Len(delayqueue[s]), err \in BOOLEAN :
          /\ Settle(s, "ESTABLISHED",
                    con_active[s] + Cardinality(ConPrefix(delayqueue[s], n)),
                    sendqueue \cup ConPrefix(delayqueue[s], n),
                    SubSeq(delayqueue[s], n + 1, Len(delayqueue[s])),
                    ref[s] + Cardinality(ConPrefix(delayqueue[s], n)),
                    [m \in Prefix(delayqueue[s], n) \ Con |->
                       IF m \in Transmitted(delayqueue[s], n, err) THEN "sent"
                       ELSE "dropped"])
          /\ TxOnce(Transmitted(delayqueue[s], n, err))
    BY <1>8 DEF HandshakeDone
  <2> DEFINE q == delayqueue[s]
             cs == ConPrefix(q, n)
             out == [m \in Prefix(q, n) \ Con |->
                       IF m \in Transmitted(q, n, err) THEN "sent"
                       ELSE "dropped"]
  <2>2. /\ cs \subseteq Con
        /\ Cardinality(cs) \in Nat
        /\ SubSeq(q, n + 1, Len(q)) \in Seq(Msg)
    BY <1>b, PrefixFacts
  <2>3. /\ con_active[s] + Cardinality(cs) \in Nat
        /\ sendqueue \cup cs \in SUBSET Con
        /\ ref[s] + Cardinality(cs) \in Int
    BY <2>2, <1>b DEF TypeOK
  <2>4. Conclusions(out)
    BY <1>a DEF Conclusions
  <2>5. Settle(s, "ESTABLISHED", con_active[s] + Cardinality(cs),
               sendqueue \cup cs, SubSeq(q, n + 1, Len(q)),
               ref[s] + Cardinality(cs), out)
    BY <2>1
  <2> HIDE DEF cs, out, q
  <2>6. /\ state' \in [Session -> States]
        /\ con_active' \in [Session -> Nat]
        /\ delayqueue' \in [Session -> Seq(Msg)]
        /\ sendqueue' \subseteq Con
        /\ ref' \in [Session -> Int]
        /\ freed' \subseteq Session
        /\ outcome' \in [Msg -> Outcomes]
    BY <2>2, <2>3, <2>4, <2>5, <1>a, SettleType
  <2>7. tx' \in [Msg -> Nat]
    BY <2>1, TxOnceType
  <2> QED BY <2>6, <2>7, <1>8 DEF TypeOK, HandshakeDone
<1>9. ASSUME NEW m \in Msg, Retransmit(m) PROVE TypeOK'
  <2> DEFINE s == SessionOf[m]
             st == IF state[s] = "NONE" THEN "HANDSHAKE" ELSE state[s]
             out == IF ref[s] = 1 THEN All({m}, "clobbered") ELSE None
  <2>1. /\ s \in Session
        /\ sendqueue \in SUBSET Con
        /\ sendqueue \ {m} \in SUBSET Con
        /\ st \in States
        /\ Decremented(s) + 1 \in Nat
        /\ Append(delayqueue[s], m) \in Seq(Msg)
        /\ ref[s] - 1 \in Int
    BY <1>a, <1>b DEF TypeOK
  <2>2. Conclusions(out)
    BY <1>a, AllType, NoneType
  <2>3. \/ /\ Settle(s, state[s], Decremented(s) + 1, sendqueue,
                     delayqueue[s], ref[s], None)
           /\ TxOnce({m})
        \/ /\ Settle(s, state[s], Decremented(s), sendqueue, delayqueue[s],
                     ref[s], None)
           /\ UNCHANGED tx
        \/ /\ Settle(s, st, Decremented(s), sendqueue \ {m},
                     Append(delayqueue[s], m), ref[s] - 1, out)
           /\ UNCHANGED tx
    BY <1>9 DEF Retransmit
  <2> HIDE DEF s, st, out
  <2>4. /\ state' \in [Session -> States]
        /\ con_active' \in [Session -> Nat]
        /\ delayqueue' \in [Session -> Seq(Msg)]
        /\ sendqueue' \subseteq Con
        /\ ref' \in [Session -> Int]
        /\ freed' \subseteq Session
        /\ outcome' \in [Msg -> Outcomes]
    BY <2>1, <2>2, <2>3, <1>b, NoneType, SettleType
  <2>5. tx' \in [Msg -> Nat]
    BY <2>3, TxOnceType DEF TypeOK
  <2>6. retransmit_cnt' \in [Msg -> Nat] /\ UNCHANGED <<app, last_ping_mid>>
    BY <1>9 DEF Retransmit, TypeOK
  <2> QED BY <2>4, <2>5, <2>6 DEF TypeOK
<1>10. ASSUME NEW m \in Msg, GiveUp(m) PROVE TypeOK'
  <2> DEFINE cancel == FALSE
  <2>1. PICK n \in 0..Len(delayqueue[SessionOf[m]]), err \in BOOLEAN :
          Conclude(m, "retries", Decremented(SessionOf[m]),
                   Flushes(SessionOf[m]), n, err, cancel)
    BY <1>10 DEF GiveUp
  <2>2. last_ping_mid' \in [Session -> Ping \cup {NoMsg}]
    BY <1>10 DEF GiveUp, TypeOK
  <2>3. "retries" \in Outcomes /\ cancel \in BOOLEAN
    BY <1>a
  <2> HIDE DEF cancel
  <2> QED BY <2>1, <2>2, <2>3, <1>b, ConcludeType
<1>11. ASSUME NEW m \in Msg, NEW response \in BOOLEAN, RecvAck(m, response)
       PROVE  TypeOK'
  <2>1. PICK n \in 0..Len(delayqueue[SessionOf[m]]), err \in BOOLEAN :
          Conclude(m, "acked", Decremented(SessionOf[m]),
                   Flushes(SessionOf[m]), n, err, response)
    BY <1>11 DEF RecvAck
  <2>2. last_ping_mid' \in [Session -> Ping \cup {NoMsg}]
    BY <1>11 DEF RecvAck, TypeOK
  <2>3. "acked" \in Outcomes
    BY <1>a
  <2> QED BY <2>1, <2>2, <2>3, <1>b, ConcludeType
<1>12. ASSUME NEW m \in Msg, RecvRst(m) PROVE TypeOK'
  <2> DEFINE s == SessionOf[m]
             pong == m \in sendqueue /\ m = last_ping_mid[s]
             cancel == HasResources /\ m \in sendqueue
             o == IF pong THEN "pong" ELSE "rst"
  <2>1. PICK n \in 0..Len(delayqueue[s]), err \in BOOLEAN :
          Conclude(m, o, Decremented(s), Flushes(s), n, err, cancel)
    BY <1>12 DEF RecvRst
  <2>2. last_ping_mid' \in [Session -> Ping \cup {NoMsg}]
    BY <1>12 DEF RecvRst, TypeOK
  <2>3. /\ o \in Outcomes
        /\ cancel \in BOOLEAN
        /\ Decremented(s) \in Nat
        /\ Flushes(s) \in BOOLEAN
    BY <1>a, <1>b
  <2> HIDE DEF cancel, o
  <2> QED BY <2>1, <2>2, <2>3, ConcludeType
<1>13. ASSUME NEW m \in Msg, RecvSeparate(m) PROVE TypeOK'
  <2> DEFINE s == SessionOf[m]
             mates == TokenMates(sendqueue, m)
  <2>1. /\ Settle(s, state[s], con_active[s], sendqueue \ mates,
                  delayqueue[s], ref[s] - Cardinality(mates),
                  All(mates, "answered"))
        /\ UNCHANGED <<retransmit_cnt, app, last_ping_mid, tx>>
    BY <1>13 DEF RecvSeparate
  <2>2. mates \in SUBSET Msg
    BY DEF TokenMates, TypeOK
  <2>3. Cardinality(mates) \in Nat
    BY <2>2, MsgSetFinite
  <2>4. /\ s \in Session
        /\ sendqueue \ mates \in SUBSET Con
        /\ ref[s] - Cardinality(mates) \in Int
    BY <2>3, <1>b DEF TypeOK
  <2> HIDE DEF mates
  <2>5. /\ state' \in [Session -> States]
        /\ con_active' \in [Session -> Nat]
        /\ delayqueue' \in [Session -> Seq(Msg)]
        /\ sendqueue' \subseteq Con
        /\ ref' \in [Session -> Int]
        /\ freed' \subseteq Session
        /\ outcome' \in [Msg -> Outcomes]
    <3>1. Conclusions(All(mates, "answered"))
      BY <1>a, AllType
    <3> QED BY <3>1, <2>1, <2>4, <1>b, SettleType
  <2> QED BY <2>1, <2>5 DEF TypeOK
<1>14. ASSUME NEW s \in Session,
              NEW sq \in SUBSET Con, NEW out,
              Conclusions(out),
              Settle(s, state[s], con_active[s], sq, delayqueue[s],
                     ref[s] - 1, out),
              UNCHANGED <<retransmit_cnt, last_ping_mid, tx>>,
              app' \subseteq Session
       PROVE  TypeOK'
  <2>1. ref[s] - 1 \in Int
    BY <1>b
  <2>2. /\ state' \in [Session -> States]
        /\ con_active' \in [Session -> Nat]
        /\ delayqueue' \in [Session -> Seq(Msg)]
        /\ sendqueue' \subseteq Con
        /\ ref' \in [Session -> Int]
        /\ freed' \subseteq Session
        /\ outcome' \in [Msg -> Outcomes]
    BY <2>1, <1>14, <1>b, SettleType
  <2> QED BY <2>2, <1>14 DEF TypeOK
<1>15. ASSUME NEW m \in Msg, RecvNonSameMid(m) PROVE TypeOK'
  <2>1. sendqueue \ {m} \in SUBSET Con
    BY DEF TypeOK
  <2>2. Conclusions(All({m}, "clobbered"))
    BY <1>a, AllType
  <2> QED BY <2>1, <2>2, <1>14, <1>15 DEF RecvNonSameMid, TypeOK
<1>16. ASSUME NEW s \in Session, AppRelease(s) PROVE TypeOK'
  <2>1. sendqueue \in SUBSET Con
    BY DEF TypeOK
  <2> QED BY <2>1, <1>14, <1>16, NoneType DEF AppRelease, TypeOK
<1> QED BY <1>1, <1>3, <1>4, <1>6, <1>7, <1>8, <1>9, <1>10, <1>11, <1>12,
           <1>13, <1>15, <1>16 DEF Next, MsgStep, SessionStep

\* The variables of the message layer keep their types.
THEOREM TypeCorrect == Spec => []TypeOK
<1>1. Init => TypeOK
  BY MsgAssumption, SessionAssumption
     DEF Init, TypeOK, States, Outcomes
<1>2. TypeOK /\ [Next]_vars => TypeOK'
  BY TypeStep
<1> QED BY <1>1, <1>2, PTL DEF Spec

-----------------------------------------------------------------------------
(* The slots: SlotBound, and NoIdleSlot when the socket never refuses.     *)

\* What Settle does to the session it is about, and to the others.
LEMMA SettleEffect ==
  ASSUME TypeOK, NEW s \in Session, NEW st, NEW used, NEW sq, NEW dq, NEW r,
         NEW out, Settle(s, st, used, sq, dq, r, out)
  PROVE  /\ state'[s] = st
         /\ con_active'[s] = used
         /\ ref'[s] = r
         /\ sendqueue' = sq
         /\ freed' = IF r = 0 THEN freed \cup {s} ELSE freed
         /\ delayqueue'[s] = IF r = 0 THEN << >> ELSE dq
         /\ \A z \in Session \ {s} : /\ state'[z] = state[z]
                                     /\ con_active'[z] = con_active[z]
                                     /\ ref'[z] = ref[z]
                                     /\ delayqueue'[z] = delayqueue[z]
BY DEF TypeOK, Settle

\* Settle keeps the slot bound if the new count is within it.
LEMMA SettleSlots ==
  ASSUME TypeOK, SlotBound, NEW s \in Session, NEW st, NEW used, NEW sq,
         NEW dq, NEW r, NEW out, Settle(s, st, used, sq, dq, r, out),
         used <= NSTART
  PROVE  SlotBound'
BY SettleEffect DEF SlotBound

\* Settle leaves no slot idle if the session it is about has none.
LEMMA SettleIdle ==
  ASSUME TypeOK, NoIdleSlot, NEW s \in Session, NEW st, NEW used, NEW sq,
         NEW dq, NEW r, NEW out, Settle(s, st, used, sq, dq, r, out),
         s \notin freed /\ st = "ESTABLISHED" /\ dq # << >> => used = NSTART
  PROVE  NoIdleSlot'
<1> SUFFICES ASSUME NEW z \in Session, z \notin freed',
                    state'[z] = "ESTABLISHED", delayqueue'[z] # << >>
             PROVE  con_active'[z] = NSTART
  BY DEF NoIdleSlot
<1>1. z \notin freed
  BY SettleEffect
<1>2. CASE z = s
  BY <1>1, <1>2, SettleEffect
<1>3. CASE z # s
  BY <1>1, <1>3, SettleEffect DEF NoIdleSlot
<1> QED BY <1>2, <1>3

\* Nothing of the slots changes.
LEMMA SlotsUnchanged ==
  ASSUME UNCHANGED <<state, con_active, delayqueue, freed>>
  PROVE  (SlotBound => SlotBound') /\ (NoIdleSlot => NoIdleSlot')
BY DEF SlotBound, NoIdleSlot

\* The flush loop of coap_session_connected() fills the free slots and no
\* more, and leaves one free only if the delay queue is empty.
LEMMA LoopSlots ==
  ASSUME NEW q \in Seq(Msg), NEW used \in Nat, NEW n \in 0..Len(q),
         NEW err \in BOOLEAN, LoopStops(q, used, n, err)
  PROVE  /\ used + Cardinality(ConPrefix(q, n)) <= NSTART
         /\ "sendfail" \notin Faults /\ SubSeq(q, n + 1, Len(q)) # << >>
              => used + Cardinality(ConPrefix(q, n)) = NSTART
<1>1. used + Cardinality(ConPrefix(q, n)) <= NSTART
  BY DEF LoopStops
<1>2. ASSUME "sendfail" \notin Faults, SubSeq(q, n + 1, Len(q)) # << >>
      PROVE  used + Cardinality(ConPrefix(q, n)) = NSTART
  <2>1. n < Len(q)
    BY <1>2
  <2>2. used + Cardinality(ConPrefix(q, n)) >= NSTART
    BY <2>1, <1>2 DEF LoopStops
  <2> QED BY <1>1, <2>2, PrefixFacts, BoundAssumption
<1> QED BY <1>1, <1>2

\* A handler that concludes a message after giving up its slot.
LEMMA ConcludeSlots ==
  ASSUME TypeOK, SlotBound, NEW m \in Msg, NEW o,
         NEW n \in 0..Len(delayqueue[SessionOf[m]]),
         NEW err \in BOOLEAN, NEW cancel,
         Conclude(m, o, Decremented(SessionOf[m]), Flushes(SessionOf[m]),
                  n, err, cancel)
  PROVE  /\ SlotBound'
         /\ "sendfail" \notin Faults /\ NoIdleSlot => NoIdleSlot'
<1> DEFINE s == SessionOf[m]
           q == delayqueue[s]
           cs == ConPrefix(q, n)
           used == Decremented(s)
           rest == SubSeq(q, n + 1, Len(q))
<1>1. /\ s \in Session
      /\ q \in Seq(Msg)
      /\ used \in Nat
      /\ used <= con_active[s]
      /\ con_active[s] \in Nat
      /\ con_active[s] <= NSTART
      /\ Cardinality(cs) \in Nat
  BY SessionAssumption, DecrementedType, PrefixFacts DEF TypeOK, SlotBound
<1>2. PICK sq, r, out :
        Settle(s, state[s], used + Cardinality(cs), sq, rest, r, out)
  BY DEF Conclude
<1>3. used + Cardinality(cs) <= NSTART
  <2>1. CASE Flushes(s)
    BY <2>1, <1>1, LoopSlots DEF Conclude
  <2>2. CASE ~Flushes(s)
    BY <2>2, <1>1, PrefixEmpty, BoundAssumption DEF Conclude
  <2> QED BY <2>1, <2>2
<1>4. ASSUME "sendfail" \notin Faults, NoIdleSlot,
             s \notin freed, state[s] = "ESTABLISHED", rest # << >>
      PROVE  used + Cardinality(cs) = NSTART
  <2>1. CASE Flushes(s)
    BY <2>1, <1>1, <1>4, LoopSlots DEF Conclude
  <2>2. CASE ~Flushes(s)
    <3>1. n = 0 /\ con_active[s] = 0
      BY <2>2, <1>1, <1>4 DEF Conclude, Flushes
    <3>2. rest = q
      BY <3>1, <1>1, PrefixEmpty
    <3> QED BY <3>1, <3>2, <1>1, <1>4, BoundAssumption DEF NoIdleSlot
  <2> QED BY <2>1, <2>2
<1> HIDE DEF s, q, cs, used, rest
<1>5. SlotBound'
  BY <1>1, <1>2, <1>3, SettleSlots
<1>6. "sendfail" \notin Faults /\ NoIdleSlot => NoIdleSlot'
  BY <1>1, <1>2, <1>4, SettleIdle
<1> QED BY <1>5, <1>6

\* Every action keeps con_active within NSTART and, unless the socket refuses
\* datagrams, leaves no slot idle beside a waiting message.
LEMMA SlotStep ==
  ASSUME TypeOK, SlotBound, [Next]_vars
  PROVE  /\ SlotBound'
         /\ "sendfail" \notin Faults /\ NoIdleSlot => NoIdleSlot'
<1> USE SessionAssumption, BoundAssumption
<1>a. \A s \in Session : /\ con_active[s] \in Nat
                         /\ con_active[s] <= NSTART
                         /\ Decremented(s) \in Nat
                         /\ Decremented(s) <= con_active[s]
                         /\ con_active[s] > 0 =>
                              Decremented(s) = con_active[s] - 1
                         /\ con_active[s] = 0 => Decremented(s) = 0
                         /\ delayqueue[s] \in Seq(Msg)
  BY DecrementedType DEF TypeOK, SlotBound
<1>1. CASE UNCHANGED vars
  BY <1>1, SlotsUnchanged DEF vars
<1>2. ASSUME NEW m \in Msg, SessionOf[m] \notin freed,
             SendNow(m) \/ SendDelayed(m)
      PROVE  /\ SlotBound'
             /\ "sendfail" \notin Faults /\ NoIdleSlot => NoIdleSlot'
  <2> DEFINE s == SessionOf[m]
  <2>1. CASE SendNow(m) /\ m \in Con
    <3>1. /\ con_active[s] < NSTART
          /\ state[s] = "ESTABLISHED"
          /\ Settle(s, state[s], con_active[s] + 1, sendqueue \cup {m},
                    delayqueue[s], ref[s] + 1, All({m}, "pending"))
      BY <2>1 DEF SendNow
    <3>2. con_active[s] + 1 <= NSTART
      BY <3>1, <1>a
    <3>3. NoIdleSlot => delayqueue[s] = << >>
      BY <3>1, <1>2, <1>a DEF NoIdleSlot
    <3> QED BY <3>1, <3>2, <3>3, SettleSlots, SettleIdle
  <2>2. CASE SendNow(m) /\ m \notin Con
    <3>1. Settle(s, state[s], con_active[s], sendqueue,
                 delayqueue[s], ref[s], All({m}, "sent"))
      BY <2>2 DEF SendNow
    <3>2. con_active[s] <= NSTART
      BY <1>a
    <3>3. NoIdleSlot /\ state[s] = "ESTABLISHED" /\ delayqueue[s] # << >>
            => con_active[s] = NSTART
      BY <1>2 DEF NoIdleSlot
    <3> QED BY <3>1, <3>2, <3>3, SettleSlots, SettleIdle
  <2>3. CASE SendDelayed(m)
    <3> DEFINE st == IF state[s] = "NONE" THEN "HANDSHAKE" ELSE state[s]
    <3>1. Settle(s, st, con_active[s], sendqueue, Append(delayqueue[s], m),
                 ref[s], All({m}, "pending"))
      BY <2>3 DEF SendDelayed
    <3>2. con_active[s] <= NSTART
      BY <1>a
    <3>3. st = "ESTABLISHED" => con_active[s] = NSTART
      BY <2>3, <1>a DEF SendDelayed
    <3> HIDE DEF st
    <3> QED BY <3>1, <3>2, <3>3, SettleSlots, SettleIdle
  <2> QED BY <1>2, <2>1, <2>2, <2>3
<1>3. ASSUME NEW m \in Msg, Send(m)
      PROVE  /\ SlotBound'
             /\ "sendfail" \notin Faults /\ NoIdleSlot => NoIdleSlot'
  <2>1. CASE SendRefused(m)
    BY <2>1, SlotsUnchanged DEF SendRefused
  <2> QED BY <1>2, <1>3, <2>1 DEF Send
<1>4. ASSUME NEW m \in Msg, KeepAlivePing(m)
      PROVE  /\ SlotBound'
             /\ "sendfail" \notin Faults /\ NoIdleSlot => NoIdleSlot'
  BY <1>2, <1>4 DEF KeepAlivePing
<1>5. ASSUME NEW s \in Session, NEW st, NEW sq, NEW r, NEW out,
             Settle(s, st, 0, sq, << >>, r, out)
      PROVE  SlotBound' /\ (NoIdleSlot => NoIdleSlot')
  <2>1. 0 <= NSTART
    OBVIOUS
  <2> QED BY <2>1, <1>5, SettleSlots, SettleIdle
<1>6. ASSUME NEW s \in Session,
             Close(s) \/ KeepAliveFails(s) \/ IcmpError(s)
      PROVE  SlotBound' /\ (NoIdleSlot => NoIdleSlot')
  <2>1. CASE IcmpError(s)
    BY <2>1, <1>5 DEF IcmpError
  <2>2. ASSUME NEW refused, Disconnected(s, refused)
        PROVE  SlotBound' /\ (NoIdleSlot => NoIdleSlot')
    BY <2>2, <1>5 DEF Disconnected
  <2> QED BY <1>6, <2>1, <2>2 DEF Close, KeepAliveFails
<1>7. ASSUME NEW s \in Session, HandshakeDone(s)
      PROVE  /\ SlotBound'
             /\ "sendfail" \notin Faults /\ NoIdleSlot => NoIdleSlot'
  <2> DEFINE q == delayqueue[s]
  <2>1. PICK n \in 0..Len(q), err \in BOOLEAN :
          /\ LoopStops(q, con_active[s], n, err)
          /\ \E sq, r, out :
               Settle(s, "ESTABLISHED",
                      con_active[s] + Cardinality(ConPrefix(q, n)),
                      sq, SubSeq(q, n + 1, Len(q)), r, out)
    BY <1>7 DEF HandshakeDone
  <2>2. /\ con_active[s] + Cardinality(ConPrefix(q, n)) <= NSTART
        /\ "sendfail" \notin Faults /\ SubSeq(q, n + 1, Len(q)) # << >>
             => con_active[s] + Cardinality(ConPrefix(q, n)) = NSTART
    BY <2>1, <1>a, LoopSlots
  <2> QED BY <2>1, <2>2, SettleSlots, SettleIdle
<1>8. ASSUME NEW m \in Msg, Retransmit(m)
      PROVE  /\ SlotBound'
             /\ "sendfail" \notin Faults /\ NoIdleSlot => NoIdleSlot'
  <2> DEFINE s == SessionOf[m]
             st == IF state[s] = "NONE" THEN "HANDSHAKE" ELSE state[s]
             out == IF ref[s] = 1 THEN All({m}, "clobbered") ELSE None
  <2>1. Decremented(s) < NSTART /\ Decremented(s) + 1 <= NSTART
    BY <1>a
  <2>2. \/ Settle(s, state[s], Decremented(s) + 1, sendqueue,
                  delayqueue[s], ref[s], None)
        \/ /\ \/ "sendfail" \in Faults
              \/ state[s] = "NONE"
           /\ Settle(s, state[s], Decremented(s), sendqueue, delayqueue[s],
                     ref[s], None)
        \/ /\ state[s] # "ESTABLISHED"
           /\ Settle(s, st, Decremented(s), sendqueue \ {m},
                     Append(delayqueue[s], m), ref[s] - 1, out)
    BY <1>8, <2>1 DEF Retransmit
  <2>3. NoIdleSlot /\ s \notin freed /\ state[s] = "ESTABLISHED"
          /\ delayqueue[s] # << >> => Decremented(s) + 1 = NSTART
    BY <1>a DEF NoIdleSlot
  <2>4. state[s] # "ESTABLISHED" => st # "ESTABLISHED"
    OBVIOUS
  <2>5. Decremented(s) <= NSTART
    BY <2>1, <1>a
  <2> HIDE DEF st, out
  <2>6. CASE Settle(s, state[s], Decremented(s) + 1, sendqueue,
                    delayqueue[s], ref[s], None)
    BY <2>6, <2>1, <2>3, SettleSlots, SettleIdle
  <2>7. CASE /\ \/ "sendfail" \in Faults
                \/ state[s] = "NONE"
             /\ Settle(s, state[s], Decremented(s), sendqueue,
                       delayqueue[s], ref[s], None)
    BY <2>7, <2>5, SettleSlots, SettleIdle
  <2>8. CASE /\ state[s] # "ESTABLISHED"
             /\ Settle(s, st, Decremented(s), sendqueue \ {m},
                       Append(delayqueue[s], m), ref[s] - 1, out)
    BY <2>8, <2>4, <2>5, SettleSlots, SettleIdle
  <2> QED BY <2>2, <2>6, <2>7, <2>8
<1>9. ASSUME NEW m \in Msg, GiveUp(m)
      PROVE  /\ SlotBound'
             /\ "sendfail" \notin Faults /\ NoIdleSlot => NoIdleSlot'
  <2> DEFINE cancel == FALSE
  <2>1. PICK n \in 0..Len(delayqueue[SessionOf[m]]), err \in BOOLEAN :
          Conclude(m, "retries", Decremented(SessionOf[m]),
                   Flushes(SessionOf[m]), n, err, cancel)
    BY <1>9 DEF GiveUp
  <2> HIDE DEF cancel
  <2> QED BY <2>1, ConcludeSlots
<1>10. ASSUME NEW m \in Msg, NEW response \in BOOLEAN, RecvAck(m, response)
       PROVE  /\ SlotBound'
              /\ "sendfail" \notin Faults /\ NoIdleSlot => NoIdleSlot'
  BY <1>10, ConcludeSlots DEF RecvAck
<1>11. ASSUME NEW m \in Msg, RecvRst(m)
       PROVE  /\ SlotBound'
              /\ "sendfail" \notin Faults /\ NoIdleSlot => NoIdleSlot'
  <2> DEFINE s == SessionOf[m]
             cancel == HasResources /\ m \in sendqueue
             o == IF m \in sendqueue /\ m = last_ping_mid[s] THEN "pong"
                  ELSE "rst"
  <2>1. PICK n \in 0..Len(delayqueue[s]), err \in BOOLEAN :
          Conclude(m, o, Decremented(s), Flushes(s), n, err, cancel)
    BY <1>11 DEF RecvRst
  <2> HIDE DEF cancel, o
  <2> QED BY <2>1, ConcludeSlots
<1>12. ASSUME NEW s \in Session, NEW sq, NEW r, NEW out,
              Settle(s, state[s], con_active[s], sq, delayqueue[s], r, out)
       PROVE  SlotBound' /\ (NoIdleSlot => NoIdleSlot')
  <2>1. con_active[s] <= NSTART
    BY <1>a
  <2>2. NoIdleSlot /\ s \notin freed /\ state[s] = "ESTABLISHED"
          /\ delayqueue[s] # << >> => con_active[s] = NSTART
    BY DEF NoIdleSlot
  <2> QED BY <2>1, <2>2, <1>12, SettleSlots, SettleIdle
<1>13. ASSUME NEW m \in Msg, RecvSeparate(m) \/ RecvNonSameMid(m)
       PROVE  SlotBound' /\ (NoIdleSlot => NoIdleSlot')
  BY <1>12, <1>13 DEF RecvSeparate, RecvNonSameMid
<1>14. ASSUME NEW s \in Session, AppRelease(s)
       PROVE  SlotBound' /\ (NoIdleSlot => NoIdleSlot')
  BY <1>12, <1>14 DEF AppRelease
<1> QED BY <1>1, <1>3, <1>4, <1>6, <1>7, <1>8, <1>9, <1>10, <1>11,
           <1>13, <1>14 DEF Next, MsgStep, SessionStep

\* con_active never exceeds NSTART, whatever peer, network and socket do.
THEOREM SlotBoundHolds == Spec => []SlotBound
<1>1. Init => SlotBound
  BY BoundAssumption DEF Init, SlotBound
<1>2. TypeOK /\ SlotBound /\ [Next]_vars => SlotBound'
  BY SlotStep
<1> QED BY <1>1, <1>2, TypeCorrect, PTL DEF Spec

\* As long as the socket takes every datagram, an established session never
\* has a free slot while a message waits in its delay queue, whatever the peer
\* and the network do.
THEOREM NoIdleSlotHolds ==
  ASSUME "sendfail" \notin Faults
  PROVE  Spec => []NoIdleSlot
<1>1. Init => NoIdleSlot
  BY DEF Init, NoIdleSlot
<1>2. TypeOK /\ SlotBound /\ NoIdleSlot /\ [Next]_vars => NoIdleSlot'
  BY SlotStep
<1> QED BY <1>1, <1>2, TypeCorrect, SlotBoundHolds, PTL DEF Spec

-----------------------------------------------------------------------------
(* The nodes: which queue holds a message, what the references of a        *)
(* session count, and how often a message is transmitted.                  *)

(* Sets of nodes and lines of delayed messages.                            *)

\* The messages of ms that belong to session s.
Of(ms, s) == {m \in ms : SessionOf[m] = s}

\* q is a delay queue of session s beside send queue sq: it holds messages of
\* s only, none that sq holds, and none twice.
Line(q, s, sq) ==
  \A i \in 1..Len(q) : /\ SessionOf[q[i]] = s
                       /\ q[i] \notin sq
                       /\ \A j \in 1..Len(q) : q[i] = q[j] => i = j

\* References added for new nodes, and released for removed ones.
LEMMA CardAdd ==
  ASSUME NEW A \in SUBSET Msg, NEW B \in SUBSET Msg, A \cap B = {}
  PROVE  Cardinality(A \cup B) = Cardinality(A) + Cardinality(B)
<1>1. /\ IsFiniteSet(A) /\ IsFiniteSet(B)
      /\ Cardinality(A) \in Nat /\ Cardinality(B) \in Nat
  BY MsgSetFinite
<1>2. Cardinality(A \cup B)
        = Cardinality(A) + Cardinality(B) - Cardinality(A \cap B)
  BY <1>1, FS_Union
<1>3. Cardinality(A \cap B) = 0
  BY FS_EmptySet
<1> QED BY <1>1, <1>2, <1>3

\* A part of a set of messages leaves it.
LEMMA CardDrop ==
  ASSUME NEW A \in SUBSET Msg, NEW B \in SUBSET A
  PROVE  Cardinality(A \ B) = Cardinality(A) - Cardinality(B)
<1>1. /\ A \ B \in SUBSET Msg /\ B \in SUBSET Msg
      /\ (A \ B) \cap B = {} /\ (A \ B) \cup B = A
  OBVIOUS
<1>2. Cardinality(A) = Cardinality(A \ B) + Cardinality(B)
  BY <1>1, CardAdd
<1>3. Cardinality(A \ B) \in Nat /\ Cardinality(B) \in Nat
  BY <1>1, MsgSetFinite
<1> QED BY <1>2, <1>3

\* One message is one.
LEMMA CardOne ==
  ASSUME NEW m \in Msg
  PROVE  Cardinality({m}) = 1
BY FS_Singleton

\* The last n entries of a line are a line, beside the first ones too, and
\* hold the rest of its messages.
LEMMA LineTail ==
  ASSUME NEW q \in Seq(Msg), NEW s, NEW sq, Line(q, s, sq),
         NEW n \in 0..Len(q)
  PROVE  /\ Line(SubSeq(q, n + 1, Len(q)), s, sq \cup ConPrefix(q, n))
         /\ Prefix(SubSeq(q, n + 1, Len(q)), Len(SubSeq(q, n + 1, Len(q))))
              = Prefix(q, Len(q)) \ Prefix(q, n)
         /\ Prefix(q, n) \subseteq Prefix(q, Len(q))
<1> DEFINE t == SubSeq(q, n + 1, Len(q))
<1>1. /\ t \in Seq(Msg)
      /\ Len(t) = Len(q) - n
      /\ Len(q) \in Nat
      /\ \A i \in 1..Len(t) : t[i] = q[n + i] /\ n + i \in 1..Len(q)
  OBVIOUS
<1> HIDE DEF t
<1>2. \A i \in 1..Len(t), j \in 1..n : t[i] # q[j]
  BY <1>1 DEF Line
<1>3. Line(t, s, sq \cup ConPrefix(q, n))
  <2> SUFFICES ASSUME NEW i \in 1..Len(t)
               PROVE  /\ SessionOf[t[i]] = s
                      /\ t[i] \notin sq \cup ConPrefix(q, n)
                      /\ \A j \in 1..Len(t) : t[i] = t[j] => i = j
    BY DEF Line
  <2>1. t[i] = q[n + i] /\ n + i \in 1..Len(q)
    BY <1>1
  <2>2. SessionOf[t[i]] = s /\ t[i] \notin sq
    BY <2>1 DEF Line
  <2>3. t[i] \notin ConPrefix(q, n)
    BY <1>2 DEF ConPrefix
  <2>4. ASSUME NEW j \in 1..Len(t), t[i] = t[j] PROVE i = j
    <3>1. t[j] = q[n + j] /\ n + j \in 1..Len(q)
      BY <1>1
    <3>2. n + i = n + j
      BY <2>1, <2>4, <3>1 DEF Line
    <3> QED BY <3>2
  <2> QED BY <2>2, <2>3, <2>4
<1>4. Prefix(t, Len(t)) \subseteq Prefix(q, Len(q)) \ Prefix(q, n)
  BY <1>1, <1>2 DEF Prefix
<1>5. Prefix(q, Len(q)) \ Prefix(q, n) \subseteq Prefix(t, Len(t))
  <2> SUFFICES ASSUME NEW i \in 1..Len(q), q[i] \notin Prefix(q, n)
               PROVE  q[i] \in Prefix(t, Len(t))
    BY DEF Prefix
  <2>1. i \notin 1..n
    BY DEF Prefix
  <2>2. i - n \in 1..Len(t)
    BY <1>1, <2>1
  <2>3. t[i - n] = q[i]
    BY <1>1, <2>2
  <2> QED BY <2>2, <2>3 DEF Prefix
<1>6. Prefix(q, n) \subseteq Prefix(q, Len(q))
  BY <1>1 DEF Prefix
<1> QED BY <1>3, <1>4, <1>5, <1>6 DEF t

\* t is q with m appended.
IsAppended(t, q, m) == t = Append(q, m)

\* A message that is in neither queue may be appended.
LEMMA LineAppend ==
  ASSUME NEW q \in Seq(Msg), NEW s, NEW sq, NEW m \in Msg, NEW t,
         Line(q, s, sq), SessionOf[m] = s, m \notin sq,
         m \notin Prefix(q, Len(q)), IsAppended(t, q, m)
  PROVE  /\ Line(t, s, sq)
         /\ Prefix(t, Len(t)) = Prefix(q, Len(q)) \cup {m}
<1>1. /\ t \in Seq(Msg)
      /\ Len(t) = Len(q) + 1
      /\ Len(q) \in Nat
      /\ \A i \in 1..Len(q) : t[i] = q[i]
      /\ t[Len(q) + 1] = m
  BY DEF IsAppended
<1>2. \A i \in 1..Len(t) : i \in 1..Len(q) \/ i = Len(q) + 1
  BY <1>1
<1>3. \A i \in 1..Len(q) : t[i] # m
  BY <1>1 DEF Prefix
<1>4. Line(t, s, sq)
  <2> SUFFICES ASSUME NEW i \in 1..Len(t)
               PROVE  /\ SessionOf[t[i]] = s
                      /\ t[i] \notin sq
                      /\ \A j \in 1..Len(t) : t[i] = t[j] => i = j
    BY DEF Line
  <2>1. CASE i \in 1..Len(q)
    <3>1. SessionOf[t[i]] = s /\ t[i] \notin sq
      BY <2>1, <1>1 DEF Line
    <3>2. ASSUME NEW j \in 1..Len(t), t[i] = t[j] PROVE i = j
      <4>1. j \in 1..Len(q)
        BY <3>2, <2>1, <1>1, <1>2, <1>3
      <4> QED BY <3>2, <4>1, <2>1, <1>1 DEF Line
    <3> QED BY <3>1, <3>2
  <2>2. CASE i = Len(q) + 1
    BY <2>2, <1>1, <1>2, <1>3
  <2> QED BY <2>1, <2>2, <1>2
<1>5. Prefix(t, Len(t)) = Prefix(q, Len(q)) \cup {m}
  <2>1. Prefix(t, Len(t)) \subseteq Prefix(q, Len(q)) \cup {m}
    BY <1>1, <1>2 DEF Prefix
  <2>2. Prefix(q, Len(q)) \subseteq Prefix(t, Len(t))
    BY <1>1 DEF Prefix
  <2>3. m \in Prefix(t, Len(t))
    <3>1. Len(q) + 1 \in 1..Len(t)
      BY <1>1
    <3> QED BY <3>1, <1>1 DEF Prefix
  <2> QED BY <2>1, <2>2, <2>3
<1> QED BY <1>4, <1>5

\* Removing nodes from the send queue keeps a line a line.
LEMMA LineShrink ==
  ASSUME NEW q, NEW s, NEW sq, NEW sr, Line(q, s, sq), sr \subseteq sq
  PROVE  Line(q, s, sr)
BY DEF Line

\* The empty line.
LEMMA LineEmpty ==
  ASSUME NEW s, NEW sq
  PROVE  Line(<< >>, s, sq) /\ Prefix(<< >>, Len(<< >>)) = {}
BY DEF Line, Prefix

-----------------------------------------------------------------------------
(* The inductive invariant.                                                *)

\* TxBound alone is not inductive: flushing the delay queue transmits a
\* message without counting a retransmission.  But a message that has not
\* been sent, or that coap_retransmit() counted and then delayed, has one
\* transmission in hand.
NotSentYet ==
  \A m \in Msg : outcome[m] = "idle" \/ m \in Queued(SessionOf[m])
                   => tx[m] <= retransmit_cnt[m]

NodesInv == /\ TypeOK
            /\ HeldOnce
            /\ RefExact
            /\ TxBound
            /\ NotSentYet

\* HeldOnce, in terms of lines.
LEMMA HeldLines ==
  ASSUME TypeOK
  PROVE  HeldOnce <=>
           /\ \A m \in Msg : (outcome[m] = "pending")
                <=> (m \in sendqueue \/ m \in Queued(SessionOf[m]))
           /\ \A s \in Session : Line(delayqueue[s], s, sendqueue)
BY DEF HeldOnce, Line

\* The same of the next state.
LEMMA HeldLinesNext ==
  ASSUME TypeOK'
  PROVE  HeldOnce' <=>
           /\ \A m \in Msg : (outcome'[m] = "pending")
                <=> (m \in sendqueue' \/ m \in Queued(SessionOf[m])')
           /\ \A s \in Session : Line(delayqueue'[s], s, sendqueue')
BY DEF HeldOnce, Line

\* A freed session has no node, nothing delayed, and is not in use.
LEMMA FreedHasNothing ==
  ASSUME TypeOK, RefExact, NEW s \in Session
  PROVE  /\ Cardinality(NodesOf(s)) \in Nat
         /\ s \in freed <=> NodesOf(s) = {} /\ s \notin app
         /\ s \notin freed => ref[s] > 0
<1>1. NodesOf(s) \in SUBSET Msg
  BY MsgAssumption DEF NodesOf, TypeOK
<1>2. IsFiniteSet(NodesOf(s)) /\ Cardinality(NodesOf(s)) \in Nat
  BY <1>1, MsgSetFinite
<1>3. Cardinality(NodesOf(s)) = 0 <=> NodesOf(s) = {}
  BY <1>2, FS_EmptySet
<1>4. /\ ref[s] = Cardinality(NodesOf(s)) + (IF s \in app THEN 1 ELSE 0)
      /\ (s \in freed) <=> (ref[s] = 0)
  BY DEF RefExact
<1>5. CASE s \in app
  <2>1. ref[s] = Cardinality(NodesOf(s)) + 1
    BY <1>4, <1>5
  <2>2. ref[s] > 0
    BY <1>2, <2>1
  <2> QED BY <1>2, <1>4, <1>5, <2>2
<1>6. CASE s \notin app
  <2>1. ref[s] = Cardinality(NodesOf(s))
    BY <1>2, <1>4, <1>6
  <2> QED BY <1>2, <1>3, <1>4, <1>6, <2>1
<1> QED BY <1>5, <1>6

\* What Settle does to the outcome of a message.
LEMMA SettleOutcome ==
  ASSUME NEW s, NEW st, NEW used, NEW sq, NEW dq, NEW r, NEW out,
         Settle(s, st, used, sq, dq, r, out), NEW m \in Msg
  PROVE  /\ m \in DOMAIN out => outcome'[m] = out[m]
         /\ m \notin DOMAIN out /\ ~(r = 0 /\ m \in Prefix(dq, Len(dq)))
              => outcome'[m] = outcome[m]
         /\ m \notin DOMAIN out /\ r = 0 /\ m \in Prefix(dq, Len(dq))
              => outcome'[m] \in {"closed", "dropped"}
BY DEF Settle

\* Settle keeps each message in one queue and the references exact, if what
\* it is given does.
LEMMA SettleNodes ==
  ASSUME TypeOK, TypeOK', HeldOnce, RefExact,
         NEW s \in Session, NEW st, NEW used,
         NEW sq \in SUBSET Con, NEW dq \in Seq(Msg), NEW r \in Int, NEW out,
         Settle(s, st, used, sq, dq, r, out),
         s \notin freed,
         \A m \in Msg : SessionOf[m] # s => (m \in sq <=> m \in sendqueue),
         Line(dq, s, sq),
         \A z \in Session \ {s} : z \in app' <=> z \in app,
         r = Cardinality(Of(sq, s)) + (IF s \in app' THEN 1 ELSE 0),
         \A m \in Msg \cap DOMAIN out :
            /\ SessionOf[m] = s
            /\ (out[m] = "pending")
                 <=> (m \in sq \/ (r # 0 /\ m \in Prefix(dq, Len(dq)))),
         \A m \in Msg \ DOMAIN out : SessionOf[m] = s =>
            ((outcome[m] = "pending")
               <=> (m \in sq \/ m \in Prefix(dq, Len(dq))))
  PROVE  HeldOnce' /\ RefExact'
<1> USE MsgAssumption, SessionAssumption
<1>a. /\ sendqueue' = sq
      /\ ref'[s] = r
      /\ freed' = IF r = 0 THEN freed \cup {s} ELSE freed
      /\ delayqueue'[s] = IF r = 0 THEN << >> ELSE dq
      /\ \A z \in Session \ {s} : /\ ref'[z] = ref[z]
                                  /\ delayqueue'[z] = delayqueue[z]
  BY SettleEffect
<1>b. Of(sq, s) \in SUBSET Msg
  BY DEF Of
<1>c. /\ Cardinality(Of(sq, s)) \in Nat
      /\ Cardinality(Of(sq, s)) = 0 => Of(sq, s) = {}
  BY <1>b, MsgSetFinite, FS_EmptySet
<1>d. r = 0 => Of(sq, s) = {} /\ s \notin app'
  <2>1. CASE s \in app'
    <3>1. r = Cardinality(Of(sq, s)) + 1
      BY <2>1
    <3> QED BY <3>1, <1>c
  <2>2. CASE s \notin app'
    <3>1. r = Cardinality(Of(sq, s)) + 0
      BY <2>2
    <3> QED BY <2>2, <3>1, <1>c
  <2> QED BY <2>1, <2>2
<1>e. \A m \in Prefix(dq, Len(dq)) : SessionOf[m] = s /\ m \notin sq
  BY DEF Line, Prefix
<1>f. /\ \A m \in Msg : (outcome[m] = "pending")
                <=> (m \in sendqueue \/ m \in Queued(SessionOf[m]))
      /\ \A z \in Session : Line(delayqueue[z], z, sendqueue)
  BY HeldLines
<1>1. ASSUME NEW m \in Msg
      PROVE  (outcome'[m] = "pending")
               <=> (m \in sendqueue' \/ m \in Queued(SessionOf[m])')
  <2>1. CASE SessionOf[m] # s
    <3>1. m \notin DOMAIN out /\ m \notin Prefix(dq, Len(dq))
      BY <2>1, <1>e
    <3>2. outcome'[m] = outcome[m]
      BY <3>1, SettleOutcome
    <3>3. Queued(SessionOf[m])' = Queued(SessionOf[m])
      BY <2>1, <1>a DEF Queued
    <3>4. m \in sendqueue' <=> m \in sendqueue
      BY <2>1, <1>a
    <3> QED BY <3>2, <3>3, <3>4, <1>f
  <2>2. CASE SessionOf[m] = s /\ r = 0
    <3>1. m \notin sq
      BY <2>2, <1>d DEF Of
    <3>2. Queued(SessionOf[m])' = {}
      BY <2>2, <1>a, LineEmpty DEF Queued
    <3>3. outcome'[m] # "pending"
      <4>1. CASE m \in DOMAIN out
        BY <4>1, <2>2, <3>1, SettleOutcome
      <4>2. CASE m \notin DOMAIN out /\ m \in Prefix(dq, Len(dq))
        BY <4>2, <2>2, SettleOutcome
      <4>3. CASE m \notin DOMAIN out /\ m \notin Prefix(dq, Len(dq))
        BY <4>3, <2>2, <3>1, SettleOutcome
      <4> QED BY <4>1, <4>2, <4>3
    <3> QED BY <3>1, <3>2, <3>3, <1>a
  <2>3. CASE SessionOf[m] = s /\ r # 0
    <3>1. Queued(SessionOf[m])' = Prefix(dq, Len(dq))
      BY <2>3, <1>a DEF Queued
    <3>2. CASE m \in DOMAIN out
      BY <3>1, <3>2, <2>3, <1>a, SettleOutcome
    <3>3. CASE m \notin DOMAIN out
      BY <3>1, <3>3, <2>3, <1>a, SettleOutcome
    <3> QED BY <3>2, <3>3
  <2> QED BY <2>1, <2>2, <2>3
<1>2. ASSUME NEW z \in Session
      PROVE  Line(delayqueue'[z], z, sendqueue')
  <2>1. CASE z # s
    <3>1. Line(delayqueue[z], z, sendqueue) /\ delayqueue[z] \in Seq(Msg)
      BY <1>f DEF TypeOK
    <3>2. ASSUME NEW i \in 1..Len(delayqueue[z])
          PROVE  delayqueue[z][i] \notin sq
      <4>1. delayqueue[z][i] \in Msg
        BY <3>1
      <4>2. SessionOf[delayqueue[z][i]] = z
            /\ delayqueue[z][i] \notin sendqueue
        BY <3>1 DEF Line
      <4> QED BY <4>1, <4>2, <2>1
    <3>3. Line(delayqueue[z], z, sq)
      BY <3>1, <3>2 DEF Line
    <3> QED BY <3>3, <2>1, <1>a
  <2>2. CASE z = s /\ r = 0
    BY <2>2, <1>a, LineEmpty
  <2>3. CASE z = s /\ r # 0
    BY <2>3, <1>a
  <2> QED BY <2>1, <2>2, <2>3
<1>3. HeldOnce'
  BY <1>1, <1>2, HeldLinesNext
<1>4. ASSUME NEW z \in Session
      PROVE  /\ ref'[z] = Cardinality(NodesOf(z)')
                            + (IF z \in app' THEN 1 ELSE 0)
             /\ (z \in freed') <=> (ref'[z] = 0)
             /\ z \in freed' => delayqueue'[z] = << >>
  <2>1. CASE z # s
    <3>1. NodesOf(z)' = NodesOf(z)
      BY <2>1, <1>a DEF NodesOf, TypeOK
    <3>2. /\ ref[z] = Cardinality(NodesOf(z)) + (IF z \in app THEN 1 ELSE 0)
          /\ (z \in freed) <=> (ref[z] = 0)
          /\ z \in freed => delayqueue[z] = << >>
      BY DEF RefExact
    <3>3. /\ ref'[z] = ref[z] /\ delayqueue'[z] = delayqueue[z]
          /\ z \in freed' <=> z \in freed
          /\ z \in app' <=> z \in app
      BY <2>1, <1>a
    <3> QED BY <3>1, <3>2, <3>3
  <2>2. CASE z = s
    <3>1. NodesOf(z)' = Of(sq, s)
      BY <2>2, <1>a DEF NodesOf, Of
    <3>2. ref'[z] = r /\ (z \in freed' <=> r = 0)
      BY <2>2, <1>a
    <3>3. r = 0 => delayqueue'[z] = << >>
      BY <2>2, <1>a
    <3> QED BY <2>2, <3>1, <3>2, <3>3
  <2> QED BY <2>1, <2>2
<1>5. RefExact'
  BY <1>4 DEF RefExact
<1> QED BY <1>3, <1>5

\* Settle and the transmissions of the step keep TxBound and NotSentYet.
LEMMA SettleTx ==
  ASSUME TypeOK, TxBound, NotSentYet,
         NEW s \in Session, NEW st, NEW used, NEW sq, NEW dq, NEW r, NEW out,
         Settle(s, st, used, sq, dq, r, out),
         NEW ms \in SUBSET Msg, TxOnce(ms), UNCHANGED retransmit_cnt,
         \A m \in ms : /\ tx[m] <= retransmit_cnt[m]
                       /\ SessionOf[m] = s
                       /\ m \notin Prefix(dq, Len(dq))
                       /\ outcome'[m] # "idle",
         \A m \in Msg \cap Prefix(dq, Len(dq)) : tx[m] <= retransmit_cnt[m],
         \A m \in Msg \cap DOMAIN out : out[m] # "idle"
  PROVE  TxBound' /\ NotSentYet'
<1> USE SessionAssumption
<1>1. \A m \in Msg : tx[m] \in Nat /\ retransmit_cnt[m] \in Nat
  BY DEF TypeOK
<1>2. \A m \in Msg : tx'[m] = IF m \in ms THEN tx[m] + 1 ELSE tx[m]
  BY DEF TxOnce
<1>3. TxBound'
  BY <1>1, <1>2 DEF TxBound
<1>4. ASSUME NEW m \in Msg,
             outcome'[m] = "idle" \/ m \in Queued(SessionOf[m])'
      PROVE  tx'[m] <= retransmit_cnt[m]
  <2>1. CASE outcome'[m] = "idle"
    <3>1. m \notin ms
      BY <2>1
    <3>2. outcome[m] = "idle"
      BY <2>1, SettleOutcome
    <3> QED BY <3>1, <3>2, <1>2 DEF NotSentYet
  <2>2. CASE m \in Queued(SessionOf[m])' /\ SessionOf[m] # s
    <3>1. m \in Queued(SessionOf[m])
      BY <2>2, SettleEffect DEF Queued
    <3>2. m \notin ms
      BY <2>2
    <3> QED BY <3>1, <3>2, <1>2 DEF NotSentYet
  <2>3. CASE m \in Queued(SessionOf[m])' /\ SessionOf[m] = s
    <3>1. m \in Prefix(dq, Len(dq))
      <4>1. delayqueue'[s] = IF r = 0 THEN << >> ELSE dq
        BY SettleEffect
      <4> QED BY <2>3, <4>1, LineEmpty DEF Queued
    <3>2. m \notin ms
      BY <3>1
    <3> QED BY <3>1, <3>2, <1>2
  <2> QED BY <1>4, <2>1, <2>2, <2>3
<1>5. NotSentYet'
  BY <1>4 DEF NotSentYet
<1> QED BY <1>3, <1>5

-----------------------------------------------------------------------------
(* The actions.                                                            *)

\* The references after nodes `add' of session s joined the send queue and
\* nodes `gone' left it.
LEMMA RefChange ==
  ASSUME TypeOK, RefExact, NEW s \in Session, NEW add \in SUBSET Msg,
         \A m \in add : SessionOf[m] = s /\ m \notin sendqueue,
         NEW gone \in SUBSET (NodesOf(s) \cup add)
  PROVE  /\ ref[s] + Cardinality(add) - Cardinality(gone)
              = Cardinality(Of((sendqueue \cup add) \ gone, s))
                  + (IF s \in app THEN 1 ELSE 0)
         /\ \A m \in Msg : SessionOf[m] # s =>
              (m \in (sendqueue \cup add) \ gone <=> m \in sendqueue)
         /\ Cardinality(add) \in Nat
         /\ Cardinality(gone) \in Nat
<1> USE MsgAssumption
<1> DEFINE N == NodesOf(s)
           app1 == IF s \in app THEN 1 ELSE 0
<1>1. /\ N \in SUBSET Msg /\ N \cup add \in SUBSET Msg
      /\ N \cap add = {} /\ gone \in SUBSET Msg
  BY DEF NodesOf, TypeOK
<1>2. /\ Cardinality(N) \in Nat /\ Cardinality(add) \in Nat
      /\ Cardinality(gone) \in Nat
  BY <1>1, MsgSetFinite
<1>3. Cardinality(N \cup add) = Cardinality(N) + Cardinality(add)
  BY <1>1, CardAdd
<1>4. Cardinality((N \cup add) \ gone)
        = Cardinality(N \cup add) - Cardinality(gone)
  BY <1>1, CardDrop
<1>5. Of((sendqueue \cup add) \ gone, s) = (N \cup add) \ gone
  BY DEF Of, NodesOf
<1>6. ref[s] = Cardinality(N) + app1
  BY DEF RefExact
<1>7. app1 \in Nat
  OBVIOUS
<1>8. \A m \in Msg : SessionOf[m] # s =>
              (m \in (sendqueue \cup add) \ gone <=> m \in sendqueue)
  BY DEF NodesOf
<1> HIDE DEF N, app1
<1>9. ref[s] + Cardinality(add) - Cardinality(gone)
        = Cardinality((N \cup add) \ gone) + app1
  BY <1>2, <1>3, <1>4, <1>6, <1>7
<1> QED BY <1>2, <1>5, <1>8, <1>9 DEF app1

\* New nodes that are not delayed keep a line a line.
LEMMA LineGrow ==
  ASSUME NEW q, NEW s, NEW sq, NEW ms, Line(q, s, sq),
         ms \cap Prefix(q, Len(q)) = {}
  PROVE  Line(q, s, sq \cup ms)
BY DEF Line, Prefix

\* A step without a transmission.
LEMMA TxNone ==
  ASSUME TypeOK, UNCHANGED tx
  PROVE  TxOnce({})
BY DEF TypeOK, TxOnce

\* What the invariant says of a session's queues.
LEMMA SessionFacts ==
  ASSUME NodesInv, NEW s \in Session
  PROVE  /\ delayqueue[s] \in Seq(Msg)
         /\ Len(delayqueue[s]) \in 0..Len(delayqueue[s])
         /\ Line(delayqueue[s], s, sendqueue)
         /\ Queued(s) \subseteq Msg
         /\ \A m \in Queued(s) : /\ SessionOf[m] = s
                                 /\ m \notin sendqueue
                                 /\ outcome[m] = "pending"
                                 /\ tx[m] <= retransmit_cnt[m]
         /\ NodesOf(s) \subseteq sendqueue
         /\ sendqueue \in SUBSET Con
         /\ sendqueue \in SUBSET Msg
         /\ state[s] \in States
         /\ con_active[s] \in Nat
         /\ ref[s] \in Int
<1>1. /\ delayqueue[s] \in Seq(Msg)
      /\ Len(delayqueue[s]) \in 0..Len(delayqueue[s])
      /\ sendqueue \in SUBSET Con /\ sendqueue \in SUBSET Msg
      /\ state[s] \in States /\ con_active[s] \in Nat /\ ref[s] \in Int
  BY MsgAssumption DEF NodesInv, TypeOK
<1>2. Line(delayqueue[s], s, sendqueue)
  BY HeldLines DEF NodesInv
<1>3. Queued(s) \subseteq Msg
  BY <1>1 DEF Queued, Prefix
<1>4. ASSUME NEW m \in Queued(s)
      PROVE  /\ SessionOf[m] = s
             /\ m \notin sendqueue
             /\ outcome[m] = "pending"
             /\ tx[m] <= retransmit_cnt[m]
  <2>1. SessionOf[m] = s /\ m \notin sendqueue
    BY <1>2 DEF Line, Queued, Prefix
  <2> QED BY <2>1, <1>3 DEF NodesInv, HeldOnce, NotSentYet
<1>5. NodesOf(s) \subseteq sendqueue
  BY DEF NodesOf
<1> QED BY <1>1, <1>2, <1>3, <1>4, <1>5

\* coap_send() of a fresh message, transmitted or delayed.
LEMMA SendNodes ==
  ASSUME NodesInv, TypeOK', NEW m \in Msg, outcome[m] = "idle",
         SessionOf[m] \notin freed, SendNow(m) \/ SendDelayed(m),
         UNCHANGED <<retransmit_cnt, app>>
  PROVE  NodesInv'
<1> DEFINE s == SessionOf[m]
           q == delayqueue[s]
<1>0. s \in Session
  BY SessionAssumption
<1>a. /\ q \in Seq(Msg) /\ Line(q, s, sendqueue)
      /\ sendqueue \in SUBSET Con /\ ref[s] \in Int /\ Queued(s) \subseteq Msg
      /\ \A x \in Queued(s) : /\ SessionOf[x] = s
                              /\ x \notin sendqueue
                              /\ outcome[x] = "pending"
                              /\ tx[x] <= retransmit_cnt[x]
  BY <1>0, SessionFacts
<1>b. m \notin sendqueue /\ m \notin Queued(s)
  BY DEF NodesInv, HeldOnce
<1>c. tx[m] <= retransmit_cnt[m]
  BY DEF NodesInv, NotSentYet
<1>d. \A x \in Msg : SessionOf[x] = s =>
        ((outcome[x] = "pending") <=> (x \in sendqueue \/ x \in Queued(s)))
  BY DEF NodesInv, HeldOnce
<1>e. TypeOK /\ HeldOnce /\ RefExact /\ TxBound /\ NotSentYet
  BY DEF NodesInv
<1>f. Queued(s) = Prefix(q, Len(q))
  BY DEF Queued
<1>g. s \notin freed /\ ref[s] > 0
  BY <1>0, <1>e, FreedHasNothing
<1>h. Cardinality({}) = 0 /\ Cardinality({m}) = 1
  BY FS_EmptySet, CardOne
<1>1. CASE SendNow(m) /\ m \in Con
  <2> DEFINE sq == sendqueue \cup {m}
             out == All({m}, "pending")
  <2>1. /\ Settle(s, state[s], con_active[s] + 1, sq, q, ref[s] + 1, out)
        /\ TxOnce({m})
    BY <1>1 DEF SendNow
  <2>2. DOMAIN out = {m} /\ out[m] = "pending"
    BY DEF All
  <2>3. Line(q, s, sq)
    BY <1>a, <1>b, <1>f, LineGrow, ZenonT(60)
  <2>4. /\ ref[s] + Cardinality({m}) - Cardinality({})
             = Cardinality(Of((sendqueue \cup {m}) \ {}, s))
                 + (IF s \in app THEN 1 ELSE 0)
        /\ \A x \in Msg : SessionOf[x] # s =>
             (x \in (sendqueue \cup {m}) \ {} <=> x \in sendqueue)
    BY <1>0, <1>b, <1>e, RefChange
  <2>5. (sendqueue \cup {m}) \ {} = sq
    OBVIOUS
  <2>6. ref[s] + 1 = Cardinality(Of(sq, s)) + (IF s \in app' THEN 1 ELSE 0)
    BY <2>4, <2>5, <1>h, <1>a
  <2>7. /\ sq \in SUBSET Con /\ ref[s] + 1 \in Int
        /\ \A x \in Msg : SessionOf[x] # s => (x \in sq <=> x \in sendqueue)
    BY <1>1, <1>a
  <2>8. \A x \in Msg \cap DOMAIN out :
            /\ SessionOf[x] = s
            /\ (out[x] = "pending")
                 <=> (x \in sq \/ (ref[s] + 1 # 0 /\ x \in Prefix(q, Len(q))))
    BY <2>2
  <2>9. \A x \in Msg \ DOMAIN out : SessionOf[x] = s =>
            ((outcome[x] = "pending")
               <=> (x \in sq \/ x \in Prefix(q, Len(q))))
    BY <2>2, <1>d, <1>f
  <2>10. outcome'[m] # "idle"
    BY <2>1, <2>2, SettleOutcome
  <2> HIDE DEF sq, out, s, q
  <2>11. HeldOnce' /\ RefExact'
    BY <2>1, <2>3, <2>6, <2>7, <2>8, <2>9, <1>0, <1>a, <1>e, <1>g,
       SettleNodes
  <2>12. TxBound' /\ NotSentYet'
    <3>1. \A x \in {m} : /\ tx[x] <= retransmit_cnt[x]
                         /\ SessionOf[x] = s
                         /\ x \notin Prefix(q, Len(q))
                         /\ outcome'[x] # "idle"
      BY <2>10, <1>b, <1>c, <1>f DEF s
    <3>2. \A x \in Msg \cap Prefix(q, Len(q)) : tx[x] <= retransmit_cnt[x]
      BY <1>a, <1>f
    <3>3. \A x \in Msg \cap DOMAIN out : out[x] # "idle"
      BY <2>2
    <3> QED BY <3>1, <3>2, <3>3, <2>1, <1>0, <1>e, SettleTx
  <2> QED BY <2>11, <2>12 DEF NodesInv
<1>2. CASE SendNow(m) /\ m \notin Con
  <2> DEFINE out == All({m}, "sent")
  <2>1. /\ Settle(s, state[s], con_active[s], sendqueue, q, ref[s], out)
        /\ TxOnce({m})
    BY <1>2 DEF SendNow
  <2>2. DOMAIN out = {m} /\ out[m] = "sent"
    BY DEF All
  <2>6. ref[s] = Cardinality(Of(sendqueue, s)) + (IF s \in app' THEN 1 ELSE 0)
    BY <1>0, <1>e DEF RefExact, NodesOf, Of
  <2>8. \A x \in Msg \cap DOMAIN out :
            /\ SessionOf[x] = s
            /\ (out[x] = "pending")
                 <=> (x \in sendqueue
                        \/ (ref[s] # 0 /\ x \in Prefix(q, Len(q))))
    BY <2>2, <1>b, <1>f
  <2>9. \A x \in Msg \ DOMAIN out : SessionOf[x] = s =>
            ((outcome[x] = "pending")
               <=> (x \in sendqueue \/ x \in Prefix(q, Len(q))))
    BY <2>2, <1>d, <1>f
  <2>10. outcome'[m] # "idle"
    BY <2>1, <2>2, SettleOutcome
  <2> HIDE DEF out, s, q
  <2>11. HeldOnce' /\ RefExact'
    BY <2>1, <2>6, <2>8, <2>9, <1>0, <1>a, <1>e, <1>g, SettleNodes
  <2>12. TxBound' /\ NotSentYet'
    <3>1. \A x \in {m} : /\ tx[x] <= retransmit_cnt[x]
                         /\ SessionOf[x] = s
                         /\ x \notin Prefix(q, Len(q))
                         /\ outcome'[x] # "idle"
      BY <2>10, <1>b, <1>c, <1>f DEF s
    <3>2. \A x \in Msg \cap Prefix(q, Len(q)) : tx[x] <= retransmit_cnt[x]
      BY <1>a, <1>f
    <3>3. \A x \in Msg \cap DOMAIN out : out[x] # "idle"
      BY <2>2
    <3> QED BY <3>1, <3>2, <3>3, <2>1, <1>0, <1>e, SettleTx
  <2> QED BY <2>11, <2>12 DEF NodesInv
<1>3. CASE SendDelayed(m)
  <2> DEFINE st == IF state[s] = "NONE" THEN "HANDSHAKE" ELSE state[s]
             dq == Append(q, m)
             out == All({m}, "pending")
  <2>1. /\ Settle(s, st, con_active[s], sendqueue, dq, ref[s], out)
        /\ UNCHANGED tx
    BY <1>3 DEF SendDelayed
  <2>2. DOMAIN out = {m} /\ out[m] = "pending"
    BY DEF All
  <2>3. /\ Line(dq, s, sendqueue)
        /\ Prefix(dq, Len(dq)) = Queued(s) \cup {m}
    <3>1. /\ SessionOf[m] = s
          /\ m \notin Prefix(q, Len(q))
      BY <1>b, <1>f
    <3>2. IsAppended(dq, q, m)
      BY DEF IsAppended
    <3> HIDE DEF s, q, dq
    <3>3. q \in Seq(Msg) /\ Line(q, s, sendqueue) /\ m \notin sendqueue
      BY <1>a, <1>b
    <3>4. /\ Line(dq, s, sendqueue)
          /\ Prefix(dq, Len(dq)) = Prefix(q, Len(q)) \cup {m}
      BY <3>1, <3>2, <3>3, LineAppend
    <3> QED BY <3>4, <1>f
  <2>4. dq \in Seq(Msg)
    BY <1>a
  <2>6. ref[s] = Cardinality(Of(sendqueue, s)) + (IF s \in app' THEN 1 ELSE 0)
    BY <1>0, <1>e DEF RefExact, NodesOf, Of
  <2>8. \A x \in Msg \cap DOMAIN out :
            /\ SessionOf[x] = s
            /\ (out[x] = "pending")
                 <=> (x \in sendqueue
                        \/ (ref[s] # 0 /\ x \in Prefix(dq, Len(dq))))
    BY <2>2, <2>3, <1>g, <1>a
  <2>9. \A x \in Msg \ DOMAIN out : SessionOf[x] = s =>
            ((outcome[x] = "pending")
               <=> (x \in sendqueue \/ x \in Prefix(dq, Len(dq))))
    BY <2>2, <2>3, <1>d
  <2> HIDE DEF out, s, q, st, dq
  <2>11. HeldOnce' /\ RefExact'
    BY <2>1, <2>3, <2>4, <2>6, <2>8, <2>9, <1>0, <1>a, <1>e, <1>g,
       SettleNodes
  <2>12. TxBound' /\ NotSentYet'
    <3>1. TxOnce({})
      BY <2>1, <1>e, TxNone
    <3>2. \A x \in Msg \cap Prefix(dq, Len(dq)) : tx[x] <= retransmit_cnt[x]
      BY <1>a, <2>3, <1>c
    <3>3. \A x \in Msg \cap DOMAIN out : out[x] # "idle"
      BY <2>2
    <3> QED BY <3>1, <3>2, <3>3, <2>1, <1>0, <1>e, SettleTx
  <2> QED BY <2>11, <2>12 DEF NodesInv
<1> QED BY <1>1, <1>2, <1>3

\* The first n delayed messages of session s leave the delay queue, the CONs
\* among them for the send queue, and then `gone' leaves the send queue: the
\* send queue sq, delay queue dq and reference count r that follow.
Moved(s, n, gone, sq, dq, r) ==
  LET q == delayqueue[s] IN
  /\ sq = (sendqueue \cup ConPrefix(q, n)) \ gone
  /\ dq = SubSeq(q, n + 1, Len(q))
  /\ r = ref[s] + Cardinality(ConPrefix(q, n)) - Cardinality(gone)

\* What such a step must conclude: everything that leaves the queues, and
\* perhaps messages that never got into one.
Concluded(s, n, gone, out) ==
  LET left  == gone \cup (Prefix(delayqueue[s], n) \ Con)
      never == {m \in Msg : SessionOf[m] = s /\ outcome[m] = "idle"}
  IN  /\ left \subseteq DOMAIN out
      /\ DOMAIN out \subseteq left \cup never
      /\ \A m \in DOMAIN out : out[m] \notin {"idle", "pending"}

\* Every handler that moves or removes nodes keeps the invariant, whatever
\* part of the moved prefix it transmits.
LEMMA FlushNodes ==
  ASSUME NodesInv, TypeOK', NEW s \in Session, s \notin freed,
         NEW n \in 0..Len(delayqueue[s]),
         NEW gone \in SUBSET (NodesOf(s) \cup ConPrefix(delayqueue[s], n)),
         NEW st, NEW used, NEW sq, NEW dq, NEW r, NEW out,
         Settle(s, st, used, sq, dq, r, out),
         Moved(s, n, gone, sq, dq, r),
         Concluded(s, n, gone, out),
         NEW ms \in SUBSET Prefix(delayqueue[s], n), TxOnce(ms),
         UNCHANGED <<retransmit_cnt, app>>
  PROVE  NodesInv'
<1> USE MsgAssumption
<1> DEFINE q == delayqueue[s]
           cs == ConPrefix(q, n)
<1>a. /\ q \in Seq(Msg) /\ Line(q, s, sendqueue)
      /\ sendqueue \in SUBSET Con /\ ref[s] \in Int
      /\ Queued(s) \subseteq Msg
      /\ \A x \in Queued(s) : /\ SessionOf[x] = s
                              /\ x \notin sendqueue
                              /\ outcome[x] = "pending"
                              /\ tx[x] <= retransmit_cnt[x]
  BY SessionFacts
<1>b. Queued(s) = Prefix(q, Len(q))
  BY DEF Queued
<1>c. \A x \in Msg : SessionOf[x] = s =>
        ((outcome[x] = "pending") <=> (x \in sendqueue \/ x \in Queued(s)))
  BY DEF NodesInv, HeldOnce
<1>d. TypeOK /\ HeldOnce /\ RefExact /\ TxBound /\ NotSentYet
  BY DEF NodesInv
<1>e. /\ cs \subseteq Con /\ cs = Prefix(q, n) \cap Con
      /\ SubSeq(q, n + 1, Len(q)) \in Seq(Msg)
  BY <1>a, PrefixFacts
<1>f. /\ sq = (sendqueue \cup cs) \ gone
      /\ dq = SubSeq(q, n + 1, Len(q))
      /\ r = ref[s] + Cardinality(cs) - Cardinality(gone)
  BY DEF Moved
<1>g. /\ Line(SubSeq(q, n + 1, Len(q)), s, sendqueue \cup ConPrefix(q, n))
      /\ Prefix(SubSeq(q, n + 1, Len(q)), Len(SubSeq(q, n + 1, Len(q))))
           = Prefix(q, Len(q)) \ Prefix(q, n)
      /\ Prefix(q, n) \subseteq Prefix(q, Len(q))
  BY <1>a, LineTail
<1>h. /\ Line(dq, s, sendqueue \cup cs)
      /\ Prefix(dq, Len(dq)) = Queued(s) \ Prefix(q, n)
      /\ Prefix(q, n) \subseteq Queued(s)
  BY <1>b, <1>f, <1>g
<1>i. dq \in Seq(Msg)
  BY <1>e, <1>f
<1> HIDE DEF q, cs
<1>j. sq \in SUBSET Con /\ sq \subseteq sendqueue \cup cs
  BY <1>a, <1>e, <1>f
<1>k. Line(dq, s, sq)
  BY <1>h, <1>j, LineShrink
<1>l. \A x \in cs : SessionOf[x] = s /\ x \notin sendqueue
  BY <1>a, <1>e, <1>h
<1>m. cs \in SUBSET Msg /\ gone \in SUBSET (NodesOf(s) \cup cs)
  BY <1>e DEF cs, q
<1>n. /\ r = Cardinality(Of(sq, s)) + (IF s \in app THEN 1 ELSE 0)
      /\ \A x \in Msg : SessionOf[x] # s => (x \in sq <=> x \in sendqueue)
      /\ Cardinality(cs) \in Nat /\ Cardinality(gone) \in Nat
  <2>1. /\ ref[s] + Cardinality(cs) - Cardinality(gone)
              = Cardinality(Of((sendqueue \cup cs) \ gone, s))
                  + (IF s \in app THEN 1 ELSE 0)
        /\ \A x \in Msg : SessionOf[x] # s =>
             (x \in (sendqueue \cup cs) \ gone <=> x \in sendqueue)
        /\ Cardinality(cs) \in Nat /\ Cardinality(gone) \in Nat
    BY <1>d, <1>l, <1>m, RefChange, ZenonT(60)
  <2> QED BY <2>1, <1>f, Zenon
<1>o. r \in Int
  BY <1>a, <1>f, <1>n
<1>p. /\ gone \cup (Prefix(q, n) \ Con) \subseteq DOMAIN out
      /\ \A x \in DOMAIN out : \/ x \in gone \cup (Prefix(q, n) \ Con)
                               \/ /\ x \in Msg
                                  /\ SessionOf[x] = s
                                  /\ outcome[x] = "idle"
      /\ \A x \in DOMAIN out : out[x] # "idle" /\ out[x] # "pending"
  BY DEF Concluded, q
<1>q. \A x \in gone : x \in sendqueue \cup cs /\ SessionOf[x] = s
                      /\ x \notin sq
  BY <1>f, <1>l, <1>m DEF NodesOf
<1>r. \A x \in Prefix(dq, Len(dq)) : x \notin sendqueue \cup cs
  BY <1>h DEF Line, Prefix
<1>1. ASSUME NEW x \in Msg \cap DOMAIN out
      PROVE  /\ SessionOf[x] = s
             /\ out[x] # "pending"
             /\ x \notin sq
             /\ x \notin Prefix(dq, Len(dq))
  <2>1. out[x] # "pending"
    BY <1>p
  <2>2. CASE x \in gone
    BY <2>1, <2>2, <1>q, <1>r
  <2>3. CASE x \in Prefix(q, n) \ Con
    BY <2>1, <2>3, <1>a, <1>h, <1>j
  <2>4. CASE SessionOf[x] = s /\ outcome[x] = "idle"
    <3>1. x \notin sendqueue /\ x \notin Queued(s)
      BY <2>4, <1>c
    <3> QED BY <2>1, <2>4, <3>1, <1>e, <1>h, <1>j
  <2> QED BY <2>2, <2>3, <2>4, <1>p
<1>2. ASSUME NEW x \in Msg \ DOMAIN out, SessionOf[x] = s
      PROVE  (outcome[x] = "pending")
               <=> (x \in sq \/ x \in Prefix(dq, Len(dq)))
  <2>1. x \notin gone /\ ~(x \in Prefix(q, n) /\ x \notin Con)
    BY <1>p
  <2>2. x \in sq <=> x \in sendqueue \/ x \in Prefix(q, n)
    BY <2>1, <1>e, <1>f
  <2> QED BY <2>2, <1>2, <1>c, <1>h
<1>3. HeldOnce' /\ RefExact'
  <2>1. \A x \in Msg \cap DOMAIN out :
            /\ SessionOf[x] = s
            /\ (out[x] = "pending")
                 <=> (x \in sq \/ (r # 0 /\ x \in Prefix(dq, Len(dq))))
    BY <1>1
  <2>2. \A x \in Msg \ DOMAIN out : SessionOf[x] = s =>
            ((outcome[x] = "pending")
               <=> (x \in sq \/ x \in Prefix(dq, Len(dq))))
    BY <1>2
  <2>3. /\ r = Cardinality(Of(sq, s)) + (IF s \in app' THEN 1 ELSE 0)
        /\ \A z \in Session \ {s} : z \in app' <=> z \in app
    BY <1>n
  <2> QED BY <2>1, <2>2, <2>3, <1>d, <1>i, <1>j, <1>k, <1>n, <1>o,
             SettleNodes
<1>4. TxBound' /\ NotSentYet'
  <2>0. ms \subseteq Prefix(q, n)
    BY DEF q
  <2>1. ASSUME NEW x \in ms
        PROVE  /\ tx[x] <= retransmit_cnt[x]
               /\ SessionOf[x] = s
               /\ x \notin Prefix(dq, Len(dq))
               /\ outcome'[x] # "idle"
    <3>1. x \in Prefix(q, n) /\ x \in Queued(s) /\ x \in Msg
      BY <2>0, <1>a, <1>h
    <3>2. outcome'[x] # "idle"
      <4>1. CASE x \in DOMAIN out
        BY <4>1, <3>1, <1>p, SettleOutcome
      <4>2. CASE x \notin DOMAIN out
        BY <4>2, <3>1, <1>a, SettleOutcome
      <4> QED BY <4>1, <4>2
    <3> QED BY <3>1, <3>2, <1>a, <1>h
  <2>2. \A x \in Msg \cap Prefix(dq, Len(dq)) : tx[x] <= retransmit_cnt[x]
    BY <1>a, <1>h
  <2>3. ms \in SUBSET Msg /\ \A x \in Msg \cap DOMAIN out : out[x] # "idle"
    BY <2>0, <1>a, <1>h, <1>p
  <2>4. UNCHANGED retransmit_cnt
    OBVIOUS
  <2> QED BY <2>1, <2>2, <2>3, <2>4, <1>d, SettleTx
<1> QED BY <1>3, <1>4 DEF NodesInv

\* Nothing is left behind the last entry.
LEMMA TailEmpty ==
  ASSUME NEW q \in Seq(Msg)
  PROVE  SubSeq(q, Len(q) + 1, Len(q)) = << >>
<1> DEFINE t == SubSeq(q, Len(q) + 1, Len(q))
<1>1. t \in Seq(Msg) /\ Len(t) = 0
  OBVIOUS
<1> HIDE DEF t
<1>2. t = << >>
  BY <1>1
<1> QED BY <1>2 DEF t

\* Only flushed messages are transmitted by a flush.
LEMMA TransmittedPart ==
  ASSUME NEW q, NEW n \in Nat, NEW err \in BOOLEAN
  PROVE  Transmitted(q, n, err) \in SUBSET Prefix(q, n)
BY DEF Transmitted, Prefix

\* A handler that concludes a message.
LEMMA ConcludeNodes ==
  ASSUME NodesInv, TypeOK', NEW m \in Msg, SessionOf[m] \notin freed,
         NEW o, o \notin {"idle", "pending"}, NEW used, NEW flush,
         NEW n \in 0..Len(delayqueue[SessionOf[m]]),
         NEW err \in BOOLEAN, NEW cancel \in BOOLEAN,
         Conclude(m, o, used, flush, n, err, cancel)
  PROVE  NodesInv'
<1> DEFINE s == SessionOf[m]
           q == delayqueue[s]
           cs == ConPrefix(q, n)
           sq == sendqueue \cup cs
           gone == {x \in sq : x = m \/ (cancel /\ x \in TokenMates(sq, m))}
           dq == SubSeq(q, n + 1, Len(q))
           r == ref[s] + Cardinality(cs) - Cardinality(gone)
           ms == Transmitted(q, n, err)
           out == [x \in gone \cup (Prefix(q, n) \ Con) |->
                   IF x = m THEN o
                   ELSE IF x \in gone THEN "answered"
                   ELSE IF x \in ms THEN "sent"
                   ELSE "dropped"]
<1>1. s \in Session /\ s \notin freed
  BY SessionAssumption
<1>2. n \in Nat /\ n \in 0..Len(q)
  BY <1>1, SessionFacts
<1>3. /\ Settle(s, state[s], used + Cardinality(cs), sq \ gone, dq, r, out)
      /\ TxOnce(ms)
      /\ UNCHANGED <<retransmit_cnt, app>>
  BY DEF Conclude
<1>4. gone \in SUBSET (NodesOf(s) \cup cs)
  BY DEF TokenMates, NodesOf
<1>5. Moved(s, n, gone, sq \ gone, dq, r)
  BY DEF Moved
<1>6. Concluded(s, n, gone, out)
  BY DEF Concluded
<1>7. ms \in SUBSET Prefix(q, n)
  BY <1>2, TransmittedPart
<1> DEFINE sr == sq \ gone
           u == used + Cardinality(cs)
<1>8. /\ Settle(s, state[s], u, sr, dq, r, out)
      /\ Moved(s, n, gone, sr, dq, r)
  BY <1>3, <1>5
<1>9. /\ gone \in SUBSET (NodesOf(s) \cup ConPrefix(delayqueue[s], n))
      /\ ms \in SUBSET Prefix(delayqueue[s], n)
      /\ n \in 0..Len(delayqueue[s])
  BY <1>2, <1>4, <1>7
<1> HIDE DEF s, q, cs, sq, gone, dq, r, ms, out, sr, u
<1> QED BY <1>1, <1>3, <1>6, <1>8, <1>9, FlushNodes

\* Nodes leave the send queue and nothing else happens.
LEMMA GoneNodes ==
  ASSUME NodesInv, TypeOK', NEW s \in Session, s \notin freed,
         NEW gone \in SUBSET NodesOf(s), NEW o, o \notin {"idle", "pending"},
         Settle(s, state[s], con_active[s], sendqueue \ gone, delayqueue[s],
                ref[s] - Cardinality(gone), All(gone, o)),
         UNCHANGED <<retransmit_cnt, app, tx>>
  PROVE  NodesInv'
<1> DEFINE q == delayqueue[s]
           sq == sendqueue \ gone
           r == ref[s] - Cardinality(gone)
           out == All(gone, o)
<1>1. /\ q \in Seq(Msg) /\ ref[s] \in Int /\ Len(q) \in Nat
      /\ sendqueue \in SUBSET Msg /\ TypeOK
  BY SessionFacts DEF NodesInv
<1>2. /\ ConPrefix(q, 0) = {}
      /\ Cardinality(ConPrefix(q, 0)) = 0
      /\ SubSeq(q, 1, Len(q)) = q
      /\ Prefix(q, 0) = {}
  BY <1>1, PrefixEmpty DEF Prefix
<1>3. Cardinality(gone) \in Nat
  <2>1. gone \in SUBSET Msg
    BY <1>1 DEF NodesOf
  <2> QED BY <2>1, MsgSetFinite
<1>4. Moved(s, 0, gone, sq, q, r)
  <2>1. sq = (sendqueue \cup ConPrefix(q, 0)) \ gone
    BY <1>2
  <2>2. q = SubSeq(q, 0 + 1, Len(q))
    BY <1>2
  <2>3. r = ref[s] + Cardinality(ConPrefix(q, 0)) - Cardinality(gone)
    BY <1>1, <1>2, <1>3
  <2> QED BY <2>1, <2>2, <2>3, Zenon DEF Moved
<1>5. Concluded(s, 0, gone, out)
  BY <1>2 DEF Concluded, All
<1>6. /\ TxOnce({})
      /\ 0 \in 0..Len(delayqueue[s])
      /\ {} \in SUBSET Prefix(delayqueue[s], 0)
      /\ gone \in SUBSET (NodesOf(s) \cup ConPrefix(delayqueue[s], 0))
      /\ Settle(s, state[s], con_active[s], sq, q, r, out)
      /\ UNCHANGED <<retransmit_cnt, app>>
  BY <1>1, TxNone
<1> HIDE DEF q, sq, r, out
<1> QED BY <1>4, <1>5, <1>6, FlushNodes

\* coap_session_disconnected() removes everything the session has.
LEMMA DisconnectedNodes ==
  ASSUME NodesInv, TypeOK', NEW s \in Session, s \notin freed,
         NEW refused \in SUBSET Msg,
         \A m \in refused : SessionOf[m] = s /\ outcome[m] = "idle",
         Disconnected(s, refused)
  PROVE  NodesInv'
<1> DEFINE q == delayqueue[s]
           n == Len(q)
           cs == ConPrefix(q, n)
           gone == NodesOf(s) \cup cs
           sq == sendqueue \ NodesOf(s)
           dq == << >>
           r == ref[s] - Cardinality(NodesOf(s))
           out == [m \in NodesOf(s) \cup Prefix(q, Len(q)) \cup refused |->
                     IF m \in refused THEN "refused"
                     ELSE IF m \in Con THEN "closed" ELSE "dropped"]
<1>1. /\ Settle(s, StateAfterDisconnect(s), 0, sq, dq, r, out)
      /\ UNCHANGED <<retransmit_cnt, app, tx>>
  BY DEF Disconnected
<1>2. /\ q \in Seq(Msg) /\ ref[s] \in Int /\ n \in 0..Len(q) /\ n \in Nat
      /\ sendqueue \in SUBSET Msg /\ TypeOK
      /\ \A x \in Queued(s) : SessionOf[x] = s /\ x \notin sendqueue
  BY SessionFacts DEF NodesInv
<1>3. Queued(s) = Prefix(q, n)
  BY DEF Queued
<1>4. /\ cs \subseteq Msg /\ cs = Prefix(q, n) \cap Con
  BY <1>2, PrefixFacts
<1>5. \A x \in cs : x \notin sendqueue
  BY <1>2, <1>3, <1>4
<1>6. NodesOf(s) \subseteq sendqueue /\ NodesOf(s) \subseteq Msg
  BY <1>2 DEF NodesOf
<1>7. Moved(s, n, gone, sq, dq, r)
  <2>1. sq = (sendqueue \cup cs) \ gone
    BY <1>5, <1>6
  <2>2. dq = SubSeq(q, n + 1, Len(q))
    BY <1>2, TailEmpty
  <2>3. /\ Cardinality(gone) = Cardinality(NodesOf(s)) + Cardinality(cs)
        /\ Cardinality(NodesOf(s)) \in Nat
        /\ Cardinality(cs) \in Nat
    <3>1. NodesOf(s) \cap cs = {}
      BY <1>5, <1>6
    <3> QED BY <3>1, <1>4, <1>6, CardAdd, MsgSetFinite
  <2>4. r = ref[s] + Cardinality(cs) - Cardinality(gone)
    BY <2>3, <1>2
  <2> QED BY <2>1, <2>2, <2>4, Zenon DEF Moved
<1>8. Concluded(s, n, gone, out)
  <2>1. DOMAIN out = NodesOf(s) \cup Prefix(q, n) \cup refused
    OBVIOUS
  <2>2. \A m \in DOMAIN out : out[m] \notin {"idle", "pending"}
    OBVIOUS
  <2> HIDE DEF out
  <2> QED BY <2>1, <2>2, <1>4 DEF Concluded
<1>9. /\ TxOnce({})
      /\ n \in 0..Len(delayqueue[s])
      /\ {} \in SUBSET Prefix(delayqueue[s], n)
      /\ gone \in SUBSET (NodesOf(s) \cup ConPrefix(delayqueue[s], n))
  BY <1>1, <1>2, TxNone
<1> HIDE DEF q, n, cs, gone, sq, dq, r, out
<1> QED BY <1>1, <1>7, <1>8, <1>9, FlushNodes

\* An ICMP error moves every delayed CON into the send queue.
LEMMA IcmpNodes ==
  ASSUME NodesInv, TypeOK', NEW s \in Session, IcmpError(s)
  PROVE  NodesInv'
<1> DEFINE q == delayqueue[s]
           n == Len(q)
           cs == ConPrefix(q, n)
           sq == sendqueue \cup cs
           dq == << >>
           r == ref[s] + Cardinality(cs)
           out == All(Prefix(q, Len(q)) \ Con, "dropped")
<1>1. /\ Settle(s, StateAfterDisconnect(s), 0, sq, dq, r, out)
      /\ UNCHANGED <<retransmit_cnt, app, tx>>
      /\ s \notin freed
  BY DEF IcmpError
<1>2. /\ q \in Seq(Msg) /\ ref[s] \in Int /\ n \in 0..Len(q) /\ n \in Nat
      /\ TypeOK
  BY SessionFacts DEF NodesInv
<1>3. Cardinality(cs) \in Nat /\ Cardinality({}) = 0
  BY <1>2, PrefixFacts, FS_EmptySet
<1>4. Moved(s, n, {}, sq, dq, r)
  <2>1. sq = (sendqueue \cup cs) \ {}
    OBVIOUS
  <2>2. dq = SubSeq(q, n + 1, Len(q))
    BY <1>2, TailEmpty
  <2>3. r = ref[s] + Cardinality(cs) - Cardinality({})
    BY <1>2, <1>3
  <2> QED BY <2>1, <2>2, <2>3, Zenon DEF Moved
<1>5. Concluded(s, n, {}, out)
  BY DEF Concluded, All
<1>6. /\ TxOnce({})
      /\ n \in 0..Len(delayqueue[s])
      /\ {} \in SUBSET Prefix(delayqueue[s], n)
      /\ {} \in SUBSET (NodesOf(s) \cup ConPrefix(delayqueue[s], n))
  BY <1>1, <1>2, TxNone
<1> HIDE DEF q, n, cs, sq, dq, r, out
<1> QED BY <1>1, <1>4, <1>5, <1>6, FlushNodes

\* The handshake completes and the delay queue is flushed.
LEMMA HandshakeNodes ==
  ASSUME NodesInv, TypeOK', NEW s \in Session, HandshakeDone(s)
  PROVE  NodesInv'
<1> DEFINE q == delayqueue[s]
<1>0. /\ s \notin freed
      /\ UNCHANGED <<retransmit_cnt, app>>
  BY DEF HandshakeDone
<1>1. PICK n \in 0..Len(q), err \in BOOLEAN :
        /\ Settle(s, "ESTABLISHED",
                  con_active[s] + Cardinality(ConPrefix(q, n)),
                  sendqueue \cup ConPrefix(q, n),
                  SubSeq(q, n + 1, Len(q)),
                  ref[s] + Cardinality(ConPrefix(q, n)),
                  [m \in Prefix(q, n) \ Con |->
                     IF m \in Transmitted(q, n, err) THEN "sent"
                     ELSE "dropped"])
        /\ TxOnce(Transmitted(q, n, err))
  BY DEF HandshakeDone
<1> DEFINE cs == ConPrefix(q, n)
           sq == sendqueue \cup cs
           dq == SubSeq(q, n + 1, Len(q))
           r == ref[s] + Cardinality(cs)
           ms == Transmitted(q, n, err)
           u == con_active[s] + Cardinality(cs)
           out == [m \in Prefix(q, n) \ Con |->
                     IF m \in ms THEN "sent" ELSE "dropped"]
<1>2. q \in Seq(Msg) /\ ref[s] \in Int /\ n \in Nat
  BY SessionFacts DEF NodesInv
<1>3. Cardinality(cs) \in Nat /\ Cardinality({}) = 0
  BY <1>2, PrefixFacts, FS_EmptySet
<1>4. Moved(s, n, {}, sq, dq, r)
  <2>1. sq = (sendqueue \cup cs) \ {}
    OBVIOUS
  <2>2. r = ref[s] + Cardinality(cs) - Cardinality({})
    BY <1>2, <1>3
  <2> QED BY <2>1, <2>2, Zenon DEF Moved
<1>5. Concluded(s, n, {}, out)
  BY DEF Concluded
<1>6. /\ n \in 0..Len(delayqueue[s])
      /\ ms \in SUBSET Prefix(delayqueue[s], n)
      /\ {} \in SUBSET (NodesOf(s) \cup ConPrefix(delayqueue[s], n))
  BY <1>2, TransmittedPart
<1>7. Settle(s, "ESTABLISHED", u, sq, dq, r, out) /\ TxOnce(ms)
  BY <1>1
<1> HIDE DEF q, cs, sq, dq, r, ms, u, out
<1> QED BY <1>0, <1>4, <1>5, <1>6, <1>7, FlushNodes

\* The counters when the timer of node m fires: one retransmission is counted,
\* and m is transmitted or delayed but not both.
LEMMA RetransmitTx ==
  ASSUME NodesInv, NEW m \in Msg, m \in sendqueue,
         retransmit_cnt[m] < MaxRetransmit,
         retransmit_cnt' = [retransmit_cnt EXCEPT ![m] = @ + 1],
         \A x \in Msg : outcome'[x] = "idle" => outcome[x] = "idle",
         \A x \in Msg : x \in Queued(SessionOf[x])' =>
                          x = m \/ x \in Queued(SessionOf[x]),
         \/ UNCHANGED tx
         \/ TxOnce({m}) /\ m \notin Queued(SessionOf[m])'
  PROVE  TxBound' /\ NotSentYet'
<1>1. /\ \A x \in Msg : tx[x] \in Nat /\ retransmit_cnt[x] \in Nat
      /\ MaxRetransmit \in Nat
      /\ \A x \in Msg : /\ tx[x] <= retransmit_cnt[x] + 1
                        /\ retransmit_cnt[x] <= MaxRetransmit
  BY BoundAssumption DEF NodesInv, TypeOK, TxBound
<1>2. /\ \A x \in Msg \ {m} : /\ retransmit_cnt'[x] = retransmit_cnt[x]
                              /\ tx'[x] = tx[x]
      /\ retransmit_cnt'[m] = retransmit_cnt[m] + 1
      /\ tx'[m] = tx[m] \/ (tx'[m] = tx[m] + 1
                              /\ m \notin Queued(SessionOf[m])')
  BY DEF NodesInv, TypeOK, TxOnce
<1>3. TxBound'
  <2> SUFFICES ASSUME NEW x \in Msg
               PROVE  /\ tx'[x] <= retransmit_cnt'[x] + 1
                      /\ retransmit_cnt'[x] <= MaxRetransmit
    BY DEF TxBound
  <2>1. CASE x = m
    BY <2>1, <1>1, <1>2
  <2>2. CASE x # m
    BY <2>2, <1>1, <1>2
  <2> QED BY <2>1, <2>2
<1>4. outcome'[m] # "idle"
  BY DEF NodesInv, HeldOnce
<1>5. ASSUME NEW x \in Msg,
             outcome'[x] = "idle" \/ x \in Queued(SessionOf[x])'
      PROVE  tx'[x] <= retransmit_cnt'[x]
  <2>1. CASE x = m
    <3>1. tx'[m] = tx[m]
      BY <2>1, <1>2, <1>4, <1>5
    <3> QED BY <3>1, <2>1, <1>1, <1>2
  <2>2. CASE x # m
    <3>1. outcome[x] = "idle" \/ x \in Queued(SessionOf[x])
      BY <2>2, <1>5
    <3>2. tx[x] <= retransmit_cnt[x]
      BY <3>1 DEF NodesInv, NotSentYet
    <3> QED BY <3>2, <2>2, <1>2
  <2> QED BY <2>1, <2>2
<1>6. NotSentYet'
  BY <1>5 DEF NotSentYet
<1> QED BY <1>3, <1>6

\* coap_retransmit() with a retransmission left.
LEMMA RetransmitNodes ==
  ASSUME NodesInv, TypeOK', NEW m \in Msg, Retransmit(m)
  PROVE  NodesInv'
<1> DEFINE s == SessionOf[m]
           q == delayqueue[s]
<1>0. s \in Session
  BY SessionAssumption
<1>a. /\ q \in Seq(Msg) /\ Line(q, s, sendqueue)
      /\ sendqueue \in SUBSET Con /\ ref[s] \in Int /\ Queued(s) \subseteq Msg
      /\ \A x \in Queued(s) : /\ SessionOf[x] = s
                              /\ x \notin sendqueue
                              /\ outcome[x] = "pending"
  BY <1>0, SessionFacts
<1>b. \A x \in Msg : SessionOf[x] = s =>
        ((outcome[x] = "pending") <=> (x \in sendqueue \/ x \in Queued(s)))
  BY DEF NodesInv, HeldOnce
<1>c. TypeOK /\ HeldOnce /\ RefExact
  BY DEF NodesInv
<1>d. Queued(s) = Prefix(q, Len(q))
  BY DEF Queued
<1>e. /\ m \in sendqueue
      /\ retransmit_cnt[m] < MaxRetransmit
      /\ retransmit_cnt' = [retransmit_cnt EXCEPT ![m] = @ + 1]
      /\ UNCHANGED app
  BY DEF Retransmit
<1>f. m \in NodesOf(s) /\ m \notin Queued(s)
  BY <1>a, <1>e DEF NodesOf
<1>g. s \notin freed /\ ref[s] > 0
  BY <1>0, <1>c, <1>f, FreedHasNothing
<1>1. ASSUME NEW st, NEW used,
             Settle(s, st, used, sendqueue, q, ref[s], None),
             UNCHANGED tx \/ TxOnce({m})
      PROVE  NodesInv'
  <2>1. DOMAIN None = {}
    BY NoneType
  <2>2. ref[s] = Cardinality(Of(sendqueue, s)) + (IF s \in app' THEN 1 ELSE 0)
    BY <1>0, <1>c, <1>e DEF RefExact, NodesOf, Of
  <2>3. /\ \A x \in Msg \cap DOMAIN None :
            /\ SessionOf[x] = s
            /\ (None[x] = "pending")
                 <=> (x \in sendqueue
                        \/ (ref[s] # 0 /\ x \in Prefix(q, Len(q))))
        /\ \A x \in Msg \ DOMAIN None : SessionOf[x] = s =>
            ((outcome[x] = "pending")
               <=> (x \in sendqueue \/ x \in Prefix(q, Len(q))))
    BY <2>1, <1>b, <1>d
  <2>4. \A x \in Msg : outcome'[x] = outcome[x]
    BY <1>1, <1>a, <1>g, <2>1, SettleOutcome
  <2>5. \A x \in Msg : x \in Queued(SessionOf[x])' =>
                         x \in Queued(SessionOf[x])
    <3>1. delayqueue'[s] = q
      BY <1>0, <1>1, <1>a, <1>c, <1>g, SettleEffect
    <3>2. \A z \in Session \ {s} : delayqueue'[z] = delayqueue[z]
      BY <1>0, <1>1, <1>c, SettleEffect
    <3>3. \A z \in Session : delayqueue'[z] = delayqueue[z]
      BY <3>1, <3>2
    <3> QED BY <3>3, SessionAssumption DEF Queued
  <2>6. m \notin Queued(SessionOf[m])'
    BY <2>5, <1>f
  <2> HIDE DEF s, q
  <2>7. HeldOnce' /\ RefExact'
    BY <1>1, <2>2, <2>3, <1>0, <1>a, <1>c, <1>e, <1>g, SettleNodes
  <2>8. TxBound' /\ NotSentYet'
    BY <1>1, <2>4, <2>5, <2>6, <1>e, RetransmitTx
  <2> QED BY <2>7, <2>8 DEF NodesInv
<1>2. ASSUME NEW st, NEW used, NEW dq, IsAppended(dq, q, m), NEW out,
             NEW sq, sq = sendqueue \ {m},
             DOMAIN out = IF ref[s] = 1 THEN {m} ELSE {},
             \A x \in DOMAIN out : out[x] = "clobbered",
             Settle(s, st, used, sq, dq, ref[s] - 1, out),
             UNCHANGED tx
      PROVE  NodesInv'
  <2> DEFINE r == ref[s] - 1
  <2>0. Settle(s, st, used, sq, dq, r, out) /\ r \in Int
    BY <1>2, <1>a
  <2>1. /\ ref[s] + Cardinality({}) - Cardinality({m})
             = Cardinality(Of((sendqueue \cup {}) \ {m}, s))
                 + (IF s \in app THEN 1 ELSE 0)
        /\ \A x \in Msg : SessionOf[x] # s =>
             (x \in (sendqueue \cup {}) \ {m} <=> x \in sendqueue)
    BY <1>0, <1>c, <1>f, RefChange
  <2>2. Cardinality({}) = 0 /\ Cardinality({m}) = 1
    BY FS_EmptySet, CardOne
  <2>3. (sendqueue \cup {}) \ {m} = sq
    BY <1>2
  <2>4. /\ r = Cardinality(Of(sq, s)) + (IF s \in app' THEN 1 ELSE 0)
        /\ \A x \in Msg : SessionOf[x] # s => (x \in sq <=> x \in sendqueue)
    <3>1. ref[s] + Cardinality({}) - Cardinality({m}) = r
      BY <2>2, <1>a
    <3> QED BY <3>1, <2>1, <2>3, <1>e
  <2>5. /\ Line(dq, s, sq)
        /\ Prefix(dq, Len(dq)) = Queued(s) \cup {m}
    <3>1. Line(q, s, sq) /\ m \notin sq /\ m \notin Prefix(q, Len(q))
      BY <1>2, <1>a, <1>d, <1>f, LineShrink
    <3>2. IsAppended(dq, q, m) /\ SessionOf[m] = s
      BY <1>2
    <3> HIDE DEF s, q
    <3> QED BY <3>1, <3>2, <1>a, <1>d, LineAppend
  <2>6. dq \in Seq(Msg) /\ sq \in SUBSET Con
    BY <1>2, <1>a DEF IsAppended
  <2>7. \A x \in Msg \cap DOMAIN out :
            /\ SessionOf[x] = s
            /\ (out[x] = "pending")
                 <=> (x \in sq \/ (r # 0 /\ x \in Prefix(dq, Len(dq))))
    <3> SUFFICES ASSUME NEW x \in Msg \cap DOMAIN out
                 PROVE  /\ SessionOf[x] = s
                        /\ out[x] # "pending"
                        /\ x \notin sq
                        /\ r = 0
      OBVIOUS
    <3>1. x = m /\ ref[s] = 1
      BY <1>2
    <3>2. out[x] = "clobbered"
      BY <1>2
    <3> QED BY <3>1, <3>2, <1>2
  <2>8. \A x \in Msg \ DOMAIN out : SessionOf[x] = s =>
            ((outcome[x] = "pending")
               <=> (x \in sq \/ x \in Prefix(dq, Len(dq))))
    BY <2>5, <1>2, <1>b, <1>e
  <2>9. \A x \in Msg : outcome'[x] = "idle" => outcome[x] = "idle"
    <3> SUFFICES ASSUME NEW x \in Msg, outcome'[x] = "idle"
                 PROVE  outcome[x] = "idle"
      OBVIOUS
    <3>1. x \in DOMAIN out => outcome'[x] = "clobbered"
      BY <2>0, <1>2, SettleOutcome
    <3> HIDE DEF r
    <3> QED BY <3>1, <2>0, SettleOutcome
  <2>10. \A x \in Msg : x \in Queued(SessionOf[x])' =>
                          x = m \/ x \in Queued(SessionOf[x])
    <3> SUFFICES ASSUME NEW x \in Msg, x \in Queued(SessionOf[x])'
                 PROVE  x = m \/ x \in Queued(SessionOf[x])
      OBVIOUS
    <3>1. CASE SessionOf[x] = s
      <4>1. delayqueue'[s] = IF r = 0 THEN << >> ELSE dq
        <5> HIDE DEF s, q, r
        <5> QED BY <2>0, <1>0, <1>c, SettleEffect
      <4>2. x \in Prefix(dq, Len(dq))
        BY <3>1, <4>1, LineEmpty DEF Queued
      <4> QED BY <3>1, <4>2, <2>5
    <3>2. CASE SessionOf[x] # s
      <4>1. delayqueue'[SessionOf[x]] = delayqueue[SessionOf[x]]
        BY <3>2, <2>0, <1>0, <1>c, SettleEffect, SessionAssumption
      <4> QED BY <4>1 DEF Queued
    <3> QED BY <3>1, <3>2
  <2> HIDE DEF s, q, r
  <2>11. HeldOnce' /\ RefExact'
    BY <2>0, <2>4, <2>5, <2>6, <2>7, <2>8, <1>0, <1>c, <1>e, <1>g,
       SettleNodes
  <2>12. TxBound' /\ NotSentYet'
    BY <1>2, <2>9, <2>10, <1>e, RetransmitTx
  <2> QED BY <2>11, <2>12 DEF NodesInv
<1>3. \/ /\ Settle(s, state[s], Decremented(s) + 1, sendqueue, q, ref[s],
                   None)
         /\ TxOnce({m})
      \/ /\ Settle(s, state[s], Decremented(s), sendqueue, q, ref[s], None)
         /\ UNCHANGED tx
      \/ /\ Settle(s, IF state[s] = "NONE" THEN "HANDSHAKE" ELSE state[s],
                   Decremented(s), sendqueue \ {m}, Append(q, m),
                   ref[s] - 1,
                   IF ref[s] = 1 THEN All({m}, "clobbered") ELSE None)
         /\ UNCHANGED tx
  BY DEF Retransmit
<1>4. CASE Settle(s, state[s], Decremented(s) + 1, sendqueue, q, ref[s], None)
           /\ TxOnce({m})
  BY <1>1, <1>4
<1>5. CASE Settle(s, state[s], Decremented(s), sendqueue, q, ref[s], None)
           /\ UNCHANGED tx
  BY <1>1, <1>5
<1>6. CASE /\ Settle(s, IF state[s] = "NONE" THEN "HANDSHAKE" ELSE state[s],
                     Decremented(s), sendqueue \ {m}, Append(q, m),
                     ref[s] - 1,
                     IF ref[s] = 1 THEN All({m}, "clobbered") ELSE None)
           /\ UNCHANGED tx
  <2> DEFINE st == IF state[s] = "NONE" THEN "HANDSHAKE" ELSE state[s]
             dq == Append(q, m)
             sq == sendqueue \ {m}
             out == IF ref[s] = 1 THEN All({m}, "clobbered") ELSE None
  <2>1. /\ DOMAIN out = IF ref[s] = 1 THEN {m} ELSE {}
        /\ \A x \in DOMAIN out : out[x] = "clobbered"
    BY DEF All, None
  <2>2. IsAppended(dq, q, m) /\ sq = sendqueue \ {m}
    BY DEF IsAppended
  <2>3. Settle(s, st, Decremented(s), sq, dq, ref[s] - 1, out) /\ UNCHANGED tx
    BY <1>6
  <2> HIDE DEF st, dq, sq, out
  <2> QED BY <1>2, <2>1, <2>2, <2>3
<1> QED BY <1>3, <1>4, <1>5, <1>6

\* The application lets go of its session.
LEMMA ReleaseNodes ==
  ASSUME NodesInv, TypeOK', NEW s \in Session, AppRelease(s)
  PROVE  NodesInv'
<1> DEFINE q == delayqueue[s]
           r == ref[s] - 1
<1>1. /\ s \in app
      /\ app' = app \ {s}
      /\ Settle(s, state[s], con_active[s], sendqueue, q, r, None)
      /\ UNCHANGED <<retransmit_cnt, tx>>
  BY DEF AppRelease
<1>a. /\ q \in Seq(Msg) /\ Line(q, s, sendqueue)
      /\ sendqueue \in SUBSET Con /\ ref[s] \in Int /\ r \in Int
      /\ Queued(s) \subseteq Msg
      /\ \A x \in Queued(s) : tx[x] <= retransmit_cnt[x]
  BY SessionFacts
<1>b. \A x \in Msg : SessionOf[x] = s =>
        ((outcome[x] = "pending") <=> (x \in sendqueue \/ x \in Queued(s)))
  BY DEF NodesInv, HeldOnce
<1>c. TypeOK /\ HeldOnce /\ RefExact /\ TxBound /\ NotSentYet
  BY DEF NodesInv
<1>d. Queued(s) = Prefix(q, Len(q)) /\ DOMAIN None = {}
  BY NoneType DEF Queued
<1>e. s \notin freed
  BY <1>1, <1>c, FreedHasNothing
<1>2. /\ r = Cardinality(Of(sendqueue, s)) + (IF s \in app' THEN 1 ELSE 0)
      /\ \A z \in Session \ {s} : z \in app' <=> z \in app
  <2>1. ref[s] = Cardinality(NodesOf(s)) + 1
    BY <1>1, <1>c DEF RefExact
  <2>2. Cardinality(NodesOf(s)) \in Nat /\ NodesOf(s) = Of(sendqueue, s)
    BY <1>c, FreedHasNothing DEF NodesOf, Of
  <2>3. r = Cardinality(Of(sendqueue, s)) + 0
    BY <2>1, <2>2
  <2> HIDE DEF r
  <2> QED BY <2>3, <1>1
<1>3. \A x \in Msg \ DOMAIN None : SessionOf[x] = s =>
        ((outcome[x] = "pending")
           <=> (x \in sendqueue \/ x \in Prefix(q, Len(q))))
  BY <1>b, <1>d
<1> HIDE DEF q, r
<1>4. HeldOnce' /\ RefExact'
  BY <1>1, <1>2, <1>3, <1>a, <1>c, <1>d, <1>e, SettleNodes
<1>5. TxBound' /\ NotSentYet'
  <2>1. TxOnce({})
    BY <1>1, <1>c, TxNone
  <2> QED BY <2>1, <1>1, <1>a, <1>c, <1>d, SettleTx
<1> QED BY <1>4, <1>5 DEF NodesInv

\* Every action keeps the invariant.
LEMMA NodesStep == NodesInv /\ [Next]_vars => NodesInv'
<1> SUFFICES ASSUME NodesInv, [Next]_vars PROVE NodesInv'
  OBVIOUS
<1> USE SessionAssumption
<1>a. TypeOK /\ TypeOK'
  BY TypeStep DEF NodesInv
<1>b. \A m \in sendqueue : m \in Msg /\ SessionOf[m] \notin freed
  <2> SUFFICES ASSUME NEW m \in sendqueue
               PROVE  m \in Msg /\ SessionOf[m] \notin freed
    OBVIOUS
  <2>1. m \in Msg /\ SessionOf[m] \in Session /\ m \in NodesOf(SessionOf[m])
    BY <1>a, MsgAssumption DEF TypeOK, NodesOf
  <2> QED BY <2>1, <1>a, FreedHasNothing DEF NodesInv
<1>1. CASE UNCHANGED vars
  BY <1>1 DEF vars, NodesInv, TypeOK, HeldOnce, Queued, RefExact, NodesOf,
     TxBound, NotSentYet
<1>2. ASSUME NEW m \in Msg, Send(m) PROVE NodesInv'
  <2>1. CASE SendNow(m) \/ SendDelayed(m)
    BY <1>2, <1>a, <2>1, SendNodes DEF Send
  <2>2. CASE SendRefused(m)
    <3>1. /\ outcome[m] = "idle"
          /\ outcome' = [outcome EXCEPT ![m] = "refused"]
          /\ UNCHANGED <<delayqueue, sendqueue, ref, freed, app, tx,
                         retransmit_cnt>>
      BY <1>2, <2>2 DEF Send, SendRefused
    <3>2. /\ outcome'[m] = "refused"
          /\ \A x \in Msg \ {m} : outcome'[x] = outcome[x]
      BY <3>1, <1>a DEF TypeOK
    <3>3. HeldOnce'
      BY <3>1, <3>2 DEF NodesInv, HeldOnce, Queued
    <3>4. RefExact' /\ TxBound'
      BY <3>1 DEF NodesInv, RefExact, NodesOf, TxBound
    <3>5. NotSentYet'
      BY <3>1, <3>2 DEF NodesInv, NotSentYet, Queued
    <3> QED BY <1>a, <3>3, <3>4, <3>5 DEF NodesInv
  <2> QED BY <1>2, <2>1, <2>2 DEF Send
<1>3. ASSUME NEW m \in Msg, KeepAlivePing(m) PROVE NodesInv'
  BY <1>3, <1>a, SendNodes DEF KeepAlivePing
<1>4. ASSUME NEW m \in Msg, Retransmit(m) PROVE NodesInv'
  BY <1>4, <1>a, RetransmitNodes
<1>5. ASSUME NEW m \in Msg, GiveUp(m) PROVE NodesInv'
  <2> DEFINE cancel == FALSE
             o == "retries"
  <2>1. PICK n \in 0..Len(delayqueue[SessionOf[m]]), err \in BOOLEAN :
          Conclude(m, o, Decremented(SessionOf[m]),
                   Flushes(SessionOf[m]), n, err, cancel)
    BY <1>5 DEF GiveUp
  <2>2. o \notin {"idle", "pending"} /\ cancel \in BOOLEAN
    OBVIOUS
  <2>3. SessionOf[m] \notin freed
    BY <1>5, <1>b DEF GiveUp
  <2> HIDE DEF cancel, o
  <2> QED BY <2>1, <2>2, <2>3, <1>a, ConcludeNodes
<1>6. ASSUME NEW m \in Msg, NEW response \in BOOLEAN, RecvAck(m, response)
      PROVE  NodesInv'
  <2> DEFINE o == "acked"
  <2>1. PICK n \in 0..Len(delayqueue[SessionOf[m]]), err \in BOOLEAN :
          Conclude(m, o, Decremented(SessionOf[m]),
                   Flushes(SessionOf[m]), n, err, response)
    BY <1>6 DEF RecvAck
  <2>2. o \notin {"idle", "pending"}
    OBVIOUS
  <2>3. SessionOf[m] \notin freed
    BY <1>6 DEF RecvAck, Heard
  <2> HIDE DEF o
  <2> QED BY <2>1, <2>2, <2>3, <1>a, ConcludeNodes
<1>7. ASSUME NEW m \in Msg, RecvRst(m) PROVE NodesInv'
  <2> DEFINE s == SessionOf[m]
             cancel == HasResources /\ m \in sendqueue
             o == IF m \in sendqueue /\ m = last_ping_mid[s] THEN "pong"
                  ELSE "rst"
  <2>1. PICK n \in 0..Len(delayqueue[s]), err \in BOOLEAN :
          Conclude(m, o, Decremented(s), Flushes(s), n, err, cancel)
    BY <1>7 DEF RecvRst
  <2>2. o \notin {"idle", "pending"} /\ cancel \in BOOLEAN
    BY BoundAssumption
  <2>3. s \notin freed
    BY <1>7 DEF RecvRst, Heard
  <2> HIDE DEF cancel, o
  <2> QED BY <2>1, <2>2, <2>3, <1>a, ConcludeNodes
<1>8. ASSUME NEW m \in Msg, RecvSeparate(m) PROVE NodesInv'
  <2> DEFINE s == SessionOf[m]
             mates == TokenMates(sendqueue, m)
             o == "answered"
  <2>1. /\ Settle(s, state[s], con_active[s], sendqueue \ mates,
                  delayqueue[s], ref[s] - Cardinality(mates),
                  All(mates, o))
        /\ UNCHANGED <<retransmit_cnt, app, tx>>
        /\ s \notin freed
    BY <1>8 DEF RecvSeparate, Heard
  <2>2. /\ mates \in SUBSET NodesOf(s) /\ s \in Session
        /\ o \notin {"idle", "pending"}
    BY DEF TokenMates, NodesOf
  <2> HIDE DEF s, mates, o
  <2> QED BY <2>1, <2>2, <1>a, GoneNodes
<1>9. ASSUME NEW m \in Msg, RecvNonSameMid(m) PROVE NodesInv'
  <2> DEFINE s == SessionOf[m]
             gone == {m}
             o == "clobbered"
  <2>1. /\ Settle(s, state[s], con_active[s], sendqueue \ gone,
                  delayqueue[s], ref[s] - Cardinality(gone), All(gone, o))
        /\ UNCHANGED <<retransmit_cnt, app, tx>>
        /\ s \notin freed
    BY <1>9, CardOne DEF RecvNonSameMid
  <2>2. /\ gone \in SUBSET NodesOf(s) /\ s \in Session
        /\ o \notin {"idle", "pending"}
    BY <1>9 DEF RecvNonSameMid, NodesOf
  <2> HIDE DEF s, gone, o
  <2> QED BY <2>1, <2>2, <1>a, GoneNodes
<1>10. ASSUME NEW s \in Session, HandshakeDone(s) PROVE NodesInv'
  BY <1>10, <1>a, HandshakeNodes
<1>11. ASSUME NEW s \in Session, KeepAliveFails(s) PROVE NodesInv'
  <2>1. s \notin freed
    BY <1>11 DEF KeepAliveFails
  <2>2. CASE Disconnected(s, {})
    <3>1. /\ {} \in SUBSET Msg
          /\ \A m \in {} : SessionOf[m] = s /\ outcome[m] = "idle"
      OBVIOUS
    <3> QED BY <2>1, <2>2, <3>1, <1>a, DisconnectedNodes
  <2>3. ASSUME NEW m \in Ping, SessionOf[m] = s, outcome[m] = "idle",
               Disconnected(s, {m})
        PROVE  NodesInv'
    <3>1. /\ {m} \in SUBSET Msg
          /\ \A x \in {m} : SessionOf[x] = s /\ outcome[x] = "idle"
      BY <2>3, MsgAssumption
    <3> QED BY <2>1, <2>3, <3>1, <1>a, DisconnectedNodes
  <2> QED BY <1>11, <2>2, <2>3 DEF KeepAliveFails
<1>12. ASSUME NEW s \in Session, Close(s) PROVE NodesInv'
  <2>1. /\ {} \in SUBSET Msg
        /\ \A m \in {} : SessionOf[m] = s /\ outcome[m] = "idle"
    OBVIOUS
  <2> QED BY <1>12, <2>1, <1>a, DisconnectedNodes DEF Close
<1>13. ASSUME NEW s \in Session, IcmpError(s) PROVE NodesInv'
  BY <1>13, <1>a, IcmpNodes
<1>14. ASSUME NEW s \in Session, AppRelease(s) PROVE NodesInv'
  BY <1>14, <1>a, ReleaseNodes
<1> QED BY <1>1, <1>2, <1>3, <1>4, <1>5, <1>6, <1>7, <1>8, <1>9, <1>10,
           <1>11, <1>12, <1>13, <1>14 DEF Next, MsgStep, SessionStep

\* The queues start empty, and every session with one reference.
LEMMA NodesInit == Init => NodesInv
<1> SUFFICES ASSUME Init PROVE NodesInv
  OBVIOUS
<1>1. TypeOK
  BY MsgAssumption, SessionAssumption DEF Init, TypeOK, States, Outcomes
<1>2. \A s \in Session : NodesOf(s) = {} /\ Queued(s) = {}
  BY DEF Init, NodesOf, Queued, Prefix
<1>3. HeldOnce
  BY <1>2, SessionAssumption DEF Init, HeldOnce
<1>4. RefExact
  <2>1. \A s \in Session : Cardinality(NodesOf(s)) = 0
    BY <1>2, FS_EmptySet
  <2> QED BY <2>1 DEF Init, RefExact
<1>5. TxBound /\ NotSentYet
  BY BoundAssumption DEF Init, TxBound, NotSentYet
<1> QED BY <1>1, <1>3, <1>4, <1>5 DEF NodesInv

\* Whatever moves a node between the two queues, a pending message is in
\* exactly one of them, the references of a session count exactly its nodes
\* and its user, and no message is transmitted more often than 1 +
\* MAX_RETRANSMIT times: for any sessions and messages, and every fault.
THEOREM NodesAlwaysAccounted == Spec => []NodesAccounted
<1>1. NodesInv => NodesAccounted
  BY DEF NodesInv, NodesAccounted
<1> QED BY <1>1, NodesInit, NodesStep, PTL DEF Spec

-----------------------------------------------------------------------------
(* The refinement: the two queues behave as the window of ConWindow.  The  *)
(* CONs of a delay queue first.                                            *)

\* f[i] holds the CONs among the first i entries of q.
Takes(f, q) ==
  /\ f \in [0..Len(q) -> Seq(Con)] /\ f[0] = << >>
  /\ \A k \in 1..Len(q) :
       f[k] = IF q[k] \in Con THEN Append(f[k - 1], q[k]) ELSE f[k - 1]

\* ConsOf is what taking entry by entry leaves.
LEMMA ConsOfTakes ==
  ASSUME NEW q \in Seq(Msg)
  PROVE  \E f : Takes(f, q) /\ ConsOf(q) = f[Len(q)]
<1> DEFINE n == Len(q)
           Rule(k, old) == IF q[k] \in Con THEN Append(old, q[k]) ELSE old
           r == [x \in (1..n) \X Seq(Con) |-> Rule(x[1], x[2])]
           Kept(f) == f = [k \in 0..n |-> IF k = 0 THEN << >> ELSE Rule(k, f[k - 1])]
           c == CHOOSE f : Kept(f)
<1>1. n \in Nat
  OBVIOUS
<1>2. \A k \in 1..n, old \in Seq(Con) : Rule(k, old) \in Seq(Con)
  BY AppendProperties
<1>3. ConsOf(q) = c[n]
  BY Zenon DEF ConsOf
<1>4. r \in [(1..n) \X Seq(Con) -> Seq(Con)]
  <2> HIDE DEF Rule, n
  <2> QED BY <1>2
<1>5. \A k \in 1..n, old \in Seq(Con) : r[<<k, old>>] = Rule(k, old)
  <2> HIDE DEF Rule, n
  <2> QED OBVIOUS
<1>6. << >> \in Seq(Con)
  OBVIOUS
<1>7. PICK f : Follows(f, Seq(Con), n, << >>, r)
  <2> HIDE DEF r, n, Rule
  <2> QED BY <1>1, <1>4, <1>6, FollowsExists
<1>8. /\ f \in [0..n -> Seq(Con)] /\ f[0] = << >>
      /\ \A k \in 1..n : f[k] = r[<<k, f[k - 1]>>]
  BY <1>7 DEF Follows
<1> HIDE DEF r
<1>9. ASSUME NEW k \in 1..n PROVE f[k] = Rule(k, f[k - 1])
  <2> HIDE DEF Rule, n
  <2>1. f[k - 1] \in Seq(Con)
    BY <1>1, <1>8
  <2> QED BY <1>5, <1>8, <2>1
<1>10. Kept(f)
  <2> DEFINE h == [k \in 0..n |-> IF k = 0 THEN << >> ELSE Rule(k, f[k - 1])]
  <2> HIDE DEF Rule, n
  <2>1. ASSUME NEW k \in 0..n PROVE f[k] = h[k]
    <3>1. k # 0 => k \in 1..n
      BY <1>1
    <3> QED BY <1>8, <1>9, <3>1
  <2>2. f = [k \in 0..n |-> f[k]] /\ h = [k \in 0..n |-> h[k]]
    BY <1>8
  <2>3. f = h
    BY <2>1, <2>2
  <2> QED BY <2>3
<1>11. Kept(c)
  <2> HIDE DEF Kept
  <2> QED BY <1>10
<1> HIDE DEF c
<1>12. c[0] = << >> /\ \A k \in 1..n : c[k] = Rule(k, c[k - 1])
  <2> HIDE DEF Rule, n
  <2>1. 0 \in 0..n /\ \A k \in 1..n : k \in 0..n /\ k # 0
    BY <1>1
  <2> QED BY <1>11, <2>1
<1>13. c = [k \in 0..n |-> c[k]]
  <2> HIDE DEF Rule, n
  <2> QED BY <1>11
<1> DEFINE G == {k \in 0..n : c[k] \in Seq(Con)}
<1>14. 0 \in G
  <2>1. c[0] \in Seq(Con)
    BY <1>6, <1>12, Zenon
  <2> HIDE DEF n
  <2> QED BY <1>1, <2>1
<1>15. \A k \in 1..n : k - 1 \in G => k \in G
  <2> HIDE DEF Rule, n
  <2> QED BY <1>1, <1>2, <1>12
<1>16. \A k \in 0..n : k \in G
  <2> HIDE DEF G, n
  <2> QED BY <1>1, <1>14, <1>15, UpTo
<1>17. c \in [0..n -> Seq(Con)]
  <2> HIDE DEF n
  <2> QED BY <1>13, <1>16
<1> QED BY <1>3, <1>12, <1>17 DEF Takes

\* What is taken so far: the CONs among the entries seen.
LEMMA TakesPrefix ==
  ASSUME NEW q \in Seq(Msg), NEW f, Takes(f, q)
  PROVE  \A n \in 0..Len(q) :
           {f[n][i] : i \in 1..Len(f[n])} = ConPrefix(q, n)
<1> DEFINE G == {n \in 0..Len(q) :
                   {f[n][i] : i \in 1..Len(f[n])} = ConPrefix(q, n)}
<1>1. Len(q) \in Nat
  OBVIOUS
<1>2. 0 \in G
  BY <1>1, PrefixEmpty DEF Takes
<1>3. ASSUME NEW n \in 1..Len(q), n - 1 \in G PROVE n \in G
  <2> DEFINE old == f[n - 1]
  <2>1. /\ old \in Seq(Con) /\ n \in 0..Len(q)
        /\ {old[i] : i \in 1..Len(old)} = ConPrefix(q, n - 1)
        /\ f[n] = IF q[n] \in Con THEN Append(old, q[n]) ELSE old
    <3>1. n - 1 \in 0..Len(q) /\ n \in 0..Len(q)
      BY <1>1
    <3>2. f \in [0..Len(q) -> Seq(Con)]
      BY DEF Takes
    <3>3. {old[i] : i \in 1..Len(old)} = ConPrefix(q, n - 1)
      BY <1>3
    <3>4. f[n] = IF q[n] \in Con THEN Append(old, q[n]) ELSE old
      BY DEF Takes
    <3> QED BY <3>1, <3>2, <3>3, <3>4
  <2>2. ConPrefix(q, n) = ConPrefix(q, n - 1) \cup (IF q[n] \in Con THEN {q[n]} ELSE {})
    <3>1. \A j \in 1..n : j \in 1..(n - 1) \/ j = n
      BY <1>1
    <3>2. 1..(n - 1) \subseteq 1..n /\ n \in 1..n
      BY <1>1
    <3> QED BY <3>1, <3>2 DEF ConPrefix
  <2> HIDE DEF old
  <2>3. CASE q[n] \in Con
    <3> DEFINE new == Append(old, q[n])
    <3>1. /\ Len(new) = Len(old) + 1 /\ new[Len(old) + 1] = q[n] /\ Len(old) \in Nat
          /\ \A i \in 1..Len(old) : new[i] = old[i]
      BY <2>1, <2>3
    <3> HIDE DEF new
    <3>2. {new[i] : i \in 1..Len(new)} = {old[i] : i \in 1..Len(old)} \cup {q[n]}
      <4>1. /\ \A i \in 1..Len(new) : i \in 1..Len(old) \/ i = Len(old) + 1
            /\ 1..Len(old) \subseteq 1..Len(new) /\ Len(old) + 1 \in 1..Len(new)
        BY <3>1
      <4> QED BY <3>1, <4>1
    <3>3. f[n] = new
      BY <2>1, <2>3 DEF new
    <3> QED BY <2>1, <2>2, <2>3, <3>2, <3>3
  <2>4. CASE q[n] \notin Con
    BY <2>1, <2>2, <2>4
  <2> QED BY <2>3, <2>4
<1>4. \A n \in 0..Len(q) : n \in G
  <2> HIDE DEF G
  <2> QED BY <1>1, <1>2, <1>3, UpTo
<1> QED BY <1>4

\* What f has taken after i more entries than n is what it had taken before,
\* and then what g has taken of those i.
Continues(f, g, n, i) ==
  /\ Len(f[n + i]) = Len(f[n]) + Len(g[i])
  /\ \A j \in 1..Len(f[n]) : f[n + i][j] = f[n][j]
  /\ \A j \in 1..Len(g[i]) : f[n + i][Len(f[n]) + j] = g[i][j]

\* What is taken later begins with what was taken before, and goes on with what
\* is taken of the rest of the queue.
LEMMA TakesTail ==
  ASSUME NEW q \in Seq(Msg), NEW n \in 0..Len(q), NEW t, NEW f, NEW g,
         t = SubSeq(q, n + 1, Len(q)), Takes(f, q), Takes(g, t)
  PROVE  \A i \in 0..(Len(q) - n) : Continues(f, g, n, i)
<1> DEFINE d == Len(q) - n
           p == f[n]
           G == {i \in 0..d : /\ Len(f[n + i]) = Len(p) + Len(g[i])
                              /\ \A j \in 1..Len(p) : f[n + i][j] = p[j]
                              /\ \A j \in 1..Len(g[i]) : f[n + i][Len(p) + j] = g[i][j]}
<1>1. /\ Len(q) \in Nat /\ d \in Nat /\ Len(t) = d /\ n \in Nat
      /\ \A i \in 1..d : t[i] = q[n + i]
      /\ \A i \in 0..d : n + i \in 0..Len(q)
      /\ \A i \in 1..d : n + i \in 1..Len(q) /\ n + i - 1 = n + (i - 1)
  OBVIOUS
<1>2. /\ f \in [0..Len(q) -> Seq(Con)] /\ g \in [0..d -> Seq(Con)] /\ g[0] = << >>
      /\ \A k \in 1..Len(q) :
           f[k] = IF q[k] \in Con THEN Append(f[k - 1], q[k]) ELSE f[k - 1]
      /\ \A k \in 1..d :
           g[k] = IF t[k] \in Con THEN Append(g[k - 1], t[k]) ELSE g[k - 1]
  BY <1>1 DEF Takes
<1>3. p \in Seq(Con)
  BY <1>1, <1>2
<1> HIDE DEF d, p
<1>4. 0 \in G
  <2>1. n + 0 = n /\ 0 \in 0..d
    BY <1>1
  <2>2. Len(p) \in Nat /\ Len(g[0]) = 0
    BY <1>2, <1>3
  <2>3. f[n + 0] = p /\ Len(p) + Len(g[0]) = Len(p) /\ 1..Len(g[0]) = {}
    BY <2>1, <2>2 DEF p
  <2> QED BY <2>1, <2>3
<1>5. ASSUME NEW i \in 1..d, i - 1 \in G PROVE i \in G
  <2> DEFINE a == f[n + (i - 1)]
             b == g[i - 1]
             x == q[n + i]
  <2>1. /\ i \in 0..d /\ i - 1 \in 0..d
    BY <1>1
  <2>2. /\ a \in Seq(Con) /\ b \in Seq(Con) /\ Len(a) = Len(p) + Len(b)
        /\ \A j \in 1..Len(p) : a[j] = p[j]
        /\ \A j \in 1..Len(b) : a[Len(p) + j] = b[j]
    BY <1>1, <1>2, <1>5, <2>1
  <2>3. /\ f[n + i] = IF x \in Con THEN Append(a, x) ELSE a
        /\ g[i] = IF x \in Con THEN Append(b, x) ELSE b
    <3>1. n + i \in 1..Len(q) /\ n + i - 1 = n + (i - 1) /\ t[i] = x
      BY <1>1
    <3>2. f[n + i] = IF x \in Con THEN Append(f[n + i - 1], x) ELSE f[n + i - 1]
      BY <1>2, <3>1
    <3> HIDE DEF x
    <3>3. g[i] = IF x \in Con THEN Append(b, x) ELSE b
      BY <1>2, <3>1
    <3> QED BY <3>1, <3>2, <3>3
  <2> HIDE DEF a, b, x
  <2>4. CASE x \notin Con
    <3>1. f[n + i] = a /\ g[i] = b
      BY <2>3, <2>4
    <3> QED BY <2>1, <2>2, <3>1
  <2>5. CASE x \in Con
    <3> DEFINE aa == Append(a, x)
               bb == Append(b, x)
    <3>1. /\ Len(a) \in Nat /\ Len(b) \in Nat /\ Len(p) \in Nat
          /\ Len(aa) = Len(a) + 1 /\ Len(bb) = Len(b) + 1
          /\ aa[Len(a) + 1] = x /\ bb[Len(b) + 1] = x
          /\ \A j \in 1..Len(a) : aa[j] = a[j]
          /\ \A j \in 1..Len(b) : bb[j] = b[j]
      <4>1. Len(a) \in Nat /\ Len(b) \in Nat /\ Len(p) \in Nat
        BY <1>3, <2>2
      <4>0. a \in Seq(Con) /\ b \in Seq(Con)
        BY <2>2
      <4>2. /\ Len(aa) = Len(a) + 1 /\ aa[Len(a) + 1] = x
            /\ \A j \in 1..Len(a) : aa[j] = a[j]
        BY <2>5, <4>0, AppendProperties
      <4>3. /\ Len(bb) = Len(b) + 1 /\ bb[Len(b) + 1] = x
            /\ \A j \in 1..Len(b) : bb[j] = b[j]
        BY <2>5, <4>0, AppendProperties
      <4> QED BY <4>1, <4>2, <4>3
    <3>2. f[n + i] = aa /\ g[i] = bb
      BY <2>3, <2>5
    <3> HIDE DEF aa, bb
    <3>3. Len(aa) = Len(p) + Len(bb)
      BY <2>2, <3>1
    <3>4. \A j \in 1..Len(p) : aa[j] = p[j]
      BY <2>2, <3>1
    <3>5. ASSUME NEW j \in 1..Len(bb) PROVE aa[Len(p) + j] = bb[j]
      <4>1. CASE j = Len(b) + 1
        <5>1. Len(p) + j = Len(a) + 1
          BY <2>2, <3>1, <4>1
        <5> QED BY <3>1, <4>1, <5>1
      <4>2. CASE j # Len(b) + 1
        <5>1. j \in 1..Len(b) /\ Len(p) + j \in 1..Len(a)
          BY <2>2, <3>1, <4>2
        <5> QED BY <2>2, <3>1, <5>1
      <4> QED BY <4>1, <4>2
    <3> QED BY <2>1, <3>2, <3>3, <3>4, <3>5
  <2> QED BY <2>4, <2>5
<1>6. \A i \in 0..d : i \in G
  <2> HIDE DEF G
  <2> QED BY <1>1, <1>4, <1>5, UpTo
<1> QED BY <1>6 DEF d, p, Continues

\* The CONs of the whole queue, when the first n entries leave it: the first k
\* of the line, where k is how many CONs were among them.
LEMMA ConsOfTail ==
  ASSUME NEW q \in Seq(Msg), NEW n \in 0..Len(q)
  PROVE  /\ ConsOf(q) \in Seq(Con)
         /\ \E k \in 0..Len(ConsOf(q)) :
              /\ {ConsOf(q)[i] : i \in 1..k} = ConPrefix(q, n)
              /\ ConsOf(SubSeq(q, n + 1, Len(q))) = SubSeq(ConsOf(q), k + 1, Len(ConsOf(q)))
              /\ n = Len(q) => k = Len(ConsOf(q))
<1> DEFINE t == SubSeq(q, n + 1, Len(q))
           d == Len(q) - n
<1>1. t \in Seq(Msg) /\ Len(t) = d /\ d \in Nat /\ Len(q) \in Nat /\ n + d = Len(q) /\ d \in 0..d
  OBVIOUS
<1>2. PICK f : Takes(f, q) /\ ConsOf(q) = f[Len(q)]
  BY ConsOfTakes
<1>3. PICK g : Takes(g, t) /\ ConsOf(t) = g[d]
  BY <1>1, ConsOfTakes
<1> DEFINE all == f[Len(q)]
           p == f[n]
           rest == g[d]
           k == Len(p)
<1>4. /\ Len(all) = Len(p) + Len(rest)
      /\ \A j \in 1..Len(p) : all[j] = p[j]
      /\ \A j \in 1..Len(rest) : all[Len(p) + j] = rest[j]
  <2>1. Takes(f, q) /\ Takes(g, t) /\ t = SubSeq(q, n + 1, Len(q))
    BY <1>2, <1>3
  <2> HIDE DEF t
  <2>2. \A i \in 0..(Len(q) - n) : Continues(f, g, n, i)
    BY <2>1, TakesTail, Zenon
  <2>3. d \in 0..(Len(q) - n) /\ n + d = Len(q)
    BY <1>1
  <2> HIDE DEF d
  <2> QED BY <2>2, <2>3 DEF Continues
<1>5. all \in Seq(Con) /\ p \in Seq(Con) /\ rest \in Seq(Con)
  <2>1. f \in [0..Len(q) -> Seq(Con)]
    BY <1>2 DEF Takes
  <2>2. g \in [0..Len(t) -> Seq(Con)]
    BY <1>3 DEF Takes
  <2> HIDE DEF t
  <2>3. n \in 0..Len(q) /\ Len(q) \in 0..Len(q) /\ d \in 0..Len(t)
    BY <1>1
  <2> HIDE DEF d
  <2> QED BY <2>1, <2>2, <2>3
<1>6. {p[i] : i \in 1..Len(p)} = ConPrefix(q, n)
  BY <1>2, TakesPrefix
<1>7. n = Len(q) => k = Len(all)
  OBVIOUS
<1> HIDE DEF all, p, rest, t, d
<1>8. k \in 0..Len(all) /\ Len(p) \in Nat /\ Len(rest) \in Nat /\ Len(all) \in Nat
  BY <1>4, <1>5
<1>9. {all[i] : i \in 1..k} = ConPrefix(q, n)
  BY <1>4, <1>6
<1>10. rest = SubSeq(all, k + 1, Len(all))
  <2> DEFINE u == SubSeq(all, k + 1, Len(all))
  <2>1. /\ u \in Seq(Con) /\ Len(u) = Len(all) - k
        /\ \A j \in 1..(Len(all) - k) : u[j] = all[k + j]
    BY <1>5, <1>8
  <2> HIDE DEF u
  <2>2. Len(u) = Len(rest)
    BY <1>4, <1>8, <2>1
  <2>3. \A j \in 1..Len(rest) : u[j] = rest[j]
    BY <1>4, <1>8, <2>1, <2>2
  <2>4. u = rest
    BY <1>5, <2>1, <2>2, <2>3, SeqEqual
  <2> QED BY <2>4 DEF u
<1>11. ConsOf(q) = all /\ ConsOf(t) = rest
  BY <1>2, <1>3 DEF all, rest
<1>12. /\ {ConsOf(q)[i] : i \in 1..k} = ConPrefix(q, n)
       /\ ConsOf(t) = SubSeq(ConsOf(q), k + 1, Len(ConsOf(q)))
       /\ n = Len(q) => k = Len(ConsOf(q))
       /\ k \in 0..Len(ConsOf(q))
  BY <1>7, <1>8, <1>9, <1>10, <1>11
<1> HIDE DEF k
<1> QED BY <1>5, <1>11, <1>12 DEF t

\* An entry is appended.
LEMMA ConsOfAppend ==
  ASSUME NEW q \in Seq(Msg), NEW m \in Msg
  PROVE  ConsOf(Append(q, m)) = IF m \in Con THEN Append(ConsOf(q), m) ELSE ConsOf(q)
<1> DEFINE t == Append(q, m)
           n == Len(q)
<1>1. /\ t \in Seq(Msg) /\ Len(t) = n + 1 /\ n \in Nat
      /\ t[n + 1] = m /\ \A i \in 1..n : t[i] = q[i]
  OBVIOUS
<1>2. PICK f : Takes(f, q) /\ ConsOf(q) = f[n]
  BY ConsOfTakes
<1>3. PICK g : Takes(g, t) /\ ConsOf(t) = g[n + 1]
  <2> HIDE DEF t
  <2> QED BY <1>1, ConsOfTakes
<1> HIDE DEF t, n
<1>4. /\ g[0] = << >> /\ f[0] = << >>
      /\ \A k \in 1..n : f[k] = IF q[k] \in Con THEN Append(f[k - 1], q[k]) ELSE f[k - 1]
      /\ \A k \in 1..(n + 1) : g[k] = IF t[k] \in Con THEN Append(g[k - 1], t[k]) ELSE g[k - 1]
  BY <1>1, <1>2, <1>3 DEF Takes, n
<1> DEFINE G == {k \in 0..n : g[k] = f[k]}
<1>5. 0 \in G
  BY <1>1, <1>4
<1>6. ASSUME NEW k \in 1..n, k - 1 \in G PROVE k \in G
  <2>1. g[k - 1] = f[k - 1] /\ t[k] = q[k] /\ k \in 1..(n + 1) /\ k \in 0..n
    BY <1>1, <1>6
  <2> QED BY <1>4, <2>1
<1>7. n \in G
  <2>1. \A k \in 0..n : k \in G
    <3> HIDE DEF G
    <3> QED BY <1>1, <1>5, <1>6, UpTo
  <2> QED BY <1>1, <2>1
<1>8. g[n + 1] = IF m \in Con THEN Append(g[n], m) ELSE g[n]
  <2>1. n + 1 \in 1..(n + 1) /\ (n + 1) - 1 = n
    BY <1>1
  <2> QED BY <1>1, <1>4, <2>1
<1> QED BY <1>2, <1>3, <1>7, <1>8 DEF t

\* The peer acknowledges or is silent, the socket takes every datagram, and no
\* two CONs of a session share a token.
OnlyAcknowledged ==
  /\ Faults \subseteq {"close", "release", "dtlsfail"}
  /\ \A m, x \in Con : SessionOf[m] = SessionOf[x] /\ TokenOf[m] = TokenOf[x] => m = x

\* A session counts its nodes exactly, and has none unless it is established.
WindowExact ==
  \A s \in Session :
    /\ con_active[s] = Cardinality(NodesOf(s))
    /\ state[s] # "ESTABLISHED" => NodesOf(s) = {}
    /\ s \notin Dtls => state[s] = "ESTABLISHED"

WindowInv == NodesInv /\ SlotBound /\ NoIdleSlot /\ WindowExact

\* An empty delay queue holds no CON.
LEMMA ConsOfEmpty == ConsOf(<< >>) = << >>
<1> DEFINE q == << >>
<1>1. q \in Seq(Msg) /\ Len(q) = 0
  OBVIOUS
<1> HIDE DEF q
<1>2. PICK f : Takes(f, q) /\ ConsOf(q) = f[Len(q)]
  BY <1>1, ConsOfTakes
<1>3. f[0] = << >>
  BY <1>2 DEF Takes
<1> QED BY <1>1, <1>2, <1>3 DEF q

\* The abstract line holds exactly the CONs of the delay queue.
LEMMA ConsOfEntries ==
  ASSUME NEW q \in Seq(Msg)
  PROVE  ConsOf(q) \in Seq(Con) /\ Window!Entries(ConsOf(q)) = ConPrefix(q, Len(q))
<1>1. Len(q) \in 0..Len(q)
  OBVIOUS
<1> QED BY <1>1, ConsOfTail DEF Window!Entries

\* What Settle does to the abstract state.
LEMMA SettleWindow ==
  ASSUME TypeOK, NEW s \in Session, NEW st, NEW used, NEW sq, NEW dq, NEW r, NEW out,
         Settle(s, st, used, sq, dq, r, out), sendqueue \subseteq Msg, sq \subseteq Msg,
         \A x \in Msg : SessionOf[x] # s => (x \in sq <=> x \in sendqueue)
  PROVE  /\ Established' = IF st = "ESTABLISHED" THEN Established \cup {s} ELSE Established \ {s}
         /\ Windows' = [Windows EXCEPT ![s] = Of(sq, s)]
         /\ Lines' = [Lines EXCEPT ![s] = ConsOf(IF r = 0 THEN << >> ELSE dq)]
         /\ NodesOf(s)' = Of(sq, s)
         /\ \A z \in Session \ {s} : NodesOf(z)' = NodesOf(z)
<1>1. /\ state'[s] = st /\ sendqueue' = sq
      /\ delayqueue'[s] = IF r = 0 THEN << >> ELSE dq
      /\ \A z \in Session \ {s} : state'[z] = state[z] /\ delayqueue'[z] = delayqueue[z]
  BY SettleEffect
<1>2. NodesOf(s)' = Of(sq, s)
  BY <1>1 DEF NodesOf, Of
<1>3. \A z \in Session \ {s} : NodesOf(z)' = NodesOf(z)
  BY <1>1 DEF NodesOf
<1>4. Established' = IF st = "ESTABLISHED" THEN Established \cup {s} ELSE Established \ {s}
  <2>1. \A z \in Session : z \in Established' <=> state'[z] = "ESTABLISHED"
    BY DEF Established
  <2>2. \A z \in Session : z \in Established <=> state[z] = "ESTABLISHED"
    BY DEF Established
  <2>3. Established' \subseteq Session /\ Established \subseteq Session
    BY DEF Established
  <2> QED BY <1>1, <2>1, <2>2, <2>3
<1>5. Windows' = [Windows EXCEPT ![s] = Of(sq, s)]
  BY <1>2, <1>3 DEF Windows
<1>6. Lines' = [Lines EXCEPT ![s] = ConsOf(IF r = 0 THEN << >> ELSE dq)]
  <2> DEFINE d == IF r = 0 THEN << >> ELSE dq
  <2> HIDE DEF d
  <2>1. delayqueue'[s] = d
    BY <1>1 DEF d
  <2>2. Lines' = [Lines EXCEPT ![s] = ConsOf(d)]
    BY <1>1, <2>1 DEF Lines
  <2> QED BY <2>2 DEF d
<1> QED BY <1>2, <1>3, <1>4, <1>5, <1>6

\* Settle keeps the count exact.
LEMMA SettleExact ==
  ASSUME TypeOK, WindowExact, NEW s \in Session, NEW st, NEW used, NEW sq, NEW dq, NEW r, NEW out,
         Settle(s, st, used, sq, dq, r, out), sendqueue \subseteq Msg, sq \subseteq Msg,
         \A x \in Msg : SessionOf[x] # s => (x \in sq <=> x \in sendqueue),
         used = Cardinality(Of(sq, s)),
         st # "ESTABLISHED" => Of(sq, s) = {},
         s \notin Dtls => st = "ESTABLISHED"
  PROVE  WindowExact'
<1>1. /\ state'[s] = st /\ con_active'[s] = used
      /\ \A z \in Session \ {s} : state'[z] = state[z] /\ con_active'[z] = con_active[z]
  BY SettleEffect
<1>2. NodesOf(s)' = Of(sq, s) /\ \A z \in Session \ {s} : NodesOf(z)' = NodesOf(z)
  BY SettleWindow
<1> SUFFICES ASSUME NEW z \in Session
             PROVE  /\ con_active'[z] = Cardinality(NodesOf(z)')
                    /\ state'[z] # "ESTABLISHED" => NodesOf(z)' = {}
                    /\ z \notin Dtls => state'[z] = "ESTABLISHED"
  BY DEF WindowExact
<1>3. CASE z = s
  BY <1>1, <1>2, <1>3
<1>4. CASE z # s
  BY <1>1, <1>2, <1>4 DEF WindowExact
<1> QED BY <1>3, <1>4

\* Line w moves up by k places into the window win, as far as NSTART allows:
\* the first n entries of q enter, the others wait.
Moves(q, win, n, k) ==
  LET w == ConsOf(q)
      win2 == win \cup {w[i] : i \in 1..k}
  IN  /\ win2 = win \cup ConPrefix(q, n)
      /\ Cardinality(win2) = Cardinality(win) + Cardinality(ConPrefix(q, n))
      /\ Cardinality(win2) <= NSTART
      /\ k = Len(w) \/ Cardinality(win2) = NSTART
      /\ ConsOf(SubSeq(q, n + 1, Len(q))) = SubSeq(w, k + 1, Len(w))

\* The abstract window and line of a session when n entries are flushed.
LEMMA FlushEnters ==
  ASSUME NEW q \in Seq(Msg), NEW win \in SUBSET Msg, NEW n \in 0..Len(q),
         "sendfail" \notin Faults, NEW err \in BOOLEAN,
         LoopStops(q, Cardinality(win), n, err), win \cap ConPrefix(q, n) = {}
  PROVE  \E k \in 0..Len(ConsOf(q)) : Moves(q, win, n, k)
<1>1. PICK k \in 0..Len(ConsOf(q)) :
        /\ {ConsOf(q)[i] : i \in 1..k} = ConPrefix(q, n)
        /\ ConsOf(SubSeq(q, n + 1, Len(q))) = SubSeq(ConsOf(q), k + 1, Len(ConsOf(q)))
        /\ n = Len(q) => k = Len(ConsOf(q))
  BY ConsOfTail
<1> DEFINE cs == ConPrefix(q, n)
<1>2. cs \subseteq Msg /\ Cardinality(cs) \in Nat
  BY PrefixFacts
<1>3. Cardinality(win) \in Nat
  BY MsgSetFinite
<1>4. Cardinality(win \cup cs) = Cardinality(win) + Cardinality(cs)
  BY <1>2, CardAdd
<1>5. Cardinality(win) + Cardinality(cs) <= NSTART
  BY DEF LoopStops
<1>6. n = Len(q) \/ Cardinality(win) + Cardinality(cs) = NSTART
  <2>1. n < Len(q) => Cardinality(win) + Cardinality(cs) >= NSTART
    BY DEF LoopStops
  <2>2. n = Len(q) \/ n < Len(q)
    OBVIOUS
  <2> HIDE DEF cs
  <2> QED BY <1>2, <1>3, <1>5, <2>1, <2>2, BoundAssumption
<1> QED BY <1>1, <1>4, <1>5, <1>6 DEF Moves

\* What the invariant says of one session.
LEMMA WindowFacts ==
  ASSUME WindowInv, NEW s \in Session
  PROVE  /\ TypeOK /\ delayqueue[s] \in Seq(Msg) /\ sendqueue \subseteq Msg
         /\ NodesOf(s) \in SUBSET Msg /\ NodesOf(s) = Of(sendqueue, s)
         /\ Cardinality(NodesOf(s)) \in Nat
         /\ con_active[s] = Cardinality(NodesOf(s)) /\ con_active[s] <= NSTART
         /\ state[s] \in States
         /\ state[s] # "ESTABLISHED" => NodesOf(s) = {}
         /\ s \notin Dtls => state[s] = "ESTABLISHED"
         /\ s \in Established <=> state[s] = "ESTABLISHED"
         /\ Lines[s] = ConsOf(delayqueue[s]) /\ Windows[s] = NodesOf(s)
         /\ ref[s] = Cardinality(NodesOf(s)) + (IF s \in app THEN 1 ELSE 0)
         /\ s \notin freed => ref[s] > 0
         /\ s \notin freed /\ state[s] = "ESTABLISHED" /\ delayqueue[s] # << >> => con_active[s] = NSTART
<1>1. TypeOK /\ delayqueue[s] \in Seq(Msg) /\ sendqueue \subseteq Msg /\ state[s] \in States
  BY MsgAssumption DEF WindowInv, NodesInv, TypeOK
<1>2. NodesOf(s) \in SUBSET Msg /\ NodesOf(s) = Of(sendqueue, s)
  BY <1>1 DEF NodesOf, Of
<1>3. Cardinality(NodesOf(s)) \in Nat
  BY <1>2, MsgSetFinite
<1>4. s \in Established <=> state[s] = "ESTABLISHED"
  BY DEF Established
<1>5. Lines[s] = ConsOf(delayqueue[s]) /\ Windows[s] = NodesOf(s)
  BY DEF Lines, Windows
<1>6. /\ ref[s] = Cardinality(NodesOf(s)) + (IF s \in app THEN 1 ELSE 0)
      /\ s \notin freed => ref[s] > 0
  BY <1>1, FreedHasNothing DEF WindowInv, NodesInv, RefExact
<1> QED BY <1>1, <1>2, <1>3, <1>4, <1>5, <1>6 DEF WindowInv, WindowExact, SlotBound, NoIdleSlot

\* A message that was not sent yet is not known to the window.
LEMMA IdleFresh ==
  ASSUME WindowInv, NEW m \in Con, outcome[m] = "idle"
  PROVE  Window!Fresh(m) /\ m \notin sendqueue /\ m \notin Queued(SessionOf[m])
<1> DEFINE s == SessionOf[m]
           q == delayqueue[s]
<1>1. m \in Msg /\ s \in Session
  BY MsgAssumption, SessionAssumption
<1>2. m \notin sendqueue /\ m \notin Queued(s)
  BY <1>1 DEF WindowInv, NodesInv, HeldOnce
<1>3. m \notin Ended
  BY DEF Ended, Final
<1>4. Lines[s] = ConsOf(q) /\ Windows[s] = NodesOf(s) /\ q \in Seq(Msg)
  BY <1>1, WindowFacts
<1>5. Window!Entries(Lines[s]) = ConPrefix(q, Len(q))
  BY <1>4, ConsOfEntries
<1>6. m \notin ConPrefix(q, Len(q))
  BY <1>2 DEF ConPrefix, Queued, Prefix
<1>7. m \notin Windows[s]
  BY <1>2, <1>4 DEF NodesOf
<1> QED BY <1>2, <1>3, <1>5, <1>6, <1>7 DEF Window!Fresh

\* What Settle does to the messages that are concluded.
LEMMA SettleEnded ==
  ASSUME NEW s, NEW st, NEW used, NEW sq, NEW dq, NEW r, NEW out,
         Settle(s, st, used, sq, dq, r, out)
  PROVE  \A m \in Con :
           m \in Ended' <=>
             IF m \in DOMAIN out THEN out[m] \in Final
             ELSE (r = 0 /\ m \in Prefix(dq, Len(dq))) \/ m \in Ended
<1> SUFFICES ASSUME NEW m \in Con
             PROVE  m \in Ended' <=>
                      IF m \in DOMAIN out THEN out[m] \in Final
                      ELSE (r = 0 /\ m \in Prefix(dq, Len(dq))) \/ m \in Ended
  OBVIOUS
<1>1. m \in Msg
  BY MsgAssumption
<1>2. (m \in Ended' <=> outcome'[m] \in Final) /\ (m \in Ended <=> outcome[m] \in Final)
  BY DEF Ended
<1>3. outcome'[m] = IF m \in DOMAIN out THEN out[m]
                    ELSE IF r = 0 /\ m \in Prefix(dq, Len(dq))
                         THEN IF m \in Con THEN "closed" ELSE "dropped"
                         ELSE outcome[m]
  BY <1>1 DEF Settle
<1>4. "closed" \in Final
  BY DEF Final
<1> QED BY <1>2, <1>3, <1>4

\* Only CONs count as concluded.
LEMMA EndedCon == Ended \subseteq Con /\ Ended' \subseteq Con
BY DEF Ended

\* The abstract specification counts as this one does.
LEMMA SameCard == \A S : Window!Cardinality(S) = Cardinality(S)
BY Zenon DEF Window!Cardinality, Cardinality

\* A step that moves no CON.
LEMMA SettleStutters ==
  ASSUME WindowInv, NEW s \in Session, NEW st, NEW used, NEW dq, NEW r, NEW out,
         Settle(s, st, used, sendqueue, dq, r, out), r # 0,
         used = con_active[s], st = "ESTABLISHED" <=> state[s] = "ESTABLISHED",
         ConsOf(dq) = ConsOf(delayqueue[s]), DOMAIN out \cap Con = {}
  PROVE  WindowExact' /\ UNCHANGED Window!wvars
<1> DEFINE N == NodesOf(s)
<1>1. /\ TypeOK /\ sendqueue \subseteq Msg /\ N = Of(sendqueue, s) /\ con_active[s] = Cardinality(N)
      /\ (s \in Established <=> state[s] = "ESTABLISHED")
      /\ Lines[s] = ConsOf(delayqueue[s]) /\ Windows[s] = N /\ WindowExact
      /\ (state[s] # "ESTABLISHED" => N = {}) /\ (s \notin Dtls => state[s] = "ESTABLISHED")
  BY WindowFacts DEF WindowInv
<1> HIDE DEF N
<1>2. WindowExact'
  BY <1>1, SettleExact
<1>3. \A x \in Con : x \in Ended' <=> x \in Ended
  BY SettleEnded
<1>4. Ended' = Ended
  BY <1>3, EndedCon
<1>5. /\ Established' = IF st = "ESTABLISHED" THEN Established \cup {s} ELSE Established \ {s}
      /\ Windows' = [Windows EXCEPT ![s] = N]
      /\ Lines' = [Lines EXCEPT ![s] = ConsOf(IF r = 0 THEN << >> ELSE dq)]
  BY <1>1, SettleWindow
<1>6. Established' = Established
  BY <1>1, <1>5
<1>7. /\ Windows = [Windows EXCEPT ![s] = Windows[s]]
      /\ Lines = [Lines EXCEPT ![s] = Lines[s]]
  BY DEF Windows, Lines
<1>8. Windows' = Windows /\ Lines' = Lines
  BY <1>1, <1>5, <1>7
<1> QED BY <1>2, <1>4, <1>6, <1>8 DEF Window!wvars

\* The window of s becomes win2 and its line rest.
LEMMA Enters ==
  ASSUME NEW s, NEW isOpen \in BOOLEAN, NEW w, NEW win, NEW n, NEW win2, NEW rest,
         win2 = win \cup {w[i] : i \in 1..n}, Cardinality(win2) <= NSTART,
         isOpen => n = Len(w) \/ Cardinality(win2) = NSTART,
         ~isOpen => n = 0,
         Established' = IF isOpen THEN Established \cup {s} ELSE Established \ {s},
         Windows' = [Windows EXCEPT ![s] = win2],
         Lines' = [Lines EXCEPT ![s] = rest], rest = SubSeq(w, n + 1, Len(w))
  PROVE  Window!Enter(s, isOpen, w, win, n)
BY SameCard DEF Window!Enter

\* A CON that is transmitted at once enters the window.
LEMMA SendNowRefines ==
  ASSUME WindowInv, NEW m \in Msg, outcome[m] = "idle", SessionOf[m] \notin freed, SendNow(m)
  PROVE  WindowExact' /\ [Window!WNext]_(Window!wvars)
<1> DEFINE s == SessionOf[m]
           q == delayqueue[s]
           N == NodesOf(s)
<1>1. s \in Session
  BY SessionAssumption
<1>2. /\ TypeOK /\ q \in Seq(Msg) /\ sendqueue \subseteq Msg
      /\ N \in SUBSET Msg /\ N = Of(sendqueue, s) /\ Cardinality(N) \in Nat
      /\ con_active[s] = Cardinality(N) /\ (s \in Established <=> state[s] = "ESTABLISHED")
      /\ Lines[s] = ConsOf(q) /\ Windows[s] = N /\ ref[s] > 0 /\ ref[s] \in Int
      /\ (q # << >> /\ state[s] = "ESTABLISHED" => con_active[s] = NSTART)
      /\ WindowExact
  BY <1>1, WindowFacts, SessionFacts DEF WindowInv
<1>3. state[s] = "ESTABLISHED"
  BY DEF SendNow
<1>4. CASE m \in Con
  <2> DEFINE sq == sendqueue \cup {m}
             used == con_active[s] + 1
             r == ref[s] + 1
             out == All({m}, "pending")
  <2>1. Settle(s, state[s], used, sq, q, r, out) /\ con_active[s] < NSTART
    BY <1>4 DEF SendNow
  <2>2. m \notin sendqueue /\ Window!Fresh(m)
    BY <1>4, IdleFresh
  <2>3. Of(sq, s) = N \cup {m} /\ m \notin N /\ sq \subseteq Msg
    BY <1>2, <2>2 DEF Of
  <2>4. \A x \in Msg : SessionOf[x] # s => (x \in sq <=> x \in sendqueue)
    OBVIOUS
  <2>5. Cardinality(N \cup {m}) = Cardinality(N) + 1
    <3>1. {m} \in SUBSET Msg /\ N \cap {m} = {}
      BY <2>3
    <3> HIDE DEF N
    <3> QED BY <1>2, <3>1, CardAdd, CardOne
  <2>6. r # 0 /\ q = << >>
    BY <1>2, <1>3, <2>1, BoundAssumption
  <2>7. \A x \in Con : x \in Ended' <=> x \in Ended
    <3>1. DOMAIN out = {m} /\ out[m] = "pending"
      BY DEF All
    <3>2. m \notin Ended
      BY <2>2 DEF Window!Fresh
    <3>3. "pending" \notin Final
      BY DEF Final
    <3> HIDE DEF s, q, used, sq, r, out
    <3> QED BY <2>1, <2>6, <3>1, <3>2, <3>3, SettleEnded
  <2>8. Ended' = Ended
    BY <2>7, EndedCon
  <2>9. WindowExact'
    <3>1. used = Cardinality(Of(sq, s))
      BY <1>2, <2>3, <2>5
    <3>2. (state[s] # "ESTABLISHED" => Of(sq, s) = {}) /\ (s \notin Dtls => state[s] = "ESTABLISHED")
      BY <1>3
    <3> HIDE DEF s, q, N, used, sq, r, out
    <3> QED BY <1>1, <1>2, <2>1, <2>3, <2>4, <3>1, <3>2, SettleExact
  <2>10. /\ Established' = Established
         /\ Windows' = [Windows EXCEPT ![s] = N \cup {m}]
         /\ Lines' = [Lines EXCEPT ![s] = << >>]
    <3>1. /\ Established' = IF state[s] = "ESTABLISHED" THEN Established \cup {s} ELSE Established \ {s}
          /\ Windows' = [Windows EXCEPT ![s] = Of(sq, s)]
          /\ Lines' = [Lines EXCEPT ![s] = ConsOf(IF r = 0 THEN << >> ELSE q)]
      <4> HIDE DEF s, q, N, used, sq, r, out
      <4> QED BY <1>1, <1>2, <2>1, <2>3, <2>4, SettleWindow
    <3>2. ConsOf(IF r = 0 THEN << >> ELSE q) = << >>
      BY <2>6, ConsOfEmpty
    <3>3. Established \cup {s} = Established
      BY <1>2, <1>3
    <3> QED BY <1>3, <2>3, <3>1, <3>2, <3>3
  <2>11. Window!Submit(m)
    <3> DEFINE w == Append(Lines[s], m)
    <3>1. w = <<m>>
      <4>1. Lines[s] = << >>
        BY <1>2, <2>6, ConsOfEmpty
      <4>2. Append(<< >>, m) = <<m>>
        OBVIOUS
      <4> HIDE DEF s
      <4> QED BY <4>1, <4>2
    <3>2. 1 \in 0..Len(w) /\ Len(w) = 1 /\ {w[i] : i \in 1..1} = {m} /\ SubSeq(w, 2, 1) = << >>
      BY <3>1
    <3> HIDE DEF w
    <3>3. Cardinality(N \cup {m}) <= NSTART
      BY <1>2, <2>1, <2>5, BoundAssumption
    <3>4. s \in Established
      BY <1>2, <1>3
    <3>5. Established' = Established \cup {s}
      BY <2>10, <3>4
    <3>6. N \cup {w[i] : i \in 1..1} = N \cup {m} /\ SubSeq(w, 1 + 1, Len(w)) = << >>
      BY <3>2
    <3>7. Window!Enter(s, s \in Established, w, N, 1)
      <4> HIDE DEF N, s
      <4> DEFINE win2 == N \cup {m}
                 rest == << >>
                 one == 1
                 open == s \in Established
      <4>1. /\ win2 = N \cup {w[i] : i \in 1..one} /\ rest = SubSeq(w, one + 1, Len(w))
            /\ one = Len(w) /\ Cardinality(win2) <= NSTART /\ open
            /\ Windows' = [Windows EXCEPT ![s] = win2] /\ Lines' = [Lines EXCEPT ![s] = rest]
        BY <2>10, <3>2, <3>3, <3>4, <3>6
      <4>2. open \in BOOLEAN
        OBVIOUS
      <4> HIDE DEF win2, rest, one, open
      <4>3. Window!Enter(s, open, w, N, one)
        BY <3>5, <4>1, <4>2, Enters
      <4> QED BY <4>3 DEF one, open
    <3> QED BY <1>2, <2>2, <2>8, <3>2, <3>7 DEF Window!Submit, w
  <2> QED BY <1>4, <2>9, <2>11 DEF Window!WNext
<1>5. CASE m \notin Con
  <2> DEFINE out == All({m}, "sent")
  <2>1. Settle(s, state[s], con_active[s], sendqueue, q, ref[s], out)
    BY <1>5 DEF SendNow
  <2>2. DOMAIN out \cap Con = {} /\ ref[s] # 0
    BY <1>2, <1>5 DEF All
  <2> HIDE DEF s, q, out
  <2>3. WindowExact' /\ UNCHANGED Window!wvars
    BY <1>1, <2>1, <2>2, SettleStutters DEF q
  <2> QED BY <2>3
<1> QED BY <1>4, <1>5

\* A CON that is delayed joins the line.
LEMMA SendDelayedRefines ==
  ASSUME WindowInv, NEW m \in Msg, outcome[m] = "idle", SessionOf[m] \notin freed, SendDelayed(m)
  PROVE  WindowExact' /\ [Window!WNext]_(Window!wvars)
<1> DEFINE s == SessionOf[m]
           q == delayqueue[s]
           N == NodesOf(s)
           st == IF state[s] = "NONE" THEN "HANDSHAKE" ELSE state[s]
           dq == Append(q, m)
           out == All({m}, "pending")
<1>1. s \in Session
  BY SessionAssumption
<1>2. /\ TypeOK /\ q \in Seq(Msg) /\ sendqueue \subseteq Msg
      /\ N \in SUBSET Msg /\ N = Of(sendqueue, s) /\ Cardinality(N) \in Nat
      /\ con_active[s] = Cardinality(N) /\ (s \in Established <=> state[s] = "ESTABLISHED")
      /\ con_active[s] <= NSTART /\ (state[s] # "ESTABLISHED" => N = {})
      /\ Lines[s] = ConsOf(q) /\ Windows[s] = N /\ ref[s] > 0 /\ ref[s] \in Int
      /\ (s \notin Dtls => state[s] = "ESTABLISHED")
      /\ WindowExact
  BY <1>1, WindowFacts, SessionFacts DEF WindowInv
<1>3. Settle(s, st, con_active[s], sendqueue, dq, ref[s], out)
  BY DEF SendDelayed
<1>4. st = "ESTABLISHED" <=> state[s] = "ESTABLISHED"
  OBVIOUS
<1>5. ConsOf(dq) = IF m \in Con THEN Append(ConsOf(q), m) ELSE ConsOf(q)
  BY <1>2, ConsOfAppend
<1>6. CASE m \in Con
  <2>1. Window!Fresh(m)
    BY <1>6, IdleFresh
  <2>2. \A x \in Con : x \in Ended' <=> x \in Ended
    <3>1. DOMAIN out = {m} /\ out[m] = "pending"
      BY DEF All
    <3>2. m \notin Ended /\ ref[s] # 0
      BY <1>2, <2>1 DEF Window!Fresh
    <3>3. "pending" \notin Final
      BY DEF Final
    <3> HIDE DEF s, q, st, dq, out
    <3> QED BY <1>3, <3>1, <3>2, <3>3, SettleEnded
  <2>3. Ended' = Ended
    BY <2>2, EndedCon
  <2>4. WindowExact'
    <3> HIDE DEF s, q, N, st, dq, out
    <3> QED BY <1>1, <1>2, <1>3, <1>4, SettleExact
  <2> DEFINE w == Append(Lines[s], m)
             none == 0
             open == s \in Established
  <2>5. /\ Established' = IF st = "ESTABLISHED" THEN Established \cup {s} ELSE Established \ {s}
        /\ Windows' = [Windows EXCEPT ![s] = N]
        /\ Lines' = [Lines EXCEPT ![s] = ConsOf(IF ref[s] = 0 THEN << >> ELSE dq)]
    <3> HIDE DEF s, q, N, st, dq, out
    <3> QED BY <1>1, <1>2, <1>3, SettleWindow
  <2>6. ConsOf(IF ref[s] = 0 THEN << >> ELSE dq) = w
    <3> HIDE DEF s, q, dq
    <3> QED BY <1>2, <1>5, <1>6
  <2>7. Lines[s] \in Seq(Con)
    BY <1>2, ConsOfEntries
  <2>8. w \in Seq(Con) /\ none \in 0..Len(w) /\ SubSeq(w, none + 1, Len(w)) = w
    <3> HIDE DEF s
    <3>1. w \in Seq(Con)
      BY <1>6, <2>7, AppendProperties
    <3> HIDE DEF w
    <3> QED BY <3>1
  <2>9. N = N \cup {w[i] : i \in 1..none} /\ Cardinality(N) <= NSTART
    BY <1>2
  <2>10. open \in BOOLEAN /\ (open => Cardinality(N) = NSTART) /\ none = 0
    <3>1. state[s] # "ESTABLISHED" \/ con_active[s] >= NSTART
      BY DEF SendDelayed
    <3>2. open <=> state[s] = "ESTABLISHED"
      BY <1>2
    <3>3. open \in BOOLEAN /\ none = 0
      OBVIOUS
    <3> HIDE DEF open, none, N, s
    <3>4. open => Cardinality(N) = NSTART
      BY <1>2, <3>1, <3>2, BoundAssumption
    <3> QED BY <3>3, <3>4
  <2>11. Established' = IF open THEN Established \cup {s} ELSE Established \ {s}
    BY <1>2, <1>4, <2>5
  <2>12. Window!Enter(s, open, w, N, none)
    <3> HIDE DEF s, q, N, st, dq, out, w, none, open
    <3> QED BY <2>5, <2>6, <2>8, <2>9, <2>10, <2>11, Enters
  <2>13. Window!Submit(m)
    <3>1. \E n \in 0..Len(w) : Window!Enter(s, open, w, Windows[s], n)
      <4> HIDE DEF s, N, w, none, open
      <4> QED BY <1>2, <2>8, <2>12
    <3> QED BY <2>1, <2>3, <3>1, Zenon DEF Window!Submit
  <2> QED BY <1>6, <2>4, <2>13 DEF Window!WNext
<1>7. CASE m \notin Con
  <2>1. DOMAIN out \cap Con = {} /\ ref[s] # 0 /\ ConsOf(dq) = ConsOf(delayqueue[s])
    BY <1>2, <1>5, <1>7 DEF All
  <2> HIDE DEF s, q, st, dq, out
  <2>2. WindowExact' /\ UNCHANGED Window!wvars
    BY <1>1, <1>3, <1>4, <2>1, SettleStutters
  <2> QED BY <2>2
<1> QED BY <1>6, <1>7

\* A message that is refused is concluded without having entered.
LEMMA SendRefusedRefines ==
  ASSUME WindowInv, NEW m \in Msg, outcome[m] = "idle", SendRefused(m)
  PROVE  WindowExact' /\ [Window!WNext]_(Window!wvars)
<1>1. UNCHANGED <<state, con_active, delayqueue, sendqueue>>
  BY DEF SendRefused
<1>2. UNCHANGED <<Established, Lines, Windows>>
  BY <1>1 DEF Established, Lines, Windows, NodesOf
<1>3. WindowExact'
  BY <1>1 DEF WindowInv, WindowExact, NodesOf
<1>4. /\ outcome' = [outcome EXCEPT ![m] = "refused"] /\ outcome \in [Msg -> Outcomes]
      /\ Con \subseteq Msg /\ "refused" \in Final
  BY MsgAssumption DEF SendRefused, WindowInv, NodesInv, TypeOK, Final
<1>5. \A x \in Con : (x \in Ended' <=> outcome'[x] \in Final) /\ (x \in Ended <=> outcome[x] \in Final)
  BY DEF Ended
<1>6. CASE m \in Con
  <2>1. Ended' = Ended \cup {m}
    BY <1>4, <1>5, <1>6, EndedCon
  <2>2. Window!Refuse(m)
    BY <1>2, <1>6, <2>1, IdleFresh DEF Window!Refuse
  <2> QED BY <1>3, <1>6, <2>2 DEF Window!WNext
<1>7. CASE m \notin Con
  <2>1. Ended' = Ended
    BY <1>4, <1>5, <1>7, EndedCon
  <2> QED BY <1>2, <1>3, <2>1 DEF Window!wvars
<1> QED BY <1>6, <1>7

\* A session that is cut off drops everything it holds.
LEMMA DisconnectedRefines ==
  ASSUME WindowInv, NEW s \in Session, Disconnected(s, {})
  PROVE  WindowExact' /\ [Window!WNext]_(Window!wvars)
<1> DEFINE q == delayqueue[s]
           N == NodesOf(s)
           st == StateAfterDisconnect(s)
           sq == sendqueue \ N
           r == ref[s] - Cardinality(N)
           none == << >>
           out == [m \in N \cup Prefix(q, Len(q)) \cup {} |->
                     IF m \in {} THEN "refused" ELSE IF m \in Con THEN "closed" ELSE "dropped"]
<1>1. /\ TypeOK /\ q \in Seq(Msg) /\ sendqueue \subseteq Msg
      /\ N \in SUBSET Msg /\ N = Of(sendqueue, s) /\ WindowExact
      /\ (s \in Established <=> state[s] = "ESTABLISHED")
      /\ Lines[s] = ConsOf(q) /\ Windows[s] = N
      /\ (s \notin Dtls => state[s] = "ESTABLISHED") /\ sendqueue \subseteq Con
  BY WindowFacts, SessionFacts DEF WindowInv
<1>2. Settle(s, st, 0, sq, none, r, out)
  BY DEF Disconnected
<1>3. /\ Of(sq, s) = {} /\ sq \subseteq Msg
      /\ \A x \in Msg : SessionOf[x] # s => (x \in sq <=> x \in sendqueue)
  BY <1>1 DEF Of
<1>4. Cardinality(Of(sq, s)) = 0 /\ (s \notin Dtls => st = "ESTABLISHED")
  BY <1>3, FS_EmptySet DEF StateAfterDisconnect
<1>5. WindowExact'
  <2> DEFINE zero == 0
  <2>1. zero = Cardinality(Of(sq, s)) /\ Settle(s, st, zero, sq, none, r, out)
    BY <1>2, <1>4
  <2> HIDE DEF q, N, st, sq, r, none, out, zero
  <2> QED BY <1>1, <1>3, <1>4, <2>1, SettleExact
<1>6. /\ Established' = IF st = "ESTABLISHED" THEN Established \cup {s} ELSE Established \ {s}
      /\ Windows' = [Windows EXCEPT ![s] = Of(sq, s)]
      /\ Lines' = [Lines EXCEPT ![s] = ConsOf(IF r = 0 THEN << >> ELSE none)]
  <2> DEFINE zero == 0
  <2> HIDE DEF q, N, st, sq, r, none, out, zero
  <2>1. Settle(s, st, zero, sq, none, r, out)
    BY <1>2 DEF zero
  <2> QED BY <1>1, <1>3, <2>1, SettleWindow
<1>7. Established' \in {Established, Established \ {s}}
  <2>1. CASE s \in Dtls
    <3>1. st # "ESTABLISHED"
      BY <2>1 DEF StateAfterDisconnect
    <3> HIDE DEF st
    <3> QED BY <1>6, <3>1
  <2>2. CASE s \notin Dtls
    BY <1>1, <1>4, <1>6, <2>2
  <2> QED BY <2>1, <2>2
<1>8. Windows' = [Windows EXCEPT ![s] = {}] /\ Lines' = [Lines EXCEPT ![s] = << >>]
  <2>1. ConsOf(IF r = 0 THEN << >> ELSE none) = << >>
    BY ConsOfEmpty
  <2> HIDE DEF r, none, sq
  <2> QED BY <1>3, <1>6, <2>1
<1>9. Window!Entries(Lines[s]) = ConPrefix(q, Len(q))
  BY <1>1, ConsOfEntries
<1>10. Ended' = Ended \cup Windows[s] \cup Window!Entries(Lines[s])
  <2>1. DOMAIN out = N \cup Prefix(q, Len(q))
    OBVIOUS
  <2>2. \A x \in Con : x \in N \cup Prefix(q, Len(q)) => out[x] \in Final
    BY DEF Final
  <2>3. \A x \in Con : ~(r = 0 /\ x \in Prefix(none, Len(none)))
    BY LineEmpty
  <2>4. ConPrefix(q, Len(q)) = Prefix(q, Len(q)) \cap Con /\ N \subseteq Con
    <3>1. Len(q) \in 0..Len(q)
      BY <1>1
    <3>2. ConPrefix(q, Len(q)) = Prefix(q, Len(q)) \cap Con
      <4> HIDE DEF q
      <4> QED BY <1>1, <3>1, PrefixFacts
    <3> QED BY <1>1, <3>2 DEF Of
  <2> HIDE DEF q, N, st, sq, r, none, out
  <2>5. \A x \in Con : x \in Ended' <=> (x \in N \cup Prefix(q, Len(q)) \/ x \in Ended)
    <3> DEFINE zero == 0
    <3>1. Settle(s, st, zero, sq, none, r, out)
      BY <1>2 DEF zero
    <3> HIDE DEF zero
    <3> QED BY <2>1, <2>2, <2>3, <3>1, SettleEnded
  <2> QED BY <1>1, <1>9, <2>4, <2>5, EndedCon
<1>11. Window!Drop(s)
  BY <1>7, <1>8, <1>10 DEF Window!Drop
<1> QED BY <1>5, <1>11 DEF Window!WNext

\* The application gives its session up: nothing happens yet, or the session
\* goes, and what waits with it.
LEMMA ReleaseRefines ==
  ASSUME WindowInv, NEW s \in Session, AppRelease(s)
  PROVE  WindowExact' /\ [Window!WNext]_(Window!wvars)
<1> DEFINE q == delayqueue[s]
           N == NodesOf(s)
           r == ref[s] - 1
<1>1. /\ TypeOK /\ q \in Seq(Msg) /\ sendqueue \subseteq Msg
      /\ N \in SUBSET Msg /\ N = Of(sendqueue, s) /\ WindowExact
      /\ Cardinality(N) \in Nat /\ con_active[s] = Cardinality(N)
      /\ (s \in Established <=> state[s] = "ESTABLISHED")
      /\ Lines[s] = ConsOf(q) /\ Windows[s] = N
      /\ (state[s] # "ESTABLISHED" => N = {})
      /\ (s \notin Dtls => state[s] = "ESTABLISHED")
      /\ ref[s] = Cardinality(N) + (IF s \in app THEN 1 ELSE 0)
  BY WindowFacts DEF WindowInv
<1>2. Settle(s, state[s], con_active[s], sendqueue, q, r, None) /\ s \in app
  BY DEF AppRelease
<1>3. DOMAIN None = {}
  BY NoneType
<1>4. CASE r # 0
  <2> HIDE DEF N, r
  <2>1. WindowExact' /\ UNCHANGED Window!wvars
    BY <1>2, <1>3, <1>4, SettleStutters
  <2> QED BY <2>1
<1>5. CASE r = 0
  <2>1. N = {}
    <3>1. Cardinality(N) = 0
      BY <1>1, <1>2, <1>5
    <3>2. IsFiniteSet(N)
      <4> HIDE DEF N
      <4> QED BY <1>1, MsgSetFinite
    <3> HIDE DEF N
    <3> QED BY <3>1, <3>2, FS_EmptySet
  <2>2. WindowExact'
    <3> HIDE DEF q, N, r
    <3> QED BY <1>1, <1>2, SettleExact
  <2>3. /\ Established' = IF state[s] = "ESTABLISHED" THEN Established \cup {s} ELSE Established \ {s}
        /\ Windows' = [Windows EXCEPT ![s] = N]
        /\ Lines' = [Lines EXCEPT ![s] = ConsOf(IF r = 0 THEN << >> ELSE q)]
    <3> HIDE DEF q, N, r
    <3> QED BY <1>1, <1>2, SettleWindow
  <2>4. Established' = Established
    BY <1>1, <2>3
  <2>5. Windows' = [Windows EXCEPT ![s] = {}] /\ Lines' = [Lines EXCEPT ![s] = << >>]
    <3>1. ConsOf(IF r = 0 THEN << >> ELSE q) = << >>
      BY <1>5, ConsOfEmpty
    <3> HIDE DEF r, q, N
    <3> QED BY <2>1, <2>3, <3>1
  <2>6. Window!Entries(Lines[s]) = ConPrefix(q, Len(q))
    BY <1>1, ConsOfEntries
  <2>7. Ended' = Ended \cup Windows[s] \cup Window!Entries(Lines[s])
    <3>1. ConPrefix(q, Len(q)) = Prefix(q, Len(q)) \cap Con
      <4>1. Len(q) \in 0..Len(q)
        BY <1>1
      <4> HIDE DEF q
      <4> QED BY <1>1, <4>1, PrefixFacts
    <3> HIDE DEF q, N, r
    <3>2. \A x \in Con : x \in Ended' <=> (x \in Prefix(q, Len(q)) \/ x \in Ended)
      BY <1>2, <1>3, <1>5, SettleEnded
    <3> QED BY <1>1, <2>1, <2>6, <3>1, <3>2, EndedCon
  <2>8. Window!Drop(s)
    BY <2>4, <2>5, <2>7 DEF Window!Drop
  <2> QED BY <2>2, <2>8 DEF Window!WNext
<1> QED BY <1>4, <1>5

\* The CONs among the first entries of a delay queue are of its session, and
\* not in the send queue.
LEMMA FlushedNew ==
  ASSUME WindowInv, NEW s \in Session, NEW n \in 0..Len(delayqueue[s])
  PROVE  LET cs == ConPrefix(delayqueue[s], n)
         IN  /\ cs \subseteq Con /\ cs \subseteq Msg /\ cs \cap sendqueue = {}
             /\ \A x \in cs : SessionOf[x] = s
             /\ Cardinality(cs) \in Nat
<1> DEFINE q == delayqueue[s]
           cs == ConPrefix(q, n)
<1>1. q \in Seq(Msg) /\ Line(q, s, sendqueue)
  BY SessionFacts DEF WindowInv
<1>2. cs \subseteq Con /\ cs \subseteq Msg /\ Cardinality(cs) \in Nat
  BY <1>1, PrefixFacts
<1>3. \A x \in cs : SessionOf[x] = s /\ x \notin sendqueue
  <2>1. n \in 0..Len(q) /\ Len(q) \in Nat
    BY <1>1
  <2> HIDE DEF q
  <2> QED BY <1>1, <2>1 DEF Line, ConPrefix
<1> QED BY <1>2, <1>3

\* A handshake that is done opens the session: its line enters the window.
LEMMA HandshakeRefines ==
  ASSUME WindowInv, OnlyAcknowledged, NEW s \in Session, HandshakeDone(s)
  PROVE  WindowExact' /\ [Window!WNext]_(Window!wvars)
<1> DEFINE q == delayqueue[s]
           N == NodesOf(s)
<1>1. /\ TypeOK /\ q \in Seq(Msg) /\ sendqueue \subseteq Msg /\ state[s] # "ESTABLISHED"
      /\ N = {} /\ N = Of(sendqueue, s) /\ WindowExact /\ con_active[s] = Cardinality(N)
      /\ (s \in Established <=> state[s] = "ESTABLISHED")
      /\ Lines[s] = ConsOf(q) /\ Windows[s] = N /\ ref[s] > 0 /\ ref[s] \in Int
  BY WindowFacts, SessionFacts DEF WindowInv, HandshakeDone
<1>2. PICK n \in 0..Len(q), err \in BOOLEAN :
        LET cs == ConPrefix(q, n)
        IN  /\ LoopStops(q, con_active[s], n, err)
            /\ Settle(s, "ESTABLISHED", con_active[s] + Cardinality(cs),
                      sendqueue \cup cs, SubSeq(q, n + 1, Len(q)),
                      ref[s] + Cardinality(cs),
                      [m \in Prefix(q, n) \ Con |->
                         IF m \in Transmitted(q, n, err) THEN "sent" ELSE "dropped"])
  BY DEF HandshakeDone
<1> DEFINE cs == ConPrefix(q, n)
           used == con_active[s] + Cardinality(cs)
           sq == sendqueue \cup cs
           dq == SubSeq(q, n + 1, Len(q))
           r == ref[s] + Cardinality(cs)
           out == [m \in Prefix(q, n) \ Con |->
                     IF m \in Transmitted(q, n, err) THEN "sent" ELSE "dropped"]
           st == "ESTABLISHED"
<1>3. Settle(s, st, used, sq, dq, r, out) /\ LoopStops(q, Cardinality(N), n, err)
  BY <1>1, <1>2
<1>4. /\ cs \subseteq Con /\ cs \subseteq Msg /\ cs \cap sendqueue = {}
      /\ (\A x \in cs : SessionOf[x] = s) /\ Cardinality(cs) \in Nat
  BY FlushedNew
<1>5. DOMAIN out \cap Con = {} /\ st = "ESTABLISHED"
  OBVIOUS
<1>6. "sendfail" \notin Faults
  BY DEF OnlyAcknowledged
<1> HIDE DEF cs, dq, out, st, N, q
<1>7. PICK k \in 0..Len(Lines[s]) :
        LET w == Lines[s]
            win2 == N \cup {w[i] : i \in 1..k}
        IN  /\ win2 = N \cup cs
            /\ Cardinality(win2) = Cardinality(N) + Cardinality(cs)
            /\ Cardinality(win2) <= NSTART
            /\ k = Len(w) \/ Cardinality(win2) = NSTART
            /\ ConsOf(dq) = SubSeq(w, k + 1, Len(w))
  <2>1. N \in SUBSET Msg /\ N \cap ConPrefix(q, n) = {} /\ n \in 0..Len(q)
    BY <1>1, <1>2 DEF q
  <2>2. PICK k \in 0..Len(ConsOf(q)) : Moves(q, N, n, k)
    BY <1>1, <1>3, <1>6, <2>1, FlushEnters
  <2> QED BY <1>1, <2>2 DEF Moves, cs, dq
<1>8. /\ Of(sq, s) = N \cup cs /\ sq \subseteq Msg
      /\ \A x \in Msg : SessionOf[x] # s => (x \in sq <=> x \in sendqueue)
  BY <1>1, <1>4 DEF Of
<1>9. used = Cardinality(Of(sq, s)) /\ r # 0
  <2>1. Cardinality(N \cup cs) = Cardinality(N) + Cardinality(cs)
    BY <1>7
  <2>2. used = Cardinality(Of(sq, s))
    <3> HIDE DEF sq
    <3> QED BY <1>1, <1>8, <2>1
  <2>3. r # 0
    BY <1>1, <1>4
  <2> QED BY <2>2, <2>3
<1> HIDE DEF used, sq, r
<1>10. WindowExact'
  BY <1>1, <1>3, <1>5, <1>8, <1>9, SettleExact
<1>11. /\ Established' = Established \cup {s}
       /\ Windows' = [Windows EXCEPT ![s] = N \cup cs]
       /\ Lines' = [Lines EXCEPT ![s] = ConsOf(dq)]
  <2>1. /\ Established' = IF st = "ESTABLISHED" THEN Established \cup {s} ELSE Established \ {s}
        /\ Windows' = [Windows EXCEPT ![s] = Of(sq, s)]
        /\ Lines' = [Lines EXCEPT ![s] = ConsOf(IF r = 0 THEN << >> ELSE dq)]
    BY <1>1, <1>3, <1>8, SettleWindow
  <2> QED BY <1>5, <1>8, <1>9, <2>1
<1>12. Ended' = Ended
  <2>1. \A x \in Con : x \in Ended' <=> x \in Ended
    BY <1>3, <1>5, <1>9, SettleEnded
  <2> QED BY <2>1, EndedCon
<1>13. Window!Connect(s)
  <2> DEFINE w == Lines[s]
             win2 == N \cup cs
             rest == ConsOf(dq)
             open == TRUE
  <2>1. /\ win2 = N \cup {w[i] : i \in 1..k} /\ Cardinality(win2) <= NSTART
        /\ k = Len(w) \/ Cardinality(win2) = NSTART
        /\ rest = SubSeq(w, k + 1, Len(w)) /\ open \in BOOLEAN /\ open
    BY <1>7
  <2> HIDE DEF w, win2, rest, open
  <2>2. Window!Enter(s, open, w, N, k)
    BY <1>11, <2>1, Enters DEF win2, rest
  <2>3. open = TRUE
    BY DEF open
  <2>4. Window!Enter(s, TRUE, Lines[s], Windows[s], k)
    BY <1>1, <2>2, <2>3 DEF w
  <2>5. s \notin Established
    BY <1>1
  <2> QED BY <1>12, <2>4, <2>5 DEF Window!Connect
<1> QED BY <1>10, <1>13 DEF Window!WNext

\* A message that is concluded leaves the window, and the line moves up.
LEMMA ConcludeRefines ==
  ASSUME WindowInv, OnlyAcknowledged, NEW m \in sendqueue, NEW o \in Final,
         NEW cancel \in BOOLEAN, NEW err \in BOOLEAN,
         NEW n \in 0..Len(delayqueue[SessionOf[m]]),
         Conclude(m, o, Decremented(SessionOf[m]), Flushes(SessionOf[m]), n, err, cancel)
  PROVE  WindowExact' /\ [Window!WNext]_(Window!wvars)
<1> DEFINE s == SessionOf[m]
           q == delayqueue[s]
           N == NodesOf(s)
           cs == ConPrefix(q, n)
           sq0 == sendqueue \cup cs
           gone == {x \in sq0 : x = m \/ (cancel /\ x \in TokenMates(sq0, m))}
           used == Decremented(s) + Cardinality(cs)
           sq == sq0 \ gone
           dq == SubSeq(q, n + 1, Len(q))
           r == ref[s] + Cardinality(cs) - Cardinality(gone)
           out == [x \in gone \cup (Prefix(q, n) \ Con) |->
                     IF x = m THEN o
                     ELSE IF x \in gone THEN "answered"
                     ELSE IF x \in Transmitted(q, n, err) THEN "sent"
                     ELSE "dropped"]
<1>0. m \in Con /\ m \in Msg /\ s \in Session /\ sendqueue \subseteq Con
  BY MsgAssumption, SessionAssumption DEF WindowInv, NodesInv, TypeOK
<1>1. /\ TypeOK /\ q \in Seq(Msg) /\ sendqueue \subseteq Msg /\ N \in SUBSET Msg
      /\ N = Of(sendqueue, s) /\ WindowExact /\ con_active[s] = Cardinality(N)
      /\ (s \in Established <=> state[s] = "ESTABLISHED")
      /\ Cardinality(N) \in Nat /\ (state[s] # "ESTABLISHED" => N = {})
      /\ Lines[s] = ConsOf(q) /\ Windows[s] = N /\ ref[s] \in Int
      /\ ref[s] = Cardinality(N) + (IF s \in app THEN 1 ELSE 0)
      /\ (s \notin Dtls => state[s] = "ESTABLISHED")
  BY <1>0, WindowFacts, SessionFacts DEF WindowInv
<1>2. Settle(s, state[s], used, sq, dq, r, out)
  BY Zenon DEF Conclude
<1>3. m \in N /\ state[s] = "ESTABLISHED"
  BY <1>0, <1>1 DEF Of
<1>4. /\ cs \subseteq Con /\ cs \subseteq Msg /\ cs \cap sendqueue = {}
      /\ (\A x \in cs : SessionOf[x] = s) /\ Cardinality(cs) \in Nat
  BY <1>0, FlushedNew
<1> DEFINE rest == N \ {m}
<1>5. /\ rest \in SUBSET Msg /\ Cardinality(rest) = Cardinality(N) - 1 /\ Cardinality(rest) \in Nat
      /\ Cardinality(N) > 0
  <2>1. rest \in SUBSET Msg /\ {m} \in SUBSET N
    BY <1>1, <1>3
  <2>2. Cardinality(rest) \in Nat
    BY <2>1, MsgSetFinite
  <2>3. Cardinality(rest) = Cardinality(N) - 1
    <3> HIDE DEF N
    <3> QED BY <1>0, <1>1, <2>1, CardDrop, CardOne
  <2> QED BY <1>1, <2>1, <2>2, <2>3
<1>6. Decremented(s) = Cardinality(rest) /\ Flushes(s)
  BY <1>1, <1>3, <1>5 DEF Decremented, Flushes
<1>7. LoopStops(q, Cardinality(rest), n, err)
  BY <1>6 DEF Conclude
<1>8. gone = {m}
  <2>1. \A x \in sq0 : x \in Con
    BY <1>0, <1>4
  <2>2. \A x \in sq0 : x \in TokenMates(sq0, m) => x = m
    BY <1>0, <2>1 DEF OnlyAcknowledged, TokenMates
  <2> QED BY <2>2
<1>9. "sendfail" \notin Faults
  BY DEF OnlyAcknowledged
<1>10. out[m] = o /\ m \in DOMAIN out /\ \A x \in Con : x \in DOMAIN out => x = m
  BY <1>8
<1> HIDE DEF cs, dq, out, N, q, gone, rest
<1>11. PICK k \in 0..Len(Lines[s]) :
        LET w == Lines[s]
            win2 == rest \cup {w[i] : i \in 1..k}
        IN  /\ win2 = rest \cup cs
            /\ Cardinality(win2) = Cardinality(rest) + Cardinality(cs)
            /\ Cardinality(win2) <= NSTART
            /\ k = Len(w) \/ Cardinality(win2) = NSTART
            /\ ConsOf(dq) = SubSeq(w, k + 1, Len(w))
  <2>1. rest \cap ConPrefix(q, n) = {} /\ n \in 0..Len(q)
    BY <1>1, <1>4 DEF rest, cs, Of, q
  <2> HIDE DEF s
  <2>2. PICK k \in 0..Len(ConsOf(q)) : Moves(q, rest, n, k)
    BY <1>1, <1>5, <1>7, <1>9, <2>1, FlushEnters
  <2> QED BY <1>1, <2>2 DEF Moves, cs, dq
<1>12. /\ Of(sq, s) = rest \cup cs /\ sq \subseteq Msg
       /\ \A x \in Msg : SessionOf[x] # s => (x \in sq <=> x \in sendqueue)
  BY <1>0, <1>1, <1>4, <1>8 DEF Of, rest
<1>13. used = Cardinality(Of(sq, s))
  BY <1>6, <1>11, <1>12
<1>14. r = 0 => dq = << >>
  <2> SUFFICES ASSUME r = 0 PROVE dq = << >>
    OBVIOUS
  <2>1. Cardinality(gone) = 1
    BY <1>0, <1>8, CardOne
  <2>2. Cardinality(rest) = 0 /\ Cardinality(cs) = 0
    <3> DEFINE a == IF s \in app THEN 1 ELSE 0
    <3>1. a \in Nat /\ ref[s] = Cardinality(N) + a
      BY <1>1
    <3> HIDE DEF a
    <3> QED BY <1>1, <1>4, <1>5, <2>1, <3>1
  <2>3. ~(n < Len(q))
    <3>1. n < Len(q) => Cardinality(rest) + Cardinality(cs) >= NSTART
      BY <1>7, <1>9 DEF LoopStops, cs
    <3> QED BY <2>2, <3>1, BoundAssumption
  <2>4. n = Len(q)
    <3>1. n \in 0..Len(q) /\ Len(q) \in Nat
      BY <1>1 DEF q
    <3> QED BY <2>3, <3>1
  <2> QED BY <1>1, <2>4, TailEmpty DEF dq
<1> HIDE DEF used, sq, r
<1>15. WindowExact'
  <2> HIDE DEF s
  <2> QED BY <1>0, <1>1, <1>2, <1>3, <1>12, <1>13, SettleExact
<1>16. /\ Established' = Established \cup {s}
       /\ Windows' = [Windows EXCEPT ![s] = rest \cup cs]
       /\ Lines' = [Lines EXCEPT ![s] = ConsOf(dq)]
  <2> HIDE DEF s
  <2>1. /\ Established' = IF state[s] = "ESTABLISHED" THEN Established \cup {s} ELSE Established \ {s}
        /\ Windows' = [Windows EXCEPT ![s] = Of(sq, s)]
        /\ Lines' = [Lines EXCEPT ![s] = ConsOf(IF r = 0 THEN << >> ELSE dq)]
    BY <1>0, <1>1, <1>2, <1>12, SettleWindow
  <2>2. (IF r = 0 THEN << >> ELSE dq) = dq
    BY <1>14
  <2> QED BY <1>3, <1>12, <2>1, <2>2
<1>17. Ended' = Ended \cup {m}
  <2>1. \A x \in Con : ~(r = 0 /\ x \in Prefix(dq, Len(dq)))
    <3>1. r = 0 => Prefix(dq, Len(dq)) = {}
      BY <1>14, LineEmpty
    <3> QED BY <3>1
  <2>2. \A x \in Con : x \in Ended' <=> (x = m \/ x \in Ended)
    <3> HIDE DEF s
    <3>1. \A x \in Con : x \in Ended' <=>
                           IF x \in DOMAIN out THEN out[x] \in Final
                           ELSE (r = 0 /\ x \in Prefix(dq, Len(dq))) \/ x \in Ended
      BY <1>2, SettleEnded
    <3> QED BY <1>10, <2>1, <3>1
  <2> QED BY <1>0, <2>2, EndedCon
<1>18. Window!Finish(m)
  <2> DEFINE w == Lines[s]
             win2 == rest \cup cs
             tail == ConsOf(dq)
             open == s \in Established
  <2>1. /\ win2 = rest \cup {w[i] : i \in 1..k} /\ Cardinality(win2) <= NSTART
        /\ k = Len(w) \/ Cardinality(win2) = NSTART
        /\ tail = SubSeq(w, k + 1, Len(w)) /\ open \in BOOLEAN /\ open
    BY <1>1, <1>3, <1>11
  <2>2. Window!Enter(s, open, w, rest, k)
    <3> HIDE DEF w, win2, tail, open, s
    <3> QED BY <1>16, <2>1, Enters DEF win2, tail
  <2>3. m \in Windows[s] /\ rest = Windows[s] \ {m}
    BY <1>1, <1>3 DEF rest
  <2>4. \E j \in 0..Len(Lines[s]) : Window!Enter(s, s \in Established, Lines[s], Windows[s] \ {m}, j)
    <3> HIDE DEF s
    <3> QED BY <2>2, <2>3
  <2> QED BY <1>17, <2>3, <2>4, Zenon DEF Window!Finish
<1> QED BY <1>0, <1>15, <1>18 DEF Window!WNext

\* A retransmission: the node keeps its place in the window.
LEMMA RetransmitRefines ==
  ASSUME WindowInv, OnlyAcknowledged, NEW m \in Msg, Retransmit(m)
  PROVE  WindowExact' /\ [Window!WNext]_(Window!wvars)
<1> DEFINE s == SessionOf[m]
           q == delayqueue[s]
           N == NodesOf(s)
<1>1. s \in Session /\ m \in sendqueue
  BY SessionAssumption DEF Retransmit
<1>2. /\ N = Of(sendqueue, s) /\ Cardinality(N) \in Nat /\ N \in SUBSET Msg
      /\ con_active[s] = Cardinality(N) /\ con_active[s] <= NSTART
      /\ (state[s] # "ESTABLISHED" => N = {})
      /\ ref[s] = Cardinality(N) + (IF s \in app THEN 1 ELSE 0)
  BY <1>1, WindowFacts
<1>3. m \in N /\ state[s] = "ESTABLISHED"
  BY <1>1, <1>2 DEF Of
<1>4. Cardinality(N) > 0
  <2>1. IsFiniteSet(N)
    <3> HIDE DEF N
    <3> QED BY <1>2, MsgSetFinite
  <2>2. Cardinality(N) # 0
    <3> HIDE DEF N
    <3> QED BY <1>3, <2>1, FS_EmptySet
  <2> QED BY <1>2, <2>2
<1>5. Decremented(s) = con_active[s] - 1 /\ ref[s] # 0
  BY <1>2, <1>4 DEF Decremented
<1>6. Decremented(s) < NSTART /\ Decremented(s) + 1 = con_active[s]
  <2> HIDE DEF N
  <2> QED BY <1>2, <1>4, <1>5, BoundAssumption
<1>7. "sendfail" \notin Faults
  BY DEF OnlyAcknowledged
<1>8. Settle(s, state[s], Decremented(s) + 1, sendqueue, q, ref[s], None)
  BY <1>3, <1>6, <1>7 DEF Retransmit
<1>9. Settle(s, state[s], con_active[s], sendqueue, q, ref[s], None)
  BY <1>6, <1>8
<1>10. WindowExact' /\ UNCHANGED Window!wvars
  <2>1. DOMAIN None \cap Con = {}
    BY NoneType
  <2> HIDE DEF s
  <2> QED BY <1>1, <1>5, <1>9, <2>1, SettleStutters
<1> QED BY <1>10

\* Every step of the message layer is a step of the window, or none.
LEMMA WindowStep ==
  ASSUME WindowInv, OnlyAcknowledged, [Next]_vars
  PROVE  WindowExact' /\ [Window!WNext]_(Window!wvars)
<1> USE SessionAssumption
<1>0. Faults \cap {"sendfail", "icmp", "rst", "separate", "midclash"} = {}
  BY DEF OnlyAcknowledged
<1>1. CASE UNCHANGED vars
  <2>1. WindowExact'
    BY <1>1 DEF vars, WindowInv, WindowExact, NodesOf
  <2>2. UNCHANGED Window!wvars
    BY <1>1 DEF vars, Window!wvars, Established, Lines, Windows, Ended, NodesOf
  <2> QED BY <2>1, <2>2
<1>2. ASSUME NEW m \in Msg, Send(m)
      PROVE  WindowExact' /\ [Window!WNext]_(Window!wvars)
  BY <1>2, SendNowRefines, SendDelayedRefines, SendRefusedRefines DEF Send
<1>3. ASSUME NEW m \in Msg, KeepAlivePing(m)
      PROVE  WindowExact' /\ [Window!WNext]_(Window!wvars)
  BY <1>3, SendNowRefines, SendDelayedRefines DEF KeepAlivePing
<1>4. ASSUME NEW m \in Msg, Retransmit(m)
      PROVE  WindowExact' /\ [Window!WNext]_(Window!wvars)
  BY <1>4, RetransmitRefines
<1>5. ASSUME NEW m \in Msg, GiveUp(m)
      PROVE  WindowExact' /\ [Window!WNext]_(Window!wvars)
  <2> DEFINE cancel == FALSE
             o == "retries"
  <2>1. PICK n \in 0..Len(delayqueue[SessionOf[m]]), err \in BOOLEAN :
          Conclude(m, o, Decremented(SessionOf[m]),
                   Flushes(SessionOf[m]), n, err, cancel)
    BY <1>5 DEF GiveUp
  <2>2. o \in Final /\ cancel \in BOOLEAN /\ m \in sendqueue
    BY <1>5 DEF Final, GiveUp
  <2> HIDE DEF cancel, o
  <2> QED BY <2>1, <2>2, ConcludeRefines
<1>6. ASSUME NEW m \in Msg, NEW response \in BOOLEAN, RecvAck(m, response)
      PROVE  WindowExact' /\ [Window!WNext]_(Window!wvars)
  <2> DEFINE o == "acked"
  <2>1. PICK n \in 0..Len(delayqueue[SessionOf[m]]), err \in BOOLEAN :
          Conclude(m, o, Decremented(SessionOf[m]),
                   Flushes(SessionOf[m]), n, err, response)
    BY <1>6 DEF RecvAck
  <2>2. o \in Final /\ m \in sendqueue
    BY <1>6 DEF Final, RecvAck
  <2> HIDE DEF o
  <2> QED BY <2>1, <2>2, ConcludeRefines
<1>7. ASSUME NEW m \in Msg, RecvRst(m)
      PROVE  WindowExact' /\ [Window!WNext]_(Window!wvars)
  <2> DEFINE s == SessionOf[m]
             cancel == HasResources /\ m \in sendqueue
             o == IF m \in sendqueue /\ m = last_ping_mid[s] THEN "pong"
                  ELSE "rst"
  <2>1. PICK n \in 0..Len(delayqueue[s]), err \in BOOLEAN :
          Conclude(m, o, Decremented(s), Flushes(s), n, err, cancel)
    BY <1>7 DEF RecvRst
  <2>2. o \in Final /\ cancel \in BOOLEAN
    BY BoundAssumption DEF Final
  <2>3. m \in sendqueue
    BY <1>0, <1>7 DEF RecvRst
  <2> HIDE DEF cancel, o
  <2> QED BY <2>1, <2>2, <2>3, ConcludeRefines
<1>8. ASSUME NEW m \in Msg, RecvSeparate(m) \/ RecvNonSameMid(m)
      PROVE  FALSE
  BY <1>0, <1>8 DEF RecvSeparate, RecvNonSameMid
<1>9. ASSUME NEW s \in Session, HandshakeDone(s)
      PROVE  WindowExact' /\ [Window!WNext]_(Window!wvars)
  BY <1>9, HandshakeRefines
<1>10. ASSUME NEW s \in Session, KeepAliveFails(s) \/ Close(s)
       PROVE  WindowExact' /\ [Window!WNext]_(Window!wvars)
  <2>1. Disconnected(s, {})
    BY <1>0, <1>10 DEF KeepAliveFails, Close
  <2> QED BY <2>1, DisconnectedRefines
<1>11. ASSUME NEW s \in Session, IcmpError(s)
       PROVE  FALSE
  BY <1>0, <1>11 DEF IcmpError
<1>12. ASSUME NEW s \in Session, AppRelease(s)
       PROVE  WindowExact' /\ [Window!WNext]_(Window!wvars)
  BY <1>12, ReleaseRefines
<1> QED BY <1>1, <1>2, <1>3, <1>4, <1>5, <1>6, <1>7, <1>8, <1>9, <1>10,
           <1>11, <1>12 DEF Next, MsgStep, SessionStep

\* The window starts empty.
LEMMA WindowInit == Init => WindowInv /\ Window!WInit
<1> SUFFICES ASSUME Init PROVE WindowInv /\ Window!WInit
  OBVIOUS
<1>1. NodesInv
  BY NodesInit
<1>2. SlotBound /\ NoIdleSlot
  BY BoundAssumption DEF Init, SlotBound, NoIdleSlot
<1>3. \A s \in Session : NodesOf(s) = {}
  BY DEF Init, NodesOf
<1>4. WindowExact
  BY <1>3, FS_EmptySet DEF Init, WindowExact
<1>5. Established \subseteq Session
  BY DEF Established
<1>6. Lines = [s \in Session |-> << >>]
  BY ConsOfEmpty DEF Init, Lines
<1>7. Windows = [s \in Session |-> {}]
  BY <1>3 DEF Windows
<1>8. Ended = {}
  BY MsgAssumption DEF Init, Ended, Final
<1> QED BY <1>1, <1>2, <1>4, <1>5, <1>6, <1>7, <1>8 DEF WindowInv, Window!WInit

\* The message layer implements the abstract window (ImplementsWindow) when
\* the peer only acknowledges and no two CONs of a session share a token.
THEOREM WindowImplemented == ASSUME OnlyAcknowledged PROVE Spec => ImplementsWindow
<1>1. Init => WindowInv /\ Window!WInit
  BY WindowInit
<1>2. WindowInv /\ [Next]_vars => WindowInv' /\ [Window!WNext]_(Window!wvars)
  <2> SUFFICES ASSUME WindowInv, [Next]_vars
               PROVE  WindowInv' /\ [Window!WNext]_(Window!wvars)
    OBVIOUS
  <2>1. NodesInv'
    BY NodesStep DEF WindowInv
  <2>2. SlotBound' /\ NoIdleSlot'
    <3>1. "sendfail" \notin Faults /\ TypeOK
      BY DEF OnlyAcknowledged, WindowInv, NodesInv
    <3> QED BY <3>1, SlotStep DEF WindowInv
  <2>3. WindowExact' /\ [Window!WNext]_(Window!wvars)
    BY WindowStep
  <2> QED BY <2>1, <2>2, <2>3 DEF WindowInv
<1> QED BY <1>1, <1>2, PTL DEF Spec, ImplementsWindow, Window!WSpec
=============================================================================
