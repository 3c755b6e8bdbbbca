--------------------------- MODULE CoapMessaging ---------------------------
(***************************************************************************)
(* The reliable-message layer of one libcoap context talking to its peers  *)
(* over unreliable transports (UDP, DTLS): coap_send / coap_send_pdu,      *)
(* coap_wait_ack, coap_retransmit and coap_dispatch in src/net.c, and      *)
(* coap_session_delay_pdu, coap_session_connected,                         *)
(* coap_session_disconnected, reference counting and release in            *)
(* src/coap_session.c.                                                     *)
(*                                                                         *)
(* The context is single threaded, so one call of an entry point is one    *)
(* action.  The network loses, duplicates, delays and reorders: whatever   *)
(* the peer can say about a message that was transmitted at least once may *)
(* arrive at any later moment, any number of times or never.  The order of *)
(* the send queue (which node's timer fires next) depends on a random      *)
(* timeout per node, so here any queued node may be the next to expire;    *)
(* CoapSendQueue models the timers themselves.                             *)
(***************************************************************************)
EXTENDS Integers, Sequences, FiniteSets

CONSTANTS
  Session,       \* client sessions of the context
  Msg,           \* messages the application (or keepalive) sends, by mid
  Con,           \* the ones of type COAP_MESSAGE_CON; the others are NON
  Ping,          \* empty CONs sent by the keepalive of coap_io_prepare_io
  SessionOf,     \* the session a message is sent on
  TokenOf,       \* the token it carries
  Dtls,          \* sessions over DTLS; the others are plain UDP
  NSTART,        \* COAP_DEFAULT_NSTART
  MaxRetransmit, \* session->max_retransmit
  HasResources,  \* the context owns resources (it is also a server)
  Faults,        \* what may go wrong, a subset of FaultKinds
  NoMsg          \* COAP_INVALID_MID

(***************************************************************************)
(* sendfail   the socket refuses a datagram (coap_session_send_pdu < 0)    *)
(* dtlsfail   coap_dtls_new_client_session returns NULL                    *)
(* icmp       the peer's host answers with an ICMP error (read gives -2)   *)
(* close      coap_session_disconnected for any other reason               *)
(* rst        the peer rejects, and the RST may be late or duplicated      *)
(* separate   a separate response arrives although its ACK did not         *)
(* midclash   a NON of the peer carries a mid that is in our send queue    *)
(* release    the application drops its session while messages are pending *)
(***************************************************************************)
FaultKinds == {"sendfail", "dtlsfail", "icmp", "close", "rst", "separate",
               "midclash", "release"}

ASSUME MsgAssumption == /\ IsFiniteSet(Msg)
                        /\ Con \subseteq Msg
                        /\ Ping \subseteq Con
                        /\ NoMsg \notin Msg
ASSUME SessionAssumption == /\ SessionOf \in [Msg -> Session]
                            /\ DOMAIN TokenOf = Msg
                            /\ Dtls \subseteq Session
\* con_active and retransmit_cnt are 8 bits wide; within these limits they do
\* not wrap.
ASSUME BoundAssumption == /\ NSTART \in Nat \ {0} /\ NSTART <= 255
                          /\ MaxRetransmit \in Nat /\ MaxRetransmit <= 255
                          /\ HasResources \in BOOLEAN
                          /\ Faults \subseteq FaultKinds

VARIABLES
  state,           \* session->state
  con_active,      \* session->con_active
  delayqueue,      \* session->delayqueue
  sendqueue,       \* context->sendqueue, as the set of its nodes
  retransmit_cnt,  \* node->retransmit_cnt
  ref,             \* session->ref
  freed,           \* sessions coap_session_free() has freed
  app,             \* sessions the application still holds
  last_ping_mid,   \* session->last_ping_mid while no pong has come
  tx,              \* history: transmissions of each message
  outcome          \* history: what became of each message

vars == <<state, con_active, delayqueue, sendqueue, retransmit_cnt, ref,
          freed, app, last_ping_mid, tx, outcome>>

States == {"NONE", "HANDSHAKE", "ESTABLISHED"}

(* "sent" is a transmitted NON; "refused" a coap_send that returned        *)
(* COAP_INVALID_MID; "clobbered" a node dropped without telling anybody.   *)
Final == {"sent", "refused", "dropped", "acked", "answered", "rst", "pong",
          "retries", "closed", "clobbered"}
Outcomes == {"idle", "pending"} \cup Final

-----------------------------------------------------------------------------
(* Helpers.                                                                *)

\* The CON messages among the first n entries of queue q.
ConPrefix(q, n) == {q[i] : i \in {j \in 1..n : q[j] \in Con}}

\* All messages among the first n entries of queue q.
Prefix(q, n) == {q[i] : i \in 1..n}

\* The nodes of the send queue that belong to session s.
NodesOf(s) == {m \in sendqueue : SessionOf[m] = s}

\* The nodes of send queue sq that coap_cancel_all_messages() would remove.
TokenMates(sq, m) == {x \in sq : /\ SessionOf[x] = SessionOf[m]
                                 /\ TokenOf[x] = TokenOf[m]}

\* Mutant: the counter is an unsigned that wraps.
DecrementedUnchecked(s) == con_active[s] - 1

\* con_active after "if (session->con_active) session->con_active--".
Decremented(s) == IF con_active[s] > 0 THEN con_active[s] - 1 ELSE 0

\* Mutant: the loop lets one CON too many out.
LoopStopsLate(q, used, n, err) ==
  /\ n \in 0..Len(q)
  /\ used + Cardinality(ConPrefix(q, n)) <= NSTART + 1
  /\ ~err
  /\ n < Len(q) => /\ q[n + 1] \in Con
                   /\ used + Cardinality(ConPrefix(q, n)) > NSTART

\* Mutant: only the head of the delay queue is flushed.
LoopStopsAtHead(q, used, n, err) ==
  /\ ~err
  /\ n = IF q # << >> /\ (q[1] \in Con => used < NSTART) THEN 1 ELSE 0

(***************************************************************************)
(* The loop of coap_session_connected() on queue q with `used' slots       *)
(* taken stops after n entries: at the end of the queue, at a CON that     *)
(* finds no free slot, or (err) right after an entry the socket refused.   *)
(***************************************************************************)
LoopStops(q, used, n, err) ==
  /\ n \in 0..Len(q)
  /\ used + Cardinality(ConPrefix(q, n)) <= NSTART
  /\ IF err THEN n > 0 /\ "sendfail" \in Faults
            ELSE n < Len(q) =>
                   /\ q[n + 1] \in Con
                   /\ used + Cardinality(ConPrefix(q, n)) >= NSTART

\* The entries of a flushed prefix that really left the socket.
Transmitted(q, n, err) == Prefix(q, IF err THEN n - 1 ELSE n)

\* One more transmission of every message of ms.
TxOnce(ms) == tx' = [m \in Msg |-> IF m \in ms THEN tx[m] + 1 ELSE tx[m]]

(***************************************************************************)
(* The part of a step that every handler shares: session s ends in state   *)
(* st with `used' active CONs, send queue sq, delay queue dq and r         *)
(* references.  The last release of a client session frees it, and         *)
(* coap_session_mfree() then drops what its delay queue held (a CON with a *)
(* nack).  out gives the messages this step concludes.                     *)
(***************************************************************************)
Settle(s, st, used, sq, dq, r, out) ==
  /\ state' = [state EXCEPT ![s] = st]
  /\ con_active' = [con_active EXCEPT ![s] = used]
  /\ sendqueue' = sq
  /\ ref' = [ref EXCEPT ![s] = r]
  /\ freed' = IF r = 0 THEN freed \cup {s} ELSE freed
  /\ delayqueue' = [delayqueue EXCEPT ![s] = IF r = 0 THEN << >> ELSE dq]
  /\ outcome' = [m \in Msg |->
                   IF m \in DOMAIN out THEN out[m]
                   ELSE IF r = 0 /\ m \in Prefix(dq, Len(dq))
                        THEN IF m \in Con THEN "closed" ELSE "dropped"
                        ELSE outcome[m]]

\* Every message of ms ends as o.
All(ms, o) == [m \in ms |-> o]

\* Nothing is concluded.
None == All({}, "pending")

(***************************************************************************)
(* A handler is done with message m, whose node (if still queued) is       *)
(* deleted and ends as o.  It has left `used' active CONs; if flush holds  *)
(* it calls coap_session_connected(), which transmits the first n delayed  *)
(* entries and queues each CON among them for retransmission, with a       *)
(* reference.  If cancel holds, coap_cancel_all_messages() then removes    *)
(* every node with m's token, the ones just queued included: it releases   *)
(* their references but neither decrements con_active nor calls the nack   *)
(* handler.                                                                *)
(***************************************************************************)
Conclude(m, o, used, flush, n, err, cancel) ==
  LET s    == SessionOf[m]
      q    == delayqueue[s]
      cs   == ConPrefix(q, n)
      sq   == sendqueue \cup cs
      gone == {x \in sq : x = m \/ (cancel /\ x \in TokenMates(sq, m))}
  IN  /\ IF flush THEN LoopStops(q, used, n, err) ELSE n = 0 /\ ~err
      /\ Settle(s, state[s], used + Cardinality(cs), sq \ gone,
                SubSeq(q, n + 1, Len(q)),
                ref[s] + Cardinality(cs) - Cardinality(gone),
                [x \in gone \cup (Prefix(q, n) \ Con) |->
                   IF x = m THEN o
                   ELSE IF x \in gone THEN "answered"
                   ELSE IF x \in Transmitted(q, n, err) THEN "sent"
                   ELSE "dropped"])
      /\ TxOnce(Transmitted(q, n, err))
      /\ UNCHANGED <<retransmit_cnt, app>>

\* Mutant: a freed slot is not offered to the delay queue.
FlushesNever(s) == FALSE

\* coap_session_connected() runs only after a real decrement.
Flushes(s) == con_active[s] > 0 /\ state[s] = "ESTABLISHED"

-----------------------------------------------------------------------------
(* Sending.                                                                *)

\* coap_send_pdu() hands the message to the socket and it takes it; a CON
\* takes a slot and coap_wait_ack() queues its node.
SendNow(m) ==
  LET s == SessionOf[m] IN
  /\ state[s] = "ESTABLISHED"
  /\ m \in Con => con_active[s] < NSTART
  /\ IF m \in Con
     THEN Settle(s, state[s], con_active[s] + 1, sendqueue \cup {m},
                 delayqueue[s], ref[s] + 1, All({m}, "pending"))
     ELSE Settle(s, state[s], con_active[s], sendqueue,
                 delayqueue[s], ref[s], All({m}, "sent"))
  /\ TxOnce({m})

\* coap_send_pdu() returns -1: the socket refuses the datagram, or a DTLS
\* session that was disconnected cannot start a new handshake.
SendRefused(m) ==
  LET s == SessionOf[m] IN
  /\ \/ /\ "sendfail" \in Faults
        /\ state[s] = "ESTABLISHED"
        /\ m \in Con => con_active[s] < NSTART
     \/ /\ "dtlsfail" \in Faults
        /\ state[s] = "NONE"
  /\ outcome' = [outcome EXCEPT ![m] = "refused"]
  /\ UNCHANGED <<state, con_active, delayqueue, sendqueue, ref, freed, tx>>

\* Mutant: LL_PREPEND instead of LL_APPEND.
SendDelayedFirst(m) ==
  LET s == SessionOf[m] IN
  /\ \/ state[s] # "ESTABLISHED"
     \/ m \in Con /\ con_active[s] >= NSTART
  /\ Settle(s, IF state[s] = "NONE" THEN "HANDSHAKE" ELSE state[s],
            con_active[s], sendqueue, <<m>> \o delayqueue[s], ref[s],
            All({m}, "pending"))
  /\ UNCHANGED tx

\* coap_send_pdu() delays the message: the session is not established (a
\* disconnected DTLS session starts a new handshake first), or a CON finds
\* all NSTART slots taken.
SendDelayed(m) ==
  LET s == SessionOf[m] IN
  /\ \/ state[s] # "ESTABLISHED"
     \/ m \in Con /\ con_active[s] >= NSTART
  /\ Settle(s, IF state[s] = "NONE" THEN "HANDSHAKE" ELSE state[s],
            con_active[s], sendqueue, Append(delayqueue[s], m), ref[s],
            All({m}, "pending"))
  /\ UNCHANGED tx

\* coap_send(): the application sends a message it has not sent before.
Send(m) ==
  /\ outcome[m] = "idle"
  /\ m \notin Ping
  /\ SessionOf[m] \in app \ freed
  /\ SendNow(m) \/ SendRefused(m) \/ SendDelayed(m)
  /\ UNCHANGED <<retransmit_cnt, app, last_ping_mid>>

-----------------------------------------------------------------------------
(* coap_session_disconnected().                                            *)

StateAfterDisconnect(s) == IF s \in Dtls THEN "NONE" ELSE "ESTABLISHED"

\* For any reason but an ICMP error: what is delayed and what is queued for
\* retransmission is deleted, a CON with a nack.
\* refused are messages coap_send() could not even accept in this step.
Disconnected(s, refused) ==
  LET q == delayqueue[s] IN
  /\ Settle(s, StateAfterDisconnect(s), 0, sendqueue \ NodesOf(s), << >>,
            ref[s] - Cardinality(NodesOf(s)),
            [m \in NodesOf(s) \cup Prefix(q, Len(q)) \cup refused |->
               IF m \in refused THEN "refused"
               ELSE IF m \in Con THEN "closed" ELSE "dropped"])
  /\ UNCHANGED <<retransmit_cnt, app, last_ping_mid, tx>>

\* The transport fails, a DTLS handshake fails or times out, or the
\* application disconnects the session.
Close(s) ==
  /\ "close" \in Faults
  /\ s \notin freed
  /\ Disconnected(s, {})

\* An ICMP error: delayed CONs are put into the send queue, untransmitted,
\* "to make sure that we try a re-transmit later"; the nodes already queued
\* stay there, but no CON counts as active any more.
IcmpError(s) ==
  LET q  == delayqueue[s]
      cs == ConPrefix(q, Len(q))
  IN  /\ "icmp" \in Faults
      /\ s \notin freed
      /\ Settle(s, StateAfterDisconnect(s), 0, sendqueue \cup cs, << >>,
                ref[s] + Cardinality(cs),
                All(Prefix(q, Len(q)) \ Con, "dropped"))
      /\ UNCHANGED <<retransmit_cnt, app, last_ping_mid, tx>>

\* The DTLS handshake completes: coap_session_connected().
HandshakeDone(s) ==
  /\ s \in Dtls \ freed
  /\ state[s] = "HANDSHAKE"
  /\ \E n \in 0..Len(delayqueue[s]), err \in BOOLEAN :
       LET q  == delayqueue[s]
           cs == ConPrefix(q, n)
       IN  /\ LoopStops(q, con_active[s], n, err)
           /\ Settle(s, "ESTABLISHED", con_active[s] + Cardinality(cs),
                     sendqueue \cup cs, SubSeq(q, n + 1, Len(q)),
                     ref[s] + Cardinality(cs),
                     [m \in Prefix(q, n) \ Con |->
                        IF m \in Transmitted(q, n, err) THEN "sent"
                        ELSE "dropped"])
           /\ TxOnce(Transmitted(q, n, err))
  /\ UNCHANGED <<retransmit_cnt, app, last_ping_mid>>

-----------------------------------------------------------------------------
(* Keepalive, in coap_io_prepare_io(): an idle session sends a ping, or is *)
(* disconnected when the last one was never answered.                      *)

KeepAlivePing(m) ==
  LET s == SessionOf[m] IN
  /\ m \in Ping
  /\ outcome[m] = "idle"
  /\ s \notin freed
  /\ state[s] = "ESTABLISHED"
  /\ last_ping_mid[s] = NoMsg
  /\ SendNow(m) \/ SendDelayed(m)
  /\ last_ping_mid' = [last_ping_mid EXCEPT ![s] = m]
  /\ UNCHANGED <<retransmit_cnt, app>>

KeepAliveFails(s) ==
  /\ s \notin freed
  /\ state[s] = "ESTABLISHED"
  /\ \/ /\ last_ping_mid[s] # NoMsg
        /\ Disconnected(s, {})
     \/ /\ "sendfail" \in Faults
        /\ last_ping_mid[s] = NoMsg
        /\ con_active[s] < NSTART
        /\ \E m \in Ping : /\ SessionOf[m] = s
                           /\ outcome[m] = "idle"
                           /\ Disconnected(s, {m})

-----------------------------------------------------------------------------
(* coap_retransmit(): the timer of node m fires.                           *)

\* Retransmissions are left: the node goes back into the send queue, its
\* slot is given up and coap_send_pdu() takes it again, or fails, or moves
\* the node to the delay queue (coap_session_delay_pdu, which releases the
\* node's reference before it appends the node: was it the last one, the
\* queue appended to is gone).
Retransmit(m) ==
  LET s == SessionOf[m]
      sent    == /\ state[s] = "ESTABLISHED"
                 /\ Decremented(s) < NSTART
      delayed == ~sent
  IN
  /\ m \in sendqueue
  /\ retransmit_cnt[m] < MaxRetransmit
  /\ retransmit_cnt' = [retransmit_cnt EXCEPT ![m] = @ + 1]
  /\ \/ /\ sent
        /\ Settle(s, state[s], Decremented(s) + 1, sendqueue, delayqueue[s],
                  ref[s], None)
        /\ TxOnce({m})
     \/ /\ \/ sent /\ "sendfail" \in Faults
           \/ state[s] = "NONE" /\ "dtlsfail" \in Faults
        /\ Settle(s, state[s], Decremented(s), sendqueue, delayqueue[s],
                  ref[s], None)
        /\ UNCHANGED tx
     \/ /\ delayed
        /\ Settle(s, IF state[s] = "NONE" THEN "HANDSHAKE" ELSE state[s],
                  Decremented(s), sendqueue \ {m}, Append(delayqueue[s], m),
                  ref[s] - 1,
                  IF ref[s] = 1 THEN All({m}, "clobbered") ELSE None)
        /\ UNCHANGED tx
  /\ UNCHANGED <<app, last_ping_mid>>

\* No retransmission is left: nack with COAP_NACK_TOO_MANY_RETRIES.
GiveUp(m) ==
  LET s == SessionOf[m] IN
  /\ m \in sendqueue
  /\ retransmit_cnt[m] >= MaxRetransmit
  /\ \E n \in 0..Len(delayqueue[s]), err \in BOOLEAN :
       Conclude(m, "retries", Decremented(s), Flushes(s), n, err, FALSE)
  /\ UNCHANGED last_ping_mid

-----------------------------------------------------------------------------
(* coap_dispatch(): something arrives that mentions message m.             *)

Heard(m) == tx[m] > 0 /\ SessionOf[m] \notin freed

\* An ACK; response says that it carries a piggybacked response, for which
\* handle_response() also cancels every node with the same token.  An ACK
\* whose mid is not in the send queue changes nothing.
RecvAck(m, response) ==
  LET s == SessionOf[m] IN
  /\ Heard(m)
  /\ m \in sendqueue
  /\ \E n \in 0..Len(delayqueue[s]), err \in BOOLEAN :
       Conclude(m, "acked", Decremented(s), Flushes(s), n, err, response)
  /\ UNCHANGED last_ping_mid

\* A RST: a slot is given up, and the delay queue flushed, before the mid is
\* looked up; only then is the node removed and, in a context that owns
\* resources, coap_cancel() drops what carries the same token.
RecvRst(m) ==
  LET s    == SessionOf[m]
      pong == m \in sendqueue /\ m = last_ping_mid[s]
  IN
  /\ "rst" \in Faults \/ (m \in Ping /\ m \in sendqueue)
  /\ Heard(m)
  /\ m \in sendqueue \/ con_active[s] > 0
  /\ \E n \in 0..Len(delayqueue[s]), err \in BOOLEAN :
       Conclude(m, IF pong THEN "pong" ELSE "rst", Decremented(s),
                Flushes(s), n, err, HasResources /\ m \in sendqueue)
  /\ last_ping_mid' = [last_ping_mid EXCEPT ![s] = IF pong THEN NoMsg ELSE @]

\* Mutant: the cancelled nodes keep their references.
RecvSeparateKeepsReference(m) ==
  LET s     == SessionOf[m]
      mates == TokenMates(sendqueue, m)
  IN
  /\ "separate" \in Faults
  /\ Heard(m)
  /\ mates # {}
  /\ Settle(s, state[s], con_active[s], sendqueue \ mates, delayqueue[s],
            ref[s], All(mates, "answered"))
  /\ UNCHANGED <<retransmit_cnt, app, last_ping_mid, tx>>

\* A separate response to m: handle_response() cancels every node with its
\* token, "the ACK of a separate response may have been lost".
RecvSeparate(m) ==
  LET s     == SessionOf[m]
      mates == TokenMates(sendqueue, m)
  IN
  /\ "separate" \in Faults
  /\ Heard(m)
  /\ mates # {}
  /\ Settle(s, state[s], con_active[s], sendqueue \ mates, delayqueue[s],
            ref[s] - Cardinality(mates), All(mates, "answered"))
  /\ UNCHANGED <<retransmit_cnt, app, last_ping_mid, tx>>

\* A NON of the peer whose mid, taken from the peer's own numbering, is the
\* mid of a queued node: the node is removed and deleted.
RecvNonSameMid(m) ==
  LET s == SessionOf[m] IN
  /\ "midclash" \in Faults
  /\ s \notin freed
  /\ m \in sendqueue
  /\ Settle(s, state[s], con_active[s], sendqueue \ {m}, delayqueue[s],
            ref[s] - 1, All({m}, "clobbered"))
  /\ UNCHANGED <<retransmit_cnt, app, last_ping_mid, tx>>

-----------------------------------------------------------------------------
\* coap_session_release() by the application.
AppRelease(s) ==
  /\ "release" \in Faults
  /\ s \in app
  /\ app' = app \ {s}
  /\ Settle(s, state[s], con_active[s], sendqueue, delayqueue[s],
            ref[s] - 1, None)
  /\ UNCHANGED <<retransmit_cnt, last_ping_mid, tx>>

-----------------------------------------------------------------------------
\* coap_make_session() and coap_session_connect(): a UDP session is usable at
\* once, a DTLS one starts its handshake; the creator holds one reference.
Init ==
  /\ state = [s \in Session |-> IF s \in Dtls THEN "HANDSHAKE"
                                              ELSE "ESTABLISHED"]
  /\ con_active = [s \in Session |-> 0]
  /\ delayqueue = [s \in Session |-> << >>]
  /\ sendqueue = {}
  /\ retransmit_cnt = [m \in Msg |-> 0]
  /\ ref = [s \in Session |-> 1]
  /\ freed = {}
  /\ app = Session
  /\ last_ping_mid = [s \in Session |-> NoMsg]
  /\ tx = [m \in Msg |-> 0]
  /\ outcome = [m \in Msg |-> "idle"]

MsgStep(m) ==
  \/ Send(m)
  \/ KeepAlivePing(m)
  \/ Retransmit(m)
  \/ GiveUp(m)
  \/ \E response \in BOOLEAN : RecvAck(m, response)
  \/ RecvRst(m)
  \/ RecvSeparate(m)
  \/ RecvNonSameMid(m)

SessionStep(s) ==
  \/ HandshakeDone(s)
  \/ KeepAliveFails(s)
  \/ Close(s)
  \/ IcmpError(s)
  \/ AppRelease(s)

Next == (\E m \in Msg : MsgStep(m)) \/ (\E s \in Session : SessionStep(s))

Spec == Init /\ [][Next]_vars

\* Timers fire: the retransmission timer of a queued node, and a DTLS
\* handshake ends, one way or the other.
Fairness ==
  /\ \A m \in Msg : WF_vars(Retransmit(m) \/ GiveUp(m))
  /\ \A s \in Session : WF_vars(HandshakeDone(s))

FairSpec == Spec /\ Fairness

-----------------------------------------------------------------------------
(* Properties.                                                             *)

Queued(s) == Prefix(delayqueue[s], Len(delayqueue[s]))

TypeOK ==
  /\ state \in [Session -> States]
  /\ con_active \in [Session -> Nat]
  /\ delayqueue \in [Session -> Seq(Msg)]
  /\ sendqueue \subseteq Con
  /\ retransmit_cnt \in [Msg -> Nat]
  /\ ref \in [Session -> Int]
  /\ freed \subseteq Session
  /\ app \subseteq Session
  /\ last_ping_mid \in [Session -> Ping \cup {NoMsg}]
  /\ tx \in [Msg -> Nat]
  /\ outcome \in [Msg -> Outcomes]

\* A session never counts more than NSTART active CONs: the check in
\* coap_send_pdu(), the one in the loop of coap_session_connected() and every
\* decrement together keep con_active within COAP_DEFAULT_NSTART.
SlotBound == \A s \in Session : con_active[s] <= NSTART

\* A message that coap_send() accepted and that has not been concluded is
\* held by exactly one queue, once: by the send queue or by the delay queue
\* of its own session; and the queues hold no other message.  Retransmission
\* and flushing move nodes between the queues and must not copy or lose one.
HeldOnce ==
  /\ \A m \in Msg : (outcome[m] = "pending")
                      <=> (m \in sendqueue \/ m \in Queued(SessionOf[m]))
  /\ \A s \in Session : \A i \in 1..Len(delayqueue[s]) :
       /\ SessionOf[delayqueue[s][i]] = s
       /\ delayqueue[s][i] \notin sendqueue
       /\ \A j \in 1..Len(delayqueue[s]) :
            delayqueue[s][i] = delayqueue[s][j] => i = j

\* The reference count of a session is exactly what it is documented to
\* count: one for the application plus one per node in the send queue.  So a
\* session is freed when, and only when, nobody needs it any more, and
\* nothing of a freed session is left behind in a queue.
RefExact ==
  \A s \in Session :
    /\ ref[s] = Cardinality(NodesOf(s)) + (IF s \in app THEN 1 ELSE 0)
    /\ (s \in freed) <=> (ref[s] = 0)
    /\ s \in freed => delayqueue[s] = << >>

\* A message is transmitted at most once more than it has been retransmitted,
\* hence at most 1 + MAX_RETRANSMIT times, however often it was delayed.
TxBound ==
  \A m \in Msg : /\ tx[m] <= retransmit_cnt[m] + 1
                 /\ retransmit_cnt[m] <= MaxRetransmit

\* What the two queues hold, what the references count and how often a message
\* was transmitted agree, whatever moves a node between the queues.
NodesAccounted == HeldOnce /\ RefExact /\ TxBound

\* An established session never sits on a free slot while messages wait in
\* its delay queue: every path that frees a slot flushes the queue.
NoIdleSlot ==
  \A s \in Session \ freed :
    state[s] = "ESTABLISHED" /\ delayqueue[s] # << >>
      => con_active[s] = NSTART

\* Every confirmable message that was accepted is eventually concluded.
EventuallyConcluded ==
  \A m \in Con : outcome[m] = "pending" ~> outcome[m] \in Final
=============================================================================
