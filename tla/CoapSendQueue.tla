--------------------------- MODULE CoapSendQueue ---------------------------
(***************************************************************************)
(* The retransmission timers of one libcoap context: the send queue as the *)
(* list of relative times it really is (coap_insert_node, coap_pop_next,   *)
(* coap_remove_from_queue, the cancel functions), the nodes that           *)
(* coap_wait_ack and coap_retransmit put into it, and the timer            *)
(* descriptor that has to wake the application up in time                  *)
(* (coap_io_prepare_io, coap_io_prepare_epoll, coap_io_process).           *)
(*                                                                         *)
(* The application waits for the descriptor of coap_context_get_coap_fd()  *)
(* and then calls coap_io_process(ctx, COAP_IO_NO_WAIT), "method two" of   *)
(* man/coap_io.txt.in.  The clock runs on its own: a value read before a   *)
(* step may be old when the step uses it.  One tick is one millisecond.    *)
(***************************************************************************)
EXTENDS Integers, SequencesExt

CONSTANTS
  Node,          \* queue nodes, by mid
  Group,         \* what a cancel function matches: a session or a token
  GroupOf,       \* the group a node belongs to
  Timeouts,      \* possible values of node->timeout (coap_calc_timeout)
  MaxRetransmit, \* session->max_retransmit
  MaxTime,       \* bound: the clock stops here
  Races          \* a subset of RaceKinds

(***************************************************************************)
(* slow     the clock advances while coap_io_process() runs                *)
(* outside  a CON is sent between two calls of coap_io_process(): by the   *)
(*          application, or by the coap_check_async() at its end           *)
(* cancel   the cancel functions run                                       *)
(***************************************************************************)
RaceKinds == {"slow", "outside", "cancel"}

ASSUME QueueAssumption == /\ GroupOf \in [Node -> Group]
                          /\ Timeouts \subseteq Nat \ {0}
                          /\ MaxRetransmit \in 0..255
                          /\ MaxTime \in Nat
                          /\ Races \subseteq RaceKinds

VARIABLES
  now,                 \* what coap_ticks() returns
  sendqueue,           \* context->sendqueue: [id, t], t relative to the
                       \* node before
  sendqueue_basetime,  \* context->sendqueue_basetime
  timeout,             \* node->timeout, 0 before it is drawn
  retransmit_cnt,      \* node->retransmit_cnt
  next_timeout,        \* context->next_timeout, 0 if there is none
  eptimer,             \* when context->eptimerfd expires, 0 if disarmed
  pc,                  \* where coap_io_process() is
  before,              \* the `now' argument of coap_io_prepare_io(), 0 outside
  due,                 \* history: when a queued node's timer is to fire
  hastened             \* history: nodes that stood behind a cancelled one

qvars == <<now, sendqueue, sendqueue_basetime, timeout, retransmit_cnt,
           next_timeout, eptimer, pc, before, due, hastened>>

-----------------------------------------------------------------------------
(* The list.                                                               *)

\* The time of the i-th node relative to the base time.
Since(q, i) ==
  LET sum[k \in 0..Len(q)] == IF k = 0 THEN 0 ELSE sum[k - 1] + q[k].t
  IN  sum[i]

\* The node at position i gets t added to its relative time, if there is one.
Shift(q, i, t) ==
  IF i \in DOMAIN q THEN [q EXCEPT ![i].t = @ + t] ELSE q

WithoutUnshifted(q, i) == RemoveAt(q, i)

\* coap_insert_node(): after every node that is due no later; the time of the
\* new node becomes relative to the one before it, and the time of the one
\* after it relative to the new node.
Insert(q, id, t) ==
  LET k   == Cardinality({i \in DOMAIN q : Since(q, i) <= t})
      rel == t - Since(q, k)
  IN  InsertAt(Shift(q, k + 1, -rel), k + 1, [id |-> id, t |-> rel])

\* coap_pop_next() (i = 1) and coap_remove_from_queue(): the node after the
\* removed one inherits its relative time.
Without(q, i) == RemoveAt(Shift(q, i + 1, q[i].t), i)

\* The loops of coap_cancel_session_messages() and coap_cancel_all_messages():
\* the nodes of group g are unlinked, and nobody inherits their relative times.
Unlink(q, g) ==
  LET kept[k \in 0..Len(q)] ==
        IF k = 0 THEN << >>
        ELSE IF GroupOf[q[k].id] = g THEN kept[k - 1]
        ELSE Append(kept[k - 1], q[k])
  IN  kept[Len(q)]

\* coap_wait_ack() and coap_retransmit() queue node id, due in `wait' ticks.
\* The base time only moves when the queue q is empty.
Enqueue(q, id, wait) ==
  /\ sendqueue_basetime' = IF q = << >> THEN now ELSE sendqueue_basetime
  /\ sendqueue' = Insert(q, id, wait + now - sendqueue_basetime')
  /\ due' = [due EXCEPT ![id] = now + wait]
  /\ hastened' = hastened \ {id}

-----------------------------------------------------------------------------
(* What the handlers do to the queue.                                      *)

\* coap_wait_ack(): a CON was transmitted for the first time.  Unless an
\* earlier wake-up is pending already, the timer descriptor is set to
\* node->t, which coap_insert_node() has made relative to the node before;
\* a remaining time of 0 disarms the descriptor.
WaitAck(id) ==
  /\ pc = "wait" => "outside" \in Races
  /\ timeout[id] = 0
  /\ \E to \in Timeouts :
       /\ timeout' = [timeout EXCEPT ![id] = to]
       /\ Enqueue(sendqueue, id, to)
  /\ LET i   == CHOOSE j \in DOMAIN sendqueue' : sendqueue'[j].id = id
         rem == sendqueue'[i].t
     IN  IF next_timeout = 0 \/ next_timeout > now + rem
         THEN /\ next_timeout' = now + rem
              /\ eptimer' = IF rem = 0 THEN 0 ELSE now + rem
         ELSE UNCHANGED <<next_timeout, eptimer>>
  /\ UNCHANGED <<now, retransmit_cnt, pc, before>>

\* coap_remove_from_queue(): an ACK or a RST for the node has arrived.
RemoveFromQueue(id) ==
  /\ pc = "events"
  /\ \E i \in DOMAIN sendqueue : /\ sendqueue[i].id = id
                                 /\ sendqueue' = Without(sendqueue, i)
  /\ UNCHANGED <<now, sendqueue_basetime, timeout, retransmit_cnt,
                 next_timeout, eptimer, pc, before, due, hastened>>

\* coap_cancel_session_messages() and coap_cancel_all_messages(): all nodes of
\* a session, or all with one token, are unlinked.
Cancel(g) ==
  /\ "cancel" \in Races
  /\ pc = "events"
  /\ \E i \in DOMAIN sendqueue : GroupOf[sendqueue[i].id] = g
  /\ hastened' = hastened \cup
       {sendqueue[j].id : j \in {k \in DOMAIN sendqueue :
          \E i \in 1..(k - 1) : GroupOf[sendqueue[i].id] = g}}
  /\ sendqueue' = Unlink(sendqueue, g)
  /\ UNCHANGED <<now, sendqueue_basetime, timeout, retransmit_cnt,
                 next_timeout, eptimer, pc, before, due>>

-----------------------------------------------------------------------------
(* coap_io_process(ctx, COAP_IO_NO_WAIT): coap_io_prepare_epoll(), then    *)
(* one handler and one more coap_io_prepare_epoll() per event.             *)

Prepare ==
  /\ pc \in {"wait", "events"}
  /\ pc' = "prepare"
  /\ before' = now
  /\ UNCHANGED <<now, sendqueue, sendqueue_basetime, timeout,
                 retransmit_cnt, next_timeout, eptimer, due, hastened>>

\* Mutant: < instead of <=.
HeadExpiredStrict ==
  /\ sendqueue # << >>
  /\ before >= sendqueue_basetime
  /\ sendqueue[1].t < before - sendqueue_basetime

\* The condition of the retransmission loop in coap_io_prepare_io().
HeadExpired ==
  /\ sendqueue # << >>
  /\ before >= sendqueue_basetime
  /\ sendqueue[1].t <= before - sendqueue_basetime

\* One round of the loop: coap_retransmit(ctx, coap_pop_next(ctx)).
Retransmit ==
  LET id   == sendqueue[1].id
      rest == Without(sendqueue, 1)
      cnt  == retransmit_cnt[id] + 1
  IN
  /\ pc = "prepare"
  /\ HeadExpired
  /\ IF retransmit_cnt[id] < MaxRetransmit
     THEN /\ retransmit_cnt' = [retransmit_cnt EXCEPT ![id] = cnt]
          /\ Enqueue(rest, id, timeout[id] * 2^cnt)
     ELSE /\ sendqueue' = rest
          /\ UNCHANGED <<retransmit_cnt, sendqueue_basetime, due, hastened>>
  /\ UNCHANGED <<now, timeout, next_timeout, eptimer, pc, before>>

\* Mutant: the time since the base time is not taken off.
RearmFromBase ==
  LET wait == IF sendqueue = << >> THEN 0 ELSE sendqueue[1].t IN
  /\ pc = "prepare"
  /\ ~HeadExpired
  /\ next_timeout' = IF wait = 0 THEN 0 ELSE before + wait
  /\ eptimer' = IF next_timeout' > now THEN next_timeout' ELSE 0
  /\ pc' \in {"wait", "events"}
  /\ before' = 0
  /\ UNCHANGED <<now, sendqueue, sendqueue_basetime, timeout,
                 retransmit_cnt, due, hastened>>

\* The end of coap_io_prepare_epoll(): the descriptor is set for the head of
\* the queue, or disarmed if that moment, computed from `before', is not in
\* the future any more.
Rearm ==
  LET wait == IF sendqueue = << >> THEN 0
              ELSE sendqueue[1].t - (before - sendqueue_basetime)
  IN
  /\ pc = "prepare"
  /\ ~HeadExpired
  /\ next_timeout' = IF wait = 0 THEN 0 ELSE before + wait
  /\ eptimer' = IF next_timeout' > now THEN next_timeout' ELSE 0
  /\ pc' \in {"wait", "events"}
  /\ before' = 0
  /\ UNCHANGED <<now, sendqueue, sendqueue_basetime, timeout,
                 retransmit_cnt, due, hastened>>

Tick ==
  /\ now < MaxTime
  /\ pc # "wait" => "slow" \in Races
  /\ now' = now + 1
  /\ UNCHANGED <<sendqueue, sendqueue_basetime, timeout, retransmit_cnt,
                 next_timeout, eptimer, pc, before, due, hastened>>

-----------------------------------------------------------------------------
QInit ==
  /\ now = 1
  /\ sendqueue = << >>
  /\ sendqueue_basetime = 0
  /\ timeout = [id \in Node |-> 0]
  /\ retransmit_cnt = [id \in Node |-> 0]
  /\ next_timeout = 0
  /\ eptimer = 0
  /\ pc = "wait"
  /\ before = 0
  /\ due = [id \in Node |-> 0]
  /\ hastened = {}

QNext ==
  \/ \E id \in Node : WaitAck(id) \/ RemoveFromQueue(id)
  \/ \E g \in Group : Cancel(g)
  \/ Prepare \/ Retransmit \/ Rearm \/ Tick

QSpec == QInit /\ [][QNext]_qvars

-----------------------------------------------------------------------------
(* Properties.                                                             *)

\* Relative times never go below zero (t is unsigned and would wrap), and no
\* node is linked twice.
QueueOK ==
  /\ \A i \in DOMAIN sendqueue : sendqueue[i].t \in Nat
  /\ \A i, j \in DOMAIN sendqueue :
       sendqueue[i].id = sendqueue[j].id => i = j
  /\ retransmit_cnt \in [Node -> 0..MaxRetransmit]

\* The sum of the relative times up to a node is the moment its timer is due:
\* inserting before, after and between other nodes, removing any node and
\* moving the base time leave every other node's deadline alone.  Only a node
\* that stood behind a cancelled one may be due early, and none late.
DeadlinesExact ==
  \A i \in DOMAIN sendqueue :
    LET id == sendqueue[i].id
        at == sendqueue_basetime + Since(sendqueue, i)
    IN  at = due[id] \/ (id \in hastened /\ at < due[id])

\* The delta list is well formed and every timer in it exact.
TimersExact == QueueOK /\ DeadlinesExact

\* Whenever the application waits for a deadline to come, the descriptor is
\* armed and expires no later than the first node is due.
WakeupArmed ==
  pc = "wait" /\ sendqueue # << >> /\ now < sendqueue_basetime + sendqueue[1].t
    => eptimer # 0 /\ eptimer <= sendqueue_basetime + sendqueue[1].t

\* When coap_io_prepare_io() is done, nothing that was due when it began is
\* still waiting.
NothingLeftDue ==
  [][pc = "prepare" /\ pc' # "prepare" =>
       \A i \in DOMAIN sendqueue : due[sendqueue[i].id] > before]_qvars
=============================================================================
