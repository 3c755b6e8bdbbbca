---------------------------- MODULE CoapObserve ----------------------------
(***************************************************************************)
(* The server side of RFC 7641 in src/resource.c and src/net.c: who        *)
(* observes a resource, which observers still have to be told of a change, *)
(* and what becomes of an observer whose notifications are acknowledged,   *)
(* reset or lost.                                                          *)
(*                                                                         *)
(* An observer is a (session, token) pair, which identifies a subscription *)
(* on the wire.  The content of a resource, as a subscription with some    *)
(* query sees it, is a version number.  The loop of coap_notify_observers  *)
(* over the subscribers is a sequence of steps, during which nothing else  *)
(* happens (the context is single threaded); the order of the list is left *)
(* open, so the loop may visit the subscribers in any.  The message layer  *)
(* (CoapMessaging) is reduced to what the loop reads of it: con_active and *)
(* the confirmable notifications in the send queue.                        *)
(***************************************************************************)
EXTENDS Integers, FiniteSets

CONSTANTS
  Observer,    \* (session, token) pairs
  Session,     \* sessions of the server
  Resource,    \* observable resources
  Query,       \* query strings of requests, "no query" included
  SessionOf,   \* the session of an observer
  ConNotify,   \* resources with COAP_RESOURCE_FLAGS_NOTIFY_CON
  NSTART,      \* COAP_DEFAULT_NSTART
  MaxNon,      \* COAP_OBS_MAX_NON
  MaxFail,     \* COAP_OBS_MAX_FAIL
  MaxVersion,  \* bound: changes of a resource
  Faults,      \* what may go wrong, a subset of ObserveFaults
  Nothing      \* no resource, no observer

(***************************************************************************)
(* sendfail  coap_send() of a notification returns COAP_INVALID_MID        *)
(* rst       the peer resets a notification, perhaps late or twice         *)
(* lost      a confirmable notification is never acknowledged              *)
(* closed    coap_session_disconnected() for a session                     *)
(* error     the resource's handler answers with a code of class 4 or 5    *)
(* requery   a client uses the token of an observation with a new query    *)
(* delete    the application deletes a resource                            *)
(***************************************************************************)
ObserveFaults == {"sendfail", "rst", "lost", "closed", "error", "requery",
                  "delete"}

ASSUME ObserverAssumption == /\ SessionOf \in [Observer -> Session]
                             /\ ConNotify \subseteq Resource
                             /\ Nothing \notin Resource \cup Observer
                             /\ IsFiniteSet(Observer)
                             /\ Query # {}
ASSUME LimitAssumption == /\ NSTART \in Nat \ {0}
                          /\ MaxNon \in 0..15
                          /\ MaxFail \in 0..3
                          /\ MaxVersion \in Nat
                          /\ Faults \subseteq ObserveFaults

VARIABLES
  resources,        \* context->resources
  subscribers,      \* resource->subscribers, as a set
  query,            \* obs->query, the query a subscription was made with
  obs_dirty,        \* obs->dirty
  non_cnt,          \* obs->non_cnt
  fail_cnt,         \* obs->fail_cnt
  mid,              \* obs->mid, as the version last sent; 0 if none
  dirty,            \* resource->dirty
  partiallydirty,   \* resource->partiallydirty
  observe_pending,  \* context->observe_pending
  con_active,       \* session->con_active
  sendqueue,        \* confirmable notifications <<observer, version>>
  ref,              \* session->ref
  turn,             \* resources coap_check_notify() has still to visit
  visiting,         \* the one whose subscribers are being notified
  todo,             \* the rest of its subscribers
  version,          \* the content of a resource as a query sees it
  sent,             \* history: the version an observer was last sent
  tx,               \* history: notifications the peer may answer
  non_run,          \* history: NONs since the last CON of an observer
  stale_use         \* history: the loop used a deleted subscription

subvars == <<subscribers, query, obs_dirty, non_cnt, fail_cnt, mid>>
flagvars == <<dirty, partiallydirty, observe_pending>>
msgvars == <<con_active, sendqueue, tx>>
loopvars == <<turn, visiting, todo>>
histvars == <<sent, non_run, stale_use>>
ovars == <<resources, subvars, flagvars, msgvars, ref, loopvars, version,
           histvars>>

-----------------------------------------------------------------------------
(* Helpers.                                                                *)

\* The observers of any resource.
Subscribed == UNION {subscribers[r] : r \in Resource}

\* No loop is running.
Idle == visiting = Nothing /\ turn = {}

Decremented(s) == IF con_active[s] > 0 THEN con_active[s] - 1 ELSE 0

NodesOf(ms) == {n \in sendqueue : n[1] \in ms}

\* References that subscriptions ms of session s, and queue nodes ns, hold.
Held(s, ms, ns) == Cardinality({o \in ms : SessionOf[o] = s})
                   + Cardinality({n \in ns : SessionOf[n[1]] = s})

\* Observer o may not be sent a notification for r now: it would have to be
\* confirmable, and its session has no free slot.
Blocked(r, o) == /\ con_active[SessionOf[o]] >= NSTART
                 /\ r \in ConNotify \/ non_cnt[o] >= MaxNon

\* coap_delete_observer() and its relatives for observers gone, and deletion
\* of the queue nodes ns: list entries go, references are released.
Drop(gone, ns) ==
  /\ subscribers' = [r \in Resource |-> subscribers[r] \ gone]
  /\ sendqueue' = sendqueue \ ns
  /\ ref' = [s \in Session |-> ref[s] - Held(s, gone \cap Subscribed, ns)]

-----------------------------------------------------------------------------
(* Requests, in handle_request().                                          *)

\* The subscription of the same session with the same query, which
\* coap_add_observer() replaces unless o itself is subscribed.
Twins(r, o, q) ==
  IF o \in subscribers[r] THEN {}
  ELSE {p \in subscribers[r] : SessionOf[p] = SessionOf[o] /\ query[p] = q}

\* Mutant: no reference is taken for a new subscription.
RegisterNoReference(r, o, q) ==
  LET old == Twins(r, o, q) IN
  /\ Idle
  /\ r \in resources
  /\ o \in subscribers[r] \/ o \notin Subscribed
  /\ o \in subscribers[r] => q = query[o] \/ "requery" \in Faults
  /\ IF o \in subscribers[r]
     THEN UNCHANGED <<subscribers, obs_dirty, non_cnt, mid>>
     ELSE /\ subscribers' = [subscribers EXCEPT ![r] = (@ \ old) \cup {o}]
          /\ obs_dirty' = [obs_dirty EXCEPT ![o] = FALSE]
          /\ non_cnt' = [non_cnt EXCEPT ![o] = 0]
          /\ mid' = [mid EXCEPT ![o] = 0]
  /\ ref' = [s \in Session |-> ref[s] - Held(s, old, {})]
  /\ query' = [query EXCEPT ![o] = q]
  /\ fail_cnt' = [fail_cnt EXCEPT ![o] = 0]
  /\ sent' = [sent EXCEPT ![o] = version[r][q]]
  /\ non_run' = [non_run EXCEPT ![o] = 0]
  /\ UNCHANGED <<resources, flagvars, msgvars, loopvars, version, stale_use>>

\* A GET or FETCH with Observe = 0: coap_add_observer() and
\* coap_touch_observer(); the response carries the current state.
Register(r, o, q) ==
  LET old == Twins(r, o, q) IN
  /\ Idle
  /\ r \in resources
  /\ o \in subscribers[r] \/ o \notin Subscribed
  /\ o \in subscribers[r] => q = query[o] \/ "requery" \in Faults
  /\ IF o \in subscribers[r]
     THEN UNCHANGED <<subscribers, obs_dirty, non_cnt, mid, ref>>
     ELSE /\ subscribers' = [subscribers EXCEPT ![r] = (@ \ old) \cup {o}]
          /\ obs_dirty' = [obs_dirty EXCEPT ![o] = FALSE]
          /\ non_cnt' = [non_cnt EXCEPT ![o] = 0]
          /\ mid' = [mid EXCEPT ![o] = 0]
          /\ ref' = [s \in Session |->
                       ref[s] + Held(s, {o}, {}) - Held(s, old, {})]
  /\ query' = [query EXCEPT ![o] = q]
  /\ fail_cnt' = [fail_cnt EXCEPT ![o] = 0]
  /\ sent' = [sent EXCEPT ![o] = version[r][q]]
  /\ non_run' = [non_run EXCEPT ![o] = 0]
  /\ UNCHANGED <<resources, flagvars, msgvars, loopvars, version, stale_use>>

\* Observe = 1, or a request with Observe that the handler answers with an
\* error: coap_delete_observer().
Deregister(o) ==
  /\ Idle
  /\ o \in Subscribed
  /\ Drop({o}, {})
  /\ UNCHANGED <<resources, query, obs_dirty, non_cnt, fail_cnt, mid,
                 flagvars, con_active, tx, loopvars, version, histvars>>

-----------------------------------------------------------------------------
(* A change: the application calls coap_resource_notify_observers(), with  *)
(* the query whose view changed, or with NULL for all of them.             *)

ChangeAll(r) ==
  /\ Idle
  /\ r \in resources
  /\ \A q \in Query : version[r][q] < MaxVersion
  /\ version' = [version EXCEPT ![r] = [q \in Query |-> @[q] + 1]]
  /\ IF subscribers[r] = {}
     THEN UNCHANGED flagvars
     ELSE /\ dirty' = [dirty EXCEPT ![r] = TRUE]
          /\ observe_pending' = TRUE
          /\ UNCHANGED partiallydirty
  /\ UNCHANGED <<resources, subvars, msgvars, ref, loopvars, histvars>>

\* Mutant: the resource is not marked partially dirty.
ChangeQueryUnmarked(r, q) ==
  LET found == {o \in subscribers[r] : query[o] = q} IN
  /\ Idle
  /\ r \in resources
  /\ version[r][q] < MaxVersion
  /\ version' = [version EXCEPT ![r][q] = @ + 1]
  /\ obs_dirty' = [o \in Observer |-> obs_dirty[o] \/ o \in found]
  /\ observe_pending' = (observe_pending \/ found # {})
  /\ UNCHANGED <<resources, subscribers, query, non_cnt, fail_cnt, mid, dirty,
                 partiallydirty, msgvars, ref, loopvars, histvars>>

ChangeQuery(r, q) ==
  LET found == {o \in subscribers[r] : query[o] = q}
      mark  == {o \in found : ~dirty[r] /\ ~obs_dirty[o]}
  IN
  /\ Idle
  /\ r \in resources
  /\ version[r][q] < MaxVersion
  /\ version' = [version EXCEPT ![r][q] = @ + 1]
  /\ obs_dirty' = [o \in Observer |-> obs_dirty[o] \/ o \in mark]
  /\ partiallydirty' = [partiallydirty EXCEPT ![r] = @ \/ mark # {}]
  /\ observe_pending' = (observe_pending \/ found # {})
  /\ UNCHANGED <<resources, subscribers, query, non_cnt, fail_cnt, mid, dirty,
                 msgvars, ref, loopvars, histvars>>

-----------------------------------------------------------------------------
(* coap_check_notify(), called by coap_io_prepare_io(): every resource, in *)
(* the order of a hash table.                                              *)

CheckNotify ==
  /\ Idle
  /\ observe_pending
  /\ observe_pending' = FALSE
  /\ turn' = resources
  /\ UNCHANGED <<resources, subvars, dirty, partiallydirty, msgvars, ref,
                 visiting, todo, version, histvars>>

\* coap_notify_observers() begins: the loop runs if the resource is dirty.
Visit(r) ==
  /\ visiting = Nothing
  /\ r \in turn
  /\ turn' = turn \ {r}
  /\ visiting' = r
  /\ IF dirty[r] \/ partiallydirty[r]
     THEN /\ partiallydirty' = [partiallydirty EXCEPT ![r] = FALSE]
          /\ todo' = subscribers[r]
     ELSE UNCHANGED <<partiallydirty, todo>>
  /\ UNCHANGED <<resources, subvars, dirty, observe_pending, msgvars, ref,
                 version, histvars>>

\* The next subscriber has its notification already.
Skip(o) ==
  /\ o \in todo
  /\ ~dirty[visiting] /\ ~obs_dirty[o]
  /\ todo' = todo \ {o}
  /\ observe_pending' = TRUE
  /\ UNCHANGED <<resources, subvars, dirty, partiallydirty, msgvars, ref,
                 turn, visiting, version, histvars>>

\* Mutant: a postponed notification is not marked.
PostponeForgotten(o) ==
  /\ o \in todo
  /\ dirty[visiting] \/ obs_dirty[o]
  /\ Blocked(visiting, o)
  /\ todo' = todo \ {o}
  /\ UNCHANGED <<resources, subvars, flagvars, msgvars, ref, turn, visiting,
                 version, histvars>>

\* The next subscriber has to wait for a slot.
Postpone(o) ==
  /\ o \in todo
  /\ dirty[visiting] \/ obs_dirty[o]
  /\ Blocked(visiting, o)
  /\ todo' = todo \ {o}
  /\ obs_dirty' = [obs_dirty EXCEPT ![o] = TRUE]
  /\ partiallydirty' = [partiallydirty EXCEPT ![visiting] = TRUE]
  /\ observe_pending' = TRUE
  /\ UNCHANGED <<resources, subscribers, query, non_cnt, fail_cnt, mid, dirty,
                 msgvars, ref, turn, visiting, version, histvars>>

\* Mutant: one NON too many before a CON.
SentAsConLate(r, o) == r \in ConNotify \/ non_cnt[o] > MaxNon

\* The type of the notification that is sent to o.
SentAsCon(r, o) == r \in ConNotify \/ non_cnt[o] >= MaxNon

\* The notification for the next subscriber is handed to coap_send(), which
\* fails or sends it.  If the handler answered with an error the
\* subscription has been deleted by then, and the loop goes on using it.
Notify(o, ok, error) ==
  LET r   == visiting
      s   == SessionOf[o]
      v   == version[r][query[o]]
      con == SentAsCon(r, o)
      new == IF ok /\ con THEN {<<o, v>>} ELSE {}
      out == IF error THEN {o} ELSE {}
  IN
  /\ o \in todo
  /\ dirty[r] \/ obs_dirty[o]
  /\ ~Blocked(r, o)
  /\ ok \/ "sendfail" \in Faults
  /\ error => "error" \in Faults
  /\ todo' = todo \ {o}
  /\ mid' = [mid EXCEPT ![o] = v]
  /\ non_cnt' = [non_cnt EXCEPT ![o] = IF con THEN 0 ELSE @ + 1]
  /\ obs_dirty' = [obs_dirty EXCEPT ![o] = ~ok]
  /\ partiallydirty' = [partiallydirty EXCEPT ![r] = @ \/ ~ok]
  /\ observe_pending' = (observe_pending \/ ~ok)
  /\ con_active' = [con_active EXCEPT ![s] = @ + Cardinality(new)]
  /\ subscribers' = [subscribers EXCEPT ![r] = @ \ out]
  /\ sendqueue' = sendqueue \cup new
  /\ ref' = [ref EXCEPT ![s] = @ + Cardinality(new \ sendqueue)
                                 - Cardinality(out)]
  /\ tx' = IF ok THEN tx \cup {<<o, v>>} ELSE tx
  /\ sent' = [sent EXCEPT ![o] = IF ok THEN v ELSE @]
  /\ non_run' = [non_run EXCEPT ![o] = IF ~ok THEN @ ELSE IF con THEN 0
                                       ELSE @ + 1]
  /\ stale_use' = (stale_use \/ error)
  /\ UNCHANGED <<resources, query, fail_cnt, dirty, turn, visiting, version>>

\* The end of coap_notify_observers().
Leave ==
  /\ visiting # Nothing
  /\ todo = {}
  /\ dirty' = [dirty EXCEPT ![visiting] = FALSE]
  /\ visiting' = Nothing
  /\ UNCHANGED <<resources, subvars, partiallydirty, observe_pending, msgvars,
                 ref, turn, todo, version, histvars>>

-----------------------------------------------------------------------------
(* Answers to a notification n = <<observer, version>>.                    *)

\* An ACK: coap_dispatch() removes the node, gives the slot back and touches
\* the observer.
RecvAck(n) ==
  /\ Idle
  /\ n \in sendqueue
  /\ con_active' = [con_active EXCEPT ![SessionOf[n[1]]] =
                      Decremented(SessionOf[n[1]])]
  /\ Drop({}, {n})
  /\ fail_cnt' = [fail_cnt EXCEPT ![n[1]] = 0]
  /\ UNCHANGED <<resources, query, obs_dirty, non_cnt, mid, flagvars, tx,
                 loopvars, version, histvars>>

\* A RST: a slot is given back in any case.  If the notification is in the
\* send queue, coap_cancel() deletes the observer and everything that is
\* queued with its token; if it is the observer's last one, the observer is
\* deleted.
RecvRst(n) ==
  LET o      == n[1]
      queued == n \in sendqueue
  IN
  /\ "rst" \in Faults
  /\ Idle
  /\ n \in tx
  /\ con_active' = [con_active EXCEPT ![SessionOf[o]] =
                      Decremented(SessionOf[o])]
  /\ IF queued THEN IF resources # {} THEN Drop({o}, NodesOf({o}))
                                      ELSE Drop({}, {n})
     ELSE IF mid[o] = n[2] THEN Drop({o}, {}) ELSE Drop({}, {})
  /\ UNCHANGED <<resources, query, obs_dirty, non_cnt, fail_cnt, mid,
                 flagvars, tx, loopvars, version, histvars>>

\* coap_retransmit() gives up: coap_handle_failed_notify() counts the failure
\* or, after MaxFail of them, removes the observer and cancels what is queued
\* with its token.
GiveUp(n) ==
  LET o     == n[1]
      fails == o \in Subscribed /\ fail_cnt[o] < MaxFail
      over  == o \in Subscribed /\ fail_cnt[o] >= MaxFail
  IN
  /\ "lost" \in Faults
  /\ Idle
  /\ n \in sendqueue
  /\ con_active' = [con_active EXCEPT ![SessionOf[o]] =
                      Decremented(SessionOf[o])]
  /\ IF over THEN Drop({o}, NodesOf({o})) ELSE Drop({}, {n})
  /\ fail_cnt' = [fail_cnt EXCEPT ![o] = IF fails THEN @ + 1 ELSE 0]
  /\ UNCHANGED <<resources, query, obs_dirty, non_cnt, mid, flagvars, tx,
                 loopvars, version, histvars>>

\* coap_session_disconnected(): coap_delete_observers() and
\* coap_cancel_session_messages().
Closed(s) ==
  LET own == {o \in Observer : SessionOf[o] = s} IN
  /\ "closed" \in Faults
  /\ Idle
  /\ con_active' = [con_active EXCEPT ![s] = 0]
  /\ Drop(own, NodesOf(own))
  /\ UNCHANGED <<resources, query, obs_dirty, non_cnt, fail_cnt, mid,
                 flagvars, tx, loopvars, version, histvars>>

\* coap_delete_resource(): every observer that is not blocked is sent a NON
\* 4.04 (which needs no slot), then all subscriptions are freed.
DeleteResource(r) ==
  /\ "delete" \in Faults
  /\ Idle
  /\ r \in resources
  /\ resources' = resources \ {r}
  /\ Drop(subscribers[r], {})
  /\ observe_pending' = (observe_pending \/ subscribers[r] # {})
  /\ dirty' = [dirty EXCEPT ![r] = FALSE]
  /\ partiallydirty' = [partiallydirty EXCEPT ![r] = FALSE]
  /\ UNCHANGED <<query, obs_dirty, non_cnt, fail_cnt, mid, con_active, tx,
                 loopvars, version, histvars>>

-----------------------------------------------------------------------------
OInit ==
  /\ resources = Resource
  /\ subscribers = [r \in Resource |-> {}]
  /\ query \in [Observer -> {CHOOSE q \in Query : TRUE}]
  /\ obs_dirty = [o \in Observer |-> FALSE]
  /\ non_cnt = [o \in Observer |-> 0]
  /\ fail_cnt = [o \in Observer |-> 0]
  /\ mid = [o \in Observer |-> 0]
  /\ dirty = [r \in Resource |-> FALSE]
  /\ partiallydirty = [r \in Resource |-> FALSE]
  /\ observe_pending = FALSE
  /\ con_active = [s \in Session |-> 0]
  /\ sendqueue = {}
  /\ ref = [s \in Session |-> 0]
  /\ turn = {}
  /\ visiting = Nothing
  /\ todo = {}
  /\ version = [r \in Resource |-> [q \in Query |-> 1]]
  /\ sent = [o \in Observer |-> 0]
  /\ tx = {}
  /\ non_run = [o \in Observer |-> 0]
  /\ stale_use = FALSE

Loop == \/ CheckNotify
        \/ \E r \in Resource : Visit(r)
        \/ \E o \in Observer : Skip(o) \/ Postpone(o)
        \/ \E o \in Observer, ok, error \in BOOLEAN : Notify(o, ok, error)
        \/ Leave

Answer(n) == RecvAck(n) \/ GiveUp(n)

ONext ==
  \/ Loop
  \/ \E r \in Resource, o \in Observer, q \in Query : Register(r, o, q)
  \/ \E o \in Observer : Deregister(o)
  \/ \E r \in Resource : ChangeAll(r) \/ DeleteResource(r)
  \/ \E r \in Resource, q \in Query : ChangeQuery(r, q)
  \/ \E n \in tx : Answer(n) \/ RecvRst(n)
  \/ \E s \in Session : Closed(s)

OSpec == OInit /\ [][ONext]_ovars

\* The I/O loop calls coap_io_prepare_io() again and again, and between two
\* calls it handles what has arrived or timed out: a confirmable notification
\* is eventually acknowledged or given up.
OFairness ==
  /\ WF_ovars(Loop)
  /\ \A o \in Observer, v \in 1..MaxVersion : SF_ovars(Answer(<<o, v>>))

OFairSpec == OSpec /\ OFairness

-----------------------------------------------------------------------------
(* Properties.                                                             *)

\* The state has its types; the counters fit their bit-fields (non_cnt:4,
\* fail_cnt:2).
ObserveTypeOK ==
  /\ resources \subseteq Resource
  /\ subscribers \in [Resource -> SUBSET Observer]
  /\ query \in [Observer -> Query]
  /\ obs_dirty \in [Observer -> BOOLEAN]
  /\ non_cnt \in [Observer -> 0..MaxNon]
  /\ fail_cnt \in [Observer -> 0..MaxFail]
  /\ mid \in [Observer -> Nat]
  /\ dirty \in [Resource -> BOOLEAN]
  /\ partiallydirty \in [Resource -> BOOLEAN]
  /\ observe_pending \in BOOLEAN
  /\ con_active \in [Session -> Nat]
  /\ sendqueue \subseteq Observer \X Nat
  /\ ref \in [Session -> Int]
  /\ turn \subseteq Resource
  /\ visiting \in Resource \cup {Nothing}
  /\ todo \subseteq Observer
  /\ version \in [Resource -> [Query -> Nat]]
  /\ sent \in [Observer -> Nat]
  /\ tx \subseteq Observer \X Nat
  /\ non_run \in [Observer -> Nat]
  /\ stale_use \in BOOLEAN

UpToDate(r, o) == sent[o] = version[r][query[o]]

\* No change is forgotten: outside the loop, an observer that has not been
\* sent the current state is marked (itself, or with its resource), a marked
\* observer's resource is marked ("in that case, the resource's partially
\* dirty flag is set too"), and the context knows that work is pending.
StaleIsMarked ==
  Idle => \A r \in resources : \A o \in subscribers[r] :
    /\ ~UpToDate(r, o) => dirty[r] \/ obs_dirty[o]
    /\ obs_dirty[o] => partiallydirty[r]
    /\ dirty[r] \/ partiallydirty[r] => observe_pending

\* The references of a session are those of its subscriptions and of its
\* nodes in the send queue: it can be freed when, and only when, it has none.
ObserveRefExact ==
  \A s \in Session : ref[s] = Held(s, Subscribed, sendqueue)

\* "Cannot allow a duplicate to be created for the same query": a session has
\* at most one subscription per resource and query.
NoDuplicates ==
  \A r \in Resource : \A o, p \in subscribers[r] :
    SessionOf[o] = SessionOf[p] /\ query[o] = query[p] => o = p

\* Subscriptions, their counters and the references they hold fit together.
SubscriptionsExact == ObserveTypeOK /\ ObserveRefExact /\ NoDuplicates

\* An observer that may be dead is probed: however its notifications are
\* postponed for a slot, marked again and given up, at most COAP_OBS_MAX_NON of
\* those sent in a row are non-confirmable (coap_subscribe_internal.h: the number
\* "that may be sent non-confirmable before a confirmable message is sent"). It
\* holds as long as coap_send() takes every confirmable one: non_cnt is reset
\* for one that it refuses, too.
NonRunBounded == \A o \in Subscribed : non_run[o] <= MaxNon

\* Every observer is eventually told of every change, or stops observing:
\* coap_resource_notify_observers() causes "that an observe response gets
\* sent back to all the clients that are observing the resource".
EventuallyNotified ==
  \A r \in Resource, o \in Observer :
    (o \in subscribers[r] /\ ~UpToDate(r, o))
      ~> (o \notin subscribers[r] \/ UpToDate(r, o))
=============================================================================
