---------------------------- MODULE QosOrganizer ----------------------------
(* The QoS organizer of src/my_libcoap: an LwM2M server at the edge that     *)
(* tells the analyzer, over one TCP session, of its devices, and serves the   *)
(* requests that come from there.                                            *)
(*                                                                           *)
(*   main thread     the LwM2M core with the packets of the devices, its      *)
(*                   callbacks, and the commands typed at the console         *)
(*   client thread   requests of the analyzer, and its answers                *)
(*   sender thread   empties four queues, each under a lock of its own        *)
(*                                                                           *)
(* A request of the analyzer stands for its token: the answers are made from  *)
(* a PDU with that token which travels through the core as user data.         *)
EXTENDS Integers, FiniteSets, FiniteSetsExt, SequencesExt

CONSTANTS
  Endpoint,            \* names of devices
  OrgUri,              \* what is read, written and observed
  OrgAsk,              \* requests of the analyzer
  UriDepth,            \* 1 an object, 2 an instance, 3 a resource
  AskKind, AskUri,     \* "read", "write" or "observe", and of what
  Garbage,             \* outcomes of a read of uninitialised memory
  NoGlobal,            \* a registration the analyzer has not answered yet
  Console,             \* the user data of a command
  MaxEvents            \* bound on what devices and the console do unasked

ASSUME OrganizerAssumption ==
  /\ UriDepth \in [OrgUri -> 1..3]
  /\ AskKind \in [OrgAsk -> {"read", "write", "observe"}] /\ AskUri \in [OrgAsk -> OrgUri]
  /\ Garbage \subseteq Nat /\ Console \notin OrgAsk /\ MaxEvents \in Nat

VARIABLES
  orgClients,     \* the core's clients: a function from their internalID
  observations,   \* the core's observations, in place
  transactions,   \* requests to devices that have no answer yet
  observeTable,   \* observeListHead: nodes with a clientID and their things
  regQueue, updateQueue, ackQueue, nonQueue,
  looksAt,        \* the queue that the sender looks at next
  asked,          \* what became of each request of the analyzer
  ackSent,        \* history: ACKs sent for each request
  created,        \* answers of the analyzer to registrations, on their way
  events,
  fallen          \* the process has followed a NULL pointer

core == <<orgClients, observations, transactions>>
orgQueues == <<regQueue, updateQueue, ackQueue, nonQueue>>
orgvars == <<core, observeTable, orgQueues, looksAt, asked, ackSent, created, events, fallen>>

-----------------------------------------------------------------------------
(* The table of observations.                                                *)

Thing(uri, token) == [uri |-> uri, token |-> token]
ThingIndex(things, uri) == SelectInSeq(things, LAMBDA t : t.uri = uri)
NodeIndex(table, id) == SelectInSeq(table, LAMBDA n : n.clientID = id)

\* InsertObserve with InsertObserveThing: the table, and whether the URI is new;
\* if not, the token found. A node that is not the first gets no clientID.
InsertObserve(table, id, uri, token, garbage) ==
  LET n == NodeIndex(table, id)
      k == IF n = 0 THEN 0 ELSE ThingIndex(table[n].things, uri)
      node == [clientID |-> IF table = <<>> THEN id ELSE garbage, things |-> <<Thing(uri, token)>>]
  IN IF n = 0 THEN [new |-> TRUE, table |-> Append(table, node)]
     ELSE IF k = 0
     THEN [new |-> TRUE, table |-> [table EXCEPT ![n].things = Append(@, Thing(uri, token))]]
     ELSE [new |-> FALSE, table |-> table, token |-> table[n].things[k].token]

\* DeleteObserve: the node stays.
DeleteObserve(table, id, uri) ==
  LET n == NodeIndex(table, id)
      k == IF n = 0 THEN 0 ELSE ThingIndex(table[n].things, uri)
  IN IF k = 0 THEN table ELSE [table EXCEPT ![n].things = RemoveAt(@, k)]

\* The table without the observations given.
DeleteObserves(table, gone) ==
  FoldSet(LAMBDA o, left : DeleteObserve(left, o.id, o.uri), table, gone)

-----------------------------------------------------------------------------
(* Callbacks of the core, in the main thread.                                *)

\* What the callbacks change: the table and the queues of answers.
OrgLists == [table |-> observeTable, ack |-> ackQueue, non |-> nonQueue]
Keep(s) == observeTable' = s.table /\ ackQueue' = s.ack /\ nonQueue' = s.non

\* The queues take a copy of the answer and of its payload.
InsertACKMsg(s, user) == [s EXCEPT !.ack = Append(@, user)]
InsertNONMsg(s, token) == [s EXCEPT !.non = Append(@, token)]

\* prv_result_callback: an ACK with the status and the data.
ResultCallback(s, user) == IF user = Console THEN s ELSE InsertACKMsg(s, user)

\* prv_observe_result_callback. With data it is the answer to the request if
\* the table does not have the URI, else a notification; without, a deletion
\* or an answer with the status as its code.
ObserveCallback(s, id, uri, status, data, user, garbage) ==
  LET r == InsertObserve(s.table, id, uri, user, garbage)
  IN IF user = Console THEN s
     ELSE IF data /\ r.new THEN InsertACKMsg([s EXCEPT !.table = r.table], user)
     ELSE IF data THEN InsertNONMsg(s, r.token)
     ELSE IF status = "2.02" THEN [s EXCEPT !.table = DeleteObserve(@, id, uri)]
     ELSE InsertACKMsg(s, user)

\* observationP->callback with 2.02 for each of the observations given, which
\* for those of the analyzer is a deletion from the table and nothing else.
Deleted(s, gone) ==
  [s EXCEPT !.table = DeleteObserves(@, { o \in gone : o.user # Console })]

Of(id, uri) == { o \in observations : o.id = id /\ o.uri = uri }

-----------------------------------------------------------------------------
(* Main thread: devices.                                                     *)

Event == events < MaxEvents /\ events' = events + 1
OrgIds == DOMAIN orgClients
OrgIdsOf(e) == { i \in OrgIds : orgClients[i].name = e }

\* wakaamaCoapToLibcoapReg: the registration for the analyzer.
RegMessage(id, e) == [id |-> id, name |-> e]

\* registration_handleRequest for a device, known or new, and handle_request:
\* the registration is queued for the analyzer with its internalID.
OrgRegister(e) ==
  LET free == Min((0..Cardinality(OrgIds)) \ OrgIds)
      id == IF OrgIdsOf(e) = {} THEN free ELSE Min(OrgIdsOf(e))
      global == IF OrgIdsOf(e) = {} THEN NoGlobal ELSE orgClients[id].global
  IN /\ Event
     /\ orgClients' = [i \in OrgIds \cup {id} |-> IF i = id THEN [name |-> e, global |-> global]
                                               ELSE orgClients[i]]
     /\ regQueue' = Append(regQueue, RegMessage(id, e))
     /\ UNCHANGED <<observations, transactions, observeTable, updateQueue, ackQueue, nonQueue,
                    looksAt, asked, ackSent, created, fallen>>

\* A registration update, after which some of the objects may be gone, and
\* prv_monitor_callback, which queues an update with both identifiers.
OrgUpdate(id, gone) ==
  LET left == { o \in observations : o.id = id /\ o.uri \in gone }
  IN /\ Event
     /\ observations' = observations \ left
     /\ Keep(Deleted(OrgLists, left))
     /\ updateQueue' = Append(updateQueue, [id |-> id, global |-> orgClients[id].global])
     /\ UNCHANGED <<orgClients, transactions, regQueue, looksAt, asked, ackSent, created, fallen>>

\* The device deregisters or its lifetime ends (registration_freeClient): its
\* observations go without a callback.
OrgLeave(id) ==
  /\ Event
  /\ orgClients' = [i \in OrgIds \ {id} |-> orgClients[i]]
  /\ observations' = { o \in observations : o.id # id }
  /\ UNCHANGED <<transactions, observeTable, orgQueues, looksAt, asked, ackSent, created, fallen>>

\* observe_handleNotify.
OrgNotify(o, data, garbage) ==
  /\ Event
  /\ Keep(ObserveCallback(OrgLists, o.id, o.uri, "count", data, o.user, garbage))
  /\ UNCHANGED <<core, regQueue, updateQueue, looksAt, asked, ackSent, created, fallen>>

\* Mutant: the result is dropped if the client has left.
OrgResultKnown(t) ==
  /\ t.kind = "request"
  /\ IF t.id \in OrgIds THEN Keep(ResultCallback(OrgLists, t.user)) ELSE Keep(OrgLists)
  /\ transactions' = transactions \ {t}
  /\ UNCHANGED <<orgClients, observations, regQueue, updateQueue, looksAt, asked, ackSent,
                 created, events, fallen>>

\* prv_resultCallback: the device answers, or the transaction ends without.
OrgResult(t) ==
  /\ t.kind = "request"
  /\ Keep(ResultCallback(OrgLists, t.user))
  /\ transactions' = transactions \ {t}
  /\ UNCHANGED <<orgClients, observations, regQueue, updateQueue, looksAt, asked, ackSent,
                 created, events, fallen>>

\* prv_resultCallback with a 2.01 whose Location-Path is no instance of the
\* object asked for: it returns without the callback, and the request is lost.
OrgMisplaced(t) ==
  /\ t.kind = "request"
  /\ asked' = [a \in OrgAsk |-> IF a = t.user THEN "lost" ELSE asked[a]]
  /\ transactions' = transactions \ {t}
  /\ UNCHANGED <<orgClients, observations, observeTable, orgQueues, looksAt, ackSent, created,
                 events, fallen>>

\* prv_obsRequestCallback: the observation takes the place of the one there is,
\* whose callback hears of it first.
OrgObserved(t, content, data, garbage) ==
  LET old == Of(t.id, t.uri)
      accepted == content /\ t.id \in OrgIds /\ \A o \in old : o.status # "dereg"
      told == IF accepted THEN Deleted(OrgLists, old) ELSE OrgLists
  IN /\ t.kind = "observe"
     /\ observations' = IF accepted
                        THEN (observations \ old) \cup
                             {[id |-> t.id, uri |-> t.uri, user |-> t.user, status |-> "reg"]}
                        ELSE observations
     /\ Keep(ObserveCallback(told, t.id, t.uri, "0", accepted /\ data, t.user, garbage))
     /\ transactions' = transactions \ {t}
     /\ UNCHANGED <<orgClients, regQueue, updateQueue, looksAt, asked, ackSent, created, events,
                    fallen>>

\* prv_obsCancelRequestCallback, for a cancellation from the console. Without
\* a client it reads a message that may be missing; the observation is removed
\* even if there is none any more.
OrgCancelled(t, answered) ==
  LET old == Of(t.id, t.uri)
  IN /\ t.kind = "cancel"
     /\ observations' = IF t.id \in OrgIds THEN observations \ old ELSE observations
     /\ transactions' = transactions \ {t}
     /\ fallen' = IF t.id \in OrgIds THEN old = {} ELSE ~answered
     /\ UNCHANGED <<orgClients, observeTable, orgQueues, looksAt, asked, ackSent, created, events>>

-----------------------------------------------------------------------------
(* Main thread: the console.                                                 *)

\* lwm2m_dm_* and lwm2m_observe start a transaction for a client they find.
Start(kind, id, uri, user) ==
  transactions' = IF id \in OrgIds
                  THEN transactions \cup {[kind |-> kind, id |-> id, uri |-> uri, user |-> user]}
                  ELSE transactions

ConsoleStep == Event /\ UNCHANGED <<orgClients, observeTable, orgQueues, looksAt, asked, ackSent,
                                    created, fallen>>

\* The commands that lead to a request, and the URIs for which they do: the rest
\* is refused with 4.00. (create has data for one object only.)
ConsoleReads(uri) == {"read", "disc"}
ConsoleWrites(uri) == {"time"} \cup (IF UriDepth[uri] >= 2 THEN {"write"} ELSE {})
ConsoleAttributes(uri) == {"clear"} \cup (IF UriDepth[uri] = 3 THEN {"attr"} ELSE {})
ConsoleManages(uri) == {<<"create", "delete", "exec">>[UriDepth[uri]]}

ConsoleRequest(id, uri) ==
  \E command \in ConsoleReads(uri) \cup ConsoleWrites(uri) \cup ConsoleAttributes(uri)
                 \cup ConsoleManages(uri) :
    ConsoleStep /\ Start("request", id, uri, Console) /\ UNCHANGED observations

ConsoleObserve(id, uri) ==
  ConsoleStep /\ Start("observe", id, uri, Console)
  /\ observations' = { IF o.id = id /\ o.uri = uri THEN [o EXCEPT !.status = "regPending"] ELSE o :
                       o \in observations }

\* lwm2m_observe_cancel: a transaction for an observation in place; one whose
\* replacement is on its way is only removed.
ConsoleCancel(id, uri) ==
  \E o \in Of(id, uri) :
    /\ ConsoleStep
    /\ IF o.status = "reg"
       THEN /\ Start("cancel", id, uri, Console)
            /\ observations' = (observations \ {o}) \cup {[o EXCEPT !.status = "dereg"]}
       ELSE observations' = observations \ {o} /\ UNCHANGED transactions

-----------------------------------------------------------------------------
(* Client thread.                                                            *)

\* The clientID that findURI reads from the query, for the variable's value
\* before: hnd_write sets it to 0, hnd_read does not.
FindURI(id, before) == (before * 10 + id) % 256

\* hnd_write: the core is asked with a PDU for the answer. A write to an object,
\* of no data or for a client that is gone is refused by the core, and forgotten.
HandleWrite(a, id, empty) ==
  LET target == FindURI(id, 0)
      taken == target \in OrgIds /\ UriDepth[AskUri[a]] >= 2 /\ ~empty
  IN /\ asked[a] = "no" /\ AskKind[a] = "write"
     /\ asked' = [asked EXCEPT ![a] = IF taken THEN "taken" ELSE "lost"]
     /\ IF taken THEN Start("request", target, AskUri[a], a) ELSE UNCHANGED transactions
     /\ UNCHANGED <<orgClients, observations, observeTable, orgQueues, looksAt, ackSent, created,
                    events, fallen>>

\* hnd_read, which follows the client it looks up: lwm2m_dm_read, or with the
\* Observe option lwm2m_observe.
HandleRead(a, id, before) ==
  LET target == FindURI(id, before)
  IN /\ asked[a] = "no" /\ AskKind[a] # "write"
     /\ asked' = [asked EXCEPT ![a] = IF target \in OrgIds THEN "taken" ELSE "lost"]
     /\ fallen' = (target \notin OrgIds)
     /\ Start(IF AskKind[a] = "observe" THEN "observe" ELSE "request", target, AskUri[a], a)
     /\ observations' = { IF AskKind[a] = "observe" /\ o.id = target /\ o.uri = AskUri[a]
                          THEN [o EXCEPT !.status = "regPending"] ELSE o : o \in observations }
     /\ UNCHANGED <<orgClients, observeTable, orgQueues, looksAt, ackSent, created, events>>

\* message_handler with a 2.01: the client with the internalID gets the
\* GlobalID. (It keeps a pointer into a message that is freed.)
TakeCreated(c) ==
  /\ created' = created \ {c}
  /\ orgClients' = [i \in OrgIds |-> IF i = c.id THEN [orgClients[i] EXCEPT !.global = c.name]
                                  ELSE orgClients[i]]
  /\ UNCHANGED <<observations, transactions, observeTable, orgQueues, looksAt, asked, ackSent,
                 events, fallen>>

-----------------------------------------------------------------------------
(* Sender thread: simple_sender looks at the queues in this order and begins  *)
(* again when it has sent something.                                         *)

SenderStep == UNCHANGED <<core, observeTable, asked, events, fallen>>

\* Mutant: the ACK sent is not taken out of the queue.
SendAckAgain ==
  /\ looksAt = "ack" /\ SenderStep
  /\ IF ackQueue = <<>> THEN looksAt' = "reg" /\ UNCHANGED <<ackQueue, ackSent>>
     ELSE /\ ackQueue' = ackQueue
          /\ ackSent' = [ackSent EXCEPT ![Head(ackQueue)] = @ + 1]
          /\ UNCHANGED looksAt
  /\ UNCHANGED <<regQueue, updateQueue, nonQueue, created>>

SendAck ==
  /\ looksAt = "ack" /\ SenderStep
  /\ IF ackQueue = <<>> THEN looksAt' = "reg" /\ UNCHANGED <<ackQueue, ackSent>>
     ELSE /\ ackQueue' = Tail(ackQueue)
          /\ ackSent' = [ackSent EXCEPT ![Head(ackQueue)] = @ + 1]
          /\ UNCHANGED looksAt
  /\ UNCHANGED <<regQueue, updateQueue, nonQueue, created>>

\* A registration reaches the analyzer, which answers it in time.
SendReg ==
  /\ looksAt = "reg" /\ SenderStep
  /\ IF regQueue = <<>> THEN looksAt' = "update" /\ UNCHANGED <<regQueue, created>>
     ELSE /\ regQueue' = Tail(regQueue) /\ created' = created \cup {Head(regQueue)}
          /\ looksAt' = "ack"
  /\ UNCHANGED <<updateQueue, ackQueue, nonQueue, ackSent>>

SendUpdate ==
  /\ looksAt = "update" /\ SenderStep
  /\ IF updateQueue = <<>> THEN looksAt' = "non" /\ UNCHANGED updateQueue
     ELSE updateQueue' = Tail(updateQueue) /\ looksAt' = "ack"
  /\ UNCHANGED <<regQueue, ackQueue, nonQueue, ackSent, created>>

SendNon ==
  /\ looksAt = "non" /\ SenderStep
  /\ looksAt' = "ack"
  /\ nonQueue' = IF nonQueue = <<>> THEN <<>> ELSE Tail(nonQueue)
  /\ UNCHANGED <<regQueue, updateQueue, ackQueue, ackSent, created>>

-----------------------------------------------------------------------------
OrgInit ==
  /\ orgClients = << >> /\ observations = {} /\ transactions = {} /\ observeTable = <<>>
  /\ regQueue = <<>> /\ updateQueue = <<>> /\ ackQueue = <<>> /\ nonQueue = <<>>
  /\ looksAt = "ack" /\ created = {} /\ events = 0 /\ fallen = FALSE
  /\ asked = [a \in OrgAsk |-> "no"] /\ ackSent = [a \in OrgAsk |-> 0]

DeviceSteps ==
  \/ \E e \in Endpoint : OrgRegister(e)
  \/ \E id \in OrgIds, gone \in SUBSET OrgUri : OrgUpdate(id, gone)
  \/ \E id \in OrgIds : OrgLeave(id)
  \/ \E o \in observations, data \in BOOLEAN, g \in Garbage : OrgNotify(o, data, g)

\* A transaction ends by an answer or by its last retransmission.
Settles ==
  \E t \in transactions :
    \/ OrgResult(t) \/ OrgMisplaced(t)
    \/ \E content, data \in BOOLEAN, g \in Garbage : OrgObserved(t, content, data, g)
    \/ \E answered \in BOOLEAN : OrgCancelled(t, answered)

Commands ==
  \E id \in OrgIds, uri \in OrgUri :
    ConsoleRequest(id, uri) \/ ConsoleObserve(id, uri) \/ ConsoleCancel(id, uri)

\* The analyzer asks for a client it was told of.
ClientThread ==
  \/ \E a \in OrgAsk, id \in 0..Cardinality(Endpoint) - 1, empty \in BOOLEAN :
       HandleWrite(a, id, empty)
  \/ \E a \in OrgAsk, id \in 0..Cardinality(Endpoint) - 1, g \in Garbage : HandleRead(a, id, g)
  \/ \E c \in created : TakeCreated(c)

SenderThread == SendAck \/ SendReg \/ SendUpdate \/ SendNon

OrgNext == ~fallen /\ (DeviceSteps \/ Settles \/ Commands \/ ClientThread \/ SenderThread)

\* The threads run, and the core ends every transaction (transaction_step).
OrgFair == WF_orgvars(~fallen /\ SenderThread) /\ WF_orgvars(~fallen /\ Settles)

OrgSpec == OrgInit /\ [][OrgNext]_orgvars /\ OrgFair

-----------------------------------------------------------------------------
(* Properties.                                                               *)

\* A read or write that the core has taken is in one place only: with the
\* device, in the queue of answers, or answered, once. Whatever the devices, the
\* console and the sender do meanwhile, the analyzer hears of it once at most, and
\* nowhere is it lost but in prv_resultCallback (OrgMisplaced).
AskAccounted ==
  \A a \in OrgAsk :
    AskKind[a] # "observe" =>
      Cardinality({ t \in transactions : t.user = a })
      + Cardinality({ k \in DOMAIN ackQueue : ackQueue[k] = a }) + ackSent[a]
      = IF asked[a] = "taken" THEN 1 ELSE 0

\* Every read or write that the core has taken is answered to the analyzer in the
\* end, also if the device has left meanwhile, unless the device answers with a
\* Location-Path that prv_resultCallback does not take; the process must not have
\* fallen.
AskAnswered ==
  \A a \in OrgAsk :
    AskKind[a] # "observe" =>
      [](asked[a] = "taken" => <>(ackSent[a] = 1 \/ asked[a] = "lost" \/ fallen))

=============================================================================
