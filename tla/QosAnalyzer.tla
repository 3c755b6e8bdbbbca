---------------------------- MODULE QosAnalyzer ----------------------------
(***************************************************************************)
(* The QoS analyzer of src/my_libcoap: a process between the organizers at *)
(* the edge (WAN_PROTOCOL is TCP) and an LwM2M server, Leshan (UDP).       *)
(*                                                                         *)
(*   server thread   takes what the organizers send: registrations and     *)
(*                   updates of devices, which it forwards to Leshan and   *)
(*                   waits, in a loop, for the acknowledgement; answers to *)
(*                   Leshan's requests; notifications                      *)
(*   client thread   takes what Leshan sends: acknowledgements, and        *)
(*                   requests for devices, which it queues for forwarding  *)
(*   sender thread   empties the queue of answers to organizers and, when  *)
(*                   that is empty, the queue of requests for them         *)
(*                                                                         *)
(* A step is what a thread does in one critical section and up to the next *)
(* one.  Organizers, devices and Leshan are the environment.  TCP carries  *)
(* no message ids, so an answer of a device has only the token of its      *)
(* request, and midList must give Leshan's message id back.                *)
(***************************************************************************)
EXTENDS Integers, FiniteSetsExt, SequencesExt

CONSTANTS
  Device,       \* (session of an organizer, InternalID) pairs
  Request,      \* requests of Leshan
  Mid,          \* message ids of Leshan
  Token,        \* tokens of Leshan
  MidOf,        \* the message id of a request
  TokenOf,      \* the token of a request
  Observe,      \* requests that carry Observe = 0; the others read or write
  Uplink,       \* registrations and updates: a set of <<kind, device>>
  Repeated,     \* bound: message ids of the CONs to Leshan that may be
                \* retransmitted, and are then acknowledged twice
  MaxUplinks,   \* bound: registrations and updates that are sent
  MaxCopies,    \* bound: transmissions and retransmissions by Leshan
  MaxNotes,     \* bound: notifications of one observation
  Faults,       \* a subset of QosFaults
  NoDevice,     \* an uninitialised anjay pointer
  NoJob, NoAsk  \* no handler is running

(***************************************************************************)
(* noack   Leshan answers with a code other than 2.01 and 2.04, or never   *)
(* eager   Leshan sends a request to a device it has just registered, or   *)
(*         to a registration that is being replaced                        *)
(* silent  a device does not answer                                        *)
(***************************************************************************)
QosFaults == {"noack", "eager", "silent"}

\* A device registers, updates its registration, registers again.
Kind == {"reg", "upd", "rereg"}

ASSUME QosAssumption == /\ MidOf \in [Request -> Mid]
                        /\ TokenOf \in [Request -> Token]
                        /\ Observe \subseteq Request
                        /\ Uplink \subseteq Kind \X Device
                        /\ MaxUplinks \in Nat /\ MaxCopies \in Nat /\ MaxNotes \in Nat
                        /\ Repeated \subseteq Nat
                        /\ Faults \subseteq QosFaults
                        /\ NoDevice \notin Device /\ NoAsk \notin Request

VARIABLES
  spc, job,      \* server thread: where it is, and the uplink it serves
  cpc, creq,     \* client thread: the same for a request of Leshan
  dpc,           \* sender thread: the queue it looks at next
  unhandled,     \* ULACKUnhandledQueue
  ulack,         \* ULACKQueue
  dlqueue,       \* DLQueue
  midList,       \* midListHead
  observeList,   \* observeListHead
  globalID,      \* anjay_node->GlobalID, 0 if there is no node
  nodeMid,       \* anjay_node->MID
  tx_mid,        \* the next message id of analyzer_client_session
  uplinks,       \* environment: state of registrations and updates
  con,           \* environment: forwarded CONs Leshan has not acknowledged
  acks,          \* environment: acknowledgements of Leshan on their way
  owner,         \* environment: the registration that got each GlobalID
  copies,        \* environment: transmissions of a request by Leshan
  asks,          \* environment: those on their way to the analyzer
  target,        \* environment: the GlobalID a request is for
  pending,       \* environment: copies of a request a device works on
  answers,       \* environment: answers to a request on the WAN
  notes,         \* environment: notifications on the WAN
  noted,         \* environment: notifications so far, -1 before the first
                 \* answer to the observe request
  rcvd,          \* history: copies of a request that were handled
  acked,         \* history: ACKs for <<mid, token>> sent to Leshan
  crashed        \* the process has followed a NULL or wild pointer

svars == <<spc, job, tx_mid>>
cvars == <<cpc, creq, rcvd>>
tables == <<midList, observeList, globalID, nodeMid>>
queues == <<unhandled, ulack, dlqueue>>
leshan == <<con, acks, owner, copies, asks, target>>
wan == <<uplinks, pending, answers, notes, noted>>
qosvars == <<svars, cvars, dpc, tables, queues, leshan, wan, acked, crashed>>

-----------------------------------------------------------------------------
(* The tables.                                                             *)

\* InsertMid(): a retransmission is counted, a message id that is used again
\* gets the new token.
InsertMid(l, m, t) ==
  LET i == SelectInSeq(l, LAMBDA e : e.mid = m)
      e == [mid |-> m, token |-> t, count |-> 1]
  IN  IF i = 0 THEN <<e>> \o l
      ELSE IF l[i].token = t THEN [l EXCEPT ![i].count = @ + 1]
      ELSE [l EXCEPT ![i] = e]

\* The first entry with token t, 0 if there is none.
TokenIndex(l, t) == SelectInSeq(l, LAMBDA e : e.token = t)

\* findMidByTokenAndDel(), having found entry i.
MidTaken(l, i) ==
  IF l[i].count = 1 THEN RemoveAt(l, i) ELSE [l EXCEPT ![i].count = @ - 1]

\* findSessionAndInternalIDByGlobalID() and findAnjayByGlobalID(); Leshan
\* never gives a GlobalID to two devices.
DeviceOf(gid) == IF \E d \in Device : globalID[d] = gid
                 THEN CHOOSE d \in Device : globalID[d] = gid
                 ELSE NoDevice

-----------------------------------------------------------------------------
(* The server thread.                                                      *)

\* hnd_post_reg() and hnd_post_update(): the request is forwarded to Leshan.
TakeUplink(up) ==
  /\ spc = "idle"
  /\ uplinks[up] = "wan"
  /\ uplinks' = [uplinks EXCEPT ![up] = "taken"]
  /\ job' = [up |-> up, mid |-> tx_mid, gid |-> 0]
  /\ tx_mid' = tx_mid + 1
  /\ con' = con \cup {[mid |-> tx_mid, up |-> up]}
  /\ spc' = "wait"
  /\ UNCHANGED <<cvars, dpc, tables, queues, acks, owner, copies, asks,
                 target, pending, answers, notes, noted, acked, crashed>>

\* Mutant: the front of the queue is taken, whatever its message id.
AckIndexFront == IF unhandled = << >> THEN 0 ELSE 1

\* GetAndDelACKQueueByMid(): the first acknowledgement with the message id.
AckIndex == SelectInSeq(unhandled, LAMBDA a : a.mid = job.mid)

\* The loop of both handlers finds the acknowledgement.
TakeAck ==
  /\ spc = "wait"
  /\ AckIndex # 0
  /\ job' = [job EXCEPT !.gid = unhandled[AckIndex].gid]
  /\ unhandled' = RemoveAt(unhandled, AckIndex)
  /\ spc' = "answer"
  /\ UNCHANGED <<tx_mid, cvars, dpc, tables, ulack, dlqueue, leshan, wan,
                 acked, crashed>>

\* InsertACKMsg() on ULACKQueue, after which an update is done.
QueueAnswer ==
  /\ spc = "answer"
  /\ ulack' = Append(ulack, job)
  /\ IF job.up[1] = "upd" THEN spc' = "idle" /\ job' = NoJob
     ELSE spc' = "map" /\ UNCHANGED job
  /\ UNCHANGED <<tx_mid, cvars, dpc, tables, unhandled, dlqueue, leshan,
                 wan, acked, crashed>>

\* handle_anjay_node(): a new node starts with the message id of the
\* registration, which is 0 over TCP; a known one gets a new GlobalID.
MapDevice ==
  /\ spc = "map"
  /\ globalID' = [globalID EXCEPT ![job.up[2]] = job.gid]
  /\ spc' = "idle" /\ job' = NoJob
  /\ UNCHANGED <<tx_mid, cvars, dpc, midList, observeList, nodeMid, queues,
                 leshan, wan, acked, crashed>>

\* analyzer_server_message_handler() with the answer to a request: Leshan is
\* sent an ACK with the message id found for the token, or nothing.
RecvAnswer(r) ==
  LET i == TokenIndex(midList, TokenOf[r]) IN
  /\ spc = "idle"
  /\ answers[r] > 0
  /\ answers' = [answers EXCEPT ![r] = @ - 1]
  /\ IF i = 0
     THEN UNCHANGED <<midList, acked>>
     ELSE /\ midList' = MidTaken(midList, i)
          /\ acked' = [acked EXCEPT ![<<midList[i].mid, TokenOf[r]>>] = @ + 1]
  /\ UNCHANGED <<svars, cvars, dpc, observeList, globalID, nodeMid, queues,
                 leshan, uplinks, pending, notes, noted, crashed>>

\* The same handler with a notification: findAndUpdateMidByToken() follows
\* the device pointer of the first entry with its token.
RecvNote(r) ==
  LET i == TokenIndex(observeList, TokenOf[r])
      d == IF i = 0 THEN NoDevice ELSE observeList[i].dev
  IN
  /\ spc = "idle"
  /\ notes[r] > 0
  /\ notes' = [notes EXCEPT ![r] = @ - 1]
  /\ nodeMid' = [x \in Device |-> nodeMid[x] + (IF x = d THEN 1 ELSE 0)]
  /\ crashed' = (i # 0 /\ d = NoDevice)
  /\ UNCHANGED <<svars, cvars, dpc, midList, observeList, globalID, queues,
                 leshan, uplinks, pending, answers, noted, acked>>

-----------------------------------------------------------------------------
(* The client thread.                                                      *)

\* Mutant: 2.04 is not looked for.
IsHandledCreated(a) == a.code = "2.01"

\* The codes that message_handler() keeps.
IsHandled(a) == a.code \in {"2.01", "2.04"}

\* message_handler(): an acknowledgement of Leshan.
RecvAck(a) ==
  /\ cpc = "idle"
  /\ a \in acks
  /\ acks' = (acks \ {a}) \cup (IF a.again THEN {[a EXCEPT !.again = FALSE]}
                                ELSE {})
  /\ unhandled' = IF IsHandled(a)
                  THEN Append(unhandled, [mid |-> a.mid, gid |-> a.gid])
                  ELSE unhandled
  /\ UNCHANGED <<svars, cvars, dpc, tables, ulack, dlqueue, con, owner,
                 copies, asks, target, wan, acked, crashed>>

\* hnd_get_unknown() and hnd_unknown_put() look the session of the device up
\* (without organizerNodeMutex) and create a message for it; without a
\* session coap_new_pdu() is called with NULL.
TakeAsk(r) ==
  /\ cpc = "idle"
  /\ asks[r] > 0
  /\ asks' = [asks EXCEPT ![r] = @ - 1]
  /\ rcvd' = [rcvd EXCEPT ![r] = @ + 1]
  /\ creq' = r
  /\ cpc' = "mid"
  /\ crashed' = (DeviceOf(target[r]) = NoDevice)
  /\ UNCHANGED <<svars, dpc, tables, queues, con, acks, owner, copies, target,
                 wan, acked>>

\* InsertMid() under analyzer_midList_mutex.
RecordMid ==
  /\ cpc = "mid"
  /\ midList' = InsertMid(midList, MidOf[creq], TokenOf[creq])
  /\ cpc' = IF creq \in Observe THEN "observe" ELSE "queue"
  /\ UNCHANGED <<svars, creq, rcvd, dpc, observeList, globalID, nodeMid,
                 queues, leshan, wan, acked, crashed>>

\* InsertObserveList() under analyzer_observeList_mutex, which looks the
\* device up again: if it is gone, the pointer is not initialised.
RecordObserve ==
  /\ cpc = "observe"
  /\ observeList' = Append(observeList, [token |-> TokenOf[creq],
                                         dev |-> DeviceOf(target[creq])])
  /\ cpc' = "queue"
  /\ UNCHANGED <<svars, creq, rcvd, dpc, midList, globalID, nodeMid, queues,
                 leshan, wan, acked, crashed>>

\* InsertDLMsg() under analyzer_DL_queue_mutex.
QueueAsk ==
  /\ cpc = "queue"
  /\ dlqueue' = Append(dlqueue, creq)
  /\ cpc' = "idle" /\ creq' = NoAsk
  /\ UNCHANGED <<svars, rcvd, dpc, tables, unhandled, ulack, leshan,
                 wan, acked, crashed>>

-----------------------------------------------------------------------------
(* The sender thread: one round of analyzer_DL_simple_sender() looks at    *)
(* ULACKQueue and, if that was empty, at DLQueue.                          *)

SendAnswer ==
  /\ dpc = "ulack"
  /\ IF ulack = << >>
     THEN dpc' = "dlqueue" /\ UNCHANGED <<ulack, uplinks>>
     ELSE /\ uplinks' = [uplinks EXCEPT ![Head(ulack).up] = "answered"]
          /\ ulack' = Tail(ulack)
          /\ UNCHANGED dpc
  /\ UNCHANGED <<svars, cvars, tables, unhandled, dlqueue, leshan, pending,
                 answers, notes, noted, acked, crashed>>

SendAsk ==
  /\ dpc = "dlqueue"
  /\ dpc' = "ulack"
  /\ IF dlqueue = << >>
     THEN UNCHANGED <<dlqueue, pending>>
     ELSE /\ pending' = [pending EXCEPT ![Head(dlqueue)] = @ + 1]
          /\ dlqueue' = Tail(dlqueue)
  /\ UNCHANGED <<svars, cvars, tables, unhandled, ulack, leshan, uplinks,
                 answers, notes, noted, acked, crashed>>

-----------------------------------------------------------------------------
(* The environment: organizers with their devices, and Leshan.             *)

\* An organizer sends the registration of a device, and when it has been
\* answered an update or another registration, each once.
StartUplink(up) ==
  /\ uplinks[up] = "idle"
  /\ Cardinality({x \in Uplink : uplinks[x] # "idle"}) < MaxUplinks
  /\ up[1] = "reg" \/ uplinks[<<"reg", up[2]>>] = "answered"
  /\ uplinks' = [uplinks EXCEPT ![up] = "wan"]
  /\ UNCHANGED <<svars, cvars, dpc, tables, queues, leshan, pending, answers,
                 notes, noted, acked, crashed>>

\* A device answers and its organizer sends the answer, or it does not.
DeviceDone(r, answer) ==
  /\ pending[r] > 0
  /\ answer \/ "silent" \in Faults
  /\ pending' = [pending EXCEPT ![r] = @ - 1]
  /\ answers' = [answers EXCEPT ![r] = @ + (IF answer THEN 1 ELSE 0)]
  /\ noted' = [noted EXCEPT ![r] =
                 IF answer /\ r \in Observe /\ @ = -1 THEN 0 ELSE @]
  /\ UNCHANGED <<svars, cvars, dpc, tables, queues, leshan, uplinks, notes,
                 acked, crashed>>

\* An observed device sends a notification, and its organizer passes it on.
DeviceNotes(r) ==
  /\ noted[r] \in 0..(MaxNotes - 1)
  /\ noted' = [noted EXCEPT ![r] = @ + 1]
  /\ notes' = [notes EXCEPT ![r] = @ + 1]
  /\ UNCHANGED <<svars, cvars, dpc, tables, queues, leshan, uplinks, pending,
                 answers, acked, crashed>>

\* Leshan acknowledges a CON, a registration with a new GlobalID.
LeshanAck(c, code, again) ==
  /\ c \in con
  /\ con' = con \ {c}
  /\ again => c.mid \in Repeated
  /\ code = "4.04" => "noack" \in Faults
  /\ code # "4.04" => code = IF c.up[1] = "upd" THEN "2.04" ELSE "2.01"
  /\ owner' = IF code = "2.01" THEN Append(owner, c.up) ELSE owner
  /\ acks' = acks \cup {[mid |-> c.mid, code |-> code, again |-> again,
                         gid |-> IF code = "2.01" THEN Len(owner') ELSE 0]}
  /\ UNCHANGED <<svars, cvars, dpc, tables, queues, copies, asks, target, wan,
                 acked, crashed>>

\* Leshan sends a request to a registered device, or retransmits one that has
\* not been acknowledged.
LeshanAsks(r, gid) ==
  /\ MapThenSumSet(LAMBDA x : copies[x], Request) < MaxCopies
  /\ acked[<<MidOf[r], TokenOf[r]>>] = 0
  /\ IF copies[r] > 0 THEN gid = target[r]
     ELSE /\ gid \in DOMAIN owner
          /\ "eager" \in Faults \/ DeviceOf(gid) # NoDevice
  /\ target' = [target EXCEPT ![r] = gid]
  /\ copies' = [copies EXCEPT ![r] = @ + 1]
  /\ asks' = [asks EXCEPT ![r] = @ + 1]
  /\ UNCHANGED <<svars, cvars, dpc, tables, queues, con, acks, owner, wan,
                 acked, crashed>>

-----------------------------------------------------------------------------
QosInit ==
  /\ spc = "idle" /\ job = NoJob
  /\ cpc = "idle" /\ creq = NoAsk
  /\ dpc = "ulack"
  /\ unhandled = << >> /\ ulack = << >> /\ dlqueue = << >>
  /\ midList = << >> /\ observeList = << >>
  /\ globalID = [d \in Device |-> 0]
  /\ nodeMid = [d \in Device |-> 0]
  /\ tx_mid = 1
  /\ uplinks = [up \in Uplink |-> "idle"]
  /\ con = {} /\ acks = {} /\ owner = << >>
  /\ copies = [r \in Request |-> 0]
  /\ asks = [r \in Request |-> 0]
  /\ target = [r \in Request |-> 0]
  /\ pending = [r \in Request |-> 0]
  /\ answers = [r \in Request |-> 0]
  /\ notes = [r \in Request |-> 0]
  /\ noted = [r \in Request |-> -1]
  /\ rcvd = [r \in Request |-> 0]
  /\ acked = [k \in Mid \X Token |-> 0]
  /\ crashed = FALSE

Server ==
  \/ \E up \in Uplink : TakeUplink(up)
  \/ TakeAck \/ QueueAnswer \/ MapDevice
  \/ \E r \in Request : RecvAnswer(r) \/ RecvNote(r)

Client ==
  \/ \E a \in acks : RecvAck(a)
  \/ \E r \in Request : TakeAsk(r)
  \/ RecordMid \/ RecordObserve \/ QueueAsk

Sender == SendAnswer \/ SendAsk

Acknowledges == \E c \in con, code \in {"2.01", "2.04", "4.04"},
                   again \in BOOLEAN : LeshanAck(c, code, again)

Environment ==
  \/ \E up \in Uplink : StartUplink(up)
  \/ \E r \in Request, answer \in BOOLEAN : DeviceDone(r, answer)
  \/ \E r \in Request : DeviceNotes(r)
  \/ \E r \in Request, gid \in DOMAIN owner : LeshanAsks(r, gid)

QosNext == ~crashed /\ (Server \/ Client \/ Sender \/ Acknowledges
                          \/ Environment)

QosSpec == QosInit /\ [][QosNext]_qosvars

\* The three threads run, and Leshan answers a CON, which libcoap
\* retransmits; devices and Leshan's users need not do anything.
QosFairSpec == /\ QosSpec
               /\ WF_qosvars(~crashed /\ Server)
               /\ WF_qosvars(~crashed /\ Client)
               /\ WF_qosvars(~crashed /\ Sender)
               /\ WF_qosvars(~crashed /\ Acknowledges)

-----------------------------------------------------------------------------
(* Properties.                                                             *)

\* The copies of request r between InsertMid() and the arrival of its answer.
InFlight(r) == Cardinality({i \in DOMAIN dlqueue : dlqueue[i] = r})
               + pending[r] + answers[r]
               + (IF cpc \in {"observe", "queue"} /\ creq = r THEN 1 ELSE 0)

\* No message id of a request with token t has been used with another token.
Undisturbed(t) ==
  \A r, x \in Request :
    TokenOf[r] = t /\ TokenOf[x] # t /\ MidOf[x] = MidOf[r] => rcvd[x] = 0

\* The state has its types: an entry of midList stands for at least one
\* request, and message ids in it are unique.
QosTypeOK ==
  /\ spc \in {"idle", "wait", "answer", "map"}
  /\ cpc \in {"idle", "mid", "observe", "queue"}
  /\ (spc = "idle") = (job = NoJob) /\ (cpc = "idle") = (creq = NoAsk)
  /\ \A i \in DOMAIN midList :
       midList[i] \in [mid : Mid, token : Token, count : Nat \ {0}]
  /\ \A i, j \in DOMAIN midList : midList[i].mid = midList[j].mid => i = j
  /\ globalID \in [Device -> 0..Len(owner)]
  /\ nodeMid \in [Device -> Nat]
  /\ pending \in [Request -> Nat] /\ answers \in [Request -> Nat]
  /\ notes \in [Request -> Nat] /\ acked \in [Mid \X Token -> Nat]

\* Leshan is sent no more ACKs for a message id and token than it has sent
\* copies of that request, however retransmissions, answers and reused
\* message ids and tokens interleave. (Of two requests that are open with one
\* token, either answer may be sent with either message id.)
AckOwed ==
  \A m \in Mid, t \in Token :
    acked[<<m, t>>] <= MapThenSumSet(LAMBDA r : rcvd[r],
                         {r \in Request : MidOf[r] = m /\ TokenOf[r] = t})

\* "the purpose is to find the mid by the token when the answer comes back"
\* (read.md, on midList): as long as the message ids are not used with other
\* tokens, every answer that is still to come will find an entry, also when
\* Leshan retransmits and when devices do not answer.
AnswerFindsMid ==
  \A t \in Token : Undisturbed(t) =>
    MapThenSumSet(InFlight, {r \in Request : TokenOf[r] = t})
      <= MapThenSumSet(LAMBDA i : midList[i].count,
                       {i \in DOMAIN midList : midList[i].token = t})

\* A notification on its way finds its token in observeList: the client
\* thread has recorded it before a device could have heard of the request.
NoteFindsToken ==
  \A r \in Request : notes[r] > 0 => TokenIndex(observeList, TokenOf[r]) # 0

\* A GlobalID that is stored for a device is one Leshan gave to this device,
\* and the one reported to it is that of the registration it answers: late and
\* repeated acknowledgements are never taken for the answer to another request.
RightDevice ==
  /\ \A d \in Device : globalID[d] # 0 => owner[globalID[d]][2] = d
  /\ \A i \in DOMAIN ulack :
       IF ulack[i].up[1] = "upd" THEN ulack[i].gid = 0
       ELSE ulack[i].gid # 0 /\ owner[ulack[i].gid] = ulack[i].up

\* Whatever the three threads, the devices and Leshan do, every answer of a
\* device finds a message id that is open for its token, and every answer of
\* Leshan the registration and the device that it is for.
AnswersFit == QosTypeOK /\ AckOwed /\ AnswerFindsMid /\ NoteFindsToken /\ RightDevice

\* Every registration and update is eventually answered, so that again and
\* again none that was sent is left (each is sent once): the handler
\* "listens to ULACKUnhandledQueue, and after processing the answer adds it
\* to ULACKQueue to be sent" (read.md).
EventuallyAnswered ==
  []<>(crashed \/ \A up \in Uplink : uplinks[up] \in {"idle", "answered"})
=============================================================================
