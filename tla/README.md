# A TLA+ verification project for libcoap

This directory models the protocol logic of this repository: libcoap (a CoAP
library in C, forked from libcoap 4.3), the LwM2M core in `src/my_libcoap/core`
(from Wakaama) and the QoS middleware built on both. The modules say when a
message is sent, repeated, delayed, given up or reported, how large bodies are
put together, who is told of a change, and what the bytes on the wire mean. They
are translated from the C sources; `PROJECT.json` maps every definition to its
lines. TLC checks small instances, TLAPS proves the central invariants of most
components for all instances.

Paths below are relative to `src/`.

## 1. The system

libcoap is a single-threaded library around a `coap_context_t`. The application
owns the I/O loop; each call of `coap_io_process()` retransmits what is due,
notifies observers, reads sockets and calls handlers. Nothing runs concurrently
inside a context: the interleavings that matter are those of *entry points*
(application calls, datagrams, timers, ICMP errors, handshake events), against a
network that loses, duplicates, delays and reorders. The LwM2M core is built the
same way around `lwm2m_step()` and `lwm2m_handle_packet()`. The QoS middleware
is different: organizer and analyzer run three threads each that share queues
and tables.

| Component | State | Operations | Hard because | Modules |
|---|---|---|---|---|
| Message layer (`src/net.c`, `src/coap_session.c`) | `con_active`, `delayqueue`, `state`, `ref` per session; `sendqueue` | `coap_send`, `coap_wait_ack`, `coap_retransmit`, `coap_dispatch`, `coap_session_connected`/`_disconnected`/`_delay_pdu`/`_release` | a slot, a reference and a queue entry are released on a dozen paths; late and duplicated answers; flushing inside handlers | `CoapMessaging`, `ConWindow` |
| Timers (`src/net.c`, `src/coap_io.c`) | relative times in `sendqueue`, `sendqueue_basetime`, `eptimerfd` | `coap_insert_node`, `coap_pop_next`, `coap_remove_from_queue`, the cancel functions, `coap_io_prepare_io`/`_epoll` | differences of unsigned times; a clock that moves while it is used; lost wake-ups | `CoapSendQueue` |
| Observe, server side (`src/resource.c`, `src/net.c`) | `subscribers`, `dirty`, `partiallydirty`, `observe_pending`, `non_cnt`, `fail_cnt` | `coap_add_observer`, `coap_delete_observer(s)`, `coap_resource_notify_observers`, `coap_check_notify`, `coap_handle_failed_notify` | three levels of marks; postponed and failing notifications; a list that changes under its loop | `CoapObserve` |
| Requests and asynchronous responses (`src/net.c`, `src/async.c`) | `async_state`, `last_tx_rst` | `coap_dispatch`, `handle_request`, `no_response`, `coap_check_async`, `coap_register_async`, `coap_async_set_delay` | retransmitted requests while the answer is prepared; five exits of one function | `CoapExchange` |
| Request cache (`src/coap_cache.c`) | entries, idle times, application data | key derivation, lookup, insertion, expiry | expiry against use, sessions that end | `CoapCache` |
| Endpoints (`src/coap_session.c`, `src/coap_io.c`) | sessions by peer, `last_rx_tx`, limits | `coap_endpoint_get_session`, `coap_new_server_session`, idle and handshake timeouts | eviction against use, limits | `CoapEndpoint` |
| Streams (`src/net.c`, `src/coap_session.c`) | `partial_write`, `partial_read`, `delayqueue`, CSM state | `coap_read_session`, `coap_write_session`, `handle_signaling`, keepalive | short writes, messages cut anywhere, several connections of one session | `CoapStream` |
| TLS backends (`src/coap_openssl.c`, `_gnutls.c`, `_mbedtls.c`, `_tinydtls.c`) | the TLS object, the datagram lent to it, `dtls_event`, `dtls_timeout_count` | hello, connect, send, receive, timeout, for each backend | state left over between calls into a library | `CoapTls` |
| Block-wise transfer (`src/block.c`) | `lg_xmit`, `lg_crcv`, `lg_srcv`, `rec_blocks` | request and response block handlers, `coap_add_data_large_*`, expiry | reassembly from lost, repeated, reordered and outdated blocks | `RecRanges`, `RecBlocks`, `CoapBlockPut`, `CoapBlockGet` |
| PDU and option codec (`src/pdu.c`, `src/option.c`) | the bytes of a PDU | add, insert, update, remove, duplicate, encode, parse | options are differences: a change in the middle changes the next header | `CoapPdu` |
| QoS analyzer (`my_libcoap/QoS_analyzer`) | `ULACKUnhandledQueue`, `ULACKQueue`, `DLQueue`, `midList`, `observeList`, devices | handlers of registrations, updates and requests, two message handlers, the sender | three threads; a handler that waits for another thread; tables looked up without their lock | `QosAnalyzer` |
| QoS organizer (`my_libcoap/QoS_organizer`) | four queues, the observe table, the LwM2M context | callbacks of the core, `hnd_read`, `hnd_write`, the console, the sender | answers that come after their device has gone; uninitialised values; priorities | `QosOrganizer` |
| LwM2M core, device (`my_libcoap/core`: `registration.c`, `bootstrap.c`, `observe.c`, `objects.c`, `discover.c`, `management.c`) | servers with their status, the watchers and their attributes, instances | `lwm2m_step`, updates, bootstrap, Observe, Write-Attributes, Discover, notifications | long protocols with every step able to fail; a list of servers that is rewritten under way | `LwClient`, `LwNotify`, `LwDevice` |
| LwM2M core, server (`registration.c`, `observe.c`, `management.c`) | registrations, observations, requests under way | register, update, deregister, expiry, observe, cancel, management requests | replies to a device that has left, registered again or is being cancelled | `LwServer` |
| LwM2M transactions and blocks (`transaction.c`, `packet.c`, `block1.c`) | `transactionList`, `block1Data` | `transaction_send`, `transaction_step`, `transaction_handleResponse`, `coap_block1_handler` | retransmission, separate responses, repeated blocks | `LwTransaction`, `LwPacket` |
| LwM2M formats and CoAP (`data.c`, `tlv.c`, `json*.c`, `senml_json.c`, `utils.c`, `er-coap-13`) | none | write, read | widths and limits of every encoding; two CoAP implementations in one program | `LwData`, `LwJson`, `LwRegisterFormat`, `LwCoap` |
| Sockets, addresses, memory, time, random numbers, logging | platform | glue | - | not modelled |
| Example programs | - | - | users of the library | not modelled |

Components talk through function calls on shared structures: the observe loop
reads `con_active` and puts confirmable notifications into the send queue of the
message layer; the message layer reports acknowledgement, reset and failure back
to the subscriptions; both rely on the timers. Block-wise transfer sits between
the application and the message layer, and a notification of a large body
replaces the copy that blocks are served from. A TLS backend calls
`coap_session_connected()` and `_disconnected()`, the entry points at which the
delay queue is flushed or reported. The organizer is an LwM2M server whose
callbacks fill the queues of its sender thread, which sends on libcoap sessions
to the analyzer; the analyzer forwards between these and Leshan.
`PROJECT.json` lists under `hazards` what can go wrong at which line, with the
properties that would show it.

What makes each component correct:

- *message layer*: at most `NSTART` confirmable messages of a session are
  active; a message is in exactly one queue until it is concluded; it is
  concluded once, and eventually; delayed messages keep their order; a session
  lives exactly as long as somebody holds a reference;
- *timers*: every queued node fires at its own time, and the application is
  woken for it;
- *observe*: no change of a resource is forgotten, every observer is eventually
  told, silent observers are detected and removed;
- *requests*: every CON is acknowledged as often as it is handled, a postponed
  request is served once and not early, a cached response fits its request (each
  with exceptions that section 4 names);
- *transports*: messages are neither reordered, mixed up nor lost without a
  report; a session in use is not evicted; a handshake ends; no buffer is read
  after its owner is gone;
- *block-wise*: a body is handed over whole and is one body; an upload ends;
- *codecs*: what is written is what is read, in the buffer computed for it;
- *LwM2M*: nobody waits without a transaction that will end, every request is
  reported once, what is shown of a device is what it has, a change is told;
- *middleware*: every answer finds its request, no request is answered twice,
  and every request is answered.

## 2. Plan

All components that keep protocol state now have a module. What is left:

1. *Proofs.* The invariants that are only model-checked: `StreamInOrder` of
   `CoapStream`, `BodyOfOneKind` and `GetIntact` of the block-wise transfers,
   `AnswersFit` of `QosAnalyzer`, `DeviceExact` of `LwDevice`. Section 5 says why.
2. *Findings.* Some of the deviations listed in section 4 contradict a line of the
   documentation and deserve a run of their own that shows them, as
   `stream_partial` and `put_alike` do: a delay of 0 (`async.h:47`), the session of
   a cache key (`man/coap_cache.txt.in:112`), a header that is cut.
3. *Model*: the parts named under "Not modelled" that a build of this repository
   contains, first `coap_add_data_blocked_response()` and the freeing of an
   endpoint with live sessions.

## 3. Modules

A component's module has its state as VARIABLES, one action per entry point, and
the calls inside a handler as part of its action. The network is implicit unless
a module says otherwise: whatever the peer may say about a message that was
transmitted may arrive at any later time, any number of times. History variables
say so where they are declared. An operator named after another one with a
suffix ("as it would be if", or "mutant") is a variant that no specification
uses: with it in place of the original, the property named in `PROJECT.json`
fails, which shows what the property depends on.

### CoapMessaging, ConWindow, CoapMessagingWindow

One context with client sessions over UDP or DTLS. `Send` (`coap_send`:
transmitted, delayed or refused), `Retransmit` and `GiveUp` (`coap_retransmit`),
`RecvAck`, `RecvRst`, `RecvSeparate`, `RecvNonSameMid` (`coap_dispatch`,
`handle_response`), `HandshakeDone` (`coap_session_connected`), `Close` and
`IcmpError` (`coap_session_disconnected`), `KeepAlivePing` and `KeepAliveFails`
(`coap_io_prepare_io`), `AppRelease` (`coap_session_release`). `Conclude` is the
common tail "give the slot back, flush the delay queue, cancel by token, delete
the node", `Settle` the final assignment including the last release of a
session, which frees it and drops its delay queue. The send queue is a set here,
because the order in which random timers fire is arbitrary. `Faults` says which
misfortunes may happen, so that a run can separate what holds always from what
holds without a certain fault. `con_active` and `retransmit_cnt` have 8 bits, so
`NSTART` and `MaxRetransmit` are at most 255.

`ConWindow` is the abstract promise: per session a window of at most `NSTART`
outstanding messages and a line of waiting ones, entered in order, filled
whenever possible. `CoapMessagingWindow` gives the refinement mapping: the
window is the session's part of the send queue, the line the confirmable
messages of its delay queue (`ConsOf`), and what has an outcome is done.

### CoapSendQueue

The send queue as the list of relative times it is, the base time, and the timer
descriptor of the epoll build. `now` advances on its own; with `"slow"` it may
advance between any two steps of `coap_io_process()`, with `"outside"` CONs are
sent while the application waits, with `"cancel"` the cancel functions run.
`due` remembers when each node's timer is meant to fire, `hastened` which nodes
stood behind a cancelled one and are therefore early.

### CoapObserve

Resources, subscriptions and the notification loop. The loop of
`coap_notify_observers()` is a sequence of steps (`Visit`, `Skip`, `Postpone`,
`Notify`, `Leave`), with nothing in between; the content of a resource, as seen
by a query, is a version number, and `sent` remembers the version an observer
was sent last. Of the message layer it keeps `con_active` and the confirmable
notifications in the send queue.

### CoapExchange and CoapCache

A server receives messages of a universe given as records (type, multicast,
method, path, Observe, Block, No-Response, Hop-Limit, Proxy options, an unknown
critical option). `RecvRequest` is the whole of `handle_request()`: the
asynchronous entry that waits already, the proxy and Hop-Limit tests, the lookup,
the method test, the subscription, the application's handler (external: it
answers, refuses, drops, stays silent or postpones), the undoing of the
subscription, and the decision of `no_response()`. An uninitialised
`dropResponse` is a free choice. `CheckAsync`, `SetDelay`, `FreeAsync` and
`DeleteAll` compete for the asynchronous entries; a count per request says what
became of each delivery and each registration, and in particular whether an
acknowledgement that is missing was dropped by the handler (or by an uninitialised
`dropResponse`) or not sent at all. Delays, the random ones of multicast requests
too, may be 0. `CheckRounds` walks the list as it was when
`coap_check_async()` began, entry by entry. What a group was answered is kept as
pairs of request and code.

`CoapCache` keeps the digest as the sequence of what is fed to the hash, which
is taken to be free of collisions; `KeyParts` feeds it option by option, each as
it is encoded, as a difference to the one before, and then the body of a FETCH. Of
the session a key is based on it gets what the code hashes, the first bytes of the
session, which sessions of one transport and type share.

### CoapEndpoint, CoapStream and CoapTls

`CoapEndpoint`: packets and connections of peers, references, the eviction of
the oldest unused session, stale handshakes, idle timeouts. Ages are kept
instead of times. `Client` is a peer that does not give up.

`CoapStream`: one client session through several connections. A byte is a pair
of message and index, so that the wire shows what `send()` was given. `send()`
takes all, some or no bytes, or fails; `recv()` gives any piece, also one that ends
inside a header, which `split` remembers. The CSM
exchange, Ping, Pong, Release, the keepalive and the CSM timeout are included.

`CoapTls`: one secure session, driven by one of the four backends. The libraries
are external and known by the results the backends tell apart; it is assumed of
them that a handshake is finished only by a call that reads something, not by a
ClientHello, and that a datagram carries handshake messages or data, not both.
The datagram that libcoap reads and lends to the library is `held`; it is dead
when the call that lent it returns. The closings in which the library has no part
(ICMP error, oversized message, Release and Abort, keepalive and CSM timeout, the
end of the session) are actions too.

### RecRanges, RecBlocks, CoapBlockPut, CoapBlockGet

`RecRanges` has the range array of received blocks as pure operators, `RecBlocks`
lets the blocks of a body arrive in any order. `CoapBlockPut` is a client that
uploads and a server that reassembles and calls its handler; `CoapBlockGet` a
client that downloads, observing or not, from a server that keeps the body while
the resource changes. Sizes count units of 16 bytes, a body is the sequence of
its units, each naming the upload or the version it is of, so that a mixture
shows. Datagrams are explicit here: they arrive in any order, and some of them
twice.

### CoapPdu

A PDU as bytes, with the operations that change it in place, and as the token,
options and payload that were asked for. The number of values of a byte in the
extended fields is the constant `ByteRange`, so that the limits of the one-, two-
and three-byte headers come near.

### QosAnalyzer

The analyzer stands between the organizers (over TCP) and Leshan, an LwM2M
server (over UDP). The server thread's steps are `TakeUplink` (a registration or
update is forwarded), `TakeAck` (its loop finds the acknowledgement),
`QueueAnswer`, `MapDevice`, `RecvAnswer` and `RecvNote`; while it is in the loop
it does nothing else. The client thread's are `RecvAck`, `TakeAsk`, `RecordMid`,
`RecordObserve` and `QueueAsk`, the sender thread's `SendAnswer` and `SendAsk`. A
step ends where a mutex is released. The organizers' senders (`StartUplink`,
`DeviceDone`, `DeviceNotes`) register, update, answer or stay silent; Leshan
acknowledges (twice, if a CON was repeated), retransmits, and reuses
message ids and tokens. A request for a GlobalID that is not stored makes the
code follow a NULL or uninitialised pointer; `crashed` then ends the behaviour.

### QosOrganizer

The main thread with the LwM2M core and its callbacks, the client thread that
takes the analyzer's requests, the sender that looks at four queues in turn. A
request stands for its token and travels through the core as user data. Reads of
uninitialised memory (`hnd_read`) are choices from `Garbage`; following a NULL
client ends the process (`fallen`). A Location-Path that `prv_resultCallback()`
cannot use loses the request (`OrgMisplaced`); a write
without payload is refused by the core and never answered.

### LwClient, LwServer, LwTransaction, LwNotify, LwDevice, LwPacket

`LwTransaction` is the confirmable request of the core with its doubling timer.
`LwClient` and `LwServer` use its promise: a request ends with a reply or with
NULL. `LwClient` is one `LwStep` per call of `lwm2m_step()`, with the answers and
the commands of a bootstrap server in between. `LwNotify` has the watchers of one
numeric resource, with periods, thresholds and step, and the time until which
the client sleeps. `LwDevice` turns a server's operation into a request and says
what the device takes it for, which instances and watchers remain, and what a
Discover shows; deleting a whole object, which only a bootstrap server may ask
for, reads the number of an instance that was freed, and the model then clears
anything (`misread`). A server's cancellation whose client or observation has gone
follows a NULL pointer (`crashed`). `LwPacket` has Block1 and Block2 of the core;
two bodies of one client may be under way, and `alone` remembers whether another
body's block came between.

### LwData, LwJson, LwRegisterFormat, LwCoap

The encodings as pure operators: a tree of resource values in text, opaque, TLV,
JSON and SenML JSON; the query and the link list of a registration with the
lengths computed for their buffers; the messages of er-coap-13 as bytes, read by
er-coap-13 and, with `CoapPdu`, by libcoap. `Radix` and `ByteRange` scale the
width of a byte down.

The default build (`CMakeLists.txt:581`) defines only
`LWM2M_SERVER_MODE`, LwM2M 1.1, without JSON: the device side, Discover, JSON and
SenML are code of the repository that this build leaves out. The WAN of the
middleware is TCP (`WAN_PROTOCOL`).

## 4. Runs

An MC module whose component has several independent parts runs them one at a
time: `part` names the one that moves, the others stay in an initial state. The
state spaces add up instead of multiplying, and one run asks everything of a
component.

| Run | Instance | Properties and what they show |
|---|---|---|
| `msg_fair` | one DTLS session, 2 requests, a ping, a NON, `NSTART` 2, 2 retransmissions; the peer acknowledges or is silent, handshakes fail, the session is closed and released | `NoIdleSlot`: no slot is free while messages wait. `EventuallyConcluded`: every CON ends. `ImplementsWindow`: refinement of `ConWindow` |
| `msg_faults` | a DTLS and a UDP session, `NSTART` 1, 1 retransmission, every fault but a plain close | `TypeOK`, `SlotBound`, and `NodesAccounted`: one place per message, exact references, bounded transmissions, whatever peer, network and socket do |
| `queue` | 3 nodes, timeouts 1 and 2, clock to 6, running during handlers, with cancellation | `TimersExact`: deadlines are exact but for nodes behind a cancelled one. `WakeupArmed`: the wake-up is in time for every deadline still to come. `NothingLeftDue`: a pass leaves nothing waiting that was due when it began |
| `obs_con` | 3 observers of 2 clients, 2 queries, confirmable notifications, refused, lost, reset; closed sessions, a deleted resource | `StaleIsMarked`: nothing is forgotten. `SubscriptionsExact`: exact references, no duplicates, counters within their bits |
| `obs_live` | 2 observers of one client on one slot, NONs with a CON in between, nothing refused by the socket | `NonRunBounded`: at most `MaxNon` NONs in a row. `EventuallyNotified`: everybody is told of the last change |
| `qos` | two devices, of which one also updates and registers again (three uplink messages in all), three requests of which two share a message id and two a token, two transmissions, a repeated CON, silent devices, early requests; Leshan accepts | `AnswersFit`: tables and queues agree with what is under way, an answer has a message id that was used with its token, a GlobalID belongs to the device it is stored for. `EventuallyAnswered`: every registration and update is answered |
| `block` | ranges of 8 blocks in an array of 3; three uploads of 3, 2 and 2 units, of formats f, g and f, which may be given up; a download of 3 units that change to 2 | `RangesExact`. `BodyOfOneKind`: a body handed over has all its blocks, of one format. `GetIntact`: a download is one version. `UploadEnds`: the first upload of its format ends |
| `transport` | a TLS stream, 2 messages, 2 connections; an endpoint with 3 peers, 2 idle sessions, 1 handshake; a session of each TLS library, 2 objects, 2 retransmissions | `StreamInOrder`, `BusyNotFreed`, `ClientGetsIn`, `NothingStaleRead`, `ClosedForCause`, `HandshakeEnds` |
| `lwm2m` | a device with 2 servers and a bootstrap server; a server with 2 devices and 2 requests; an organizer with 2 devices and 2 requests; a transaction with 3 retransmissions; a watcher of values 0 to 3; a device with 2 servers and 2 instances | `ClientKeepsUp`: whoever waits has a transaction, and an update with the object list that was noted is not lost. `RequestsExact`, `AskAccounted`, `AskAnswered`, `EveryEnds`, `ChangeTold`. `DeviceExact`: nothing of a deleted instance is watched, and a Discover shows what was written |
| `server_codec` | two deliveries out of 29 messages, two configurations, delays 0, 1 and 2, clock to 3; a cache with 2 sessions of one transport and 2 entries; values around every limit with `Radix` 12, registrations, PDUs of up to 3 options, messages of four URIs with integers of up to four bytes and two or four parts of Location-Query, 2 bodies of 3 blocks | `RepliesFit`: acknowledgements, subscriptions and group requests. `DelayedIsServed`: a postponed request ends once, not early. `CacheExact`: a hit fits its request, entries live as long as they should. `DataExact`, `RegisterExact`, `PduExact`, `MessageExact`: what is written is read. `BlocksInOrder`: blocks are in order, and of one body if no other body's block came between |

Two runs expect a violation (`findings` in `PROJECT.json` quotes the lines):

| Run | What happens |
|---|---|
| `stream_partial` | `coap_session_internal.h` describes `partial_write` as the number of bytes already written of the message at the head; after a short `send()`, `coap_write_session()` goes on from memory *in front of* the message, and `WireIntact` fails |
| `put_alike` | `man/coap_block.txt.in:86` promises the handler "the entire body of data"; of two uploads of one format to one resource, the first given up, the second finds the `lg_srcv` of the first by its resource alone (`src/block.c:1249`), and the body handed over is made of both: `BodyIntact` fails |

**What the passing runs leave out.** The same models show more deviations when a
run is given other faults or constants. They are the reason for the choice made
there:

- *message layer*: a separate response whose ACK was lost removes the request
  and keeps its slot (`src/net.c:2930`), so that later CONs wait for ever
  (`EventuallyConcluded` with `"separate"`); a delayed retransmission may free
  its session before it joins the session's queue (`src/coap_session.c:317`); a
  late or repeated RST frees the slot of another message (`src/net.c:3076`) and
  an ICMP error resets the window but not the outstanding requests
  (`src/coap_session.c:478`; `ImplementsWindow` with `"rst"` or `"icmp"`); a
  refused datagram stops the flush of the delay queue (`src/coap_session.c:438`;
  `NoIdleSlot` with `"sendfail"`), so `msg_fair` has no refused sends; a peer's NON with the mid of a queued request
  removes the request (`src/net.c:3120`, `"midclash"`); with two requests of one
  token, a response cancels the one just flushed and loses its slot; with
  `max_retransmit` above 255 the 8 bits of `retransmit_cnt` wrap
  (`src/net.c:1348`), which the model's assumption excludes;
- *timers*: cancelling a node makes later ones fire early (`src/net.c:2001`); a
  CON sent outside `coap_io_process()` arms the timer descriptor late, or not at
  all (`src/net.c:1025`; `WakeupArmed` with `"outside"`); when a node falls due
  while the handlers run, the descriptor is disarmed although the node still
  waits (`src/coap_io.c:1027`), which is why `WakeupArmed` speaks of deadlines
  that are still to come;
- *observe*: a handler that answers a notification with an error has its
  subscription deleted under the loop, which goes on using it
  (`src/resource.c:940`, `"error"`); the documentation speaks of every fifth
  notification being confirmable (`man/coap_observe.txt.in:103`,
  `man/coap_resource.txt.in:102`), the code sends `COAP_OBS_MAX_NON` = 5 NONs
  before one, which is the limit `NonRunBounded` is about, and a confirmable one
  that fails to be sent restarts the count (`src/resource.c:957`; `NonRunBounded`
  with `"sendfail"`); a
  client that registers again with the same token and another query gets a second
  subscription (`src/resource.c:734`; `SubscriptionsExact` with `"requery"`);
  with changes that never stop, the last observer of a session with one slot may
  starve (`src/resource.c:859`; `EventuallyNotified` is checked for a bounded
  number of changes);
- *requests*: a delay of 0 fires at once instead of never, and the entry is freed
  unserved (`src/net.c:3235`), although `async.h:47` and
  `man/coap_async.txt.in:64` say that 0 waits for ever, and although the random
  delay of a multicast request may be 0 (`src/net.c:2534`); a postponed
  request with Hop-Limit 2 is decremented twice and refused (`src/net.c:2627`), and
  if it was a registration its subscription stays; the run has both, and
  `DelayedIsServed` and `RepliesFit` count them apart (`zeroed`, `LastHop`). A
  refusal that No-Response suppresses has lost its code when `src/net.c:2855`
  looks at it (set to 0 at 2437), so the subscription stays; `RepliesFit` speaks of
  clients that were told. An acknowledgement is missing when the handler drops its
  response or an uninitialised `dropResponse` does (`src/net.c:2837`);
- *cache*: a session-based key digests the first bytes of the session, which all
  sessions of a kind share, instead of its address (`src/coap_cache.c:83`), so that
  another client may be given the entry, which `man/coap_cache.txt.in:112` denies:
  `CacheExact` says that the transports agree; and every entry goes with the session
  it was made by (`src/coap_session.c:204`), session-based or not, which
  `man/coap_cache.txt.in:136` does not say;
- *endpoints*: when `accept()` fails, the other sessions of the endpoint drop out
  of its table (`src/coap_session.c:1140`; they are `lost` in the model, and
  nothing is claimed of them);
- *streams*: a header of three or more bytes that a read cuts after its second byte
  is put together wrongly, without a word (`src/net.c:1651`); the run has such
  reads, and `StreamInOrder` speaks of the reading side until one happens;
  over TLS, a message may leave before the CSM exchange (`src/net.c:1858`); a
  second message with id 0 is refused while one waits (`src/coap_session.c:324`);
- *TLS*: GnuTLS and Mbed TLS never reset the count of timeouts
  (`src/coap_gnutls.c:2309`); tinyDTLS gives up silently and leaves the session
  in HANDSHAKE (`HandshakeEnds` is about the other three);
- *block-wise*: a second upload of the same format to the same resource is joined
  with what the first one left (`src/block.c:1249`; the run `put_alike`), and may be
  answered out of it before it was sent whole (`src/block.c:1339`), so that it never
  ends: `BodyOfOneKind` tells formats apart only, and `UploadEnds` speaks of the
  first upload of its format; a kept response is served although the resource has changed
  (`src/block.c:960`);
- *codec*: `coap_insert_option()` is refused before a long last option
  (`src/pdu.c:441`); when the difference of two option numbers is exactly 269,
  removing and inserting take the two-byte extension for the one-byte one and cut
  the difference (`src/pdu.c:345`, 351, 385): the numbers of the run avoid it;
- *analyzer*: a registration that Leshan refuses is never answered and the server
  thread serves nobody any more (`my_libcoap/QoS_analyzer/QoS_analyzer_server.c:504`;
  `EventuallyAnswered` with `"noack"`); of two requests that are open with one
  token, the answer to one may be sent with the message id of the other
  (`AckOwed`); a request for a device that is not
  stored yet ends the process (`QoS_analyzer_client.c:326`, `"eager"`);
- *organizer*: entries of the observe table outlive their device
  (`my_libcoap/QoS_organizer/observe/observe.c:80`), so that an Observe may be
  taken for a notification: `AskAccounted` speaks of reads and writes; a write
  without payload is refused by the core and never answered (`management.c:519`); the
  GlobalID kept is a pointer into a PDU that is freed
  (`QoS_organizer_client.c:368`), which is below this model;
- *LwM2M core* (`my_libcoap/core`): Discover reads through a NULL pointer when
  one of the two periods is missing (`discover.c:92`), and reports a threshold
  set at two levels as 0 (`discover.c:337`); a second Write-Attributes sets no new
  attribute (`observe.c:395`); attributes written to a path may land on a longer one
  that is watched already (`observe.c:62`), which `DeviceExact` allows in that
  direction; deleting a whole object reads the number of an instance after it was
  freed (`objects.c:384`), of which `DeviceExact` says nothing any more; a value
  that cannot be serialised keeps the watchers behind from being told
  (`observe.c:766`); an observation that was cancelled while its
  request was pending comes back with a late reply (`observe.c:913`); a cancellation
  that ends without a reply after its client has gone reads a NULL packet before
  the application is told (`observe.c:999`), one whose observation has gone removes
  NULL (`observe.c:1032`): `RequestsExact` speaks of servers to which this has not
  happened; an update with objects asked of all servers is passed over by a server
  that waits for one without them (`registration.c:925`), and objects that change
  while a registration is under way are not noted at all: `ClientKeepsUp` speaks of
  the others; Base64 groups of four characters are decoded wrongly (`utils.c:768`),
  so every third byte of an opaque value in SenML may change, and an object link in
  text has its colon at the sixth character whatever comes before it
  (`data.c:102`), so it cannot be read back: `DataExact` asks for the other bytes,
  and for the length of the link; the buffer of a registration is computed without the
  OSCORE object (`objects.c:547`) and written with it (628), so that a device that
  has one does not register: the run has none; `coap_serialize_get_size()` counts
  one byte too few for a Max-Age or Size of four bytes behind a large delta, and for
  each part of a Location-Query beyond the third that is long
  (`er-coap-13.c:491`-526), options no caller in the core sets: the run has them, and
  `MessageExact` allows exactly those bytes; Block1 blocks of two bodies are
  joined when their lengths fit (`block1.c:97`), and a payload is handed on again
  when its last block comes again (`block1.c:90`): `BlocksInOrder` says neither; a `\u00XX`
  escape that ends a string is refused (`json_common.c:390`); a `Q` parameter is
  refused by the code's own server (`registration.c:1215`); a Location that
  is not an instance of the object ends a Create without its callback
  (`management.c:393`-414), which `RequestsExact` and `AskAnswered` count apart.

**Bounds.** Two requests, a ping and a NON are enough for a message to be
active, one to wait for a slot, one to be in the middle of a flush and one that
needs no slot; two retransmissions distinguish the first, a middle and the last
timeout. In `msg_faults` one session of each kind and one retransmission suffice,
because sessions share only the send queue. Three queue nodes give every
insertion position and every removal with a neighbour on both sides. Two
observers of one client compete for a slot and can be duplicates; the third
belongs to another client. Versions and the clock are cut off by `MaxVersion` and
`MaxTime`, the analyzer's traffic by `Uplink`, `MaxUplinks`, `Repeated`, `MaxCopies`
and `MaxNotes`; with two devices an answer or a GlobalID can reach the wrong one. Eight blocks and three ranges let every gap open, close and overflow;
a body of three units has a first, a middle and a last block, and the later
uploads are shorter than the first, so that leftovers reach beyond their end. Two
deliveries to a server are a request and its retransmission, or two requests that
meet in the asynchronous list. A stream needs two messages to be reordered and
two connections for something to be left over; three peers are an old, a new and
a patient one. Two TLS objects are a session and its reconnect. In `lwm2m` two
servers are registered with in an order, and two requests can be an observation
and its cancellation, or two requests of which the device leaves between.
`Radix` 12 and `ByteRange` 16 make every length class of the encodings reachable
with values of at most 144 bytes. `CHECK_DEADLOCK FALSE` is set because every
message may be concluded, the clock may have stopped, and a program may have
ended.

**Fairness.**

- `CoapMessaging`: the retransmission timer of a queued node eventually fires
  (the loop in `coap_io_prepare_io()` runs at every call of
  `coap_io_process()`), and a DTLS handshake ends, which is what `HandshakeEnds`
  shows for three backends. Nothing is assumed of peer and network.
- `CoapObserve`: the notification loop runs, and a confirmable notification is
  eventually acknowledged or given up, which is what `CoapMessaging` shows;
  strong fairness, because the loop runs in between.
- `CoapBlockPut`, `CoapBlockGet`: a request is repeated until it is answered, and
  what is repeated arrives in the end, unless the request is given up
  (`GiveUpPut`), which is an end as well.
- `CoapEndpoint`: time passes, and the one client repeats its hello; of the other
  peers nothing is assumed.
- `CoapTls`: the timer of a handshake fires (`coap_io_prepare_io()` calls the
  backend's timeout function); nothing is assumed of the peer.
- `QosAnalyzer`: the three threads run, and Leshan acknowledges a CON, which
  libcoap retransmits; organizers and devices may stop at any time.
- `QosOrganizer`: the sender thread runs, and the core ends every transaction,
  which is what `EveryEnds` shows.
- `LwTransaction`, `LwNotify`: time passes and the application's loop calls
  `lwm2m_step()` when the time it was given is over.

## 5. Proofs

Every theorem holds for all values of the constants that satisfy the named
`ASSUME`s of the module, which TLC evaluates in every run. An inductive
invariant is stated in the proof module, beside the lemmas that show that each
action keeps it.

`CoapMessagingProofs`, with every set of faults:

- `TypeCorrect`: `Spec => []TypeOK`. The type invariant is inductive.
- `SlotBoundHolds`: `Spec => []SlotBound`. Inductive together with `TypeOK`;
  the heart is `LoopSlots`: the flush loop ends with at most `NSTART` slots
  taken, and with a free one only if the queue is empty or a datagram was
  refused.
- `NoIdleSlotHolds`: `Spec => []NoIdleSlot` if sockets refuse no datagram; with
  `"sendfail"` TLC finds a counterexample.
- `NodesAlwaysAccounted`: `Spec => []NodesAccounted`. The invariant `NodesInv`
  adds `NotSentYet`: a message that waits in a delay queue has been transmitted at
  most as often as its retransmission counter says. A flush transmits it without
  counting a retransmission, so the bound alone is not inductive. Delay queues are seen as `Line`s (messages of one
  session, each once, none of the send queue), and `CardAdd` and its companions
  turn a moved node into an equation between reference counts.
- `WindowImplemented`: `Spec => ImplementsWindow`, the refinement of `ConWindow`,
  if the peer only acknowledges, the socket takes every datagram, and no two CONs
  of a session share a token (`OnlyAcknowledged`). The invariant `WindowInv` joins
  the three above and adds `WindowExact`: `con_active` is the number of the
  session's nodes in the send queue, so that the abstract window is full exactly
  when the code's counter says so. The excluded faults break that: a late or
  repeated Reset gives back a slot without a node, an ICMP error sets the counter
  to 0 and puts the delayed CONs into the send queue as if they had been sent, a
  refused datagram leaves a slot idle, and a shared token lets one message
  conclude several CONs.
  What the flush loop moves from the line to the window (`Moves`) is proved for
  delay queues of any length, NONs among the CONs.

`CoapSendQueueProofs`:

- `TimersAlwaysExact`: `QSpec => []TimersExact`, with every race. `QInv` adds that
  the base time is not in the future, so that no node is inserted with a negative
  time, and that a queued node has had its timeout drawn, so that it cannot be
  queued twice. What inserting (`InsertFacts`), popping, and cancelling
  (`WithoutFacts`, `UnlinkFacts`) do to the sums of relative times is proved for
  lists of any length.
- `NothingEverLeftDue`: `QSpec => NothingLeftDue`, from the same invariant.
- `WakeupAlwaysArmed`: `QSpec => []WakeupArmed` if no CON is sent while the
  application waits: the descriptor is armed for every deadline still to come, not
  for one that passed between two readings of the clock. With the race `"outside"` TLC
  refutes it: the second of two CONs that are due together has the relative time
  0, which disarms the descriptor.

`CoapObserveProofs`:

- `StaleIsMarkedHolds`: `OSpec => []StaleIsMarked`, with every fault. The property
  speaks of moments outside the loop; the invariant `MarkInv` says what holds
  inside it: a resource the loop is not at (`Resting`) satisfies the property or
  still has its turn, and in the resource it is at (`Working`) the observers
  already passed no longer rely on the resource's own mark, which is about to go.
  It needs that an observer observes one resource (`OneResource`).
- `ReferencesExact`: `OSpec => [](ObserveTypeOK /\ ObserveRefExact)`, with every
  fault. `SubInv` adds that the loop only has subscribed observers before it, so
  that the handler's error drops a subscription that is there.
- `SubscriptionsAlwaysExact`: `OSpec => []SubscriptionsExact`, unless a client uses
  a token with a new query (`"requery"`: the code then makes a duplicate).
- `NonRunAlwaysBounded`: `OSpec => []NonRunBounded`, unless a confirmable
  notification among non-confirmable ones fails to be sent (`NothingMiscounted`):
  `non_cnt` is set back before the sending, so that a failure starts a new run of
  non-confirmable notifications. `RunCounted` says that the counter keeps up.

`CoapTransportProofs`:

- `BusySessionsKept`: `EpSpec => BusyNotFreed`. `EpInv` adds where sessions are
  that no table holds, which only a failed accept of a stream makes.
- `NeverStaleRead`: `TlsSpec => []NothingStaleRead`, for all four libraries, over
  datagrams and streams. `TlsInv` says where a datagram may be left when a call
  returns: with OpenSSL, which reads only after it was lent the next one, or with
  GnuTLS once the handshake is over. A call
  of a backend is a composition of parts; `After(a, b)` says what a part may do to
  the session (it invents no datagram, revives no object, frees one only after a
  failure and tells so, forgets no failure). The relation is transitive, so each
  part is proved once and each action is a chain.
- `AlwaysClosedForCause`: `TlsSpec => ClosedForCause`, from the same relation.
  `Caused` is what the parts hand on: an event that will close the session stands
  for a failure of this call. libcoap's own closings are causes as well.

`CoapServerProofs`:

- `RepliesAlwaysFit`: `ExchSpec => []RepliesFit`, and
- `DelayedAlwaysServed`: `ExchSpec => []DelayedIsServed`. `ExchInv` states the
  books of the server (`Books`): the entries of the asynchronous list are distinct
  and each keeps the request it was made for, its Hop-Limit decremented
  (`EntryFits`); the acknowledgements, registrations and ends of each request add
  up (`Accounted`); and only a request that no test refuses is subscribed
  (`ObservingFits`, `AllTold`). Neither needs an assumption on delays or Hop-Limits:
  what a delay of 0 or a last hop loses is counted apart in the properties.
- `CacheAlwaysExact`: `CacheSpec => []CacheExact`. `CacheInv` adds that no two
  entries share an id (`SameId`), that the key of an entry is that of the request
  it was made for and its expiry its last use plus its idle time (`EntryKept`), and
  that the entry a request finds was made from the same parts (`LookedUp`), body and
  transport included.

`RecBlocksProofs`:

- `RangesAlwaysExact`: `RecSpec => []RangesExact`. `RecInv` states "apart" for any
  two ranges, not only neighbours, and "exactly the blocks received" point by
  point; inserting into and merging arrays of any length preserve both.
- `BodyComplete`: `RecSpec => []AllInMeansAll`: if `check_all_blocks_in()` accepts
  the ranges, every block of the body is there.

`Lwm2mProofs`:

- `BlocksAlwaysInOrder`: `LwpSpec => []BlocksInOrder`: numbers in order, and one body
  if no other body's block came between. `PacketInv` adds that the
  message id kept is that of the last block, so that a repeated message cannot
  complete a body it does not end, and that the block size is agreed on after the
  first block of a response, so that a block's number says where it begins.
- `ServerRequestsExact`: `LwsSpec => []RequestsExact`, inductive with the types of
  the registrations. It speaks of a server that has not followed a NULL pointer.
- `ClientAlwaysKeepsUp`: `LwcSpec => []ClientKeepsUp`, for any servers, Server
  objects and limits. `LwcInv` is `Sound(lw, {})`: the types, both halves of
  `ClientKeepsUp`, and that the server of a transaction is still in its list unless
  the transaction is marked as freed (`Owned`), without which a reply could be
  handed to a server that never sent the request. `Sound(k, X)` excuses
  the servers of X: between the end of a transaction and its callback, the server
  it was with waits for a reply that is no longer to come. Every operation is a lemma about any context, and the walks over the
  lists of servers and of transactions are recursive functions. It assumes
  (`LwcAssumption`) that instances are numbers with a largest one and that none is
  both a server and a bootstrap server.
- `AsksAlwaysAccounted`: `OrgSpec => []AskAccounted`. `OrgInv` adds that reads and
  writes travel in requests only, and that observations, with their requests and
  cancellations, belong to the console or to an Observe: otherwise deleting the
  observations of a device could settle a read. The fold over the observations
  that go touches only the organizer's table, which `Deleted` makes explicit.

Induction. The library's induction theorems take an operator as parameter, which
the provers cannot instantiate. `InductionFacts` goes around this: a set of
natural numbers that is not empty has a least element (`WFMin` and
`NatLessThanWellFounded`, which have no such parameter), so a fact that fails
somewhere fails somewhere first (`LeastNat`, `UpTo`). That a recursive function
satisfies its own equation is proved in the same way (`FollowsExists`).

Only model-checked:

- liveness under fairness, which is out of the prover's reach;
- what the encodings compute (`DataExact`, `RegisterExact`, `PduExact`,
  `MessageExact`), because their modules use RECURSIVE operators, with which the
  prover loses its SMT backend;
- `StreamInOrder`, `BodyOfOneKind`, `GetIntact`, `DeviceExact` and `AnswersFit`: each
  relates two ends of a long exchange byte by byte or message by message, and an
  inductive invariant has to say for every position of every run what both ends
  hold of it.

## 6. Not modelled

- Sockets, addresses, memory, time, random numbers, logging, `.well-known/core`
  text: thin wrappers or formatting without protocol state. Failures of
  allocation are left out everywhere.
- Example programs and test drivers: users of the library, each with handlers
  of its own; the repository's own users, the organizer and the analyzer, are
  modelled.
- TLS: certificates, keys, cipher lists and the contexts that hold them; these
  are settings handed to the libraries.
- Message layer: LwIP and Contiki variants, `coap_adjust_basetime()`; observe:
  `NOTIFY_NON_ALWAYS`, resources that become unobservable, Block2 in a
  registration; block-wise: `coap_add_data_blocked_response()`, blocks that the
  application numbers itself, Max-Age of a kept body.
- Middleware: the UDP WAN, the loss of a WAN session, cancelled observations at
  the analyzer (the code forwards them as observations), the wrap of message ids,
  and data races of two threads inside libcoap or the LwM2M core, which are below
  the granularity of a step.
- LwM2M: the bootstrap server (no build defines `LWM2M_BOOTSTRAP_SERVER_MODE`),
  the application's objects, malformed JSON text, floating point rounding, CBOR.
