----------------------------- MODULE CoapStream -----------------------------
(* A client session over TCP or TLS: connecting, the exchange of capability  *)
(* messages (CSM), the delay queue and partial writes, the reader that puts  *)
(* messages together from pieces of the byte stream, signalling, keepalive.  *)
(*                                                                           *)
(* A byte is a pair <<m, i>>, the i-th byte of message m; the index is below *)
(* 1 for memory in front of the message. What send() and recv() do (take all *)
(* bytes, some, none, or fail) is chosen freely, send() within WriteParts.   *)
EXTENDS Naturals, Integers, Sequences, FiniteSets, SequencesExt

CONSTANTS
  Proto,          \* "TCP" or "TLS"
  AppMessages,    \* what the application sends
  PeerMessages,   \* what the peer sends after its CSM
  HdrSize, Size,  \* bytes of a message's header, and of the whole message
  WriteParts,     \* lengths after which send() may stop inside a message
  MaxConnects,    \* connections made
  MaxPeer         \* messages the peer sends in a connection

VARIABLES ss, inbox, peerSent, connects

streamvars == <<ss, inbox, peerSent, connects>>

Own == AppMessages \cup {"csm", "ping", "pong"}

\* Message ids: the application's own, 0 for signalling messages.
Mid(m) == IF m \in AppMessages THEN m ELSE "0"

Bytes(m, from, n) == [i \in 1..n |-> <<m, from + i>>]

\* coap_session_t, reduced to what a stream uses, and a socket. "broken": the
\* connection has failed and send() says so. Histories: wire and
\* dispatched of this connection; done, nacked and accepted of all. split: a
\* recv() has ended inside a header; garbled: the reader has then taken the
\* wrong bytes for a message, and what it makes of the rest is not followed.
Closed == [state |-> "NONE", queue |-> <<>>, partialWrite |-> 0, want |-> FALSE,
           broken |-> FALSE, got |-> <<>>, awaitPong |-> FALSE, wire |-> <<>>,
           dispatched |-> <<>>, split |-> FALSE, garbled |-> FALSE,
           done |-> <<>>, nacked |-> <<>>, accepted |-> <<>>, cut |-> FALSE]

-----------------------------------------------------------------------------
(* coap_socket_write: what is left of n bytes, or an error.                  *)

WriteResults(s, n) ==
  IF s.broken THEN {-1} ELSE {0, n} \cup {k \in WriteParts : k < n}

Written(s, m, from, n, r) ==
  [s EXCEPT !.wire = @ \o Bytes(m, from, IF r > 0 THEN r ELSE 0),
            !.want = r >= 0 /\ r < n,
            !.done = IF r = n /\ m \in AppMessages THEN Append(@, m) ELSE @]

\* coap_session_disconnected: the socket is closed, every queued message is
\* reported, what was read of a message is forgotten.
Disconnected(s) ==
  [s EXCEPT !.state = "NONE", !.queue = <<>>, !.want = FALSE, !.broken = FALSE,
            !.got = <<>>, !.split = FALSE, !.garbled = FALSE, !.nacked = @ \o SelectSeq(s.queue, LAMBDA m : m \in AppMessages)]

\* coap_session_send_csm: a CSM that is not written at once ends the session.
SendCsm(s0) ==
  LET s == [s0 EXCEPT !.state = "CSM", !.partialWrite = 0]
      n == Size["csm"]
  IN {IF r = n THEN Written(s, "csm", 0, n, r) ELSE Disconnected(Written(s, "csm", 0, n, r)) :
        r \in WriteResults(s, n)}

(* The queue is written from its head until send() takes less than a whole   *)
(* message. The head was written up to `skip' before: the rest is taken from *)
(* `from'.                                                                   *)
HeadWritten(s, from, skip) ==
  LET m == Head(s.queue)
      n == Size[m] - skip
  IN {[st |-> IF r = n THEN [Written(s, m, from, n, r) EXCEPT !.queue = Tail(@), !.partialWrite = 0]
              ELSE [Written(s, m, from, n, r) EXCEPT !.partialWrite = IF r > 0 THEN skip + r ELSE skip],
       more |-> r = n] : r \in WriteResults(s, n)}

Drained(s, from, skip) ==
  LET step(acc, i) ==
        UNION {IF a.more /\ a.st.queue # <<>>
               THEN IF i = 1 THEN HeadWritten(a.st, from, skip) ELSE HeadWritten(a.st, 0, 0)
               ELSE {a} : a \in acc}
  IN {a.st : a \in FoldLeft(step, {[st |-> s, more |-> TRUE]}, [i \in 1..Len(s.queue) |-> i])}

\* coap_session_connected, for a stream.
Connected(s) == Drained([s EXCEPT !.state = "ESTABLISHED", !.partialWrite = 0], 0, 0)

\* coap_write_session: the rest of the head is taken from in front of it.
WriteSession(s) == Drained(s, -s.partialWrite, s.partialWrite)

\* coap_write_session during a TLS handshake: coap_tls_write() goes on with the
\* handshake, and if that ends it the message leaves, and then the CSM.
WriteInHandshake(s) ==
  LET m == Head(s.queue)
      ends(r) == SendCsm(Written(s, m, 0, Size[m], r))
      after(c, r) == IF c.state = "NONE" THEN {c}
                     ELSE IF r < Size[m] THEN {[c EXCEPT !.partialWrite = r]}
                     ELSE WriteSession([c EXCEPT !.queue = Tail(@)])
  IN IF s.queue = <<>> THEN {s}
     ELSE {s, Disconnected(s)}
          \cup UNION {UNION {after(c, r) : c \in ends(r)} : r \in WriteResults(s, Size[m]) \ {0, -1}}

-----------------------------------------------------------------------------
(* Sending. A result is the session and whether the message was taken.       *)

\* coap_session_delay_pdu: a message id that already waits is refused.
DelayPdu(s, m) ==
  IF \E i \in DOMAIN s.queue : Mid(s.queue[i]) = Mid(m)
  THEN [st |-> s, taken |-> FALSE]
  ELSE [st |-> [s EXCEPT !.queue = Append(@, m)], taken |-> TRUE]

Refused(s) == [st |-> s, taken |-> FALSE]

\* Connecting, in coap_send_pdu on a session in state NONE: the connection is
\* under way, or fails, or stands at once; then a CSM, or a TLS handshake.
Fresh(s) == [s EXCEPT !.awaitPong = FALSE, !.wire = <<>>, !.dispatched = <<>>,
                      !.broken = FALSE]

NowConnected(s) ==
  IF Proto = "TCP" THEN SendCsm(s) ELSE {[s EXCEPT !.state = "HANDSHAKE"]} \cup SendCsm(s)

\* A message whose connection dies with its CSM stays in the queue.
Connecting(s, m) ==
  {Refused(s), DelayPdu([Fresh(s) EXCEPT !.state = "CONNECTING"], m)}
  \cup {DelayPdu(t, m) : t \in NowConnected(Fresh(s))}
  \cup IF Proto = "TLS" THEN {Refused(Disconnected(Fresh(s)))} ELSE {}

\* As it would be if a waiting queue did not hold a message back.
TransmitBeforeQueue(s, m) ==
  IF s.state # "ESTABLISHED" THEN {DelayPdu(s, m)}
  ELSE {LET t == Written(s, m, 0, Size[m], r)
            d == DelayPdu(t, m)
        IN IF r < 0 THEN Refused(t)
           ELSE IF r = Size[m] THEN [st |-> t, taken |-> TRUE]
           ELSE IF d.taken THEN [d EXCEPT !.st.partialWrite = r] ELSE d :
        r \in WriteResults(s, Size[m])}

\* coap_send_pdu on a session that has a connection, and the rest of coap_send:
\* what send() did not take goes to the queue.
Transmit(s, m) ==
  IF s.state # "ESTABLISHED" \/ s.want THEN {DelayPdu(s, m)}
  ELSE {LET t == Written(s, m, 0, Size[m], r)
            d == DelayPdu(t, m)
        IN IF r < 0 THEN Refused(t)
           ELSE IF r = Size[m] THEN [st |-> t, taken |-> TRUE]
           ELSE IF d.taken THEN [d EXCEPT !.st.partialWrite = r] ELSE d :
        r \in WriteResults(s, Size[m])}

SendPdu(s, m) ==
  IF s.state = "NONE" THEN Connecting(s, m) ELSE Transmit(s, m)

-----------------------------------------------------------------------------
(* Reading. `got' is what has been read of the current message. Its first    *)
(* byte says how long the header is, the header how long the message is.     *)

\* handle_signaling, and coap_dispatch for everything else.
Dispatch(s0, m) ==
  LET s == [s0 EXCEPT !.dispatched = Append(@, m)]
  IN CASE m = "csm" -> IF s.state = "CSM" THEN Connected(s) ELSE {s}
       [] m = "ping" -> {r.st : r \in SendPdu(s, "pong")}
       [] m = "pong" -> {[s EXCEPT !.awaitPong = FALSE]}
       [] m = "release" -> {Disconnected(s)}
       [] OTHER -> {s}

Intact(bytes) == \A i \in DOMAIN bytes : bytes[i] = <<bytes[1][1], i>>

\* One byte. A message that is too long ends the reading (cut) and then the
\* session.
Feed(s, b) ==
  LET got == Append(s.got, b)
      m == got[1][1]
  IN IF s.garbled \/ s.cut THEN {s}
     ELSE IF Len(got) = HdrSize[m] /\ ~Intact(got) THEN {[s EXCEPT !.garbled = TRUE]}
     ELSE IF Len(got) = HdrSize[m] /\ m = "huge" THEN {[s EXCEPT !.cut = TRUE]}
     ELSE IF Len(got) = Size[m]
          THEN IF Intact(got) THEN Dispatch([s EXCEPT !.got = <<>>], m)
               ELSE {[s EXCEPT !.garbled = TRUE]}
     ELSE {[s EXCEPT !.got = got]}

\* At the end of what recv() returned, partial_read counts one byte of an
\* incomplete header: partial_read += bytes_read adds what is left, nothing.
Kept(s) ==
  IF s.got # <<>> /\ Len(s.got) \in 2..(HdrSize[s.got[1][1]] - 1)
  THEN [s EXCEPT !.got = SubSeq(@, 1, 1), !.split = TRUE] ELSE s

\* coap_read_session, given what recv() returned.
ReadSession(s, chunk) ==
  LET after == FoldLeft(LAMBDA acc, b : UNION {Feed(t, b) : t \in acc}, {s}, chunk)
  IN {IF t.cut THEN [Disconnected(t) EXCEPT !.cut = FALSE] ELSE Kept(t) : t \in after}

-----------------------------------------------------------------------------
Open == ss.state \notin {"NONE", "CONNECTING"}

\* A closed connection takes the bytes of the peer with it.
Becomes(s) ==
  /\ ss' = s
  /\ IF s.state = "NONE" THEN inbox' = <<>> /\ peerSent' = <<>>
     ELSE UNCHANGED <<inbox, peerSent>>
  /\ connects' = IF ss.state = "NONE" /\ s.state # "NONE" THEN connects + 1 ELSE connects

\* coap_session_connect, on the socket of a new client session.
SessionConnect == {[Closed EXCEPT !.state = "CONNECTING"]} \cup NowConnected(Closed)

StreamInit ==
  ss \in SessionConnect /\ inbox = <<>> /\ peerSent = <<>> /\ connects = 1

\* coap_send, by the application: each message once.
AppSend(m) ==
  /\ m \notin Range(ss.accepted) /\ ~ss.garbled
  /\ ss.state = "NONE" => connects < MaxConnects
  /\ \E r \in SendPdu(ss, m) :
       Becomes(IF r.taken THEN [r.st EXCEPT !.accepted = Append(@, m)] ELSE r.st)

\* coap_connect_session, from coap_io_do_epoll: connected, or refused.
ConnectSession ==
  /\ ss.state = "CONNECTING"
  /\ \E s \in NowConnected(ss) \cup {Disconnected(ss)} : Becomes(s)

\* The TLS handshake, driven by coap_tls_read and coap_tls_write.
TlsHandshake ==
  /\ ss.state = "HANDSHAKE"
  /\ \E s \in SendCsm(ss) \cup {Disconnected(ss)} : Becomes(s)

\* coap_sock_write: the socket does not take all of a handshake message.
TlsBlocked ==
  /\ ss.state = "HANDSHAKE" /\ ~ss.want
  /\ Becomes([ss EXCEPT !.want = TRUE])

\* coap_io_do_epoll: the socket is readable; recv() returns n bytes.
CanRead(n) ==
  /\ Open /\ ss.state # "HANDSHAKE" /\ ~ss.garbled
  /\ n \in 1..Len(inbox)
  /\ \E s \in ReadSession(ss, SubSeq(inbox, 1, n)) :
       /\ ss' = s
       /\ inbox' = IF s.state = "NONE" THEN <<>> ELSE SubSeq(inbox, n + 1, Len(inbox))
       /\ peerSent' = IF s.state = "NONE" THEN <<>> ELSE peerSent
       /\ UNCHANGED connects

\* The peer closes: recv() returns 0, an error of the session.
PeerCloses == Open /\ inbox = <<>> /\ Becomes(Disconnected(ss))

\* coap_io_do_epoll: the socket can be written, in whatever state.
CanWrite ==
  /\ Open /\ ss.want
  /\ \E s \in IF ss.state = "HANDSHAKE" THEN WriteInHandshake([ss EXCEPT !.want = FALSE])
               ELSE WriteSession([ss EXCEPT !.want = FALSE]) : Becomes(s)

\* The connection breaks: from now on send() fails.
Breaks == Open /\ ~ss.broken /\ Becomes([ss EXCEPT !.broken = TRUE])

\* coap_io_prepare_io: no CSM within csm_timeout.
CsmTimeout == ss.state = "CSM" /\ Becomes(Disconnected(ss))

\* coap_io_prepare_io: nothing heard for ping_timeout.
Keepalive ==
  /\ ss.state = "ESTABLISHED"
  /\ IF ss.awaitPong THEN Becomes(Disconnected(ss))
     ELSE \E r \in SendPdu(ss, "ping") :
            Becomes(IF r.taken THEN [r.st EXCEPT !.awaitPong = TRUE] ELSE Disconnected(r.st))

\* The peer: its CSM first, nothing after a release.
PeerSend(m) ==
  /\ Open /\ ss.state # "HANDSHAKE" /\ Len(peerSent) < MaxPeer
  /\ (m = "csm") <=> (peerSent = <<>>)
  /\ peerSent # <<>> => Last(peerSent) \notin {"release", "huge"}
  /\ inbox' = inbox \o Bytes(m, 0, Size[m])
  /\ peerSent' = Append(peerSent, m)
  /\ UNCHANGED <<ss, connects>>

StreamNext ==
  \/ \E m \in AppMessages : AppSend(m)
  \/ ConnectSession \/ TlsHandshake \/ TlsBlocked
  \/ \E n \in 1..Len(inbox) : CanRead(n)
  \/ PeerCloses \/ CanWrite \/ Breaks \/ CsmTimeout \/ Keepalive
  \/ \E m \in PeerMessages \cup {"csm"} : PeerSend(m)

StreamSpec == StreamInit /\ [][StreamNext]_streamvars

-----------------------------------------------------------------------------
(* Properties                                                                *)

\* What goes over the connection is whole messages, one after the other, the
\* last one perhaps not yet complete: a message continues where a short write
\* left it (coap_write_session, partial_write).
WireIntact ==
  \A k \in DOMAIN ss.wire :
    LET b == ss.wire[k]
    IN IF b[2] = 1 THEN k = 1 \/ ss.wire[k-1][2] = Size[ss.wire[k-1][1]]
       ELSE k > 1 /\ ss.wire[k-1] = <<b[1], b[2] - 1>>

\* The messages coap_send took leave in the order they were taken; each is
\* written or waits, once, unless it was reported to the application: a message
\* goes past the queue only when nothing waits for the socket.
OrderKept ==
  LET left(s) == SelectSeq(s, LAMBDA m : m \in AppMessages /\ m \notin Range(ss.nacked))
  IN left(ss.accepted) = left(ss.done) \o left(ss.queue)

\* The reader hands on what the peer sent in this connection: each message once,
\* whole and in order, as long as no recv() of this connection has ended inside
\* a header, after its first byte (coap_read_session then forgets bytes of the
\* header, and nothing is said). Wherever else recv() cuts the stream it goes on
\* where it was, and nothing is left over from an earlier connection, not even
\* from one that was garbled (partial_read, partial_pdu).
ReadIntact ==
  ~ss.split => ~ss.garbled /\ (Open => IsPrefix(ss.dispatched, peerSent))

\* A stream session sends the application's messages whole and in order through
\* blocked sockets, lost connections and new ones; and it reads the peer's so
\* until a recv() ends inside a header.
StreamInOrder == OrderKept /\ ReadIntact
=============================================================================
