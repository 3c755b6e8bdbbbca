------------------------------ MODULE CoapTls ------------------------------
(* One secure session, as each of the four TLS backends drives it: OpenSSL   *)
(* and GnuTLS for DTLS and TLS, mbed TLS and tinyDTLS for DTLS. libcoap      *)
(* reads the datagrams itself and lends each one to the library for a call.  *)
(*                                                                           *)
(* The libraries are external: what a call of theirs returns is chosen from  *)
(* the results the backend tells apart. Of them it is assumed that a         *)
(* handshake is finished only by a call that reads something, not by a       *)
(* ClientHello, and that a datagram carries handshake messages or data, not  *)
(* both.                                                                     *)
EXTENDS Naturals

CONSTANTS
  TlsLibs,           \* "OPENSSL", "GNUTLS", "MBEDTLS", "TINYDTLS"
  TlsMaxRetransmit,  \* max_retransmit
  MaxObjects         \* TLS objects a client session makes

ASSUME TlsAssumption == /\ TlsLibs \subseteq {"OPENSSL", "GNUTLS", "MBEDTLS", "TINYDTLS"}
                        /\ TlsMaxRetransmit \in Nat
                        /\ MaxObjects \in Nat

VARIABLE dt

Untold == [e \in {"CONNECTED", "ERROR", "CLOSED", "RENEGOTIATE"} |-> 0]

(* session->tls is obj; up: the library has finished the handshake. held and *)
(* listen: the datagram lent to the library, and to OpenSSL's listening      *)
(* object; it is dead when the call that lent it is over. tries is           *)
(* dtls_timeout_count. Histories: the events told of the object (counted to  *)
(* two); failed: this step has a cause to close the session, the library has *)
(* failed or its retransmissions are used up, or one of the causes below it  *)
(* (SessionCloses, SessionFreed); whether a dead datagram was read.          *)
NewTlsSession(lib, proto, type) ==
  [lib |-> lib, proto |-> proto, type |-> type, state |-> "NONE", obj |-> FALSE,
   up |-> FALSE, alert |-> FALSE, held |-> "none", listen |-> "none",
   event |-> "none", tries |-> 0, delayed |-> FALSE, made |-> 0,
   told |-> Untold, failed |-> FALSE, bad |-> FALSE]

TellEvent(r, e) == [r EXCEPT !.told[e] = IF @ = 2 THEN 2 ELSE @ + 1]

\* A fresh TLS object.
NewObject(r) ==
  [r EXCEPT !.obj = TRUE, !.up = FALSE, !.alert = FALSE, !.held = "none",
            !.told = Untold, !.made = IF @ < MaxObjects THEN @ + 1 ELSE @]

NoObject(r) == [r EXCEPT !.obj = FALSE, !.up = FALSE, !.alert = FALSE, !.held = "none"]

\* coap_dtls_free_session, coap_tls_free_session.
FreeTls(r) == IF r.obj THEN TellEvent(NoObject(r), "CLOSED") ELSE r

TlsDisconnected(r) == [FreeTls(r) EXCEPT !.state = "NONE", !.delayed = FALSE]

Failure(r) == [r EXCEPT !.failed = TRUE]

\* The end of sending and receiving. CLOSED is left to FreeTls.
Report(r) ==
  CASE r.event = "none" -> r
    [] r.event = "CLOSED" -> TlsDisconnected(r)
    [] r.event = "ERROR" -> TlsDisconnected(TellEvent(r, "ERROR"))
    [] OTHER -> TellEvent(r, r.event)

\* The datagram is gone when the call returns.
Returned(r) ==
  [r EXCEPT !.held = IF @ = "live" THEN "dead" ELSE @,
            !.listen = IF @ = "live" THEN "dead" ELSE @]

\* What a library call reads of the datagram it was lent.
Pulls == {"no", "part", "all"}

ReadDatagram(r, p) == [r EXCEPT !.bad = @ \/ (p # "no" /\ r.held = "dead")]

-----------------------------------------------------------------------------
(* OpenSSL                                                                   *)

\* coap_dgram_read: what does not fit is dropped.
OpensslDgramRead(r, p) ==
  IF p = "no" \/ r.held = "none" THEN r ELSE [ReadDatagram(r, p) EXCEPT !.held = "none"]

\* coap_dtls_info_callback, called by the library for alerts and restarts.
InfoCallback(r, alert) ==
  CASE alert = "fatal" -> [Failure(r) EXCEPT !.event = "ERROR"]
    [] alert = "renegotiate" -> [r EXCEPT !.event = "RENEGOTIATE"]
    [] alert = "none" -> r

SslFails == {"zero", "ssl", "syscall"}

\* An error of SSL_read() or SSL_write().
SslError(r, x) ==
  CASE x = "zero" -> [Failure(r) EXCEPT !.event = "CLOSED"]
    [] x = "ssl" -> [Failure(r) EXCEPT !.event = "ERROR"]
    [] x = "syscall" -> Failure(r)
    [] OTHER -> r

OpensslSend(r, x) == Report(SslError([r EXCEPT !.event = "none"], x))

OpensslClient(r, ok) ==
  IF ok THEN [NewObject(r) EXCEPT !.state = "HANDSHAKE", !.tries = 0]
  ELSE [r EXCEPT !.tries = 0, !.made = @ + 1]

\* As it would be if the count wrapped around before it reached the limit.
OpensslTimeoutWraps(r, ok) ==
  LET t == [r EXCEPT !.tries = (@ + 1) % TlsMaxRetransmit]
  IN IF ~ok THEN TlsDisconnected(Failure(t)) ELSE t

OpensslTimeout(r, ok) ==
  LET t == [r EXCEPT !.tries = @ + 1]
  IN IF t.tries > TlsMaxRetransmit \/ ~ok THEN TlsDisconnected(Failure(t)) ELSE t

\* coap_dtls_hello: DTLSv1_listen() on the shared object only peeks.
OpensslHello(r, p) == [r EXCEPT !.listen = IF p = "all" THEN "none" ELSE "live"]

\* coap_dtls_new_server_session: the listening object becomes the session's,
\* with the datagram it holds, and a new one listens.
OpensslServer(r, p, ok) ==
  IF ok THEN OpensslDgramRead([NewObject(r) EXCEPT !.held = r.listen, !.listen = "none"], p)
  ELSE [Failure(r) EXCEPT !.listen = "none"]

\* coap_session_connected on a DTLS session: the delayed message is sent.
OpensslConnected(r, s) ==
  IF r.delayed THEN OpensslSend([r EXCEPT !.state = "ESTABLISHED", !.delayed = FALSE], s)
  ELSE [r EXCEPT !.state = "ESTABLISHED"]

\* As it would be if the event of an earlier call were still there.
OpensslReadStale(r, p, alert, fin) ==
  [InfoCallback(OpensslDgramRead([r EXCEPT !.held = "live"], p), alert) EXCEPT !.up = @ \/ fin]

OpensslRead(r, p, alert, fin) ==
  [InfoCallback(OpensslDgramRead([r EXCEPT !.held = "live", !.event = "none"], p), alert)
     EXCEPT !.up = @ \/ fin]

\* coap_dtls_receive, t being the session after SSL_read(): data is handled,
\* which may send (s); else the handshake may have ended.
OpensslReceive(t, r, x, s) ==
  LET c == IF x = "data" THEN OpensslSend(t, s)
           ELSE IF x = "want" /\ t.up /\ ~r.up
           THEN Report(OpensslConnected(TellEvent(t, "CONNECTED"), s))
           ELSE Report(SslError(t, x))
  IN [c EXCEPT !.held = "none"]

-----------------------------------------------------------------------------
(* GnuTLS                                                                    *)

\* coap_dgram_read of GnuTLS: the rest can still be read.
GnutlsDgramRead(r, p) ==
  IF p = "no" \/ r.held = "none" THEN r
  ELSE [ReadDatagram(r, p) EXCEPT !.held = IF p = "all" THEN "none" ELSE @]

\* What gnutls_handshake() returns: a warning, a fatal alert of the peer, an
\* error answered with an alert, one that is not, one that is only logged.
GnutlsResults == {"done", "again", "warning", "alert", "refused", "closed", "other"}

Unfinished == {"again", "warning", "verify"}

\* do_gnutls_handshake.
GnutlsHandshake(r, h, p) ==
  LET q == GnutlsDgramRead(r, p)
  IN CASE h = "done" -> [q EXCEPT !.up = TRUE]
       [] h = "again" -> q
       [] h = "warning" -> [Failure(q) EXCEPT !.event = "ERROR"]
       [] h = "closed" -> [Failure(q) EXCEPT !.event = "CLOSED"]
       [] h \in {"alert", "refused"} -> [Failure(q) EXCEPT !.event = "CLOSED", !.alert = TRUE]
       [] h = "other" -> Failure(q)

\* coap_dtls_send, which also reports CLOSED, the first of two times. A session
\* that may send has finished its handshake, so the branch that would start one
\* is not taken; the same holds for mbed TLS.
GnutlsSend(r, x) ==
  CASE x \in {"ok", "want"} -> [r EXCEPT !.event = "none"]
    [] x = "zero" -> TlsDisconnected(TellEvent([Failure(r) EXCEPT !.event = "CLOSED"], "CLOSED"))
    [] OTHER -> [Failure(r) EXCEPT !.event = "none"]

GnutlsConnected(r, s) ==
  IF r.delayed THEN GnutlsSend([r EXCEPT !.state = "ESTABLISHED", !.delayed = FALSE], s)
  ELSE [r EXCEPT !.state = "ESTABLISHED"]

GnutlsClient(r, h) ==
  IF h \in Unfinished THEN [GnutlsHandshake(NewObject(r), h, "no") EXCEPT !.state = "HANDSHAKE"]
  ELSE [r EXCEPT !.made = @ + 1]

\* coap_dtls_handle_timeout: the count is never set back.
GnutlsTimeout(r, h, p) ==
  LET t == [r EXCEPT !.tries = IF @ > TlsMaxRetransmit THEN @ ELSE @ + 1]
  IN IF t.tries > TlsMaxRetransmit
     THEN TlsDisconnected(Failure(t))
     ELSE IF h \in {"done", "again", "warning"}
     THEN GnutlsHandshake(t, h, p)
     ELSE TlsDisconnected(GnutlsHandshake(t, h, p))

\* coap_dtls_hello: a cookie is asked for, or the handshake starts.
GnutlsHello(r, h, p) ==
  LET q == IF r.obj THEN r ELSE NewObject(r)
      t == GnutlsHandshake([q EXCEPT !.held = "live"], h, p)
  IN IF h = "verify" THEN q
     ELSE IF h \in Unfinished THEN [t EXCEPT !.held = "none"] ELSE NoObject(t)

\* coap_dtls_receive before the handshake is over: it is tried again when the
\* datagram was not read.
GnutlsContinue(r, h, p, h2, p2, s) ==
  LET t == GnutlsHandshake(r, h, p)
      u == GnutlsHandshake(t, h2, p2)
  IN IF h = "done" THEN GnutlsConnected(t, s)
     ELSE IF t.held = "none" \/ t.alert THEN t
     ELSE IF h2 = "done" THEN GnutlsConnected(u, s) ELSE u

\* gnutls_record_recv(): data, which may be answered (s), or an alert. Data that
\* is left in the library leaves the datagram unread.
GnutlsRecv(r, x, p, s) ==
  LET q == GnutlsDgramRead(r, p)
  IN CASE x = "data" -> GnutlsSend(q, s)
       [] x = "zero" -> Report([Failure(q) EXCEPT !.event = "CLOSED"])
       [] x = "warning" -> Report([Failure(q) EXCEPT !.event = "ERROR"])
       [] OTHER -> Report(q)

\* As it would be if the datagram were not taken back from the library.
GnutlsReceiveKeeps(r, h, p, h2, p2, x, s) ==
  LET q == [r EXCEPT !.held = "live", !.event = "none"]
  IN IF q.up THEN GnutlsRecv(q, x, p, s) ELSE Report(GnutlsContinue(q, h, p, h2, p2, s))

\* coap_dtls_receive: after data it returns without taking the datagram back.
GnutlsReceive(r, h, p, h2, p2, x, s) ==
  LET q == [r EXCEPT !.held = "live", !.event = "none"]
      e == IF q.state = "HANDSHAKE" THEN GnutlsConnected(TellEvent(q, "CONNECTED"), s) ELSE q
  IN IF q.up /\ x = "data" THEN GnutlsRecv(e, x, p, s)
     ELSE IF q.up THEN [GnutlsRecv(e, x, p, s) EXCEPT !.held = "none"]
     ELSE [Report(GnutlsContinue(q, h, p, h2, p2, s)) EXCEPT !.held = "none"]

-----------------------------------------------------------------------------
(* mbed TLS                                                                  *)

\* coap_dgram_read of mbed TLS: here too the rest can still be read.
MbedtlsDgramRead(r, p) == GnutlsDgramRead(r, p)

MbedtlsResults == {"done", "again", "verify", "fail", "closed", "other"}

\* do_mbedtls_handshake: a failure resets the library's object, which stays.
MbedtlsHandshake(r, h, p) ==
  LET q == MbedtlsDgramRead(r, p)
  IN CASE h = "done" -> [q EXCEPT !.up = TRUE]
       [] h \in {"again", "verify"} -> q
       [] h = "fail" -> [Failure(q) EXCEPT !.event = "ERROR"]
       [] h = "closed" -> [Failure(q) EXCEPT !.event = "CLOSED"]
       [] h = "other" -> Failure(q)

MbedtlsSend(r, x) ==
  Report(IF x \in {"ok", "want"} THEN [r EXCEPT !.event = "none"]
         ELSE [Failure(r) EXCEPT !.event = IF x = "zero" THEN "CLOSED" ELSE "none"])

MbedtlsConnected(r, s) ==
  IF r.delayed THEN MbedtlsSend([r EXCEPT !.state = "ESTABLISHED", !.delayed = FALSE], s)
  ELSE [r EXCEPT !.state = "ESTABLISHED"]

MbedtlsClient(r, h) ==
  IF h = "again" THEN [MbedtlsHandshake(NewObject(r), h, "no") EXCEPT !.state = "HANDSHAKE"]
  ELSE [r EXCEPT !.made = @ + 1]

MbedtlsTimeout(r, h, p) ==
  LET t == [r EXCEPT !.tries = IF @ > TlsMaxRetransmit THEN @ ELSE @ + 1]
  IN IF t.tries > TlsMaxRetransmit
     THEN TlsDisconnected(Failure(t))
     ELSE IF h \in {"done", "again"} THEN MbedtlsHandshake(t, h, p)
     ELSE TlsDisconnected(Failure(MbedtlsHandshake(t, h, p)))

\* coap_dtls_hello: the object stays, whatever comes of the handshake.
MbedtlsHello(r, h, p) ==
  LET q == IF r.obj THEN r ELSE NewObject(r)
  IN [MbedtlsHandshake([q EXCEPT !.held = "live"], h, p) EXCEPT !.held = "none"]

MbedtlsContinue(r, h, p, h2, p2, s) ==
  LET t == MbedtlsHandshake(r, h, p)
      u == MbedtlsHandshake(t, h2, p2)
  IN IF h = "done" THEN MbedtlsConnected(t, s)
     ELSE IF t.held = "none" THEN t
     ELSE IF h2 = "done" THEN MbedtlsConnected(u, s) ELSE u

MbedtlsReceive(r, h, p, h2, p2, x, s) ==
  LET q == [r EXCEPT !.held = "live", !.event = "none"]
      e == MbedtlsDgramRead(IF q.state = "HANDSHAKE"
                            THEN MbedtlsConnected(TellEvent(q, "CONNECTED"), s) ELSE q, p)
      c == IF ~q.up THEN Report(MbedtlsContinue(q, h, p, h2, p2, s))
           ELSE IF x = "data" THEN MbedtlsSend(e, s)
           ELSE IF x = "zero" THEN Report([Failure(e) EXCEPT !.event = "CLOSED"])
           ELSE Report(e)
  IN [c EXCEPT !.held = "none"]

-----------------------------------------------------------------------------
(* tinyDTLS. The event is a variable of the whole program.                   *)

\* dtls_event, called by the library.
TinyEvent(r, x) ==
  CASE x = "fatal" -> [Failure(r) EXCEPT !.event = "ERROR"]
    [] x = "zero" -> [Failure(r) EXCEPT !.event = "CLOSED"]
    [] x = "connected" -> [r EXCEPT !.event = "CONNECTED", !.up = TRUE]
    [] x = "renegotiate" -> [r EXCEPT !.event = "RENEGOTIATE"]
    [] OTHER -> r

TinySend(r, x) ==
  Report(TinyEvent([IF x = "syscall" THEN Failure(r) ELSE r EXCEPT !.event = "none"], x))

TinyConnected(r, s) ==
  IF r.delayed THEN TinySend([r EXCEPT !.state = "ESTABLISHED", !.delayed = FALSE], s)
  ELSE [r EXCEPT !.state = "ESTABLISHED"]

\* dtls_application_data: the message is handled inside dtls_handle_message(),
\* and what its answer meets is the event of both calls.
TinyReceive(r, x, s) ==
  LET q == TinyEvent([r EXCEPT !.event = "none"], x)
      d == IF x = "data" THEN TinySend(q, s)
           ELSE IF x = "error" THEN [Failure(q) EXCEPT !.event = "ERROR"] ELSE q
  IN IF d.event = "CONNECTED" THEN TinyConnected(TellEvent(d, "CONNECTED"), s) ELSE Report(d)

TinyClient(r, ok) ==
  IF ok THEN [NewObject(r) EXCEPT !.state = "HANDSHAKE"] ELSE [r EXCEPT !.made = @ + 1]

-----------------------------------------------------------------------------
(* TLS, with OpenSSL and GnuTLS: the library reads the socket itself.        *)

\* coap_tls_write after the handshake.
OpensslTlsWrite(r, x) == Report(SslError([r EXCEPT !.event = "none"], x))

GnutlsTlsWrite(r, x) ==
  CASE x \in {"ok", "want"} -> [r EXCEPT !.event = "none"]
    [] x \in {"zero", "ssl"} -> Report([Failure(r) EXCEPT !.event = "CLOSED"])
    [] x = "syscall" -> [Failure(r) EXCEPT !.event = "none"]

TlsWrite(r, x) == IF r.lib = "OPENSSL" THEN OpensslTlsWrite(r, x) ELSE GnutlsTlsWrite(r, x)

\* coap_session_send_csm: a CSM that is not written whole ends the session.
TlsSendCsm(r, x) ==
  LET t == TlsWrite([r EXCEPT !.state = "CSM"], x)
  IN IF x = "ok" THEN t ELSE TlsDisconnected(Failure(t))

\* coap_session_connected, when the CSM of the peer was read.
TlsData(r, x) ==
  IF r.state # "CSM" THEN r
  ELSE IF r.delayed THEN TlsWrite([r EXCEPT !.state = "ESTABLISHED", !.delayed = FALSE], x)
  ELSE [r EXCEPT !.state = "ESTABLISHED"]

\* coap_tls_read, and the end of the session when it fails.
OpensslTlsRead(r, x, alert, fin, s) ==
  LET t == [InfoCallback([r EXCEPT !.event = "none"], alert) EXCEPT !.up = @ \/ fin]
  IN CASE x = "data" -> TlsData(t, s)
       [] x = "want" -> Report(IF t.up /\ ~r.up THEN TlsSendCsm(TellEvent(t, "CONNECTED"), s)
                               ELSE t)
       [] OTHER -> TlsDisconnected(Report(SslError(t, x)))

GnutlsTlsRead(r, h, x, s) ==
  LET q == [r EXCEPT !.event = "none"]
      t == GnutlsHandshake(q, h, "no")
  IN IF ~q.up /\ q.alert THEN TlsDisconnected(Failure(q))
     ELSE IF ~q.up THEN CASE h = "done" -> Report(TlsSendCsm(TellEvent(t, "CONNECTED"), s))
                          [] h = "again" -> t
                          [] h = "warning" -> Report(t)
                          [] OTHER -> TlsDisconnected(Report(t))
     ELSE CASE x = "data" -> TlsData(q, s)
            [] x = "want" -> q
            [] x = "zero" -> TlsDisconnected(Report([Failure(q) EXCEPT !.event = "CLOSED"]))
            [] x \in {"ssl", "warning"} -> Report([Failure(q) EXCEPT !.event = "ERROR"])
            [] x = "syscall" -> TlsDisconnected(Failure(q))

OpensslTlsClient(r, ok) ==
  IF ok THEN [NewObject(r) EXCEPT !.state = "HANDSHAKE"]
  ELSE TlsDisconnected(TellEvent([Failure(r) EXCEPT !.made = @ + 1], "ERROR"))

\* The result of the first handshake call is not looked at.
GnutlsTlsClient(r, h) == [GnutlsHandshake(NewObject(r), h, "no") EXCEPT !.state = "HANDSHAKE"]

-----------------------------------------------------------------------------
(* The steps of the session                                                  *)

SendResults == {"ok", "want", "zero", "ssl", "syscall"}

\* What an answer or a delayed message meets when it is sent inside a read.
InnerResults == {"ok", "zero"}

Finishes(h, p) == h = "done" => p = "all"

Now == [dt EXCEPT !.failed = FALSE]

TlsInit ==
  \E lib \in TlsLibs, type \in {"CLIENT", "HELLO"},
     proto \in {"DTLS", "TLS"} :
    /\ proto = "TLS" => lib \in {"OPENSSL", "GNUTLS"} /\ type = "CLIENT"
    /\ dt = NewTlsSession(lib, proto, type)

Steps(r) == dt' = Returned(r)

\* coap_session_connect, and coap_send_pdu on a session in state NONE.
DtlsConnect(delay) ==
  /\ dt.proto = "DTLS" /\ dt.type = "CLIENT" /\ dt.state = "NONE" /\ ~dt.obj
  /\ dt.made < MaxObjects
  /\ \E ok \in BOOLEAN, h \in (GnutlsResults \cup MbedtlsResults) \ {"done"} :
       LET c == CASE dt.lib = "OPENSSL" -> OpensslClient(Now, ok)
                  [] dt.lib = "GNUTLS" /\ h \in GnutlsResults -> GnutlsClient(Now, h)
                  [] dt.lib = "MBEDTLS" /\ h \in MbedtlsResults -> MbedtlsClient(Now, h)
                  [] dt.lib = "TINYDTLS" -> TinyClient(Now, ok)
                  [] OTHER -> Now
       IN Steps(IF c.obj THEN [c EXCEPT !.delayed = delay] ELSE TellEvent(Failure(c), "ERROR"))

\* A message for a session that is not established waits (coap_session_delay_pdu).
DtlsDelay ==
  /\ dt.state \in {"HANDSHAKE", "CSM"} /\ dt.type = "CLIENT" /\ ~dt.delayed
  /\ Steps([Now EXCEPT !.delayed = TRUE])

\* coap_session_send_pdu.
TlsSend(x) ==
  /\ dt.state = "ESTABLISHED" /\ dt.obj
  /\ Steps(IF dt.proto = "TLS" THEN TlsWrite(Now, x)
           ELSE CASE dt.lib = "OPENSSL" -> OpensslSend(Now, x)
                  [] dt.lib = "GNUTLS" -> GnutlsSend(Now, x)
                  [] dt.lib = "MBEDTLS" -> MbedtlsSend(Now, x)
                  [] dt.lib = "TINYDTLS" -> TinySend(Now, x))

\* coap_read_endpoint on a session of type HELLO, and coap_session_new_dtls_session
\* when the ClientHello was good.
Served(r) == [r EXCEPT !.type = "SERVER", !.state = "HANDSHAKE"]

HelloArrives ==
  /\ dt.type = "HELLO"
  /\ \/ /\ dt.lib = "OPENSSL"
        /\ \E good, ok \in BOOLEAN, p, p2 \in {"no", "all"} :
             LET t == OpensslHello(Now, p)
                 u == OpensslServer(t, p2, ok)
             IN Steps(IF ~good THEN t ELSE IF ok THEN Served(u) ELSE [u EXCEPT !.type = "FREED"])
     \/ /\ dt.lib = "GNUTLS"
        /\ \E h \in (GnutlsResults \cup {"verify"}) \ {"done"}, p \in Pulls :
             LET t == GnutlsHello(Now, h, p)
             IN Steps(IF h \in {"again", "warning"} THEN Served(t) ELSE t)
     \/ /\ dt.lib = "MBEDTLS"
        /\ \E h \in MbedtlsResults \ {"done"}, p \in Pulls, keySeen \in BOOLEAN :
             LET t == MbedtlsHello(Now, h, p)
             IN Steps(IF h = "again" \/ keySeen THEN Served(t) ELSE t)
     \/ /\ dt.lib = "TINYDTLS"
        /\ \E peer \in BOOLEAN : Steps(IF peer THEN Served(NewObject(Now)) ELSE Now)

\* coap_dtls_receive, on a session that has a TLS object.
DatagramArrives ==
  /\ dt.proto = "DTLS" /\ dt.type \in {"CLIENT", "SERVER"} /\ dt.obj
  /\ \E s \in InnerResults :
     \/ /\ dt.lib = "OPENSSL"
        /\ \E x \in {"data", "want"} \cup SslFails, p \in {"no", "all"},
              alert \in {"none", "fatal", "renegotiate"}, fin \in BOOLEAN :
             /\ fin => x = "want" /\ p = "all" /\ ~dt.up
             /\ x = "data" => dt.up /\ alert = "none"
             /\ alert = "fatal" => x = "ssl"
             /\ Steps(OpensslReceive(OpensslRead(Now, p, alert, fin), dt, x, s))
     \/ /\ dt.lib = "GNUTLS" /\ dt.up
        /\ \E x \in {"data", "warning", "want", "zero"}, p \in Pulls :
             Steps(GnutlsReceive(Now, "again", p, "again", "no", x, s))
     \/ /\ dt.lib = "GNUTLS" /\ ~dt.up
        /\ \E h, h2 \in GnutlsResults, p, p2 \in Pulls :
             /\ Finishes(h, p) /\ Finishes(h2, p2)
             /\ Steps(GnutlsReceive(Now, h, p, h2, p2, "want", s))
     \/ /\ dt.lib = "MBEDTLS" /\ dt.up
        /\ \E x \in {"data", "want", "zero"}, p \in Pulls :
             Steps(MbedtlsReceive(Now, "again", p, "again", "no", x, s))
     \/ /\ dt.lib = "MBEDTLS" /\ ~dt.up
        /\ \E h, h2 \in MbedtlsResults, p, p2 \in Pulls :
             /\ Finishes(h, p) /\ Finishes(h2, p2)
             /\ Steps(MbedtlsReceive(Now, h, p, h2, p2, "want", s))
     \/ /\ dt.lib = "TINYDTLS"
        /\ \E x \in {"none", "data", "connected", "renegotiate", "zero", "fatal", "error"} :
             /\ x = "data" => dt.up
             /\ Steps(TinyReceive(Now, x, s))

\* coap_io_prepare_io: the timer of a session's handshake. tinyDTLS has one of
\* its own, and gives up without a word. Nothing is lent to the library.
HandshakeTimeout ==
  /\ dt.state = "HANDSHAKE" /\ dt.proto = "DTLS" /\ dt.obj /\ ~dt.up
  /\ \/ dt.lib = "OPENSSL" /\ \E ok \in BOOLEAN : Steps(OpensslTimeout(Now, ok))
     \/ dt.lib = "GNUTLS" /\ \E h \in GnutlsResults \ {"done"}, p \in Pulls :
                               Steps(GnutlsTimeout(Now, h, p))
     \/ dt.lib = "MBEDTLS" /\ \E h \in MbedtlsResults \ {"done"}, p \in Pulls :
                                Steps(MbedtlsTimeout(Now, h, p))

\* coap_connect_session, and coap_tls_read when the socket can be read.
TlsConnect ==
  /\ dt.proto = "TLS" /\ dt.type = "CLIENT" /\ dt.state = "NONE" /\ dt.made < MaxObjects
  /\ \/ dt.lib = "OPENSSL" /\ \E ok \in BOOLEAN : Steps(OpensslTlsClient(Now, ok))
     \/ dt.lib = "GNUTLS" /\ \E h \in GnutlsResults \ {"done"} : Steps(GnutlsTlsClient(Now, h))

TlsRead ==
  /\ dt.proto = "TLS" /\ dt.obj
  /\ \E x \in {"data", "want"} \cup SslFails, s \in InnerResults :
       \/ dt.lib = "OPENSSL" /\ \E fin \in BOOLEAN, alert \in {"none", "fatal", "renegotiate"} :
            /\ fin => x = "want" /\ ~dt.up
            /\ x = "data" => dt.up /\ alert = "none"
            /\ alert = "fatal" => x = "ssl"
            /\ Steps(OpensslTlsRead(Now, x, alert, fin, s))
       \/ dt.lib = "GNUTLS" /\ \E h \in GnutlsResults : Steps(GnutlsTlsRead(Now, h, x, s))

\* The closings in which the library has no part, each by its own condition:
\* coap_read_session meets an ICMP error, or a message that is too long;
\* handle_signaling is told to release or abort; coap_io_prepare_io has had no
\* answer to its ping, or no CSM in time.
ClosingCauses ==
  {why \in {"icmp", "huge", "release", "ping", "csm"} :
     CASE why = "icmp" -> dt.proto = "DTLS" /\ dt.type = "CLIENT" /\ dt.state # "NONE"
       [] why \in {"huge", "release"} -> dt.proto = "TLS" /\ dt.state \in {"CSM", "ESTABLISHED"}
       [] why = "ping" -> dt.type = "CLIENT" /\ dt.state = "ESTABLISHED"
       [] why = "csm" -> dt.proto = "TLS" /\ dt.state = "CSM"}

SessionCloses == ClosingCauses # {} /\ Steps(TlsDisconnected(Failure(Now)))

\* coap_session_free: the last reference to a client session is released, a
\* server session is evicted or idle for too long, or the context goes.
SessionFreed ==
  /\ dt.type # "FREED"
  /\ Steps([TlsDisconnected(Failure(Now)) EXCEPT !.type = "FREED"])

TlsNext ==
  \/ \E delay \in BOOLEAN : DtlsConnect(delay)
  \/ DtlsDelay \/ (\E x \in SendResults : TlsSend(x))
  \/ HelloArrives \/ DatagramArrives \/ HandshakeTimeout
  \/ TlsConnect \/ TlsRead \/ SessionCloses \/ SessionFreed

TlsSpec == TlsInit /\ [][TlsNext]_dt /\ WF_dt(HandshakeTimeout)

-----------------------------------------------------------------------------
(* Properties                                                                *)

\* A library never reads a datagram whose buffer, on the stack of an earlier
\* call, is gone (ssl_data->pdu).
NothingStaleRead == ~dt.bad

\* A secure session is closed only by a call in which the library fails or its
\* retransmissions are used up, or libcoap itself has a reason (ClosingCauses,
\* SessionFreed): no event of an earlier call closes it (dtls_event, which
\* hello, connect and timeouts set and nobody looks at), and never without the
\* application being told, unless it never heard of the peer.
ClosedForCause ==
  [][dt.obj /\ ~dt'.obj => dt'.failed /\ (dt.type # "HELLO" => dt'.told["CLOSED"] > 0)]_dt

\* A DTLS handshake ends, and with it every message that waits for it.
HandshakeEnds ==
  dt.state = "HANDSHAKE" /\ dt.proto = "DTLS" /\ dt.lib # "TINYDTLS" ~> dt.state # "HANDSHAKE"
=============================================================================
