----------------------------- MODULE MCTransport -----------------------------
(* A client's stream session, the sessions of a server's endpoint and a      *)
(* secure session, each by itself.                                           *)
EXTENDS CoapStream, CoapEndpoint, CoapTls

VARIABLE part  \* the one that runs

SomeMessages == AppMessages \cup {"csm", "ping", "pong", "release", "long", "huge"}
Headers == [m \in SomeMessages |-> IF m \in {"long", "huge"} THEN 3 ELSE 2]
Sizes == [m \in SomeMessages |-> IF m \in {"long", "huge"} THEN 4
                                 ELSE IF m \in AppMessages THEN 3 ELSE 2]

\* The parts that do not run stay in one of their initial states.
TransportInit ==
  /\ part \in {"stream", "endpoint", "tls"}
  /\ StreamInit /\ EpInit /\ TlsInit
  /\ part # "stream" => ss.state = "CONNECTING"
  /\ part # "endpoint" => proto = "UDP"
  /\ part # "tls" => dt = NewTlsSession("OPENSSL", "DTLS", "CLIENT")

transportvars == <<part, streamvars, epvars, dt>>

InStream == part = "stream" /\ UNCHANGED <<part, epvars, dt>>
InEndpoint == part = "endpoint" /\ UNCHANGED <<part, streamvars, dt>>
InTls == part = "tls" /\ UNCHANGED <<part, streamvars, epvars>>

TransportNext ==
  (StreamNext /\ InStream) \/ (EpNext /\ InEndpoint) \/ (TlsNext /\ InTls)

TransportSpec ==
  /\ TransportInit /\ [][TransportNext]_transportvars
  /\ WF_transportvars(Tick /\ InEndpoint)
  /\ WF_transportvars(ReadEndpoint(Client, TRUE) /\ InEndpoint)
  /\ WF_transportvars(HandshakeTimeout /\ InTls)
=============================================================================
