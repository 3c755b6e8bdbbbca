\* The stream: two messages, two connections, send() may take one byte of a
\* message. The endpoint: the client and two others, each of three protocols.
\* The secure session: two TLS objects, two retransmissions.
CONSTANTS
  Proto = "TLS"
  AppMessages = {"a1", "a2"}
  PeerMessages = {"ping", "pong", "release", "long", "huge"}
  HdrSize <- Headers
  Size <- Sizes
  WriteParts = {1}
  MaxConnects = 2
  MaxPeer = 2
  Peers = {"p1", "p2", "client"}
  Client = "client"
  EpProtos = {"UDP", "DTLS", "TCP"}
  MaxIdle = 2
  MaxHandshakes = 1
  PartialTimeout = 1
  SessionTimeout = 2
  MaxAge = 2
  MaxRef = 1
  MaxOthers = 3
  AcceptMayFail = TRUE
  TlsLibs = {"OPENSSL", "GNUTLS", "MBEDTLS", "TINYDTLS"}
  TlsMaxRetransmit = 2
  MaxObjects = 2
SPECIFICATION TransportSpec
CHECK_DEADLOCK FALSE
INVARIANTS StreamInOrder NothingStaleRead
PROPERTIES BusyNotFreed ClientGetsIn ClosedForCause HandshakeEnds
