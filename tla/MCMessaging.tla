---------------------------- MODULE MCMessaging ----------------------------
EXTENDS CoapMessagingWindow
CONSTANTS u, d, m1, m2, m3, m4, t1, t2, t3, t4

\* All messages on the only session.
OneSession == [m \in Msg |-> CHOOSE s \in Session : TRUE]

\* One message on the UDP session, the others on the DTLS session.
TwoSessions == [m \in Msg |-> IF m = m3 THEN u ELSE d]

\* Every message has a token of its own.
OwnToken == [m \in Msg |-> CASE m = m1 -> t1 [] m = m2 -> t2
                             [] m = m3 -> t3 [] OTHER -> t4]
=============================================================================
