----------------------------- MODULE MCObserve -----------------------------
EXTENDS CoapObserve
CONSTANTS o1, o2, o3, s1, s2

\* Two tokens of one client and one of another.
TwoClients == [o \in Observer |-> IF o = o3 THEN s2 ELSE s1]
=============================================================================
