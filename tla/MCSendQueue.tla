---------------------------- MODULE MCSendQueue ----------------------------
EXTENDS CoapSendQueue
CONSTANTS n1, n2, n3, g1, g2

TwoGroups == [n \in Node |-> IF n = n1 THEN g1 ELSE g2]

\* The nodes of the second group are interchangeable.
Interchangeable == Permutations({n2, n3})
=============================================================================
