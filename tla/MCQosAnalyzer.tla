--------------------------- MODULE MCQosAnalyzer ---------------------------
EXTENDS QosAnalyzer
CONSTANTS d1, d2, r1, r2, r3, t1, t2, i1, i2

\* r1 and r3 share a token, r1 and r2 a message id.
Mids == [r \in Request |-> IF r = r3 THEN i2 ELSE i1]
Tokens == [r \in Request |-> IF r = r2 THEN t2 ELSE t1]

\* Both devices register, and one of them updates or registers again.
UplinksTwo == {<<"reg", d1>>} \cup (Kind \X {d2})
=============================================================================
