\* A DTLS session beside a UDP session, with every fault but a plain close.
CONSTANTS
  u = u  d = d
  m1 = m1  m2 = m2  m3 = m3  m4 = m4
  t1 = t1  t2 = t2  t3 = t3  t4 = t4
  NoMsg = NoMsg
  Session = {d, u}
  Dtls = {d}
  Msg = {m1, m2, m3, m4}
  Con = {m1, m2, m3}
  Ping = {m2}
  SessionOf <- TwoSessions
  TokenOf <- OwnToken
  NSTART = 1
  MaxRetransmit = 1
  HasResources = TRUE
  Faults = {"sendfail", "dtlsfail", "icmp", "rst", "separate", "midclash", "release"}
SPECIFICATION Spec
CHECK_DEADLOCK FALSE
INVARIANTS TypeOK SlotBound NodesAccounted
