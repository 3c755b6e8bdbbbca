\* A client of a DTLS peer that only acknowledges: handshakes, reconnects, two slots.
CONSTANTS
  u = u  d = d
  m1 = m1  m2 = m2  m3 = m3  m4 = m4
  t1 = t1  t2 = t2  t3 = t3  t4 = t4
  NoMsg = NoMsg
  Session = {d}
  Dtls = {d}
  Msg = {m1, m2, m3, m4}
  Con = {m1, m2, m3}
  Ping = {m3}
  SessionOf <- OneSession
  TokenOf <- OwnToken
  NSTART = 2
  MaxRetransmit = 2
  HasResources = FALSE
  Faults = {"close", "release", "dtlsfail"}
SPECIFICATION FairSpec
CHECK_DEADLOCK FALSE
INVARIANTS NoIdleSlot
PROPERTIES EventuallyConcluded ImplementsWindow
