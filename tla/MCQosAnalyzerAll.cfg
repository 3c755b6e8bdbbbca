\* Two devices that register, one of which updates or registers again, and three
\* requests for them: two share a message id, two a token.
CONSTANTS
  d1 = d1  d2 = d2  r1 = r1  r2 = r2  r3 = r3
  t1 = t1  t2 = t2  i1 = i1  i2 = i2
  NoDevice = NoDevice  NoJob = NoJob  NoAsk = NoAsk
  Device = {d1, d2}
  Request = {r1, r2, r3}
  Mid = {i1, i2}
  Token = {t1, t2}
  MidOf <- Mids
  TokenOf <- Tokens
  Observe = {r1}
  Uplink <- UplinksTwo
  Repeated = {1}
  MaxUplinks = 3
  MaxCopies = 2
  MaxNotes = 1
  Faults = {"eager", "silent"}
SPECIFICATION QosFairSpec
CHECK_DEADLOCK FALSE
INVARIANTS AnswersFit
PROPERTIES EventuallyAnswered
