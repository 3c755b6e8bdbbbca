\* Confirmable notifications to two clients, one with two tokens.
CONSTANTS
  o1 = o1  o2 = o2  o3 = o3  s1 = s1  s2 = s2
  Nothing = Nothing
  Observer = {o1, o2, o3}
  Session = {s1, s2}
  Resource = {"r"}
  Query = {"a", "b"}
  SessionOf <- TwoClients
  ConNotify = {"r"}
  NSTART = 1
  MaxNon = 2
  MaxFail = 1
  MaxVersion = 2
  Faults = {"rst", "lost", "closed", "delete", "sendfail"}
SPECIFICATION OSpec
CHECK_DEADLOCK FALSE
INVARIANTS StaleIsMarked SubscriptionsExact
