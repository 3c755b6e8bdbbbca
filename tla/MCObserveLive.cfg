\* Two tokens of one client, notified with NONs and a CON now and then, compete for its slot.
CONSTANTS
  o1 = o1  o2 = o2  o3 = o3  s1 = s1  s2 = s2
  Nothing = Nothing
  Observer = {o1, o2}
  Session = {s1}
  Resource = {"r"}
  Query = {"a", "b"}
  SessionOf <- TwoClients
  ConNotify = {}
  NSTART = 1
  MaxNon = 1
  MaxFail = 1
  MaxVersion = 3
  Faults = {"lost"}
SPECIFICATION OFairSpec
CHECK_DEADLOCK FALSE
 
PROPERTIES EventuallyNotified
