\* Timers of three messages, cancellation, and a clock that runs during the handlers.
CONSTANTS
  n1 = n1  n2 = n2  n3 = n3  g1 = g1  g2 = g2
  Node = {n1, n2, n3}
  Group = {g1, g2}
  GroupOf <- TwoGroups
  Timeouts = {1, 2}
  MaxRetransmit = 1
  MaxTime = 6
  Races = {"slow", "cancel"}
SPECIFICATION QSpec
SYMMETRY Interchangeable
CHECK_DEADLOCK FALSE
INVARIANTS TimersExact WakeupArmed
PROPERTIES NothingLeftDue
