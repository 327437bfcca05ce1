\* Two calls on a shell that dies once.
SPECIFICATION LoopSpec
CONSTANTS
  q1 = q1  q2 = q2  g1 = g1  s1 = s1  s2 = s2
  Chans <- MCTwo
  Order <- MCOrder
  Getters <- MCGetters
  GetOf <- MCGetOf
  MaxPuts = 2
  MaxEvents = 0
  Threads = FALSE
  Racing = TRUE
  Commands = {s1, s2}
  Servers = {s1}
  Joined = FALSE
  MaxTrouble = 1
INVARIANTS OneCommand
CHECK_DEADLOCK FALSE
