\* A dispatcher on two channels and a task in get() on one of them, all puts
\* on the loop; two calls on a shell, and two mishaps.
SPECIFICATION LoopSpec
CONSTANTS
  q1 = q1  q2 = q2  g1 = g1  s1 = s1  s2 = s2
  Chans <- MCTwo
  Order <- MCOrder
  Getters <- MCGetters
  GetOf <- MCGetOf
  MaxPuts = 2
  MaxEvents = 0
  Threads = FALSE
  Racing = TRUE
  Commands = {s1, s2}
  Servers = {s1}
  Joined = TRUE
  MaxTrouble = 2
INVARIANTS ItemsConserved GetNotStranded AnswerBelongs ProcessesKept
PROPERTIES ShellAnswers
CHECK_DEADLOCK FALSE
