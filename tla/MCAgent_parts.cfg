\* One channel with puts and events from its loop and from another thread; a
\* session of two turns with a guard; two agents that call each other; two
\* jobs and two tasks that cancel them; three owners and two cleanups.
SPECIFICATION AgentSpec
CONSTANTS
  q1 = q1  a1 = a1  a2 = a2  j1 = j1  j2 = j2  k1 = k1  k2 = k2  k3 = k3
  Chans = {q1}
  Order <- MCOrder
  Getters = {}
  GetOf <- MCGetOf
  MaxPuts = 2
  MaxEvents = 1
  Threads = TRUE
  Racing = TRUE
  MaxIterations = 2
  MaxRetries = 2
  MaxTextOnly = 2
  LLMRetries = 1
  ExtraRetries = 1
  MaxTools = 2
  Guarded = TRUE
  Agents = {a1, a2}
  MaxCalls = 3
  MaxRestarts = 1
  JobSet = {j1, j2}
  Generators = {j1}
  FeedOf <- MCFeedOf
  Cancellers = {k1, k2}
  MaxValues = 1
  Callbacks = {j1, j2}
  Owners = {k1, k2, k3}
INVARIANTS RaceNotStranded SessionSound OneAtATime JobsEndCleanly CloseDrains
PROPERTIES ItemsLeave SessionEnds CallersReturn
CHECK_DEADLOCK FALSE
