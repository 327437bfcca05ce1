\* One slot, pacing and cooldown, loops may close.
SPECIFICATION FairSpec
CONSTANTS
  t1 = t1  t2 = t2  t3 = t3  l1 = l1  l2 = l2
  Tasks <- MCTasks
  Loops <- MCLoops
  LoopOf <- MCLoopOf
  MaxInFlight = 1
  Interval = 1
  MaxCooldown = 1
  MaxAcquires = 3
  LoopsMayClose = TRUE
INVARIANTS NoLostWakeup
PROPERTIES PacedAdmissions WaitersServed
CHECK_DEADLOCK FALSE
