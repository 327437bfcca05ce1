\* Two slots, no pacing, cooldown of one unit, loops may close.
SPECIFICATION Spec
CONSTANTS
  t1 = t1  t2 = t2  t3 = t3  l1 = l1  l2 = l2
  Tasks <- MCTasks
  Loops <- MCLoops
  LoopOf <- MCLoopOf
  MaxInFlight = 2
  Interval = 0
  MaxCooldown = 1
  MaxAcquires = 4
  LoopsMayClose = TRUE
INVARIANTS SlotAccounting
PROPERTIES ImplementsPool
SYMMETRY MCSymmetry
CHECK_DEADLOCK FALSE
