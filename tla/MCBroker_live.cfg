\* Two slots, pacing and cooldown; the second child holds a stale token.
SPECIFICATION FairSpec
CONSTANTS
  c1 = c1  c2 = c2  c3 = c3  p1 = p1  p2 = p2
  Conns <- MCConns
  Controllers <- MCControllers
  Owner <- MCOwner
  Authorized = {p1}
  NoCap = NoCap
  MaxInFlight = 2
  MaxCalls = NoCap
  Interval = 1
  MaxCooldown = 1
  MaxAttempts = 3
INVARIANTS QueueServed
PROPERTIES PacedAdmissions QueuedLeaves LeaseReclaimed
CHECK_DEADLOCK FALSE
