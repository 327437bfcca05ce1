\* SQLite, one thread, nothing fails.
SPECIFICATION SessionSpec
CONSTANTS
  u1 = u1  u2 = u2  x1 = x1  x2 = x2  n1 = n1  n2 = n2
  Backends = {"sqlite"}
  MaxEvents = 7
  MaxDropped = 1
  Shared = {}
  MaxShared = 0
  Pruned = {}
  Faulty = {}
  Turns = {}
  Preserve = 1
  MaxLog = 4
  Prompts = {}
  Slash = {}
  CancelRequests = {}
  MaxIncidents = 0
INVARIANTS ViewOrdered
CHECK_DEADLOCK FALSE
