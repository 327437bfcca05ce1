\* A log in memory, used by one thread; one in SQLite that another manager
\* writes to and whose process dies at any point; and one in memory with both
\* summarizers and two concurrent calls.  Two prompts on an ACP session, one a
\* slash command, and two cancellations.
SPECIFICATION SessionSpec
CONSTANTS
  u1 = u1  u2 = u2  x1 = x1  x2 = x2  n1 = n1  n2 = n2
  Backends = {"memory", "sqlite"}
  MaxEvents = 5
  MaxDropped = 1
  Shared = {"sqlite"}
  MaxShared = 3
  Pruned = {"memory", "sqlite"}
  Faulty = {"sqlite"}
  Turns <- MCTurns
  Preserve = 1
  MaxLog = 4
  Prompts = {x1, x2}
  Slash = {x2}
  CancelRequests <- MCCancels
  MaxIncidents = 3
INVARIANTS ViewFaithful StableTags SummaryHonest SummaryKept TurnsKept AnswersComing
SYMMETRY MCSymmetry
CHECK_DEADLOCK FALSE
