SPECIFICATION Spec
CONSTANTS
  c1 = c1  c2 = c2  c3 = c3  p1 = p1  p2 = p2
  Conns <- MCConns
  Controllers <- MCControllers
  Owner <- MCOwner
  Authorized = {p1, p2}
  NoCap = NoCap
  MaxInFlight = 2
  MaxCalls = 2
  Interval = 0
  MaxCooldown = 1
  MaxAttempts = 4
INVARIANTS Accounting BudgetExact InFlightBounded AnswersMatch
PROPERTIES ImplementsPool
SYMMETRY MCSymmetry
CHECK_DEADLOCK FALSE
