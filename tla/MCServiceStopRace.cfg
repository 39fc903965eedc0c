SPECIFICATION Spec
CONSTANTS
  Workers = {w1, w2}
  GiveUpAfter = 2
  RetryBudget = 1
  MaxRuns = 2
  MaxRequests = 2
  MaxExits = 1
  MaxCrashes = 0
  MaxBlips = 0
SYMMETRY Symmetry
INVARIANTS
  StopStaysStopped
CHECK_DEADLOCK FALSE
