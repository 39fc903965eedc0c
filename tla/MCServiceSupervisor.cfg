SPECIFICATION Spec
CONSTANTS
  Workers = {w1, w2}
  GiveUpAfter = 2
  RetryBudget = 1
  MaxRuns = 4
  MaxRequests = 2
  MaxExits = 3
  MaxCrashes = 1
  MaxBlips = 1
CONSTRAINT Followed
SYMMETRY Symmetry
INVARIANTS
  TypeOK
  OneCopy
  ClaimFollowsProcess
  DeliberateStopHolds
  NoSilentStranding
  CrashLoopBounded
CHECK_DEADLOCK FALSE
