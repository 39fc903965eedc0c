SPECIFICATION Spec
CONSTANTS
  Workers = {w1, w2}
  Requests = {r1, r2}
  OneRequest = {r1}
  None = None
INVARIANTS
  TypeOK
  CommandsAreReal
  RemountedStays
PROPERTIES
  RefusalEnds
  EveryCallerAnswered
CHECK_DEADLOCK FALSE
