SPECIFICATION Spec
CONSTANTS
  Workers = {w1, w2}
  Slots = {t1}
  None = None
  MaxCalls = 4
  MaxCallFaults = 1
  MaxFails = 2
  MaxFaults = 2
  MaxOps = 2
INVARIANTS
  TypeOK
  OneAtATime
PROPERTIES
  DriftIsRepaired
CHECK_DEADLOCK FALSE
