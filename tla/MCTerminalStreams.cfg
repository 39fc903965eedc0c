SPECIFICATION Spec
CONSTANTS
  Workers = {w1, w2}
  Owner = w1
  Clients = {c1, c2}
  None = None
  Keep = 2
  Room = 1
  MaxOut = 2
  MaxKeys = 0
  MaxConnects = 2
  MaxFaults = 0
CONSTRAINT FewSlips
INVARIANT NothingTwice
CHECK_DEADLOCK FALSE
