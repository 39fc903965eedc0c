SPECIFICATION TerminalsSpec
CONSTANTS
  Workers = {w1, w2}
  MaxGens = 2
  MaxRemoves = 1
  MaxLapses = 1
  MaxStops = 1
  MaxLists = 1
  Viewers = {forker, viewer}
  Forker = forker
  Clients = {c1}
  None = None
  Keep = 2
  Room = 1
  MaxOut = 2
  MaxKeys = 1
  MaxConnects = 2
  MaxFaults = 0
CONSTRAINTS
  Followed
  FewSlips
SYMMETRY Symmetry
INVARIANTS
  TypesOK
  OneShell
  Published
  ScrollbackKept
  ScreenIsFaithful
CHECK_DEADLOCK FALSE
