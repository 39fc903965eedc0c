SPECIFICATION LapseSpec
CONSTANTS
  Workers = {w1, w2}
  MaxGens = 1
  MaxRemoves = 1
  MaxLapses = 1
  MaxStops = 1
  MaxLists = 1
  Viewers = {forker, viewer}
  Forker = forker
  Clients = {c1}
  None = None
  Keep = 2
  Room = 1
  MaxOut = 2
  MaxKeys = 1
  MaxConnects = 2
  MaxFaults = 0
CONSTRAINT Lapsed
PROPERTIES
  OwnerRepublished
  EndedIsForgotten
CHECK_DEADLOCK FALSE
