SPECIFICATION Spec
CONSTANTS
  Workers = {w1, w2}
  Apps = {a1, a2}
  BrokenApps = {}
  MaxRequests = 2
  MaxPasses = 1
  MaxCancels = 0
  MaxCrashes = 0
  MaxTimeouts = 0
SYMMETRY Symmetry
INVARIANTS
  ProvisioningSerialized
CHECK_DEADLOCK FALSE
