SPECIFICATION Spec
CONSTANTS
  Workers = {w1, w2}
  Apps = {a1, a2}
  BrokenApps = {a2}
  MaxRequests = 2
  MaxPasses = 1
  MaxCancels = 1
  MaxCrashes = 1
  MaxTimeouts = 1
SYMMETRY Symmetry
INVARIANTS
  TypeOK
  ProvisioningExclusive
  InstallWindowHeld
  ConvergedWhenQuiet
CHECK_DEADLOCK FALSE
