SPECIFICATION Spec
CONSTANTS
  Manifests <- MCManifests
  Offers <- MCOffers
  Versions = {1}
  None = None
  MaxOps = 4
  MaxFaults = 1
INVARIANT RollbackIsOld
