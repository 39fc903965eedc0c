SPECIFICATION FairSpec
CONSTANTS
  Workers = {w1, w2, w3}
  NoWorker = NoWorker
  MaxBoots = 2
  MaxCrashes = 2
  MaxFaults = 2
INVARIANTS
  TypeOK
  PassesNeverOverlap
  OnePassPerBoot
  AttachOnlyBehindAPass
PROPERTIES
  ImplementsLeadership
  AllServe
CHECK_DEADLOCK FALSE
