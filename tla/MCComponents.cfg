SPECIFICATION Spec
CONSTANTS
  Workers = {w1, w2}
  Requests = {1, 2, 3}
  Panels = {p1}
  Tasks = {t1, t2}
  Names = {n1, n2}
  AppA = appA
  AppB = appB
  AppC = appC
  Gateway = gateway
  Leader = w1
  SettingKeys = {k1}
  None = None
  Loadable = {appA, appB}
  Contained = {appB}
  MaxSaves = 2
  MaxConfigFaults = 1
  MaxJobsFaults = 2
  MaxLoads = 2
  MaxLoadFaults = 1
  MaxUpdates = 4
  MaxFiles = 3
  MaxOps = 3
  MaxFaults = 1
  Releases <- FiveReleases
  Hosts <- ThreeHosts
  Packages <- ThreePackages
  Mapped <- OneFolder
  Texts <- TwoTexts
  Manifests <- TwoManifests
  Priority = {appC}
  Concurrency = 2
  Tries = 1
  BootTries = 1
CONSTRAINTS
  FewSlips
  InTurn
SYMMETRY Alike
INVARIANTS
  TypeOK
  SettingsAgree
  InstallsAreReported
  LoadsAndUnloadsAreWhole
  StartsLeaveItRunning
  ProfilesAsSaved
  UpdatesKeepTheRules
  ContainersStartOnWholeTrees
  PassesEndInOrder
CHECK_DEADLOCK FALSE
