CONSTANTS
  t1 = t1
  t2 = t2
  NULL = NULL
  Tasks <- OneTask
  Targets <- NoTarget
  LinkStates <- OffOnly
  SuspendDebounceMax = 1
  Kits <- WindowsKit
SPECIFICATION WatchedSpec
PROPERTIES PostEnds
