CONSTANTS
  t1 = t1
  t2 = t2
  NULL = NULL
  Tasks <- OneTask
  Targets <- FewTargets
  LinkStates <- OnOff
  SuspendDebounceMax = 1
  Kits <- BareOrGrubKit
SPECIFICATION FairSpec
PROPERTIES PoweringOnEnds SyncFindsPcOn SyncFindsPcOff
