CONSTANTS
  t1 = t1
  t2 = t2
  NULL = NULL
  Tasks <- TwoTasks
  Targets <- GrubTargets
  LinkStates <- AnyLink
  SuspendDebounceMax = 2
  Kits <- GrubKit
SPECIFICATION Spec
SYMMETRY TaskSymmetry
INVARIANTS TypeOK BootTaskIsTheLiveTask TransientStateHasOwner
