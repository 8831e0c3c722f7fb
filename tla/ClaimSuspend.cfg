CONSTANTS
  LinkStates = {"active", "suspended"}
  SuspendDebounceMax = 3
SPECIFICATION SyncSpec
PROPERTY SuspendIsDebounced
