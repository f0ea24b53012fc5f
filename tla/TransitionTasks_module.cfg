SPECIFICATION Spec
CONSTANTS
  Comp <- NodeAndModule
  Type <- MCType
  Actions <- MCActions
  Ancestor <- MCAncestor
  Supply <- MCSupply
  OtherSupply <- MCOtherSupply
  Operations <- AllOperations
  Deadlines = {"minutes", "forever"}
  Storages = {"etcd"}
  MaxFaults = 1
  MaxLosses = 0
  MaxCrashes = 1
  Unreachable = FALSE
INVARIANTS TypeOK AllTasksSettled 
PROPERTIES FailedIsFinal 
CHECK_DEADLOCK FALSE
