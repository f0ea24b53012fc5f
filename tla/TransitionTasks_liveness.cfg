SPECIFICATION FairSpec
CONSTANTS
  Comp <- NodeOnly
  Type <- MCType
  Actions <- MCActions
  Ancestor <- MCAncestor
  Supply <- MCSupply
  OtherSupply <- MCOtherSupply
  Operations <- AllOperations
  Deadlines = {"nowait", "minutes", "forever"}
  Storages = {"etcd", "postgres"}
  MaxFaults = 1
  MaxLosses = 0
  MaxCrashes = 2
  Unreachable = TRUE
PROPERTIES EndsByDeadline AbortEnds
CHECK_DEADLOCK FALSE
