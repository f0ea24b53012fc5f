SPECIFICATION Spec
CONSTANTS
  Comp <- NodeAndConnector
  Type <- MCType
  Actions <- MCActions
  Ancestor <- MCAncestor
  Supply <- MCSupply
  OtherSupply <- MCOtherSupply
  Operations <- SingleStage
  Deadlines = {"minutes"}
  Storages = {"etcd"}
  MaxFaults = 1
  MaxLosses = 1
  MaxCrashes = 2
  Unreachable = FALSE
 
PROPERTIES NotSentTwice 
CHECK_DEADLOCK FALSE
