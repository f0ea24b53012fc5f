SPECIFICATION FairSpec
CONSTANTS
  i1 = i1
  i2 = i2
  Instance <- TwoInstances
  Worker <- TwoInstances
  Host <- HostIsSlot
  Timely = TRUE
  Legacy = TRUE
  MaxCrashes = 1
  MaxErrors = 0
  MaxAborts = 0
PROPERTIES PickupOnlyAbandoned  
CHECK_DEADLOCK FALSE
