SPECIFICATION Spec
CONSTANTS
  i1 = i1
  i2 = i2
  Instance <- TwoInstances
  Worker <- TwoInstances
  Host <- HostIsSlot
  Timely = TRUE
  Legacy = FALSE
  MaxCrashes = 1
  MaxErrors = 1
  MaxAborts = 1
INVARIANTS TypeOK AtMostOneWorker AcceptedAbortSticks
PROPERTIES RowsOutliveTheRun 
SYMMETRY InstanceSymmetry
CHECK_DEADLOCK FALSE
