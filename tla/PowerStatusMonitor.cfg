SPECIFICATION FairSpec
CONSTANTS
  i1 = i1
  i2 = i2
  c1 = c1
  Instance <- TwoInstances
  Comp <- OneComponent
  Others = TRUE
  Timely = TRUE
  MaxCrashes = 1
  MaxErrors = 1
  MaxChanges = 4
INVARIANTS TypeOK OneMonitor CacheIsRecord
PROPERTIES RecordsConverge
CHECK_DEADLOCK FALSE
