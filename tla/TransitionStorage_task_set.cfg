SPECIFICATION Spec
CONSTANTS
  r1 = r1
  r2 = r2
  Reapers <- OneReaper
  Worlds <- OnlyAllPaged
  MaxErrors = 0
  MaxCrashes = 0
INVARIANTS FullTaskSet
CHECK_DEADLOCK FALSE
