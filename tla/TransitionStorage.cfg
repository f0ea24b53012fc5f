SPECIFICATION Spec
CONSTANTS
  r1 = r1
  r2 = r2
  Reapers <- OneReaper
  Worlds <- MCWorlds
  MaxErrors = 1
  MaxCrashes = 1
INVARIANTS FullUnlessClobbered LocationsKept NoPagesLeft
CHECK_DEADLOCK FALSE
