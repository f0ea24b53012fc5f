SPECIFICATION Spec
CONSTANTS
  r1 = r1
  r2 = r2
  Reapers <- TwoReapers
  Worlds <- OnlyPostgres
  MaxErrors = 0
  MaxCrashes = 1
INVARIANTS FirstWins
CHECK_DEADLOCK FALSE
