SPECIFICATION FairSpec
CONSTANTS
  i1 = i1
  i2 = i2
  Instance <- TwoInstances
  Host <- FirstInstance
  Task <- TwoTasks
  Existing <- OldTask
  Worlds <- MCWorlds
  OldOps <- OldOperations
  MaxNumCompleted = 1
  MaxComponentQuery = 1
INVARIANTS SummaryIsFinal EveryComponentAnswered SentIsSafe
PROPERTIES KeepsTheNewest AlwaysDeleted NoOrphans
CHECK_DEADLOCK FALSE
