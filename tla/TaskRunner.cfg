SPECIFICATION FairSpec
CONSTANTS
  a = a
  b = b
  c = c
  List <- Lists
  TasksOf <- MCTasksOf
  Ignore <- MCIgnore
  Policy <- MCPolicy
  Retries <- MCRetries
  DfltRetryMax = 1
  Trusting = {TRUE, FALSE}
  Offered <- MCOffered
INVARIANTS DeliveredOnce CommandsBounded SkipsAreOwed
PROPERTIES ListsEnd
CHECK_DEADLOCK FALSE
