SPECIFICATION FairSpec
CONSTANTS
  i1 = i1
  i2 = i2
  t1 = t1
  t2 = t2
  x = x
  y = y
  Client = Client
  Instance <- TwoInstances
  Transition <- TwoTransitions
  Xname <- TwoXnames
  Worlds <- MCWorlds
  MaxTier = 2
INVARIANTS NoTrespass OwnIsRenewed
PROPERTIES TierHasKeys  AllReleased
CHECK_DEADLOCK FALSE
