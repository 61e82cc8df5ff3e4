SPECIFICATION FairSpec
CONSTANTS
  Threads = {t1, t2}
  Elements = {e1, e2}
  Nil = Nil
  FreeNode = FreeNode
  MaxLevel = 1
  M = 2
  EfConstruction = 2
  EfSearch = 2
  Marking = TRUE
  Faults = TRUE
CHECK_DEADLOCK FALSE
PROPERTY CallsDrain
