SPECIFICATION Spec
CONSTANTS
  Threads = {t1, t2, t3}
  Elements = {e1, e2, e3}
  Nil = Nil
  FreeNode = FreeNode
  MaxLevel = 1
  M = 2
  EfConstruction = 2
  EfSearch = 2
  Marking = TRUE
  Faults = FALSE
SYMMETRY Symmetry
INVARIANTS TypeOK TraversalsReadLiveNodes ReachableHaveChain LinkedOnce NoLockDeadlock LockedLevelsExist MarkedTogether
PROPERTY EntryPointGivesWay
