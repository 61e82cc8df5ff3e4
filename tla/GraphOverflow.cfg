SPECIFICATION Spec
CONSTANTS
  Threads = {t1, t2}
  Elements = {e1, e2, e3, e4, e5}
  Nil = Nil
  FreeNode = FreeNode
  MaxLevel = 0
  M = 1
  EfConstruction = 2
  EfSearch = 2
  Marking = FALSE
  Faults = FALSE
SYMMETRY Symmetry
INVARIANT LinksRecorded
