SPECIFICATION SpecInPlane
CONSTANTS
  Threads = {t1}
  Elements = {1, 2, 3, 4, 5, 6}
  Nil = Nil
  FreeNode = FreeNode
  MaxLevel = 1
  M = 2
  EfConstruction = 6
  EfSearch = 6
  Marking = FALSE
  Faults = FALSE
INVARIANT EntryPointOnTop
