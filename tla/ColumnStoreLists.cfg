SPECIFICATION Spec
CONSTANTS
  Threads = {t1, t2}
  Pages = {p1, p2, p3}
  RootRef = RootRef
  NullRef = NullRef
  FreeRec = FreeRec
  Trx = {x1}
  Data = {d1}
  MaxRecs = 1
  RecsPerByte = 4
  MinFreePercent = 50
  MaxSlots = 2
  GrowStep = 16
  Faults = TRUE
SYMMETRY Symmetry
INVARIANTS FreeListsLinked FreeListsComplete DataListComplete NoLatchDeadlock
PROPERTIES WritesAreLatched
