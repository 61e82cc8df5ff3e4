SPECIFICATION Spec
CONSTANTS
  Elements = {e1, e2}
  Threads = {t1}
  MaxLevel = 1
  MaxPages = 6
  RecsPerPage = 2
  Interrupts = {"insert", "remove"}
  FreeRec = FreeRec
INVARIANTS Loadable
