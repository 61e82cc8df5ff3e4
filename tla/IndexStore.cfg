SPECIFICATION Spec
CONSTANTS
  Elements = {e1, e2}
  Threads = {t1, t2}
  MaxLevel = 1
  MaxPages = 8
  RecsPerPage = 1
  Interrupts = {"insert"}
  FreeRec = FreeRec
SYMMETRY Symmetry
INVARIANTS TypeOK RootsReferenced StoresRestored HandlesLocated EntryPointLive Loadable
