SPECIFICATION Spec
CONSTANTS
  Threads = {t1, t2}
  Pages = {p1}
  RootRef = RootRef
  NullRef = NullRef
  FreeRec = FreeRec
  Trx = {x1}
  Data = {d1}
  MaxRecs = 6
  RecsPerByte = 4
  MinFreePercent = 20
  MaxSlots = 1
  GrowStep = 16
  Faults = FALSE
SYMMETRY Symmetry
INVARIANTS NoRecordInPadding
