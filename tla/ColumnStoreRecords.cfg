SPECIFICATION FairSpec
CONSTANTS
  Threads = {t1, t2}
  Pages = {p1}
  RootRef = RootRef
  NullRef = NullRef
  FreeRec = FreeRec
  Trx = {x1, x2}
  Data = {d1}
  MaxRecs = 3
  RecsPerByte = 1
  MinFreePercent = 50
  MaxSlots = 1
  GrowStep = 16
  Faults = FALSE
INVARIANTS TypeOK ListedPagesHaveRoom FreeCountExact
PROPERTIES ImplementsRecordStore CallsReturn
