SPECIFICATION FairSpec
CONSTANTS
  Elements = {1, 2, 3, 4}
  Nil = Nil
  FreeNode = FreeNode
  MaxLevel = 0
  M = 2
  EfConstruction = 2
  Layouts <- MCLayouts
  Queries = {Nil, 2}
  Entries <- MCEntries
  Widths = {1, 3}
CHECK_DEADLOCK FALSE
INVARIANTS TypeOK SearchFinds LocallyNearest SelectionCovers ScanInOrder
PROPERTY Terminates
