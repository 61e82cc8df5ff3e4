SPECIFICATION Spec
CONSTANTS
  Threads = {t1, t2}
  MaxLevel = 1
  LinkLevels = {0, 1}
INVARIANTS NoLatchCircle
