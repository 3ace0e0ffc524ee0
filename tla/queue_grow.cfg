SPECIFICATION OSpec
CONSTANTS
  t1 = t1
  t2 = t2
  t3 = t3
  Threads = {t1, t2, t3}
  Elements = {a, b}
  InitialCapacity = 1
  MaxCapacity = 3
  AllocMayFail = FALSE
  Garbage = Garbage
  a = a
  b = b
SYMMETRY Symmetry
INVARIANTS
  TypeOK
  LocksExclusive
  CopiesDisjoint
  GrowSynchronized
PROPERTIES
  ImplementsFifo
