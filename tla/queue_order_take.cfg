SPECIFICATION OSpec
CONSTANTS
  t1 = t1
  t2 = t2
  t3 = t3
  Threads = {t1, t2, t3}
  a = a
  b = b
  Elements = {a}
  InitialCapacity = 1
  MaxCapacity = 3
  AllocMayFail = FALSE
  Garbage = Garbage
SYMMETRY Symmetry
INVARIANT
  ElementSynchronized
