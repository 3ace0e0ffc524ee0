\* Every malloc may fail; the queue grows from two or three slots to three.
SPECIFICATION LSpec
CONSTANTS
  t1 = t1
  t2 = t2
  t3 = t3
  Threads = {t1, t2, t3}
  a = a
  Elements = {a}
  InitialCapacity = 2
  MaxCapacity = 3
  AllocMayFail = TRUE
  Garbage = Garbage
  Asked = {0, 3, 4}
  r1 = r1
  r2 = r2
  Regions = {r1, r2}
  NULL = NULL
SYMMETRY Symmetry
INVARIANTS
  OneRegion
  UnusableQueueIsLeftAlone
