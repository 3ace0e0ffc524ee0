SPECIFICATION WSpec
CONSTANTS
  p1 = p1
  p2 = p2
  c1 = c1
  c2 = c2
  Producers = {p1, p2}
  Consumers = {c1, c2}
  Threads <- MCThreads
  Elements <- MCElements
  Total = 3
  InitialCapacity = 1
  MaxCapacity = 2
  AllocMayFail = TRUE
  Garbage <- MCGarbage
INVARIANTS
  EachValueInOnePlace
PROPERTIES
  AllThreadsReturn
