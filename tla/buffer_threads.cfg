SPECIFICATION FairOSpec
CONSTANTS
  TotalSize = 4
  Word = 32
  DataLen = 11
  Requests = {1, 3, 5}
  ThreadOf <- ThreadPerRole
  Recoding = "xor"
INVARIANTS
  TypeOK
  DisjointCopies
  Delivered
  CountersDoNotWrap
  RoomConserved
  CounterInv
  ContentInv
  HandOverSynchronized
PROPERTIES
  ImplementsStream
  AllDelivered
