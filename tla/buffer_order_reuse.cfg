SPECIFICATION OSpec
CONSTANTS
  TotalSize = 3
  Word = 7
  DataLen = 7
  Requests = {1, 2}
  ThreadOf <- ThreadPerRole
  Recoding = "xor"
INVARIANT
  RoomSynchronized
