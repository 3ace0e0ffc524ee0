\* Chunks of two bytes: two of them fill the buffer, three are too many.
SPECIFICATION LSpec
CONSTANTS
  TotalSize = 4
  Word = 16
  DataLen = 11
  Requests = {0, 1, 3, 5}
  ThreadOf <- OneThread
  Recoding = "none"
  ChunkSize = 2
  MaxSize = 4
  Chunks <- MCChunks
INVARIANTS
  Delivered
  RoomIsMemory
  NullIsLeftAlone
  OnlyNoChunksDivideByZero
