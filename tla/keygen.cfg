\* 1024 keys in texts of up to 7 and 8 digits; an order just below the top.
SPECIFICATION Spec
CONSTANTS
  ByteBits = 2
  WordBytes = 3
  Pow2 <- MCPow2
  Multiplier = 433
  Shift = 2
  Rot = 5
  Size = 5
  Unset = Unset
  ByteBase = 4
  DigitBase = 3
  KeyLen = 5
  MaxPrivate = 7
  MaxPublic = 8
  Order = 1009
  NoKey = NoKey
  NoText = NoText
INVARIANTS
  DrawnOnce
  PrngAlive
  OwnKeysAccepted
  MistakeCaught
PROPERTIES
  GivesUpOnlyOnZero
  KeygenEnds
