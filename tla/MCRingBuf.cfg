SPECIFICATION FairSpec
CONSTANTS
  x = x
  y = y
  Byte = {x, y}
  NoByte = NoByte
  Size = 8
INVARIANT TypeOK
INVARIANT RoomIsKept
PROPERTY ImplementsByteQueue
