SPECIFICATION SpecSample
CONSTANTS
  Small = 6
  Large = 12
  Word = 2
  Overrun = 2
  NSmall = 3
  NLarge = 2
  CopyLengths = {6}
  Writes <- AllWrites
  MaxCalls = 4
  MaxFaults = 0
  Blank = Blank
  Mixed = Mixed
  AnyCalls = 1
  TestSector = 1
  BufferSize = 2
  Piece = 4
  ObjectSize = 6
  LargeSize = 8
INVARIANT
  DocMultipleSectors
CHECK_DEADLOCK FALSE
