SPECIFICATION SpecSample
CONSTANTS
  Small = 6
  Large = 12
  Word = 2
  Overrun = 2
  NSmall = 3
  NLarge = 2
  CopyLengths = {6}
  Writes <- SomeWrites
  MaxCalls = 4
  MaxFaults = 1
  Blank = Blank
  Mixed = Mixed
  AnyCalls = 2
  TestSector = 1
  BufferSize = 2
  Piece = 4
  ObjectSize = 6
  LargeSize = 8
INVARIANTS
  AnswerIsTrue
  LossIsBounded
  TestReadsBack
PROPERTY
  CallReturns
\* the program may stop writing
CHECK_DEADLOCK FALSE
