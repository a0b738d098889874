SPECIFICATION FairSpec
CONSTANTS
  Byte = 4
  MaxBytes = 3
  MaxWire = 6
  MaxCalls = 3
  MaxTakes = 2
  MaxErrors = 1
INVARIANTS
  WritesAreRight
  ReadsAreRight
  BusIsShared
PROPERTY
  CallReturns
\* the program may stop calling
CHECK_DEADLOCK FALSE
