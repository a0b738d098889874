SPECIFICATION SpecSample
CONSTANTS
  MaxCalls = 1
  MaxPlugs = 0
  MaxPresses = 1
INVARIANT
  ReadsAskedRegister
\* keys may stop being pressed, the program may stop calling
CHECK_DEADLOCK FALSE
