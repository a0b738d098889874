SPECIFICATION SpecSample
CONSTANTS
  MaxCalls = 2
  MaxPlugs = 1
  MaxPresses = 3
INVARIANTS
  StaleOnlyIfLate
  StatusReadsAreSafe
  MacMatchesPhyAlone
  PhyStaysUpAlone
PROPERTY
  CallReturnsAlone
\* keys may stop being pressed, the program may stop calling
CHECK_DEADLOCK FALSE
