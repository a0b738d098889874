SPECIFICATION FairSpecIrq
CONSTANTS
  N = 4
  Frames = {f1, f2}
  MaxFrames = 6
  NoFrame = NoFrame
INVARIANTS
  HeldFrameIsStable
  StrandedOnlyInWindow
PROPERTIES
  ImplementsQueue
  PendingIrqDrains
\* frames may stop arriving
CHECK_DEADLOCK FALSE
