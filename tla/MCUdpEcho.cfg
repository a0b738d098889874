SPECIFICATION FairSpecEcho
CONSTANTS
  N = 3
  TxN = 3
  Clients = {c1, c2}
  Frames <- MCFrames
  MaxFrames = 4
  Word = 65536
  NoFrame = NoFrame
  NoFrag = NoFrag
PROPERTIES
  ImplementsEchoService
  AllIsServed
\* frames may stop arriving
CHECK_DEADLOCK FALSE
