SPECIFICATION FairSpecDhcp
CONSTANTS
  N = 3
  TxN = 2
  Servers = {s1, s2}
  Frames <- MCFrames
  Foreign <- MCForeign
  MaxFrames = 5
  MaxFaults = 1
  NoFrame = NoFrame
INVARIANTS
  HandlerFindsARing
  SentAsBuilt
  ExchangeInOrder
PROPERTIES
  LeaseUnlessLoss
\* the exchange ends
CHECK_DEADLOCK FALSE
