SPECIFICATION PartsSpec
CONSTANTS
  MemSize = 152
  CopyTo <- AllCopyTo
  CopyFrom <- AllCopyFrom
  Lengths <- AllLengths
  IntBytes = 3
  Arguments <- AllArguments
  MaxConversions = 2
  MyMac <- Me
  MyIp <- MyAddress
  Requests <- AllRequests
  BufferSize = 52
  MaxRequests = 2
  Incoming <- AllIncoming
  Beyond <- AllBeyond
  Pages = 2
  Width = 3
  FifoSize = 2
  TextLength = 12
  Temperatures <- AllTemperatures
  N = 4
  Frames = {f1, f2}
  MaxBatch = 3
  MaxFrags = 6
  Word = 65536
  NoFrag = NoFrag
INVARIANT
  DocFirstBytesOnly
\* each part comes to its end, the program may stop sending
CHECK_DEADLOCK FALSE
