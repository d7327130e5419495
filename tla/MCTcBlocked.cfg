SPECIFICATION FairSpec
CONSTANTS
  Chunks = 3
  TcMsgFifoLength = 12
  TcBufferLength = 1
  MaxAttempts = 3
  AbortStates = {}
  Blank = Blank
PROPERTY AlwaysDecoded
