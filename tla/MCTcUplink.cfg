SPECIFICATION FairSpec
CONSTANTS
  Chunks = 3
  TcMsgFifoLength = 12
  TcBufferLength = 2
  MaxAttempts = 4
  AbortStates = {"asking", "sending"}
  Blank = Blank
INVARIANTS UplinkInv NeverMixed AckedAccountedFor
PROPERTIES BlockedForGood BufferedEventuallyDecoded DecodedOnceInOrder
