SPECIFICATION Spec
CONSTANTS
  MsgSizes = {1, 2}
  MaxMsgs <- OneWay
  MaxRetries = 1
  DupAckThresh = 2
  WindowCap = 3
  RecvBufSize = 2
  InitSsthresh = 3
  SlowSend = FALSE
INVARIANTS TypeOK WholeMessages
PROPERTIES EofComesLast ImplementsStreams WindowKept
CHECK_DEADLOCK FALSE
