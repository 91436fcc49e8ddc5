SPECIFICATION FairSpec
CONSTANTS
  MsgSizes = {0, 1, 3}
  MaxMsgs <- OneWayOnce
  MaxRetries = 2
  DupAckThresh = 2
  WindowCap = 3
  RecvBufSize = 2
  InitSsthresh = 3
  SlowSend = TRUE
INVARIANTS ExactlyOnceInOrder
PROPERTIES EverySendEnds
CHECK_DEADLOCK FALSE
