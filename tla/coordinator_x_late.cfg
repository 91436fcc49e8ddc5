SPECIFICATION Spec
CONSTANTS
  c1 = c1
  c2 = c2
  Client <- TwoClients
  None = None
  Kinds <- OnlyRudp
  Rtts = {8}
  Samples <- OneSample
  DefaultRtt = 2
  Window = 1
  CSend = 1
  Margin = 1
  StartOffset = 6
  StartTimes = {0, 5}
  MaxSchedules = 1
  MaxExams = 1
  MaxSets = 1
  MaxFails = 0
INVARIANTS AllHandlersWait
CHECK_DEADLOCK FALSE
