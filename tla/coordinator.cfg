SPECIFICATION FairSpec
CONSTANTS
  c1 = c1
  c2 = c2
  Client <- TwoClients
  None = None
  Kinds <- AllKinds
  Rtts = {8}
  Samples <- OneSample
  DefaultRtt = 2
  Window = 1
  CSend = 1
  Margin = 1
  StartOffset = 6
  StartTimes = {0, 5}
  MaxSchedules = 1
  MaxExams = 1
  MaxSets = 1
  MaxFails = 1
INVARIANTS TypeOK WaitersCovered
PROPERTIES EveryExamReqAnswered ImplementsRelease
CHECK_DEADLOCK FALSE
