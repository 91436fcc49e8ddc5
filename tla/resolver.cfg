SPECIFICATION FairSpec
CONSTANTS
  t1 = t1
  t2 = t2
  Thread <- TwoThreads
  None = None
  Query <- Queries
  Ttl = 1
  MaxTime = 2
  MaxQueries = 3
  MaxSwitches = 1
  UdpMax = 40
INVARIANTS TypeOK AnswerCorrect ServfailJustified PacketRoundTrips
PROPERTIES EveryQueryAnswered
CHECK_DEADLOCK FALSE
