SPECIFICATION FairSpec
CONSTANTS
  a1 = a1
  a2 = a2
  Addr <- TwoAddrs
  MaxData = 2
  MaxSocks = 2
  MaxSynAcks = 1
  MaxRestarts = 1
INVARIANTS TypeOK OpenSocketsRouted AcceptedOnce ConnectedToServer ClientInOrder
PROPERTIES HalfOpenEnds
CHECK_DEADLOCK FALSE
