SPECIFICATION FairSpec
CONSTANTS
  s1 = s1
  Session <- OneSession
  None = None
  Kinds <- AllKinds
  Ips = {"ip1"}
  Delay <- OneDelay
  TArr = 2
  MaxRtt = 2
  Rtt = 1
  Buffer = 1
  NetemDelays = {3}
  MaxTime = 3
  MaxFrames = 2
  MaxNetem = 1
INVARIANTS TypeOK RelayFaithful HeldToTarget
PROPERTIES SessionsEnd
CHECK_DEADLOCK FALSE
