SPECIFICATION Spec
CONSTANTS
  a1 = a1
  a2 = a2
  Addr <- OneAddr
  MaxData = 1
  MaxSocks = 1
  MaxSynAcks = 2
  MaxRestarts = 0
INVARIANTS ClientExactlyOnce
CHECK_DEADLOCK FALSE
