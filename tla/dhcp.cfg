SPECIFICATION Spec
CONSTANTS
  m1 = m1
  m2 = m2
  Mac <- TwoMacs
  PoolSize = 1
  LeaseSec = 1
  OfferTtl = 1
  MaxTime = 3
  MaxAttempts <- OnceEach
  MaxRestarts = 1
SYMMETRY Symmetric
INVARIANTS TypeOK LeasedAddressesUnique IndexesAgree DiskAgrees
PROPERTIES ImplementsLeases
CHECK_DEADLOCK FALSE
