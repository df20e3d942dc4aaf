\* Two threads, six queries at most, two configured connections.
SPECIFICATION FairSpec
CONSTANTS
  Threads = {t1, t2}
  None = None
  PoolSize = 2
  MaxHeld = 3
  NDebug = TRUE
INVARIANTS
  TypeOK
  Exclusive
  Accounted
  Bounded
PROPERTY
  LenderSpec
