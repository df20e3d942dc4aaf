\* Two threads, one configured connection, one query each.
SPECIFICATION Spec
CONSTANTS
  Threads = {t1, t2}
  None = None
  PoolSize = 1
  MaxHeld = 1
  NDebug = FALSE
SYMMETRY Symmetry
INVARIANT
  PooledIsUnshared
