CONSTANTS
  Thread = {t1, t2, t3, t4}
  PoolSize = 4
SPECIFICATION FairSpec
INVARIANT NoLostWakeup
PROPERTIES
  ImplementsMutex
  ReleaseServed
  LockMovesOn
