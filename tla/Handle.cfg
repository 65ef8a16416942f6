CONSTANTS
  Thread = {t1, t2, t3}
  Member = {m1, m2}
  Address = {a1, a2}
  NULL = NULL
SPECIFICATION FairSpec
INVARIANTS
  NoUseAfterFree
  RefcntExact
  OneBinder
  CallsLiveConnection
PROPERTY DeletedIsForgotten
CHECK_DEADLOCK FALSE
