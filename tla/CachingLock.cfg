CONSTANTS
  Client = {1, 2}
  NoClient = NoClient
  ThreadsPerClient = 2
  Thread <- MCThread
  Home <- MCHome
SPECIFICATION FairSpec
INVARIANTS
  MutualExclusion
  RevokeReachesOwner
  ReleaseFindsWaiter
  RetryFindsAcquirer
  NeverExits
  SleeperIsKnown
  RevokeNotLost
PROPERTIES
  ImplementsMutex
  AcquireReturns
