CONSTANTS
  Client = {1, 2}
  NoClient = NoClient
  ThreadsPerClient = 2
  Thread <- MCThread
  Home <- MCHome
SPECIFICATION SpuriousSpec
INVARIANT MutualExclusion
