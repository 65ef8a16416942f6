CONSTANTS
  Client = {1, 2, 3}
  NoClient = NoClient
  Thread <- MCThread
  Home <- MCHome
  Rounds = 2
SPECIFICATION TesterSpec
INVARIANT Inv
PROPERTY TesterPasses
CHECK_DEADLOCK FALSE
