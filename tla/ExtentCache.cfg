\* Two clients read, write, stat, remove and create one extent.
SPECIFICATION FairSpec
CONSTANTS
  Client = {c1, c2}
  Value = {v0, v1}
  Empty = v0
  NONE = NONE
INVARIANTS  NeverOops 
PROPERTIES ImplementsRegister 
CHECK_DEADLOCK FALSE
