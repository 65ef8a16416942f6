\* Two files on a disk that is written round and round.
SPECIFICATION Spec
CONSTANTS
  BLOCK_SIZE = 2
  BLOCK_NUM = 12
  INODE_NUM = 4
  NDIRECT = 1
  NINDIRECT = 2
  Type = {2}
  FormatGarbage = {0, 64}
  Junk = junk
  Offset = {0,3}
  Size = {0,3}
  MaxOps = 11
  Bytes <- MCBytes
INVARIANTS BlocksDisjoint ReadBack NoLeak
CHECK_DEADLOCK FALSE
