\* Two creates are given one inum.
SPECIFICATION Spec
CONSTANTS
  Thread = {t1, t2}
  INODE_NUM = 5
  Requests = 2
INVARIANT DistinctNumbers
