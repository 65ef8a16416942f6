\* Two clients on one name, with the requests on files and links; the system stops when a process dies.
SPECIFICATION FairSpec
CONSTANTS
  Client = {c1, c2}
  NoClient = none
  Name = {"a"}
  INODE_NUM = 4
  Ops = {"lookup", "create", "symlink", "getattr", "setattr", "read", "write", "readlink", "unlink"}
PROPERTIES  TypeTold Answered
CHECK_DEADLOCK FALSE
