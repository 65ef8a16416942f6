\* Every stub of the running system against the handler its server registers.
SPECIFICATION Spec
CONSTANTS
  Base = 4
  Stub = {"acquire", "release", "revoke", "retry", "create", "put", "get", "getattr",
          "remove", "flush", "clear", "sync_meta", "demo_stat", "lock_stat"}
  Xid = {1, 200}
INVARIANTS ArgsArrive ReplyArrives 
CHECK_DEADLOCK FALSE
