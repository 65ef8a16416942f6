------------------------------ MODULE ExtentCache -----------------------------
(***************************************************************************)
(* One extent, cached by the extent_clients (src/extent_client.cc) of      *)
(* several yfs clients and served by the extent server                     *)
(* (src/extent_server.cc).  The client that last got the extent owns it    *)
(* and writes to its cache only.  When another client gets it, the server  *)
(* calls the owner back: flush_handler puts the data and drops the cache.  *)
(*                                                                         *)
(* Every yfs operation on the extent holds its lock, which the caching     *)
(* lock service hands out (module CachingLock shows that it is a mutex).   *)
(* remove and create are called under the parent directory's lock instead. *)
(*                                                                         *)
(* Calls are synchronous, so a client's pc also says how far the server's  *)
(* handler for its call has come, and the callback that handler waits for. *)
(* A step is what one process does between two messages.  A value stands   *)
(* for a file's contents and, as attributes, for its size.                 *)
(***************************************************************************)
EXTENDS FiniteSets

CONSTANTS
  Client, Value,
  Empty,      \* the contents of a new file, one of Value
  NONE        \* no file, no owner, no lock holder

ASSUME CacheAssumption == Empty \in Value /\ NONE \notin Client \cup Value

VARIABLES
  file,       \* extent_server: the extent in the inode_manager
  owner,      \* extent_server: owner_map[id], NONE when there is no entry
  up,         \* extent_server: has not dereferenced a NULL inode
  dstat, data,  \* extent_client: data_map[eid]->stat (is it OWN?) and its data
  mstat, meta,  \* extent_client: metadata_map[eid]
  alive,      \* the client process has not called exit
  lock,       \* the holder of the extent's lock
  linked,     \* "first" while the extent's first directory entry names it,
              \* "none" when none does, "again" when a later one does
  pc, op, new,  \* where a client is, in which operation, and what it writes
  to, buf,    \* the owner called back, and the data in the message
  got         \* what a client's last read returned

cacheVars == <<dstat, data, mstat, meta, alive>>
vars == <<file, owner, up, cacheVars, lock, linked, pc, op, new, to, buf, got>>

Label == {"idle", "get", "attr", "attr_srv", "sync", "get_srv", "flush", "put", "clear",
          "own", "get_ret", "op", "rm_srv", "rm_clear", "rm_file"}

Init ==
  /\ file = Empty /\ owner = NONE /\ up = TRUE
  /\ dstat = [c \in Client |-> FALSE] /\ mstat = [c \in Client |-> FALSE]
  /\ data = [c \in Client |-> Empty] /\ meta = [c \in Client |-> Empty]
  /\ alive = [c \in Client |-> TRUE]
  /\ lock = NONE /\ linked = "first"
  /\ pc = [c \in Client |-> "idle"]
  /\ op = [c \in Client |-> "read"] /\ new = [c \in Client |-> Empty]
  /\ to = [c \in Client |-> c] /\ buf = [c \in Client |-> Empty]
  /\ got = [c \in Client |-> Empty]

Goto(c, l) == pc' = [pc EXCEPT ![c] = l]

(* An operation's locals and messages are gone when it returns. *)
Idle(c) ==
  /\ Goto(c, "idle")
  /\ op' = [op EXCEPT ![c] = "read"] /\ new' = [new EXCEPT ![c] = Empty]
  /\ to' = [to EXCEPT ![c] = c] /\ buf' = [buf EXCEPT ![c] = Empty]

-----------------------------------------------------------------------------
(* Mutants. *)

(* flush_handler that drops the cache without putting the data. *)
MutantFlush(c) ==
  /\ pc[c] = "flush"
  /\ Goto(c, "clear")
  /\ UNCHANGED <<file, owner, up, cacheVars, lock, linked, op, new, to, buf, got>>

(* get that does not record the new owner. *)
MutantServerOwn(c) ==
  /\ pc[c] = "own" /\ up
  /\ up' = (file # NONE)
  /\ buf' = IF file # NONE THEN [buf EXCEPT ![c] = file] ELSE buf
  /\ Goto(c, "get_ret")
  /\ UNCHANGED <<file, owner, cacheVars, lock, linked, op, new, to, got>>

(* A client that keeps the data without marking the extent as its own. *)
MutantGetReturn(c) ==
  /\ pc[c] = "get_ret" /\ up /\ alive[c]
  /\ data' = [data EXCEPT ![c] = buf[c]]
  /\ Goto(c, "op")
  /\ UNCHANGED <<file, owner, up, dstat, mstat, meta, alive, lock, linked, op, new, to, buf, got>>

(* A yfs operation that does not wait for the lock. *)
MutantBegin(c) ==
  /\ pc[c] = "idle" /\ alive[c]
  /\ lock' = c
  /\ op' = [op EXCEPT ![c] = "read"]
  /\ Goto(c, "get")
  /\ UNCHANGED <<file, owner, up, cacheVars, linked, new, to, buf, got>>

(* A yfs operation that returns without releasing the lock. *)
MutantFinish(c) ==
  /\ pc[c] = "op" /\ alive[c]
  /\ got' = IF op[c] = "read" THEN [got EXCEPT ![c] = data[c]] ELSE got
  /\ Idle(c)
  /\ UNCHANGED <<file, owner, up, cacheVars, lock, linked>>

-----------------------------------------------------------------------------
(* A yfs read, write or getfile takes the extent's lock and calls          *)
(* extent_client::get, put or getattr.                                     *)
Begin(c) ==
  /\ pc[c] = "idle" /\ alive[c] /\ lock = NONE
  /\ lock' = c
  /\ \E o \in {"read", "write", "stat"}, v \in Value :
       /\ o # "write" => v = Empty
       /\ op' = [op EXCEPT ![c] = o]
       /\ new' = [new EXCEPT ![c] = v]
       /\ Goto(c, IF o = "stat" THEN "attr" ELSE "get")
  /\ UNCHANGED <<file, owner, up, cacheVars, linked, to, buf, got>>

(* extent_client::get, also called by put: from the cache, or by way of    *)
(* getattr when there is no metadata, or straight to the server.           *)
Get(c) ==
  /\ pc[c] = "get" /\ alive[c]
  /\ \/ dstat[c] /\ Goto(c, "op")
     \/ ~dstat[c] /\ ~mstat[c] /\ Goto(c, "attr")
     \/ ~dstat[c] /\ mstat[c] /\ Goto(c, "get_srv")
  /\ UNCHANGED <<file, owner, up, cacheVars, lock, linked, op, new, to, buf, got>>

AfterAttr(c) == IF op[c] = "stat" THEN "op" ELSE "get_srv"

(* extent_client::getattr, from the cache or from the server. *)
Getattr(c) ==
  /\ pc[c] = "attr" /\ alive[c]
  /\ \/ mstat[c] /\ Goto(c, AfterAttr(c))
     \/ ~mstat[c] /\ Goto(c, "attr_srv")
  /\ UNCHANGED <<file, owner, up, cacheVars, lock, linked, op, new, to, buf, got>>

(* The client stores the attributes it was sent. *)
KeepMeta(c, a) ==
  /\ meta' = [meta EXCEPT ![c] = a]
  /\ mstat' = [mstat EXCEPT ![c] = TRUE]
  /\ Goto(c, AfterAttr(c))

(* extent_server::getattr asks the owner when there is one, else the       *)
(* inode_manager, which leaves zeroes when there is no such inode.         *)
ServerGetattr(c) ==
  /\ pc[c] = "attr_srv" /\ up
  /\ \/ /\ owner = NONE
        /\ KeepMeta(c, IF file = NONE THEN Empty ELSE file)
        /\ UNCHANGED to
     \/ /\ owner # NONE
        /\ to' = [to EXCEPT ![c] = owner]
        /\ Goto(c, "sync")
        /\ UNCHANGED <<meta, mstat>>
  /\ UNCHANGED <<file, owner, up, dstat, data, alive, lock, linked, op, new, buf, got>>

(* sync_meta_handler at the owner: its metadata, whatever its stat. *)
SyncMeta(c) ==
  /\ pc[c] = "sync"
  /\ KeepMeta(c, meta[to[c]])
  /\ UNCHANGED <<file, owner, up, dstat, data, alive, lock, linked, op, new, to, buf, got>>

(* extent_server::get up to the callback. *)
ServerGet(c) ==
  /\ pc[c] = "get_srv" /\ up
  /\ \/ owner = NONE /\ Goto(c, "own") /\ UNCHANGED to
     \/ owner # NONE /\ Goto(c, "flush") /\ to' = [to EXCEPT ![c] = owner]
  /\ UNCHANGED <<file, owner, up, cacheVars, lock, linked, op, new, buf, got>>

(* flush_handler and flush at the owner: put the data, or exit when it     *)
(* does not own the extent; the server's call then fails and get goes on.  *)
Flush(c) ==
  LET o == to[c]
  IN  /\ pc[c] = "flush"
      /\ \/ /\ ~dstat[o]
            /\ alive' = [alive EXCEPT ![o] = FALSE]
            /\ Goto(c, "own") /\ UNCHANGED buf
         \/ /\ dstat[o]
            /\ buf' = [buf EXCEPT ![c] = data[o]]
            /\ Goto(c, "put") /\ UNCHANGED alive
      /\ UNCHANGED <<file, owner, up, dstat, data, mstat, meta, lock, linked, op, new, to, got>>

(* extent_server::put for the flush; write_file needs an inode. *)
ServerPut(c) ==
  /\ pc[c] = "put" /\ up
  /\ up' = (file # NONE)
  /\ file' = IF file # NONE THEN buf[c] ELSE NONE
  /\ Goto(c, "clear")
  /\ UNCHANGED <<owner, cacheVars, lock, linked, op, new, to, buf, got>>

(* clear_handler, at the end of flush_handler. *)
Clear(c) ==
  /\ pc[c] = "clear"
  /\ dstat' = [dstat EXCEPT ![to[c]] = FALSE]
  /\ mstat' = [mstat EXCEPT ![to[c]] = FALSE]
  /\ Goto(c, "own")
  /\ UNCHANGED <<file, owner, up, data, meta, alive, lock, linked, op, new, to, buf, got>>

(* extent_server::get after the callback; read_file needs an inode. *)
ServerOwn(c) ==
  /\ pc[c] = "own" /\ up
  /\ owner' = c
  /\ up' = (file # NONE)
  /\ buf' = IF file # NONE THEN [buf EXCEPT ![c] = file] ELSE buf
  /\ Goto(c, "get_ret")
  /\ UNCHANGED <<file, cacheVars, lock, linked, op, new, to, got>>

(* extent_client::get stores what the server sent. *)
GetReturn(c) ==
  /\ pc[c] = "get_ret" /\ up /\ alive[c]
  /\ data' = [data EXCEPT ![c] = buf[c]]
  /\ dstat' = [dstat EXCEPT ![c] = TRUE]
  /\ Goto(c, "op")
  /\ UNCHANGED <<file, owner, up, mstat, meta, alive, lock, linked, op, new, to, buf, got>>

(* The rest of put, and the return to yfs_client, which releases the lock. *)
Finish(c) ==
  /\ pc[c] = "op" /\ alive[c]
  /\ got' = IF op[c] = "read" THEN [got EXCEPT ![c] = data[c]] ELSE got
  /\ data' = IF op[c] = "write" THEN [data EXCEPT ![c] = new[c]] ELSE data
  /\ meta' = IF op[c] = "write" THEN [meta EXCEPT ![c] = new[c]] ELSE meta
  /\ lock' = NONE
  /\ Idle(c)
  /\ UNCHANGED <<file, owner, up, dstat, mstat, alive, linked>>

(* yfs unlink takes the name away and calls extent_client::remove. *)
Remove(c) ==
  /\ pc[c] = "idle" /\ alive[c] /\ linked # "none"
  /\ linked' = "none"
  /\ Goto(c, "rm_srv")
  /\ UNCHANGED <<file, owner, up, cacheVars, lock, op, new, to, buf, got>>

(* extent_server::remove up to the callback. *)
ServerRemove(c) ==
  /\ pc[c] = "rm_srv" /\ up
  /\ \/ owner = NONE /\ Goto(c, "rm_file") /\ UNCHANGED to
     \/ owner # NONE /\ Goto(c, "rm_clear") /\ to' = [to EXCEPT ![c] = owner]
  /\ UNCHANGED <<file, owner, up, cacheVars, lock, linked, op, new, buf, got>>

(* clear_handler at the owner. *)
RemoveClear(c) ==
  /\ pc[c] = "rm_clear"
  /\ dstat' = [dstat EXCEPT ![to[c]] = FALSE]
  /\ mstat' = [mstat EXCEPT ![to[c]] = FALSE]
  /\ Goto(c, "rm_file")
  /\ UNCHANGED <<file, owner, up, data, meta, alive, lock, linked, op, new, to, buf, got>>

(* The rest of extent_server::remove: owner_map keeps its entry. *)
RemoveFile(c) ==
  /\ pc[c] = "rm_file" /\ up
  /\ up' = (file # NONE)
  /\ file' = NONE
  /\ Idle(c)
  /\ UNCHANGED <<owner, cacheVars, lock, linked, got>>

(* yfs create is given the same inum again, alloc_inode having wrapped. *)
Create(c) ==
  /\ pc[c] = "idle" /\ alive[c] /\ up /\ linked = "none" /\ file = NONE
  /\ file' = Empty
  /\ linked' = "again"
  /\ UNCHANGED <<owner, up, cacheVars, lock, pc, op, new, to, buf, got>>

Caching(c) ==
  \/ Get(c) \/ Getattr(c) \/ ServerGetattr(c) \/ SyncMeta(c) \/ ServerGet(c) \/ Flush(c)
  \/ ServerPut(c) \/ Clear(c) \/ ServerOwn(c) \/ GetReturn(c) \/ Finish(c)
  \/ ServerRemove(c) \/ RemoveClear(c) \/ RemoveFile(c)

Next == \E c \in Client : Begin(c) \/ Caching(c) \/ Remove(c) \/ Create(c)

Spec == Init /\ [][Next]_vars

(* Messages are delivered and their handlers run; nobody has to begin. *)
FairSpec == Spec /\ \A c \in Client : WF_vars(Caching(c))

-----------------------------------------------------------------------------
TypeOK ==
  /\ file \in Value \cup {NONE} /\ owner \in Client \cup {NONE} /\ up \in BOOLEAN
  /\ dstat \in [Client -> BOOLEAN] /\ mstat \in [Client -> BOOLEAN]
  /\ alive \in [Client -> BOOLEAN]
  /\ data \in [Client -> Value] /\ meta \in [Client -> Value]
  /\ lock \in Client \cup {NONE} /\ linked \in {"first", "none", "again"}
  /\ pc \in [Client -> Label]
  /\ op \in [Client -> {"read", "write", "stat"}] /\ new \in [Client -> Value]
  /\ to \in [Client -> Client] /\ buf \in [Client -> Value]
  /\ got \in [Client -> Value]

(* At most one client has the extent in its cache, and owner_map names it: *)
(* the next get or getattr calls back the process that has the data.       *)
SingleOwner == \A c \in Client : dstat[c] => owner = c

(* A callback never goes to a client that has exited: the lock keeps other *)
(* gets away while a client that exited inside its own get is the owner.   *)
CallbackAnswered ==
  \A c \in Client : pc[c] \in {"flush", "sync"} => alive[to[c]]

AllUp == up /\ \A c \in Client : alive[c]

(* As long as the extent has not been removed extent_client::flush never   *)
(* finds that it does not own it, where it would print "Oops! Flush when   *)
(* not owning?" and exit, and the server always finds the inode.           *)
NeverOops == linked = "first" => AllUp

(* The contents of the extent: the owner's cache, if it has the data. *)
Contents == IF owner # NONE /\ dstat[owner] THEN data[owner] ELSE file

Reading == {c \in Client : lock = c /\ op[c] = "read"}
Writing == [c \in Client |-> IF lock = c /\ op[c] = "write" THEN {new[c]} ELSE {}]

Abstract == INSTANCE Register WITH
  val <- Contents, got <- got, reading <- Reading, writing <- Writing,
  there <- linked = "first"

(* Until the extent is removed caching is invisible: reads and writes of   *)
(* all clients behave as on one copy, through every change of owner and    *)
(* flush; no write is lost, and none happens twice.                        *)
ImplementsRegister == Abstract!RegisterSpec

(* Every operation comes to its end and frees the lock, unless the use of  *)
(* a removed file ended its client or the server.                          *)
OperationReturns ==
  \A c \in Client : lock = c ~> lock # c \/ (linked # "first" /\ ~(up /\ alive[c]))

=============================================================================
