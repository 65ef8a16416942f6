---------------------------------- MODULE Yfs ---------------------------------
(***************************************************************************)
(* The yfs_client processes of a cell (src/fuse.cc, src/yfs_client.cc) on  *)
(* the locks and extents they share.  Each has one FUSE loop, so it        *)
(* handles one request at a time; a request is a chain of sections, each   *)
(* under the lock of one inode.  A section is one step where it touches    *)
(* only the inode it has locked, and two where a step of another client    *)
(* can come between (unlink removes an inode it has not locked).           *)
(*                                                                         *)
(* Locks exclude (CachingLock) and a file's extents act as one copy        *)
(* (ExtentCache).  An inode number is not used twice here: that takes a    *)
(* full inode table, and ExtentCache and InodeManager look at it.          *)
(***************************************************************************)
EXTENDS Naturals, Sequences, FiniteSets, SequencesExt

CONSTANTS
  Client, NoClient,
  Name,
  INODE_NUM,   \* the inode numbers are 1 .. INODE_NUM - 1
  Ops          \* the requests the kernel sends

Inum == 1 .. INODE_NUM - 1
T_DIR == 1
T_FILE == 2
T_SYMLINK == 3

VARIABLES
  kind, live,   \* the type an inode was created with; it has not been removed
  len,          \* the length of a file: 0 or 1
  ents,         \* the entries of a directory
  next,         \* inode_manager::next_inum
  got,          \* owner_map has the inode: some client has fetched it
  up,           \* no process has died on a null inode or an exit(0)
  lock,         \* lock_server: who holds the lock of an inode
  meta,         \* the inodes whose attributes a client has cached
  pc,           \* what a client does next; "off" before it has mounted
  req,          \* the request it handles
  ino,          \* the inode that request has found or made
  at,           \* kernel: the entry the last reply returned to this client
  reply         \* the last reply

store == <<kind, live, len, ents, next, got, up>>
vars == <<kind, live, len, ents, next, got, up, lock, meta, pc, req, ino, at, reply>>

Inode == 0 .. INODE_NUM - 1
NoEntry == [ino |-> 0, mode |-> 0, dir |-> 0, name |-> "none"]
NoReq == [op |-> "none", i |-> 0, name |-> "none", len |-> 0]

Init ==
  /\ kind = [i \in Inode |-> IF i = 1 THEN T_DIR ELSE 0]
  /\ live = [i \in Inode |-> i = 1]
  /\ len = [i \in Inode |-> 0] /\ ents = [i \in Inode |-> <<>>]
  /\ next = 2 /\ got = {} /\ up = TRUE
  /\ lock = [i \in Inode |-> NoClient]
  /\ meta = [c \in Client |-> {}]
  /\ pc = [c \in Client |-> "off"] /\ req = [c \in Client |-> NoReq]
  /\ ino = [c \in Client |-> 0] /\ at = [c \in Client |-> NoEntry]
  /\ reply = [c \in Client |-> "none"]

-----------------------------------------------------------------------------
Goto(c, l) == pc' = [pc EXCEPT ![c] = l]

Take(c, i) == lock[i] = NoClient /\ lock' = [lock EXCEPT ![i] = c]
Release(i) == lock' = [lock EXCEPT ![i] = NoClient]

(* A section that begins and ends within the step. *)
Section(i) == lock[i] = NoClient /\ UNCHANGED lock

(* The answer to the request; the locals of the handler are gone. *)
Reply(c, r) ==
  /\ Goto(c, "idle")
  /\ reply' = [reply EXCEPT ![c] = r]
  /\ req' = [req EXCEPT ![c] = NoReq] /\ ino' = [ino EXCEPT ![c] = 0]

ReplyOnly(c, r) == Reply(c, r) /\ UNCHANGED at

(* extent_client::get of an inode: the server reads it, and dies when      *)
(* get_inode has nothing to return; the client has its attributes, too.    *)
Got(c, i) ==
  /\ live[i]
  /\ got' = got \cup {i} /\ meta' = [meta EXCEPT ![c] = @ \cup {i}]

NullInode(i) ==
  /\ ~live[i] /\ up' = FALSE
  /\ UNCHANGED <<kind, live, len, ents, next, got, lock, meta, pc, req, ino, at, reply>>

(* The type extent_client::getattr reports: of a removed inode, the cached *)
(* one, or the one its last owner has, or none.                            *)
Type(c, i) == IF live[i] \/ i \in got \/ i \in meta[c] THEN kind[i] ELSE 0

Getattr(c, i) ==
  /\ Section(i)
  /\ meta' = [meta EXCEPT ![c] = IF live[i] \/ i \in got THEN @ \cup {i} ELSE @]
  /\ UNCHANGED store

Names(p) == {ents[p][k].name : k \in 1 .. Len(ents[p])}
Entry(p, n) == SelectSeq(ents[p], LAMBDA e : e.name = n)[1].inum

-----------------------------------------------------------------------------
(* Mutants. *)

(* unlink that removes the inode and leaves the entry. *)
MutantWithout(p, n) == ents[p]

(* An inode number handed out without moving next_inum on. *)
MutantNextInum == next

(* fuse.cc's getattr that does not ask for symlinks. *)
MutantNo == [isfile0 |-> "isfile", isfile |-> "isdir1", isdir1 |-> "nomode", issymlink |-> "nomode"]

(* The early return on an existing name keeps the parent's lock. *)
MutantMakeExists(c) ==
  LET p == req[c].i IN
  /\ pc[c] = "make" /\ live[p] /\ req[c].name \in Names(p)
  /\ Take(c, p) /\ Got(c, p)
  /\ ReplyOnly(c, "EEXIST")
  /\ UNCHANGED <<kind, live, len, ents, next, up>>

(* create that tries again on an existing name instead of returning EEXIST. *)
MutantMakeRetry(c) ==
  LET p == req[c].i IN
  /\ pc[c] = "make" /\ live[p] /\ req[c].name \in Names(p)
  /\ Section(p) /\ Got(c, p)
  /\ UNCHANGED <<kind, live, len, ents, next, up, pc, req, ino, at, reply>>

-----------------------------------------------------------------------------
(* yfs_client::yfs_client: the root becomes an empty directory.  start.sh  *)
(* mounts every client before anything is created.                         *)
Mount(c) ==
  /\ pc[c] = "off" /\ next = 2 /\ \A d \in Client : pc[d] \in {"off", "idle"}
  /\ Section(1) /\ Got(c, 1)
  /\ ents' = [ents EXCEPT ![1] = <<>>]
  /\ Goto(c, "idle")
  /\ UNCHANGED <<kind, live, len, next, up, req, ino, at, reply>>

(* What the kernel sends: requests on the root and on the entry it was     *)
(* given last, fit for the type it was told.  The len of a request is the  *)
(* new length for write and setattr, the offset for read.  Bounds: getattr *)
(* is not sent for the root, which is never removed, and setattr makes the *)
(* file empty (FileStore lengthens it, too).                               *)
Dirs(c) == {1} \cup (IF at[c].mode = T_DIR THEN {at[c].ino} ELSE {})

Requests(c) ==
  [op : Ops \cap {"lookup", "create", "mkdir", "symlink"}, i : Dirs(c), name : Name, len : {0}]
  \cup [op : Ops \cap {"readdir"}, i : Dirs(c), name : {"none"}, len : {0}]
  \cup [op : Ops \cap {"getattr"}, i : {at[c].ino} \ {0}, name : {"none"}, len : {0}]
  \cup (IF at[c].mode \in {T_FILE, T_SYMLINK}
        THEN [op : Ops \cap {"unlink"}, i : {at[c].dir}, name : {at[c].name}, len : {0}]
        ELSE {})
  \cup (IF at[c].mode = T_FILE
        THEN [op : Ops \cap {"read", "setattr"}, i : {at[c].ino}, name : {"none"}, len : {0}]
             \cup [op : Ops \cap {"read", "write"}, i : {at[c].ino}, name : {"none"}, len : {1}]
        ELSE {})
  \cup (IF at[c].mode = T_SYMLINK
        THEN [op : Ops \cap {"readlink"}, i : {at[c].ino}, name : {"none"}, len : {0}] ELSE {})

(* Bound: no more requests to make a file than there are numbers left, so  *)
(* that none is given out twice and alloc_inode finds one.                 *)
Makes == {"create", "mkdir", "symlink"}
Room == next + Cardinality({c \in Client : req[c].op \in Makes}) < INODE_NUM

(* fuse_session_loop hands the next request to its handler.  open and      *)
(* statfs answer at once and touch nothing.                                *)
First(op) ==
  CASE op \in Makes -> "make"
    [] op = "getattr" -> "isfile0"
    [] op = "readdir" -> "isdir"
    [] OTHER -> op

Receive(c) ==
  /\ pc[c] = "idle" /\ \A d \in Client : pc[d] # "off"
  /\ \E r \in Requests(c) :
       /\ r.op \in Makes => Room
       /\ req' = [req EXCEPT ![c] = r]
       /\ ino' = [ino EXCEPT ![c] = IF r.op \in {"getattr", "setattr"} THEN r.i ELSE 0]
       /\ Goto(c, First(r.op))
  /\ reply' = [reply EXCEPT ![c] = "none"]
  /\ UNCHANGED <<kind, live, len, ents, next, got, up, lock, meta, at>>

-----------------------------------------------------------------------------
(* fuse.cc's getattr: isfile (twice, once to print it), isdir and          *)
(* issymlink ask for the type, getfile and getdir for the attributes, each *)
(* under the lock and each for itself.                                     *)
Asks == [isfile0 |-> T_FILE, isfile |-> T_FILE, isdir1 |-> T_DIR, issymlink |-> T_SYMLINK]
Yes == [isfile0 |-> "isfile", isfile |-> "getfile", isdir1 |-> "getdir", issymlink |-> "getlink"]
No == [isfile0 |-> "isfile", isfile |-> "isdir1", isdir1 |-> "issymlink", issymlink |-> "nomode"]

IsType(c) ==
  /\ pc[c] \in DOMAIN Asks
  /\ Getattr(c, ino[c])
  /\ Goto(c, IF Type(c, ino[c]) = Asks[pc[c]] THEN Yes[pc[c]] ELSE No[pc[c]])
  /\ UNCHANGED <<req, ino, at, reply>>

(* The reply that carries the attributes: st_mode is 0 for no known type. *)
Mode == [getfile |-> T_FILE, getdir |-> T_DIR, getlink |-> T_SYMLINK, nomode |-> 0]

ReplyAttr(c) ==
  /\ IF req[c].op \in {"getattr", "setattr"} THEN UNCHANGED at
     ELSE at' = [at EXCEPT ![c] = [ino |-> ino[c], mode |-> Mode[pc[c]],
                                   dir |-> req[c].i, name |-> req[c].name]]
  /\ Reply(c, IF pc[c] = "nomode" THEN "nomode" ELSE "ok")

GetInfo(c) ==
  /\ pc[c] \in DOMAIN Mode
  /\ IF pc[c] = "nomode" THEN UNCHANGED <<store, lock, meta>> ELSE Getattr(c, ino[c])
  /\ ReplyAttr(c)

-----------------------------------------------------------------------------
(* Requests on a directory. *)

(* lookup, and on to getattr when the name is there. *)
Lookup(c) ==
  LET p == req[c].i IN
  /\ pc[c] = "lookup" /\ Section(p) /\ Got(c, p)
  /\ IF req[c].name \in Names(p)
     THEN /\ ino' = [ino EXCEPT ![c] = Entry(p, req[c].name)]
          /\ Goto(c, "isfile0") /\ UNCHANGED <<req, at, reply>>
     ELSE ReplyOnly(c, "ENOENT")
  /\ UNCHANGED <<kind, live, len, ents, next, up>>

(* create, mkdir, symlink: the name is there already. *)
Exists(p, n) == n \in Names(p)

MakeExists(c) ==
  LET p == req[c].i IN
  /\ pc[c] = "make" /\ live[p] /\ Exists(p, req[c].name)
  /\ Section(p) /\ Got(c, p)
  /\ ReplyOnly(c, "EEXIST")
  /\ UNCHANGED <<kind, live, len, ents, next, up>>

(* alloc_inode gives out the number next and goes on to this one. *)
NextInum == next + 1

Created(op) ==
  CASE op = "create" -> T_FILE [] op = "mkdir" -> T_DIR [] OTHER -> T_SYMLINK

(* The name is free: ec->create, with the parent locked. *)
Make(c) ==
  LET p == req[c].i IN
  /\ pc[c] = "make" /\ live[p] /\ ~Exists(p, req[c].name)
  /\ Take(c, p) /\ Got(c, p)
  /\ ino' = [ino EXCEPT ![c] = next]
  /\ kind' = [kind EXCEPT ![next] = Created(req[c].op)]
  /\ live' = [live EXCEPT ![next] = TRUE]
  /\ next' = NextInum
  /\ Goto(c, IF req[c].op = "symlink" THEN "link" ELSE "enter")
  /\ UNCHANGED <<len, ents, up, req, at, reply>>

(* symlink: the target is written to the new inode, which nobody locks. *)
WriteLink(c) ==
  /\ pc[c] = "link" /\ Got(c, ino[c])
  /\ len' = [len EXCEPT ![ino[c]] = 1]
  /\ Goto(c, "enter")
  /\ UNCHANGED <<kind, live, ents, next, up, lock, req, ino, at, reply>>

(* The entry is appended to the parent and the parent unlocked. *)
Enter(c) ==
  LET p == req[c].i IN
  /\ pc[c] = "enter" /\ Got(c, p)
  /\ ents' = [ents EXCEPT ![p] = Append(@, [name |-> req[c].name, inum |-> ino[c]])]
  /\ Release(p) /\ Goto(c, "isfile0")
  /\ UNCHANGED <<kind, live, len, next, up, req, ino, at, reply>>

(* unlink: no such name. *)
UnlinkNoent(c) ==
  LET p == req[c].i IN
  /\ pc[c] = "unlink" /\ live[p] /\ req[c].name \notin Names(p)
  /\ Section(p) /\ Got(c, p)
  /\ ReplyOnly(c, "ENOENT")
  /\ UNCHANGED <<kind, live, len, ents, next, up>>

(* unlink: ec->remove of whatever the name stands for. *)
Unlink(c) ==
  LET p == req[c].i
      i == Entry(p, req[c].name) IN
  /\ pc[c] = "unlink" /\ live[p] /\ req[c].name \in Names(p)
  /\ live[i]
  /\ Take(c, p) /\ Got(c, p)
  /\ live' = [live EXCEPT ![i] = FALSE]
  /\ Goto(c, "erase")
  /\ UNCHANGED <<kind, len, ents, next, up, req, ino, at, reply>>

(* The entries of a directory without the first one with this name. *)
Without(p, n) == RemoveFirst(ents[p], [name |-> n, inum |-> Entry(p, n)])

Erase(c) ==
  LET p == req[c].i IN
  /\ pc[c] = "erase" /\ Got(c, p)
  /\ ents' = [ents EXCEPT ![p] = Without(p, req[c].name)]
  /\ Release(p) /\ ReplyOnly(c, "ok")
  /\ UNCHANGED <<kind, live, len, next, up>>

(* readdir: isdir, and the entries in a second section. *)
Isdir(c) ==
  /\ pc[c] = "isdir" /\ Getattr(c, req[c].i)
  /\ IF Type(c, req[c].i) = T_DIR
     THEN Goto(c, "readdir") /\ UNCHANGED <<req, ino, at, reply>>
     ELSE ReplyOnly(c, "ENOTDIR")

Readdir(c) ==
  /\ pc[c] = "readdir" /\ Section(req[c].i) /\ Got(c, req[c].i)
  /\ ReplyOnly(c, "ok")
  /\ UNCHANGED <<kind, live, len, ents, next, up>>

-----------------------------------------------------------------------------
(* Requests on a file. *)

(* read: the return at the end of the file leaves the lock. *)
Read(c) ==
  LET i == req[c].i IN
  /\ pc[c] = "read" /\ Got(c, i)
  /\ IF req[c].len >= len[i] THEN Take(c, i) ELSE Section(i)
  /\ ReplyOnly(c, "ok")
  /\ UNCHANGED <<kind, live, len, ents, next, up>>

(* write and setattr: ec->get, ... *)
GetFile(c) ==
  /\ pc[c] \in {"write", "setattr"} /\ Take(c, req[c].i) /\ Got(c, req[c].i)
  /\ Goto(c, "put")
  /\ UNCHANGED <<kind, live, len, ents, next, up, req, ino, at, reply>>

(* ... and ec->put of the file changed, which fetches it again if it was   *)
(* cleared meanwhile.  setattr goes on to getattr.                         *)
PutFile(c) ==
  LET i == req[c].i IN
  /\ pc[c] = "put" /\ Got(c, i)
  /\ len' = [len EXCEPT ![i] = req[c].len]
  /\ Release(i)
  /\ IF req[c].op = "write" THEN ReplyOnly(c, "ok")
     ELSE Goto(c, "isfile0") /\ UNCHANGED <<req, ino, at, reply>>
  /\ UNCHANGED <<kind, live, ents, next, up>>

Readlink(c) ==
  /\ pc[c] = "readlink" /\ Section(req[c].i) /\ Got(c, req[c].i)
  /\ ReplyOnly(c, "ok")
  /\ UNCHANGED <<kind, live, len, ents, next, up>>

(* A step that fetches or removes an inode that is gone: read_file and     *)
(* remove_file do not ask whether get_inode returned NULL.                 *)
Touches(c) ==
  CASE pc[c] \in {"lookup", "make", "enter", "erase", "readdir",
                  "read", "write", "setattr", "put", "readlink"} -> {req[c].i}
    [] pc[c] = "link" -> {ino[c]}
    [] pc[c] = "unlink" ->
         {req[c].i} \cup (IF req[c].name \in Names(req[c].i) THEN {Entry(req[c].i, req[c].name)} ELSE {})
    [] OTHER -> {}

Dies(c) ==
  /\ lock[req[c].i] \in {NoClient, c}
  /\ \E i \in Touches(c) : NullInode(i)

Handle(c) ==
  \/ IsType(c) \/ GetInfo(c) \/ Lookup(c)
  \/ MakeExists(c) \/ Make(c) \/ WriteLink(c) \/ Enter(c)
  \/ UnlinkNoent(c) \/ Unlink(c) \/ Erase(c)
  \/ Isdir(c) \/ Readdir(c)
  \/ Read(c) \/ GetFile(c) \/ PutFile(c) \/ Readlink(c)
  \/ Dies(c)

Next == up /\ \E c \in Client : Mount(c) \/ Receive(c) \/ Handle(c)

Spec == Init /\ [][Next]_vars

(* A handler runs on, and a lock asked for is granted when it is free      *)
(* often enough: the clients' caches hand it over on a revoke.             *)
FairSpec ==
  /\ Spec
  /\ \A c \in Client : SF_vars(up /\ Handle(c)) /\ WF_vars(up /\ Mount(c))

-----------------------------------------------------------------------------
(* A directory that is not locked lists only files that exist, and no file *)
(* stands in two places, whatever the clients do at the same time.         *)
EntriesLive ==
  \A p \in Inum : live[p] /\ lock[p] = NoClient =>
    \A k \in 1 .. Len(ents[p]) :
      LET i == ents[p][k].inum IN
      /\ live[i]
      /\ \A q \in Inum : \A j \in 1 .. Len(ents[q]) :
           ents[q][j].inum = i => q = p /\ j = k

Links ==
  UNION {{<<p, ents[p][k].name, ents[p][k].inum>> : k \in 1 .. Len(ents[p])} : p \in Inum}
Used == (1 .. next - 1) \ {ino[c] : c \in {d \in Client : pc[d] \in {"link", "enter"}}}

(* The request to make or to remove a name that has not taken effect yet. *)
Asked ==
  [c \in Client |->
     CASE pc[c] \in {"make", "link", "enter"} -> {<<"add", req[c].i, req[c].name>>}
       [] pc[c] \in {"unlink", "erase"} -> {<<"remove", req[c].i, req[c].name>>}
       [] OTHER -> {}]

N == INSTANCE Namespace WITH links <- Links, used <- Used, asked <- Asked

(* The directories together behave like one table of names (Namespace):    *)
(* two clients never enter the same name nor the same number, no entry     *)
(* gets lost, and EEXIST and ENOENT are said only when they are true.      *)
ImplementsNamespace == N!Spec

(* A lock that nobody is going to release: its holder has left the section *)
(* that took it.                                                           *)
Left(i) ==
  /\ lock[i] # NoClient
  /\ ~(pc[lock[i]] \in {"link", "enter", "erase", "put"} /\ req[lock[i]].i = i)

(* Every early return and error path releases what it locked, but for one: *)
(* a lock is left behind only by a read at or past the end of a file, and  *)
(* it is the lock of that file.                                            *)
LocksReturned ==
  [][\A i \in Inode :
       ~Left(i) /\ Left(i)' =>
         \E c \in Client : pc[c] = "read" /\ req[c].i = i /\ req[c].len >= len[i]]_vars

(* The handlers answer, "supplies either a success or failure response",   *)
(* as long as the server is up and no read has left a lock behind.         *)
Answered ==
  \A c \in Client : pc[c] # "idle" ~> pc[c] = "idle" \/ ~up \/ \E i \in Inode : Left(i)

(* fuse.cc: "If @name is found, set e.attr (using getattr)".  Asked for    *)
(* piece by piece, under a lock that is given up in between, the type in a *)
(* reply is still that of the inode; none is told only of a removed one.   *)
TypeTold ==
  [][\A c \in Client :
       pc[c] \in DOMAIN Mode /\ pc'[c] = "idle" =>
         \/ Mode[pc[c]] = kind[ino[c]]
         \/ pc[c] = "nomode" /\ ~live[ino[c]]]_vars

=============================================================================
