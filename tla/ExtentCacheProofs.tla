--------------------------- MODULE ExtentCacheProofs --------------------------
(***************************************************************************)
(* Proofs about the extent cache, for any set of clients and of values.    *)
(*                                                                         *)
(* GInv is inductive by itself.  It says who may be where: only the lock's *)
(* holder is inside get or getattr, the callback goes to the owner, and    *)
(* nobody has the data once the callback is done.  RInv, which holds until *)
(* the extent is removed, adds where the latest contents are at each point *)
(* of the callback.                                                        *)
(***************************************************************************)
EXTENDS ExtentCache, TLAPS

Removing == {"rm_srv", "rm_clear", "rm_file"}

(* Only the lock's holder is inside a get, put or getattr. *)
LockOK == \A c \in Client : pc[c] \notin Removing \cup {"idle"} => lock = c

(* Once the callback is done nobody has the data. *)
OwnOK == \A c, d \in Client : pc[c] = "own" => ~dstat[d]

(* The callback goes to the owner. *)
CallOK == \A c \in Client : pc[c] \in {"flush", "put", "clear"} => to[c] = owner

(* A client the server has answered is the owner. *)
RetOK == \A c \in Client : pc[c] = "get_ret" => owner = c

GInv == TypeOK /\ LockOK /\ SingleOwner /\ OwnOK /\ CallOK /\ RetOK

(* Every step keeps the types. *)
LEMMA TypeStep == ASSUME TypeOK, [Next]_vars PROVE TypeOK'
<1> USE CacheAssumption
<1>1. ASSUME NEW c \in Client, Begin(c) PROVE TypeOK'
  BY <1>1 DEF TypeOK, Label, cacheVars, Begin, Goto
<1>2. ASSUME NEW c \in Client, Get(c) PROVE TypeOK'
  BY <1>2 DEF TypeOK, Label, cacheVars, Get, Goto
<1>3. ASSUME NEW c \in Client, Getattr(c) PROVE TypeOK'
  BY <1>3 DEF TypeOK, Label, cacheVars, Getattr, AfterAttr, Goto
<1>4. ASSUME NEW c \in Client, ServerGetattr(c) PROVE TypeOK'
  <2>1. CASE owner = NONE
    <3>a. PICK a \in Value : a = IF file = NONE THEN Empty ELSE file
      BY DEF TypeOK
    <3>b. meta' = [meta EXCEPT ![c] = a] /\ mstat' = [mstat EXCEPT ![c] = TRUE]
      BY <1>4, <2>1, <3>a, Zenon DEF ServerGetattr, KeepMeta
    <3>1. meta' \in [Client -> Value] /\ mstat' \in [Client -> BOOLEAN]
      BY <3>b DEF TypeOK
    <3>2. pc' \in [Client -> Label]
      BY <1>4, <2>1 DEF TypeOK, Label, ServerGetattr, KeepMeta, AfterAttr, Goto
    <3>3. UNCHANGED <<file, owner, up, dstat, data, alive,
                      lock, linked, op, new, to, buf, got>>
      BY <1>4, <2>1 DEF ServerGetattr
    <3> QED BY <3>1, <3>2, <3>3 DEF TypeOK
  <2>2. CASE owner # NONE
    BY <1>4, <2>2 DEF TypeOK, Label, cacheVars, ServerGetattr, KeepMeta, AfterAttr, Goto
  <2> QED BY <2>1, <2>2, Zenon
<1>5. ASSUME NEW c \in Client, SyncMeta(c) PROVE TypeOK'
  BY <1>5 DEF TypeOK, Label, cacheVars, SyncMeta, KeepMeta, AfterAttr, Goto
<1>6. ASSUME NEW c \in Client, ServerGet(c) PROVE TypeOK'
  BY <1>6 DEF TypeOK, Label, cacheVars, ServerGet, Goto
<1>7. ASSUME NEW c \in Client, Flush(c) PROVE TypeOK'
  <2>1. CASE dstat[to[c]]
    <3>1. buf' \in [Client -> Value]
      BY <1>7, <2>1 DEF TypeOK, Flush
    <3>2. pc' \in [Client -> Label]
      BY <1>7, <2>1 DEF TypeOK, Label, Flush, Goto
    <3>3. UNCHANGED <<file, owner, up, dstat, data, alive,
                      mstat, meta, lock, linked, op, new, to, got>>
      BY <1>7, <2>1 DEF Flush
    <3> QED BY <3>1, <3>2, <3>3 DEF TypeOK
  <2>2. CASE ~dstat[to[c]]
    <3>1. alive' \in [Client -> BOOLEAN]
      <4>1. alive' = [alive EXCEPT ![to[c]] = FALSE]
        BY <1>7, <2>2, Zenon DEF Flush
      <4> QED BY <4>1 DEF TypeOK
    <3>2. pc' \in [Client -> Label]
      BY <1>7, <2>2 DEF TypeOK, Label, Flush, Goto
    <3>3. UNCHANGED <<file, owner, up, dstat, data, mstat,
                      meta, lock, linked, op, new, to, buf, got>>
      BY <1>7, <2>2 DEF Flush
    <3> QED BY <3>1, <3>2, <3>3 DEF TypeOK
  <2> QED BY <2>1, <2>2, Zenon
<1>8. ASSUME NEW c \in Client, ServerPut(c) PROVE TypeOK'
  BY <1>8 DEF TypeOK, Label, cacheVars, ServerPut, Goto
<1>9. ASSUME NEW c \in Client, Clear(c) PROVE TypeOK'
  BY <1>9 DEF TypeOK, Label, cacheVars, Clear, Goto
<1>10. ASSUME NEW c \in Client, ServerOwn(c) PROVE TypeOK'
  BY <1>10 DEF TypeOK, Label, cacheVars, ServerOwn, Goto
<1>11. ASSUME NEW c \in Client, GetReturn(c) PROVE TypeOK'
  BY <1>11 DEF TypeOK, Label, cacheVars, GetReturn, Goto
<1>12. ASSUME NEW c \in Client, Finish(c) PROVE TypeOK'
  BY <1>12 DEF TypeOK, Label, cacheVars, Finish, Idle, Goto
<1>13. ASSUME NEW c \in Client, Remove(c) PROVE TypeOK'
  BY <1>13 DEF TypeOK, Label, cacheVars, Remove, Goto
<1>14. ASSUME NEW c \in Client, ServerRemove(c) PROVE TypeOK'
  BY <1>14 DEF TypeOK, Label, cacheVars, ServerRemove, Goto
<1>15. ASSUME NEW c \in Client, RemoveClear(c) PROVE TypeOK'
  BY <1>15 DEF TypeOK, Label, cacheVars, RemoveClear, Goto
<1>16. ASSUME NEW c \in Client, RemoveFile(c) PROVE TypeOK'
  BY <1>16 DEF TypeOK, Label, cacheVars, RemoveFile, Idle, Goto
<1>17. ASSUME NEW c \in Client, Create(c) PROVE TypeOK'
  BY <1>17 DEF TypeOK, Label, cacheVars, Create
<1>18. ASSUME UNCHANGED vars PROVE TypeOK'
  BY <1>18 DEF TypeOK, vars, cacheVars
<1> QED BY <1>1, <1>2, <1>3, <1>4, <1>5, <1>6, <1>7, <1>8, <1>9, <1>10, <1>11,
           <1>12, <1>13, <1>14, <1>15, <1>16, <1>17, <1>18 DEF Next, Caching

(* Every step keeps GInv. *)
LEMMA GStep == ASSUME GInv, [Next]_vars PROVE GInv'
<1> USE CacheAssumption
<1>0. TypeOK /\ LockOK /\ SingleOwner /\ OwnOK /\ CallOK /\ RetOK /\ TypeOK'
  BY TypeStep DEF GInv
<1>1. ASSUME NEW c \in Client, Begin(c) PROVE GInv'
  <2>1. LockOK'
    BY <1>0, <1>1 DEF TypeOK, LockOK, Removing, cacheVars, Begin, Goto
  <2>2. SingleOwner'
    BY <1>0, <1>1 DEF TypeOK, SingleOwner, cacheVars, Begin, Goto
  <2>3. OwnOK'
    BY <1>0, <1>1 DEF TypeOK, OwnOK, cacheVars, Begin, Goto
  <2>4. CallOK'
    BY <1>0, <1>1 DEF TypeOK, CallOK, cacheVars, Begin, Goto
  <2>5. RetOK'
    BY <1>0, <1>1 DEF TypeOK, RetOK, cacheVars, Begin, Goto
  <2> QED BY <1>0, <2>1, <2>2, <2>3, <2>4, <2>5, Zenon DEF GInv
<1>2. ASSUME NEW c \in Client, Get(c) PROVE GInv'
  <2>1. LockOK'
    BY <1>0, <1>2 DEF TypeOK, LockOK, Removing, cacheVars, Get, Goto
  <2>2. SingleOwner'
    BY <1>0, <1>2 DEF TypeOK, SingleOwner, cacheVars, Get, Goto
  <2>3. OwnOK'
    BY <1>0, <1>2 DEF TypeOK, OwnOK, cacheVars, Get, Goto
  <2>4. CallOK'
    BY <1>0, <1>2 DEF TypeOK, CallOK, cacheVars, Get, Goto
  <2>5. RetOK'
    BY <1>0, <1>2 DEF TypeOK, RetOK, cacheVars, Get, Goto
  <2> QED BY <1>0, <2>1, <2>2, <2>3, <2>4, <2>5, Zenon DEF GInv
<1>3. ASSUME NEW c \in Client, Getattr(c) PROVE GInv'
  <2>1. LockOK'
    BY <1>0, <1>3 DEF TypeOK, LockOK, Removing, cacheVars, Getattr, AfterAttr, Goto
  <2>2. SingleOwner'
    BY <1>0, <1>3 DEF TypeOK, SingleOwner, cacheVars, Getattr, AfterAttr, Goto
  <2>3. OwnOK'
    BY <1>0, <1>3 DEF TypeOK, OwnOK, cacheVars, Getattr, AfterAttr, Goto
  <2>4. CallOK'
    BY <1>0, <1>3 DEF TypeOK, CallOK, cacheVars, Getattr, AfterAttr, Goto
  <2>5. RetOK'
    BY <1>0, <1>3 DEF TypeOK, RetOK, cacheVars, Getattr, AfterAttr, Goto
  <2> QED BY <1>0, <2>1, <2>2, <2>3, <2>4, <2>5, Zenon DEF GInv
<1>4. ASSUME NEW c \in Client, ServerGetattr(c) PROVE GInv'
  <2>1. LockOK'
    BY <1>0, <1>4 DEF TypeOK, LockOK, Removing, ServerGetattr, KeepMeta, AfterAttr,
                      Goto
  <2>2. SingleOwner'
    BY <1>0, <1>4 DEF TypeOK, SingleOwner, ServerGetattr, KeepMeta, AfterAttr, Goto
  <2>3. OwnOK'
    BY <1>0, <1>4 DEF TypeOK, OwnOK, ServerGetattr, KeepMeta, AfterAttr, Goto
  <2>4. CallOK'
    BY <1>0, <1>4 DEF TypeOK, CallOK, ServerGetattr, KeepMeta, AfterAttr, Goto
  <2>5. RetOK'
    BY <1>0, <1>4 DEF TypeOK, RetOK, ServerGetattr, KeepMeta, AfterAttr, Goto
  <2> QED BY <1>0, <2>1, <2>2, <2>3, <2>4, <2>5, Zenon DEF GInv
<1>5. ASSUME NEW c \in Client, SyncMeta(c) PROVE GInv'
  <2>1. LockOK'
    BY <1>0, <1>5 DEF TypeOK, LockOK, Removing, SyncMeta, KeepMeta, AfterAttr, Goto
  <2>2. SingleOwner'
    BY <1>0, <1>5 DEF TypeOK, SingleOwner, SyncMeta, KeepMeta, AfterAttr, Goto
  <2>3. OwnOK'
    BY <1>0, <1>5 DEF TypeOK, OwnOK, SyncMeta, KeepMeta, AfterAttr, Goto
  <2>4. CallOK'
    BY <1>0, <1>5 DEF TypeOK, CallOK, SyncMeta, KeepMeta, AfterAttr, Goto
  <2>5. RetOK'
    BY <1>0, <1>5 DEF TypeOK, RetOK, SyncMeta, KeepMeta, AfterAttr, Goto
  <2> QED BY <1>0, <2>1, <2>2, <2>3, <2>4, <2>5, Zenon DEF GInv
<1>6. ASSUME NEW c \in Client, ServerGet(c) PROVE GInv'
  <2>1. LockOK'
    BY <1>0, <1>6 DEF TypeOK, LockOK, Removing, cacheVars, ServerGet, Goto
  <2>2. SingleOwner'
    BY <1>0, <1>6 DEF TypeOK, SingleOwner, cacheVars, ServerGet, Goto
  <2>3. OwnOK'
    BY <1>0, <1>6 DEF TypeOK, OwnOK, SingleOwner, cacheVars, ServerGet, Goto
  <2>4. CallOK'
    BY <1>0, <1>6 DEF TypeOK, CallOK, cacheVars, ServerGet, Goto
  <2>5. RetOK'
    BY <1>0, <1>6 DEF TypeOK, RetOK, cacheVars, ServerGet, Goto
  <2> QED BY <1>0, <2>1, <2>2, <2>3, <2>4, <2>5, Zenon DEF GInv
<1>7. ASSUME NEW c \in Client, Flush(c) PROVE GInv'
  <2>1. LockOK'
    BY <1>0, <1>7 DEF TypeOK, LockOK, Removing, Flush, Goto
  <2>2. SingleOwner'
    BY <1>0, <1>7 DEF TypeOK, SingleOwner, Flush, Goto
  <2>3. OwnOK'
    BY <1>0, <1>7 DEF TypeOK, OwnOK, SingleOwner, CallOK, Flush, Goto
  <2>4. CallOK'
    BY <1>0, <1>7 DEF TypeOK, CallOK, Flush, Goto
  <2>5. RetOK'
    BY <1>0, <1>7 DEF TypeOK, RetOK, Flush, Goto
  <2> QED BY <1>0, <2>1, <2>2, <2>3, <2>4, <2>5, Zenon DEF GInv
<1>8. ASSUME NEW c \in Client, ServerPut(c) PROVE GInv'
  <2>1. LockOK'
    BY <1>0, <1>8 DEF TypeOK, LockOK, Removing, cacheVars, ServerPut, Goto
  <2>2. SingleOwner'
    BY <1>0, <1>8 DEF TypeOK, SingleOwner, cacheVars, ServerPut, Goto
  <2>3. OwnOK'
    BY <1>0, <1>8 DEF TypeOK, OwnOK, cacheVars, ServerPut, Goto
  <2>4. CallOK'
    BY <1>0, <1>8 DEF TypeOK, CallOK, cacheVars, ServerPut, Goto
  <2>5. RetOK'
    BY <1>0, <1>8 DEF TypeOK, RetOK, cacheVars, ServerPut, Goto
  <2> QED BY <1>0, <2>1, <2>2, <2>3, <2>4, <2>5, Zenon DEF GInv
<1>9. ASSUME NEW c \in Client, Clear(c) PROVE GInv'
  <2>1. LockOK'
    BY <1>0, <1>9 DEF TypeOK, LockOK, Removing, Clear, Goto
  <2>2. SingleOwner'
    BY <1>0, <1>9 DEF TypeOK, SingleOwner, Clear, Goto
  <2>3. OwnOK'
    BY <1>0, <1>9 DEF TypeOK, OwnOK, SingleOwner, CallOK, Clear, Goto
  <2>4. CallOK'
    BY <1>0, <1>9 DEF TypeOK, CallOK, Clear, Goto
  <2>5. RetOK'
    BY <1>0, <1>9 DEF TypeOK, RetOK, Clear, Goto
  <2> QED BY <1>0, <2>1, <2>2, <2>3, <2>4, <2>5, Zenon DEF GInv
<1>10. ASSUME NEW c \in Client, ServerOwn(c) PROVE GInv'
  <2>1. LockOK'
    BY <1>0, <1>10 DEF TypeOK, LockOK, Removing, cacheVars, ServerOwn, Goto
  <2>2. SingleOwner'
    BY <1>0, <1>10 DEF TypeOK, SingleOwner, OwnOK, cacheVars, ServerOwn, Goto
  <2>3. OwnOK'
    BY <1>0, <1>10 DEF TypeOK, OwnOK, cacheVars, ServerOwn, Goto
  <2>4. CallOK'
    BY <1>0, <1>10 DEF TypeOK, CallOK, LockOK, Removing, cacheVars, ServerOwn, Goto
  <2>5. RetOK'
    BY <1>0, <1>10 DEF TypeOK, RetOK, LockOK, Removing, cacheVars, ServerOwn, Goto
  <2> QED BY <1>0, <2>1, <2>2, <2>3, <2>4, <2>5, Zenon DEF GInv
<1>11. ASSUME NEW c \in Client, GetReturn(c) PROVE GInv'
  <2>1. LockOK'
    BY <1>0, <1>11 DEF TypeOK, LockOK, Removing, GetReturn, Goto
  <2>2. SingleOwner'
    BY <1>0, <1>11 DEF TypeOK, SingleOwner, RetOK, GetReturn, Goto
  <2>3. OwnOK'
    BY <1>0, <1>11 DEF TypeOK, OwnOK, LockOK, Removing, GetReturn, Goto
  <2>4. CallOK'
    BY <1>0, <1>11 DEF TypeOK, CallOK, GetReturn, Goto
  <2>5. RetOK'
    BY <1>0, <1>11 DEF TypeOK, RetOK, GetReturn, Goto
  <2> QED BY <1>0, <2>1, <2>2, <2>3, <2>4, <2>5, Zenon DEF GInv
<1>12. ASSUME NEW c \in Client, Finish(c) PROVE GInv'
  <2>1. LockOK'
    BY <1>0, <1>12 DEF TypeOK, LockOK, Removing, Finish, Idle, Goto
  <2>2. SingleOwner'
    BY <1>0, <1>12 DEF TypeOK, SingleOwner, Finish, Idle, Goto
  <2>3. OwnOK'
    BY <1>0, <1>12 DEF TypeOK, OwnOK, Finish, Idle, Goto
  <2>4. CallOK'
    BY <1>0, <1>12 DEF TypeOK, CallOK, Finish, Idle, Goto
  <2>5. RetOK'
    BY <1>0, <1>12 DEF TypeOK, RetOK, Finish, Idle, Goto
  <2> QED BY <1>0, <2>1, <2>2, <2>3, <2>4, <2>5, Zenon DEF GInv
<1>13. ASSUME NEW c \in Client, Remove(c) PROVE GInv'
  <2>1. LockOK'
    BY <1>0, <1>13 DEF TypeOK, LockOK, Removing, cacheVars, Remove, Goto
  <2>2. SingleOwner'
    BY <1>0, <1>13 DEF TypeOK, SingleOwner, cacheVars, Remove, Goto
  <2>3. OwnOK'
    BY <1>0, <1>13 DEF TypeOK, OwnOK, cacheVars, Remove, Goto
  <2>4. CallOK'
    BY <1>0, <1>13 DEF TypeOK, CallOK, cacheVars, Remove, Goto
  <2>5. RetOK'
    BY <1>0, <1>13 DEF TypeOK, RetOK, cacheVars, Remove, Goto
  <2> QED BY <1>0, <2>1, <2>2, <2>3, <2>4, <2>5, Zenon DEF GInv
<1>14. ASSUME NEW c \in Client, ServerRemove(c) PROVE GInv'
  <2>1. LockOK'
    BY <1>0, <1>14 DEF TypeOK, LockOK, Removing, cacheVars, ServerRemove, Goto
  <2>2. SingleOwner'
    BY <1>0, <1>14 DEF TypeOK, SingleOwner, cacheVars, ServerRemove, Goto
  <2>3. OwnOK'
    BY <1>0, <1>14 DEF TypeOK, OwnOK, cacheVars, ServerRemove, Goto
  <2>4. CallOK'
    BY <1>0, <1>14 DEF TypeOK, CallOK, cacheVars, ServerRemove, Goto
  <2>5. RetOK'
    BY <1>0, <1>14 DEF TypeOK, RetOK, cacheVars, ServerRemove, Goto
  <2> QED BY <1>0, <2>1, <2>2, <2>3, <2>4, <2>5, Zenon DEF GInv
<1>15. ASSUME NEW c \in Client, RemoveClear(c) PROVE GInv'
  <2>1. LockOK'
    BY <1>0, <1>15 DEF TypeOK, LockOK, Removing, RemoveClear, Goto
  <2>2. SingleOwner'
    BY <1>0, <1>15 DEF TypeOK, SingleOwner, RemoveClear, Goto
  <2>3. OwnOK'
    BY <1>0, <1>15 DEF TypeOK, OwnOK, RemoveClear, Goto
  <2>4. CallOK'
    BY <1>0, <1>15 DEF TypeOK, CallOK, RemoveClear, Goto
  <2>5. RetOK'
    BY <1>0, <1>15 DEF TypeOK, RetOK, RemoveClear, Goto
  <2> QED BY <1>0, <2>1, <2>2, <2>3, <2>4, <2>5, Zenon DEF GInv
<1>16. ASSUME NEW c \in Client, RemoveFile(c) PROVE GInv'
  <2>1. LockOK'
    BY <1>0, <1>16 DEF TypeOK, LockOK, Removing, cacheVars, RemoveFile, Idle, Goto
  <2>2. SingleOwner'
    BY <1>0, <1>16 DEF TypeOK, SingleOwner, cacheVars, RemoveFile, Idle, Goto
  <2>3. OwnOK'
    BY <1>0, <1>16 DEF TypeOK, OwnOK, cacheVars, RemoveFile, Idle, Goto
  <2>4. CallOK'
    BY <1>0, <1>16 DEF TypeOK, CallOK, cacheVars, RemoveFile, Idle, Goto
  <2>5. RetOK'
    BY <1>0, <1>16 DEF TypeOK, RetOK, cacheVars, RemoveFile, Idle, Goto
  <2> QED BY <1>0, <2>1, <2>2, <2>3, <2>4, <2>5, Zenon DEF GInv
<1>17. ASSUME NEW c \in Client, Create(c) PROVE GInv'
  <2>1. LockOK'
    BY <1>0, <1>17 DEF TypeOK, LockOK, Removing, cacheVars, Create
  <2>2. SingleOwner'
    BY <1>0, <1>17 DEF TypeOK, SingleOwner, cacheVars, Create
  <2>3. OwnOK'
    BY <1>0, <1>17 DEF TypeOK, OwnOK, cacheVars, Create
  <2>4. CallOK'
    BY <1>0, <1>17 DEF TypeOK, CallOK, cacheVars, Create
  <2>5. RetOK'
    BY <1>0, <1>17 DEF TypeOK, RetOK, cacheVars, Create
  <2> QED BY <1>0, <2>1, <2>2, <2>3, <2>4, <2>5, Zenon DEF GInv
<1>18. ASSUME UNCHANGED vars PROVE GInv'
  BY <1>0, <1>18 DEF GInv, LockOK, SingleOwner, OwnOK, CallOK, RetOK, vars, cacheVars
<1> QED BY <1>1, <1>2, <1>3, <1>4, <1>5, <1>6, <1>7, <1>8, <1>9, <1>10, <1>11,
           <1>12, <1>13, <1>14, <1>15, <1>16, <1>17, <1>18 DEF Next, Caching

-----------------------------------------------------------------------------
(* The file is there and every process is up; nothing is removed. *)
Kept == file # NONE /\ AllUp /\ \A c \in Client : pc[c] \notin Removing

(* An owner without the data has been called back or not yet answered. *)
DataOK ==
  owner # NONE /\ ~dstat[owner] => \E c \in Client : pc[c] \in {"own", "get_ret"}

(* The owner has the data until the callback's end. *)
FlushOK == \A c \in Client : pc[c] \in {"flush", "put", "clear"} => dstat[to[c]]

(* The owner's data is on its way to the server, and then there. *)
PutOK ==
  \A c \in Client : /\ pc[c] = "put" => buf[c] = data[to[c]]
                    /\ pc[c] = "clear" => file = data[to[c]]

(* The reply to a get carries what the server has. *)
GotOK == \A c \in Client : pc[c] = "get_ret" => buf[c] = file /\ ~dstat[c]

(* A read or write ends with the data in the client's cache. *)
OpOK == \A c \in Client : pc[c] = "op" /\ op[c] # "stat" => dstat[c]

RInv == Kept /\ DataOK /\ FlushOK /\ PutOK /\ GotOK /\ OpOK

(* Once removed, the extent's first name does not come back. *)
LEMMA FirstStep == ASSUME [Next]_vars, linked' = "first" PROVE linked = "first"
  BY DEF Next, Begin, Caching, Get, Getattr, ServerGetattr, SyncMeta, ServerGet, Flush,
         ServerPut, Clear, ServerOwn, GetReturn, Finish, Remove, ServerRemove,
         RemoveClear, RemoveFile, Create, vars

(* Every step that does not remove the extent keeps RInv. *)
LEMMA RStep == ASSUME linked' = "first", GInv, RInv, [Next]_vars PROVE RInv'
<1> USE CacheAssumption
<1>0. /\ TypeOK /\ LockOK /\ SingleOwner /\ OwnOK /\ CallOK /\ RetOK /\ TypeOK'
      /\ Kept /\ DataOK /\ FlushOK /\ PutOK /\ GotOK /\ OpOK
  BY TypeStep, Zenon DEF GInv, RInv
<1>1. ASSUME NEW c \in Client, Begin(c) PROVE RInv'
  <2>1. Kept'
    BY <1>0, <1>1 DEF TypeOK, Kept, AllUp, Removing, cacheVars, Begin, Goto
  <2>2. DataOK'
    BY <1>0, <1>1 DEF TypeOK, DataOK, cacheVars, Begin, Goto
  <2>3. FlushOK'
    BY <1>0, <1>1 DEF TypeOK, FlushOK, cacheVars, Begin, Goto
  <2>4. PutOK'
    BY <1>0, <1>1 DEF TypeOK, PutOK, cacheVars, Begin, Goto
  <2>5. GotOK'
    BY <1>0, <1>1 DEF TypeOK, GotOK, cacheVars, Begin, Goto
  <2>6. OpOK'
    BY <1>0, <1>1 DEF TypeOK, OpOK, cacheVars, Begin, Goto
  <2> QED BY <2>1, <2>2, <2>3, <2>4, <2>5, <2>6, Zenon DEF RInv
<1>2. ASSUME NEW c \in Client, Get(c) PROVE RInv'
  <2>1. Kept'
    BY <1>0, <1>2 DEF TypeOK, Kept, AllUp, Removing, cacheVars, Get, Goto
  <2>2. DataOK'
    BY <1>0, <1>2 DEF TypeOK, DataOK, cacheVars, Get, Goto
  <2>3. FlushOK'
    BY <1>0, <1>2 DEF TypeOK, FlushOK, cacheVars, Get, Goto
  <2>4. PutOK'
    BY <1>0, <1>2 DEF TypeOK, PutOK, cacheVars, Get, Goto
  <2>5. GotOK'
    BY <1>0, <1>2 DEF TypeOK, GotOK, cacheVars, Get, Goto
  <2>6. OpOK'
    BY <1>0, <1>2 DEF TypeOK, OpOK, cacheVars, Get, Goto
  <2> QED BY <2>1, <2>2, <2>3, <2>4, <2>5, <2>6, Zenon DEF RInv
<1>3. ASSUME NEW c \in Client, Getattr(c) PROVE RInv'
  <2>1. Kept'
    BY <1>0, <1>3 DEF TypeOK, Kept, AllUp, Removing, cacheVars, Getattr, AfterAttr,
                      Goto
  <2>2. DataOK'
    BY <1>0, <1>3 DEF TypeOK, DataOK, cacheVars, Getattr, AfterAttr, Goto
  <2>3. FlushOK'
    BY <1>0, <1>3 DEF TypeOK, FlushOK, cacheVars, Getattr, AfterAttr, Goto
  <2>4. PutOK'
    BY <1>0, <1>3 DEF TypeOK, PutOK, cacheVars, Getattr, AfterAttr, Goto
  <2>5. GotOK'
    BY <1>0, <1>3 DEF TypeOK, GotOK, cacheVars, Getattr, AfterAttr, Goto
  <2>6. OpOK'
    BY <1>0, <1>3 DEF TypeOK, OpOK, cacheVars, Getattr, AfterAttr, Goto
  <2> QED BY <2>1, <2>2, <2>3, <2>4, <2>5, <2>6, Zenon DEF RInv
<1>4. ASSUME NEW c \in Client, ServerGetattr(c) PROVE RInv'
  <2>1. Kept'
    BY <1>0, <1>4 DEF TypeOK, Kept, AllUp, Removing, ServerGetattr, KeepMeta,
                      AfterAttr, Goto
  <2>2. DataOK'
    BY <1>0, <1>4 DEF TypeOK, DataOK, ServerGetattr, KeepMeta, AfterAttr, Goto
  <2>3. FlushOK'
    BY <1>0, <1>4 DEF TypeOK, FlushOK, ServerGetattr, KeepMeta, AfterAttr, Goto
  <2>4. PutOK'
    BY <1>0, <1>4 DEF TypeOK, PutOK, ServerGetattr, KeepMeta, AfterAttr, Goto
  <2>5. GotOK'
    BY <1>0, <1>4 DEF TypeOK, GotOK, ServerGetattr, KeepMeta, AfterAttr, Goto
  <2>6. OpOK'
    BY <1>0, <1>4 DEF TypeOK, OpOK, ServerGetattr, KeepMeta, AfterAttr, Goto
  <2> QED BY <2>1, <2>2, <2>3, <2>4, <2>5, <2>6, Zenon DEF RInv
<1>5. ASSUME NEW c \in Client, SyncMeta(c) PROVE RInv'
  <2>1. Kept'
    BY <1>0, <1>5 DEF TypeOK, Kept, AllUp, Removing, SyncMeta, KeepMeta, AfterAttr,
                      Goto
  <2>2. DataOK'
    BY <1>0, <1>5 DEF TypeOK, DataOK, SyncMeta, KeepMeta, AfterAttr, Goto
  <2>3. FlushOK'
    BY <1>0, <1>5 DEF TypeOK, FlushOK, SyncMeta, KeepMeta, AfterAttr, Goto
  <2>4. PutOK'
    BY <1>0, <1>5 DEF TypeOK, PutOK, SyncMeta, KeepMeta, AfterAttr, Goto
  <2>5. GotOK'
    BY <1>0, <1>5 DEF TypeOK, GotOK, SyncMeta, KeepMeta, AfterAttr, Goto
  <2>6. OpOK'
    BY <1>0, <1>5 DEF TypeOK, OpOK, SyncMeta, KeepMeta, AfterAttr, Goto
  <2> QED BY <2>1, <2>2, <2>3, <2>4, <2>5, <2>6, Zenon DEF RInv
<1>6. ASSUME NEW c \in Client, ServerGet(c) PROVE RInv'
  <2>1. Kept'
    BY <1>0, <1>6 DEF TypeOK, Kept, AllUp, Removing, cacheVars, ServerGet, Goto
  <2>2. DataOK'
    BY <1>0, <1>6 DEF TypeOK, DataOK, cacheVars, ServerGet, Goto
  <2>3. FlushOK'
    BY <1>0, <1>6 DEF TypeOK, FlushOK, DataOK, LockOK, Removing, cacheVars, ServerGet,
                      Goto
  <2>4. PutOK'
    BY <1>0, <1>6 DEF TypeOK, PutOK, cacheVars, ServerGet, Goto
  <2>5. GotOK'
    BY <1>0, <1>6 DEF TypeOK, GotOK, cacheVars, ServerGet, Goto
  <2>6. OpOK'
    BY <1>0, <1>6 DEF TypeOK, OpOK, cacheVars, ServerGet, Goto
  <2> QED BY <2>1, <2>2, <2>3, <2>4, <2>5, <2>6, Zenon DEF RInv
<1>7. ASSUME NEW c \in Client, Flush(c) PROVE RInv'
  <2>1. Kept'
    BY <1>0, <1>7 DEF TypeOK, Kept, AllUp, Removing, FlushOK, Flush, Goto
  <2>2. DataOK'
    BY <1>0, <1>7 DEF TypeOK, DataOK, Flush, Goto
  <2>3. FlushOK'
    BY <1>0, <1>7 DEF TypeOK, FlushOK, Flush, Goto
  <2>4. PutOK'
    BY <1>0, <1>7 DEF TypeOK, PutOK, Flush, Goto
  <2>5. GotOK'
    BY <1>0, <1>7 DEF TypeOK, GotOK, Flush, Goto
  <2>6. OpOK'
    BY <1>0, <1>7 DEF TypeOK, OpOK, Flush, Goto
  <2> QED BY <2>1, <2>2, <2>3, <2>4, <2>5, <2>6, Zenon DEF RInv
<1>8. ASSUME NEW c \in Client, ServerPut(c) PROVE RInv'
  <2>1. Kept'
    BY <1>0, <1>8 DEF TypeOK, Kept, AllUp, Removing, cacheVars, ServerPut, Goto
  <2>2. DataOK'
    BY <1>0, <1>8 DEF TypeOK, DataOK, cacheVars, ServerPut, Goto
  <2>3. FlushOK'
    BY <1>0, <1>8 DEF TypeOK, FlushOK, cacheVars, ServerPut, Goto
  <2>4. PutOK'
    BY <1>0, <1>8 DEF TypeOK, PutOK, Kept, LockOK, Removing, cacheVars, ServerPut, Goto
  <2>5. GotOK'
    BY <1>0, <1>8 DEF TypeOK, GotOK, LockOK, Removing, cacheVars, ServerPut, Goto
  <2>6. OpOK'
    BY <1>0, <1>8 DEF TypeOK, OpOK, cacheVars, ServerPut, Goto
  <2> QED BY <2>1, <2>2, <2>3, <2>4, <2>5, <2>6, Zenon DEF RInv
<1>9. ASSUME NEW c \in Client, Clear(c) PROVE RInv'
  <2>1. Kept'
    BY <1>0, <1>9 DEF TypeOK, Kept, AllUp, Removing, Clear, Goto
  <2>2. DataOK'
    BY <1>0, <1>9 DEF TypeOK, DataOK, CallOK, Clear, Goto
  <2>3. FlushOK'
    BY <1>0, <1>9 DEF TypeOK, FlushOK, LockOK, Removing, Clear, Goto
  <2>4. PutOK'
    BY <1>0, <1>9 DEF TypeOK, PutOK, Clear, Goto
  <2>5. GotOK'
    BY <1>0, <1>9 DEF TypeOK, GotOK, Clear, Goto
  <2>6. OpOK'
    BY <1>0, <1>9 DEF TypeOK, OpOK, LockOK, Removing, Clear, Goto
  <2> QED BY <2>1, <2>2, <2>3, <2>4, <2>5, <2>6, Zenon DEF RInv
<1>10. ASSUME NEW c \in Client, ServerOwn(c) PROVE RInv'
  <2>1. Kept'
    BY <1>0, <1>10 DEF TypeOK, Kept, AllUp, Removing, cacheVars, ServerOwn, Goto
  <2>2. DataOK'
    BY <1>0, <1>10 DEF TypeOK, DataOK, LockOK, Removing, cacheVars, ServerOwn, Goto
  <2>3. FlushOK'
    BY <1>0, <1>10 DEF TypeOK, FlushOK, cacheVars, ServerOwn, Goto
  <2>4. PutOK'
    BY <1>0, <1>10 DEF TypeOK, PutOK, cacheVars, ServerOwn, Goto
  <2>5. GotOK'
    BY <1>0, <1>10 DEF TypeOK, GotOK, OwnOK, Kept, cacheVars, ServerOwn, Goto
  <2>6. OpOK'
    BY <1>0, <1>10 DEF TypeOK, OpOK, cacheVars, ServerOwn, Goto
  <2> QED BY <2>1, <2>2, <2>3, <2>4, <2>5, <2>6, Zenon DEF RInv
<1>11. ASSUME NEW c \in Client, GetReturn(c) PROVE RInv'
  <2>1. Kept'
    BY <1>0, <1>11 DEF TypeOK, Kept, AllUp, Removing, GetReturn, Goto
  <2>2. DataOK'
    BY <1>0, <1>11 DEF TypeOK, DataOK, RetOK, LockOK, Removing, GetReturn, Goto
  <2>3. FlushOK'
    BY <1>0, <1>11 DEF TypeOK, FlushOK, GetReturn, Goto
  <2>4. PutOK'
    BY <1>0, <1>11 DEF TypeOK, PutOK, LockOK, Removing, GetReturn, Goto
  <2>5. GotOK'
    BY <1>0, <1>11 DEF TypeOK, GotOK, LockOK, Removing, GetReturn, Goto
  <2>6. OpOK'
    BY <1>0, <1>11 DEF TypeOK, OpOK, GetReturn, Goto
  <2> QED BY <2>1, <2>2, <2>3, <2>4, <2>5, <2>6, Zenon DEF RInv
<1>12. ASSUME NEW c \in Client, Finish(c) PROVE RInv'
  <2>1. Kept'
    BY <1>0, <1>12 DEF TypeOK, Kept, AllUp, Removing, Finish, Idle, Goto
  <2>2. DataOK'
    BY <1>0, <1>12 DEF TypeOK, DataOK, Finish, Idle, Goto
  <2>3. FlushOK'
    BY <1>0, <1>12 DEF TypeOK, FlushOK, Finish, Idle, Goto
  <2>4. PutOK'
    BY <1>0, <1>12 DEF TypeOK, PutOK, LockOK, Removing, Finish, Idle, Goto
  <2>5. GotOK'
    BY <1>0, <1>12 DEF TypeOK, GotOK, Finish, Idle, Goto
  <2>6. OpOK'
    BY <1>0, <1>12 DEF TypeOK, OpOK, Finish, Idle, Goto
  <2> QED BY <2>1, <2>2, <2>3, <2>4, <2>5, <2>6, Zenon DEF RInv
<1>13. ASSUME UNCHANGED vars PROVE RInv'
  BY <1>0, <1>13 DEF RInv, Kept, DataOK, FlushOK, PutOK, GotOK, OpOK, AllUp, vars, cacheVars
<1>14. ASSUME NEW c \in Client
      PROVE  /\ ~Remove(c) /\ ~Create(c)
             /\ ~ServerRemove(c) /\ ~RemoveClear(c) /\ ~RemoveFile(c)
  BY <1>0 DEF Kept, Removing, Remove, Create, ServerRemove, RemoveClear, RemoveFile
<1> QED BY <1>1, <1>2, <1>3, <1>4, <1>5, <1>6, <1>7, <1>8, <1>9, <1>10, <1>11,
           <1>12, <1>13, <1>14 DEF Next, Caching

(* Begin is the call of a read or a write and Finish its effect; every     *)
(* other step keeps the contents and is a stutter.                         *)
LEMMA StepRefines ==
  ASSUME linked' = "first", GInv, RInv, GInv', RInv', [Next]_vars
  PROVE  [Abstract!RegisterNext]_(Abstract!registerVars)
<1> USE CacheAssumption
<1>f. linked' = linked
  BY FirstStep
<1>0. /\ TypeOK /\ LockOK /\ SingleOwner /\ OwnOK /\ CallOK /\ RetOK /\ TypeOK' /\ SingleOwner'
      /\ Kept /\ DataOK /\ FlushOK /\ PutOK /\ GotOK /\ OpOK
  BY Zenon DEF GInv, RInv
<1>s. ASSUME Contents' = Contents, got' = got, Reading' = Reading, Writing' = Writing
      PROVE  [Abstract!RegisterNext]_(Abstract!registerVars)
  BY <1>f, <1>s DEF Abstract!registerVars
<1>k. ASSUME UNCHANGED <<lock, op, new>>, Contents' = Contents, got' = got
      PROVE  [Abstract!RegisterNext]_(Abstract!registerVars)
  BY <1>k, <1>s DEF Reading, Writing
<1>n. ASSUME lock = NONE PROVE Reading = {} /\ Writing = [d \in Client |-> {}]
  BY <1>n DEF Reading, Writing
<1>n2. ASSUME lock' = NONE PROVE Reading' = {} /\ Writing' = [d \in Client |-> {}]
  BY <1>n2 DEF Reading, Writing
<1>1. ASSUME NEW c \in Client, Begin(c) PROVE [Abstract!RegisterNext]_(Abstract!registerVars)
  <2>1. Contents' = Contents /\ got' = got
    BY <1>0, <1>1 DEF TypeOK, Contents, cacheVars, Begin, Goto
  <2>2. Reading = {} /\ Writing = [d \in Client |-> {}]
    BY <1>1, <1>n DEF Begin
  <2>3. PICK o \in {"read", "write", "stat"}, v \in Value :
          op' = [op EXCEPT ![c] = o] /\ new' = [new EXCEPT ![c] = v]
    BY <1>1 DEF Begin
  <2>4. lock' = c /\ op'[c] = o /\ new'[c] = v
    BY <1>0, <1>1, <2>3 DEF TypeOK, Begin
  <2>5. CASE o = "read"
    <3>1. Reading' = {c} /\ Writing' = [d \in Client |-> {}]
      BY <2>4, <2>5 DEF Reading, Writing
    <3>2. Reading' = Reading \cup {c} /\ Writing' = Writing
      BY <2>2, <3>1
    <3> QED BY <1>f, <2>1, <3>2 DEF Abstract!RegisterNext, Abstract!CallRead
  <2>6. CASE o = "write"
    <3>1. Reading' = {} /\ Writing' = [d \in Client |-> IF d = c THEN {v} ELSE {}]
      BY <2>4, <2>6 DEF Reading, Writing
    <3>2. Reading' = Reading /\ Writing' = [Writing EXCEPT ![c] = {v}]
      BY <2>2, <3>1
    <3> QED BY <1>f, <2>1, <3>2 DEF Abstract!RegisterNext, Abstract!CallWrite
  <2>7. CASE o = "stat"
    <3>1. Reading' = {} /\ Writing' = [d \in Client |-> {}]
      BY <2>4, <2>7 DEF Reading, Writing
    <3> QED BY <1>s, <2>1, <2>2, <3>1
  <2> QED BY <2>3, <2>5, <2>6, <2>7
<1>2. ASSUME NEW c \in Client, Get(c) PROVE [Abstract!RegisterNext]_(Abstract!registerVars)
  <2>1. Contents' = Contents /\ got' = got
    BY <1>0, <1>2 DEF TypeOK, Contents, cacheVars, Get, Goto
  <2>2. UNCHANGED <<lock, op, new>>
    BY <1>2 DEF Get
  <2> QED BY <1>k, <2>1, <2>2
<1>3. ASSUME NEW c \in Client, Getattr(c) PROVE [Abstract!RegisterNext]_(Abstract!registerVars)
  <2>1. Contents' = Contents /\ got' = got
    BY <1>0, <1>3 DEF TypeOK, Contents, cacheVars, Getattr, AfterAttr, Goto
  <2>2. UNCHANGED <<lock, op, new>>
    BY <1>3 DEF Getattr
  <2> QED BY <1>k, <2>1, <2>2
<1>4. ASSUME NEW c \in Client, ServerGetattr(c) PROVE [Abstract!RegisterNext]_(Abstract!registerVars)
  <2>1. Contents' = Contents /\ got' = got
    BY <1>0, <1>4 DEF TypeOK, Contents, ServerGetattr, KeepMeta, AfterAttr, Goto
  <2>2. UNCHANGED <<lock, op, new>>
    BY <1>4 DEF ServerGetattr
  <2> QED BY <1>k, <2>1, <2>2
<1>5. ASSUME NEW c \in Client, SyncMeta(c) PROVE [Abstract!RegisterNext]_(Abstract!registerVars)
  <2>1. Contents' = Contents /\ got' = got
    BY <1>0, <1>5 DEF TypeOK, Contents, SyncMeta, KeepMeta, AfterAttr, Goto
  <2>2. UNCHANGED <<lock, op, new>>
    BY <1>5 DEF SyncMeta
  <2> QED BY <1>k, <2>1, <2>2
<1>6. ASSUME NEW c \in Client, ServerGet(c) PROVE [Abstract!RegisterNext]_(Abstract!registerVars)
  <2>1. Contents' = Contents /\ got' = got
    BY <1>0, <1>6 DEF TypeOK, Contents, cacheVars, ServerGet, Goto
  <2>2. UNCHANGED <<lock, op, new>>
    BY <1>6 DEF ServerGet
  <2> QED BY <1>k, <2>1, <2>2
<1>7. ASSUME NEW c \in Client, Flush(c) PROVE [Abstract!RegisterNext]_(Abstract!registerVars)
  <2>1. Contents' = Contents /\ got' = got
    BY <1>0, <1>7 DEF TypeOK, Contents, Flush, Goto
  <2>2. UNCHANGED <<lock, op, new>>
    BY <1>7 DEF Flush
  <2> QED BY <1>k, <2>1, <2>2
<1>8. ASSUME NEW c \in Client, ServerPut(c) PROVE [Abstract!RegisterNext]_(Abstract!registerVars)
  <2>1. Contents' = Contents /\ got' = got
    BY <1>0, <1>8 DEF TypeOK, Contents, FlushOK, PutOK, CallOK, Kept, cacheVars,
                      ServerPut, Goto
  <2>2. UNCHANGED <<lock, op, new>>
    BY <1>8 DEF ServerPut
  <2> QED BY <1>k, <2>1, <2>2
<1>9. ASSUME NEW c \in Client, Clear(c) PROVE [Abstract!RegisterNext]_(Abstract!registerVars)
  <2>1. Contents' = Contents /\ got' = got
    BY <1>0, <1>9 DEF TypeOK, Contents, CallOK, FlushOK, PutOK, Clear, Goto
  <2>2. UNCHANGED <<lock, op, new>>
    BY <1>9 DEF Clear
  <2> QED BY <1>k, <2>1, <2>2
<1>10. ASSUME NEW c \in Client, ServerOwn(c) PROVE [Abstract!RegisterNext]_(Abstract!registerVars)
  <2>1. Contents' = Contents /\ got' = got
    BY <1>0, <1>10 DEF TypeOK, Contents, OwnOK, cacheVars, ServerOwn, Goto
  <2>2. UNCHANGED <<lock, op, new>>
    BY <1>10 DEF ServerOwn
  <2> QED BY <1>k, <2>1, <2>2
<1>11. ASSUME NEW c \in Client, GetReturn(c) PROVE [Abstract!RegisterNext]_(Abstract!registerVars)
  <2>1. Contents' = Contents /\ got' = got
    BY <1>0, <1>11 DEF TypeOK, Contents, RetOK, GotOK, SingleOwner, GetReturn, Goto
  <2>2. UNCHANGED <<lock, op, new>>
    BY <1>11 DEF GetReturn
  <2> QED BY <1>k, <2>1, <2>2
<1>12. ASSUME NEW c \in Client, Finish(c) PROVE [Abstract!RegisterNext]_(Abstract!registerVars)
  <2>0. lock = c /\ Reading' = {} /\ Writing' = [d \in Client |-> {}]
    BY <1>0, <1>12, <1>n2 DEF LockOK, Removing, Finish
  <2>1. CASE op[c] = "read"
    <3>1. Contents = data[c] /\ Contents' = Contents /\ got' = [got EXCEPT ![c] = data[c]]
      BY <1>0, <1>12, <2>1 DEF TypeOK, OpOK, SingleOwner, Contents, Finish
    <3>2. Reading = {c} /\ Writing = [d \in Client |-> {}]
      BY <2>0, <2>1 DEF Reading, Writing
    <3>3. c \in Reading /\ Reading' = Reading \ {c} /\ Writing' = Writing
      BY <2>0, <3>2
    <3>4. got' = [got EXCEPT ![c] = Contents]
      BY <3>1
    <3> QED BY <1>f, <3>1, <3>3, <3>4 DEF Abstract!RegisterNext, Abstract!Read
  <2>2. CASE op[c] = "write"
    <3>1. Contents' = new[c] /\ new[c] \in Value /\ got' = got
      BY <1>0, <1>12, <2>2 DEF TypeOK, OpOK, SingleOwner, Contents, Finish
    <3>2. Reading = {} /\ Writing = [d \in Client |-> IF d = c THEN {new[c]} ELSE {}]
      BY <2>0, <2>2 DEF Reading, Writing
    <3>3. Writing[c] = {new[c]} /\ Writing' = [Writing EXCEPT ![c] = {}]
      BY <2>0, <3>2
    <3>4. Reading' = Reading /\ Writing[c] # {} /\ Contents' \in Writing[c]
      BY <2>0, <3>1, <3>2, <3>3
    <3> QED BY <1>f, <3>1, <3>3, <3>4 DEF Abstract!RegisterNext, Abstract!Write
  <2>3. CASE op[c] = "stat"
    <3>1. Contents' = Contents /\ got' = got
      BY <1>0, <1>12, <2>3 DEF TypeOK, Contents, Finish
    <3>2. Reading = {} /\ Writing = [d \in Client |-> {}]
      BY <2>0, <2>3 DEF Reading, Writing
    <3> QED BY <1>s, <2>0, <3>1, <3>2
  <2> QED BY <1>0, <2>1, <2>2, <2>3 DEF TypeOK
<1>13. ASSUME UNCHANGED vars PROVE [Abstract!RegisterNext]_(Abstract!registerVars)
  BY <1>13, <1>k DEF Contents, vars, cacheVars
<1>14. ASSUME NEW c \in Client
      PROVE  /\ ~Remove(c) /\ ~Create(c)
             /\ ~ServerRemove(c) /\ ~RemoveClear(c) /\ ~RemoveFile(c)
  BY <1>0 DEF Kept, Removing, Remove, Create, ServerRemove, RemoveClear, RemoveFile
<1> QED BY <1>1, <1>2, <1>3, <1>4, <1>5, <1>6, <1>7, <1>8, <1>9, <1>10,
           <1>11, <1>12, <1>13, <1>14 DEF Next, Caching

-----------------------------------------------------------------------------
(* The initial states. *)
LEMMA Initially == ASSUME Init PROVE GInv /\ RInv /\ Abstract!RegisterInit
<1> USE CacheAssumption DEF Init
<1>1. TypeOK
  BY DEF TypeOK, Label
<1>2. LockOK /\ SingleOwner /\ OwnOK /\ CallOK /\ RetOK
  BY DEF LockOK, SingleOwner, OwnOK, CallOK, RetOK, Removing
<1>3. Kept /\ DataOK /\ FlushOK /\ PutOK /\ GotOK /\ OpOK
  BY DEF Kept, AllUp, DataOK, FlushOK, PutOK, GotOK, OpOK, Removing
<1>4. Contents = Empty
  BY DEF Contents
<1>5. Reading = {} /\ Writing = [d \in Client |-> {}]
  BY DEF Reading, Writing
<1>6. GInv /\ RInv
  BY <1>1, <1>2, <1>3 DEF GInv, RInv
<1> QED BY <1>4, <1>5, <1>6 DEF Abstract!RegisterInit

(* owner_map names the one client that has the extent in its cache, for    *)
(* any number of clients, and also when files are removed and inums used   *)
(* again.                                                                  *)
THEOREM SingleOwnerHolds == Spec => []SingleOwner
<1>1. Init => GInv
  BY Initially
<1>2. GInv /\ [Next]_vars => GInv'
  BY GStep
<1>3. GInv => SingleOwner
  BY DEF GInv
<1> QED BY <1>1, <1>2, <1>3, PTL DEF Spec

RInvUntilRemoved == linked = "first" => RInv

(* As long as the extent has not been removed flush_handler always finds   *)
(* what it is asked for, so no client exits, and the server always finds   *)
(* the inode.                                                              *)
THEOREM NeverOopsHolds == Spec => []NeverOops
<1>1. Init => GInv /\ RInvUntilRemoved
  BY Initially DEF RInvUntilRemoved
<1>2. GInv /\ RInvUntilRemoved /\ [Next]_vars => GInv' /\ RInvUntilRemoved'
  BY GStep, RStep, FirstStep DEF RInvUntilRemoved
<1>3. RInvUntilRemoved => NeverOops
  BY DEF RInvUntilRemoved, RInv, Kept, NeverOops
<1> QED BY <1>1, <1>2, <1>3, PTL DEF Spec

(* Until the extent is removed the caches, the owner map and the flush     *)
(* callbacks together implement one copy of it: a read returns what the    *)
(* last write stored, on whichever client.                                 *)
THEOREM RegisterHolds == Spec => ImplementsRegister
<1>1. Init => GInv /\ RInvUntilRemoved /\ Abstract!RegisterInit
  BY Initially DEF RInvUntilRemoved
<1>2. GInv /\ RInvUntilRemoved /\ [Next]_vars => GInv' /\ RInvUntilRemoved'
  BY GStep, RStep, FirstStep DEF RInvUntilRemoved
<1>3. ASSUME GInv, RInvUntilRemoved, GInv', RInvUntilRemoved', [Next]_vars
      PROVE  [Abstract!RegisterNext]_(Abstract!registerVars)
  <2>1. CASE linked' = "first"
    <3>1. RInv /\ RInv'
      BY <1>3, <2>1, FirstStep DEF RInvUntilRemoved
    <3> QED BY <1>3, <2>1, <3>1, StepRefines
  <2>2. CASE linked' # "first"
    BY <2>2 DEF Abstract!RegisterNext
  <2> QED BY <2>1, <2>2
<1> QED BY <1>1, <1>2, <1>3, PTL DEF Spec, ImplementsRegister, Abstract!RegisterSpec

=============================================================================
