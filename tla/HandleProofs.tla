----------------------------- MODULE HandleProofs -----------------------------
(***************************************************************************)
(* The reference counts of src/handle.cc are exact and no entry is used    *)
(* after it was freed, for every set of threads, members and addresses.    *)
(***************************************************************************)
EXTENDS Handle, FiniteSetTheorems, TLAPS

(* hmap and the live entries are inverse to each other. *)
MapOK ==
  /\ \A m \in Member : hmap[m] # NULL => info[hmap[m]] # NULL /\ info[hmap[m]].m = m
  /\ \A a \in Address : info[a] # NULL => hmap[info[a].m] = a

(* A thread without a handle refers to nothing; a connection a thread got  *)
(* from safebind() is the one its entry still has.                         *)
HandleOK ==
  /\ \A t \in Thread : pc[t] = "idle" => h[t] = NULL
  /\ \A t \in Thread : conn[t] => h[t] # NULL /\ info[h[t]].cl

(* RefcntExact needs NoUseAfterFree (a freed entry has no user when its    *)
(* address is handed out again), which needs RefcntExact (the entry with   *)
(* one reference left is used by nobody else).                             *)
IInv ==
  /\ TypeOK /\ MapOK /\ HandleOK
  /\ NoUseAfterFree /\ RefcntExact /\ OneBinder
  /\ \A t \in Thread : pc[t] = "calling" => conn[t]
  /\ DeletedIsReferenced

USE NullAssumption, NullIsNoEntry DEF Label

(* How many handles refer to an entry after a step in which one thread's   *)
(* handle changed: the three ways h can change.                            *)
LEMMA UsersFinite == \A a : IsFiniteSet(Users(a)) /\ Cardinality(Users(a)) \in Nat
BY FS_Subset, FS_CardinalityType DEF Users

LEMMA UserAdded ==
  ASSUME TypeOK, NEW t \in Thread, NEW a \in Address, h[t] = NULL,
         h' = [h EXCEPT ![t] = a]
  PROVE  /\ Cardinality(Users(a)') = Cardinality(Users(a)) + 1
         /\ \A b \in Address \ {a} : Users(b)' = Users(b)
<1>1. Users(a)' = Users(a) \cup {t} /\ t \notin Users(a)
  BY DEF Users, TypeOK
<1>2. \A b \in Address \ {a} : Users(b)' = Users(b)
  BY DEF Users, TypeOK
<1> QED
  BY <1>1, <1>2, UsersFinite, FS_AddElement

LEMMA UserRemoved ==
  ASSUME TypeOK, NEW t \in Thread, NEW a \in Address, h[t] = a,
         h' = [h EXCEPT ![t] = NULL]
  PROVE  /\ Cardinality(Users(a)') = Cardinality(Users(a)) - 1
         /\ \A b \in Address \ {a} : Users(b)' = Users(b)
         /\ Cardinality(Users(a)) = 1 => \A u \in Thread \ {t} : h[u] # a
         /\ Cardinality(Users(a)) # 1 => \E u \in Thread \ {t} : h[u] = a
<1>1. t \in Users(a) /\ Users(a)' = Users(a) \ {t}
  BY DEF Users, TypeOK
<1>2. \A b \in Address \ {a} : Users(b)' = Users(b)
  BY DEF Users, TypeOK
<1>3. /\ IsFiniteSet(Users(a) \ {t})
      /\ Cardinality(Users(a) \ {t}) = Cardinality(Users(a)) - 1
  BY <1>1, UsersFinite, FS_RemoveElement
<1>4. Cardinality(Users(a) \ {t}) = 0 <=> Users(a) \ {t} = {}
  BY <1>3, FS_EmptySet
<1>5. Cardinality(Users(a)) \in Nat
  BY UsersFinite
<1>6. Cardinality(Users(a)) = 1 <=> Users(a) \ {t} = {}
  BY <1>3, <1>4, <1>5
<1> QED
  BY <1>1, <1>2, <1>3, <1>6 DEF Users

(* Nothing is open and nothing is cached at the start. *)
LEMMA InitIInv == Init => IInv
<1> SUFFICES ASSUME Init PROVE IInv
  OBVIOUS
<1> USE DEF Init
<1>1. TypeOK /\ MapOK /\ HandleOK
  BY DEF TypeOK, MapOK, HandleOK
<1>2. NoUseAfterFree /\ RefcntExact /\ OneBinder /\ DeletedIsReferenced
  BY DEF NoUseAfterFree, RefcntExact, OneBinder, DeletedIsReferenced
<1> QED
  BY <1>1, <1>2 DEF IInv

(* A step that changes cl, del or owner of one live entry and nothing else *)
(* the cache refers to.                                                    *)
LEMMA EntryStep ==
  ASSUME IInv, NEW a \in Address, NEW e \in HInfo, info[a] # NULL,
         e.m = info[a].m, e.refcnt = info[a].refcnt,
         info' = [info EXCEPT ![a] = e], UNCHANGED <<hmap, h, to>>
  PROVE  /\ info' \in [Address -> HInfo \cup {NULL}]
         /\ info'[a] = e
         /\ \A b \in Address \ {a} : info'[b] = info[b]
         /\ MapOK' /\ NoUseAfterFree' /\ RefcntExact'
<1>1. /\ info' \in [Address -> HInfo \cup {NULL}]
      /\ info'[a] = e /\ e # NULL
      /\ \A b \in Address \ {a} : info'[b] = info[b]
  BY DEF IInv, TypeOK, HInfo
<1>2. MapOK'
  BY <1>1 DEF IInv, TypeOK, MapOK
<1>3. NoUseAfterFree'
  BY <1>1 DEF IInv, TypeOK, NoUseAfterFree
<1>4. \A b \in Address : Users(b)' = Users(b)
  BY DEF Users
<1>5. RefcntExact'
  BY <1>1, <1>4 DEF IInv, RefcntExact
<1> QED
  BY <1>1, <1>2, <1>3, <1>5

(* safebind() without a bind changes no entry. *)
LEMMA SafebindKnownStep ==
  ASSUME IInv, NEW t \in Thread, SafebindKnown(t)
  PROVE  IInv'
<1> USE DEF IInv, SafebindKnown, Goto, TypeOK
<1>1. TypeOK'
  OBVIOUS
<1>2. MapOK' /\ NoUseAfterFree' /\ DeletedIsReferenced'
  BY DEF MapOK, NoUseAfterFree, DeletedIsReferenced
<1>3. RefcntExact'
  BY DEF RefcntExact, Users
<1>4. HandleOK'
  BY DEF HandleOK
<1>5. OneBinder' /\ \A u \in Thread : pc'[u] = "calling" => conn'[u]
  BY DEF OneBinder
<1> QED
  BY <1>1, <1>2, <1>3, <1>4, <1>5

(* cl_mutex is taken when nobody has it. *)
LEMMA SafebindNewStep ==
  ASSUME IInv, NEW t \in Thread, SafebindNew(t)
  PROVE  IInv'
<1> DEFINE e == [info[h[t]] EXCEPT !.owner = t]
<1>0. /\ h[t] \in Address /\ info[h[t]] \in HInfo /\ info[h[t]] # NULL
      /\ e \in HInfo /\ info' = [info EXCEPT ![h[t]] = e]
  BY DEF IInv, TypeOK, NoUseAfterFree, SafebindNew, HInfo
<1>1. /\ pc' \in [Thread -> Label] /\ pc'[t] = "binding"
      /\ \A u \in Thread \ {t} : pc'[u] = pc[u]
      /\ UNCHANGED <<hmap, h, conn, to>>
  BY DEF IInv, TypeOK, SafebindNew, Goto
<1>2. /\ info' \in [Address -> HInfo \cup {NULL}] /\ info'[h[t]] = e
      /\ \A b \in Address \ {h[t]} : info'[b] = info[b]
      /\ MapOK' /\ NoUseAfterFree' /\ RefcntExact'
  BY <1>0, <1>1, EntryStep DEF HInfo
<1>3. /\ e.cl = info[h[t]].cl /\ e.del = info[h[t]].del /\ e.owner = t
      /\ info[h[t]].owner = NULL /\ pc[t] = "open" /\ ~info[h[t]].cl
  BY <1>0 DEF HInfo, SafebindNew
<1> HIDE DEF e
<1>4. TypeOK'
  BY <1>1, <1>2 DEF IInv, TypeOK
<1>5. HandleOK'
  BY <1>1, <1>2, <1>3 DEF IInv, TypeOK, HandleOK
<1>6. OneBinder'
  BY <1>0, <1>1, <1>2, <1>3 DEF IInv, TypeOK, OneBinder
<1>7. DeletedIsReferenced'
  BY <1>1, <1>2, <1>3 DEF IInv, TypeOK, DeletedIsReferenced
<1>8. \A u \in Thread : pc'[u] = "calling" => conn'[u]
  BY <1>1 DEF IInv
<1> QED
  BY <1>2, <1>4, <1>5, <1>6, <1>7, <1>8 DEF IInv

(* The binder attaches the connection and gives cl_mutex back. *)
LEMMA BindSucceedsStep ==
  ASSUME IInv, NEW t \in Thread, BindSucceeds(t)
  PROVE  IInv'
<1> DEFINE e == [info[h[t]] EXCEPT !.cl = TRUE, !.owner = NULL]
<1>0. /\ h[t] \in Address /\ info[h[t]] \in HInfo /\ info[h[t]] # NULL
      /\ e \in HInfo /\ info' = [info EXCEPT ![h[t]] = e]
      /\ info[h[t]].owner = t /\ ~info[h[t]].cl
  BY DEF IInv, TypeOK, NoUseAfterFree, OneBinder, BindSucceeds, HInfo
<1>1. /\ pc' \in [Thread -> Label] /\ pc'[t] = "bound" /\ pc[t] = "binding"
      /\ \A u \in Thread \ {t} : pc'[u] = pc[u]
      /\ conn' \in [Thread -> BOOLEAN] /\ conn'[t] = TRUE
      /\ \A u \in Thread \ {t} : conn'[u] = conn[u]
      /\ UNCHANGED <<hmap, h, to>>
  BY DEF IInv, TypeOK, BindSucceeds, Goto
<1>2. /\ info' \in [Address -> HInfo \cup {NULL}] /\ info'[h[t]] = e
      /\ \A b \in Address \ {h[t]} : info'[b] = info[b]
      /\ MapOK' /\ NoUseAfterFree' /\ RefcntExact'
  BY <1>0, <1>1, EntryStep DEF HInfo
<1>3. e.cl /\ e.del = info[h[t]].del /\ e.owner = NULL
  BY <1>0 DEF HInfo
<1> HIDE DEF e
<1>4. TypeOK'
  BY <1>1, <1>2 DEF IInv, TypeOK
<1>5. HandleOK'
  BY <1>0, <1>1, <1>2, <1>3 DEF IInv, TypeOK, HandleOK
<1>6. OneBinder'
  BY <1>0, <1>1, <1>2, <1>3 DEF IInv, TypeOK, OneBinder
<1>7. DeletedIsReferenced'
  BY <1>0, <1>1, <1>2, <1>3 DEF IInv, TypeOK, DeletedIsReferenced
<1>8. \A u \in Thread : pc'[u] = "calling" => conn'[u]
  BY <1>1 DEF IInv
<1> QED
  BY <1>2, <1>4, <1>5, <1>6, <1>7, <1>8 DEF IInv

(* The binder marks the entry its own handle keeps referenced. *)
LEMMA BindFailsStep ==
  ASSUME IInv, NEW t \in Thread, BindFails(t)
  PROVE  IInv'
<1> DEFINE e == [info[h[t]] EXCEPT !.del = TRUE, !.owner = NULL]
<1>0. /\ h[t] \in Address /\ info[h[t]] \in HInfo /\ info[h[t]] # NULL
      /\ e \in HInfo /\ info' = [info EXCEPT ![h[t]] = e]
      /\ info[h[t]].owner = t /\ ~info[h[t]].cl
  BY DEF IInv, TypeOK, NoUseAfterFree, OneBinder, BindFails, HInfo
<1>1. /\ pc' \in [Thread -> Label] /\ pc'[t] = "bound" /\ pc[t] = "binding"
      /\ \A u \in Thread \ {t} : pc'[u] = pc[u]
      /\ conn' \in [Thread -> BOOLEAN] /\ conn'[t] = FALSE
      /\ \A u \in Thread \ {t} : conn'[u] = conn[u]
      /\ UNCHANGED <<hmap, h, to>>
  BY DEF IInv, TypeOK, BindFails, Goto
<1>2. /\ info' \in [Address -> HInfo \cup {NULL}] /\ info'[h[t]] = e
      /\ \A b \in Address \ {h[t]} : info'[b] = info[b]
      /\ MapOK' /\ NoUseAfterFree' /\ RefcntExact'
  BY <1>0, <1>1, EntryStep DEF HInfo
<1>3. e.cl = info[h[t]].cl /\ e.del /\ e.owner = NULL
  BY <1>0 DEF HInfo
<1> HIDE DEF e
<1>4. TypeOK'
  BY <1>1, <1>2 DEF IInv, TypeOK
<1>5. HandleOK'
  BY <1>0, <1>1, <1>2, <1>3 DEF IInv, TypeOK, HandleOK
<1>6. OneBinder'
  BY <1>0, <1>1, <1>2, <1>3 DEF IInv, TypeOK, OneBinder
<1>7. DeletedIsReferenced'
  BY <1>0, <1>1, <1>2, <1>3 DEF IInv, TypeOK, DeletedIsReferenced
<1>8. \A u \in Thread : pc'[u] = "calling" => conn'[u]
  BY <1>1 DEF IInv
<1> QED
  BY <1>2, <1>4, <1>5, <1>6, <1>7, <1>8 DEF IInv

(* The handle is asked again, called through, or the call returns: only    *)
(* the thread moves, or the process ends.                                  *)
LEMMA MoveStep ==
  ASSUME IInv, NEW t \in Thread, SafebindAgain(t) \/ Call(t) \/ CallReturns(t)
  PROVE  IInv'
<1>1. /\ pc' \in [Thread -> Label]
      /\ \A u \in Thread : pc'[u] = "idle" => pc[u] = "idle"
      /\ \A u \in Thread : pc'[u] = "binding" => pc[u] = "binding"
      /\ \A u \in Thread : pc'[u] = "calling" => conn[u]
      /\ UNCHANGED <<hmap, info, h, conn, to>>
  BY DEF IInv, TypeOK, SafebindAgain, Call, CallReturns, Goto
<1>2. TypeOK' /\ MapOK' /\ NoUseAfterFree' /\ DeletedIsReferenced'
  BY <1>1 DEF IInv, TypeOK, MapOK, NoUseAfterFree, DeletedIsReferenced
<1>3. RefcntExact'
  BY <1>1 DEF IInv, RefcntExact, Users
<1>4. HandleOK'
  BY <1>1 DEF IInv, HandleOK
<1>5. OneBinder'
  BY <1>1 DEF IInv, OneBinder
<1> QED
  BY <1>1, <1>2, <1>3, <1>4, <1>5 DEF IInv

(* get_handle refers to a new entry at an address nobody refers to. *)
LEMMA GetNewStep ==
  ASSUME IInv, NEW t \in Thread, NEW m \in Member, Open(t, m), GetNew(t, m)
  PROVE  IInv'
<1> DEFINE e == [cl |-> FALSE, refcnt |-> 1, del |-> FALSE, m |-> m, owner |-> NULL]
<1>1. PICK a \in Address : /\ info[a] = NULL
                           /\ info' = [info EXCEPT ![a] = e]
                           /\ hmap' = [hmap EXCEPT ![m] = a]
                           /\ h' = [h EXCEPT ![t] = a]
  BY DEF GetNew
<1>2. e \in HInfo /\ e # NULL /\ hmap[m] = NULL /\ h[t] = NULL /\ pc[t] = "idle"
  <2>1. e \in HInfo
    BY DEF HInfo
  <2> HIDE DEF e
  <2> QED
    BY <2>1 DEF GetNew, Open, IInv, HandleOK
<1>3. e.cl = FALSE /\ e.refcnt = 1 /\ ~e.del /\ e.m = m
  OBVIOUS
<1> HIDE DEF e
<1>4. /\ info' \in [Address -> HInfo \cup {NULL}] /\ info'[a] = e
      /\ \A b \in Address \ {a} : info'[b] = info[b]
      /\ hmap' \in [Member -> Address \cup {NULL}] /\ hmap'[m] = a
      /\ \A n \in Member \ {m} : hmap'[n] = hmap[n]
      /\ h' \in [Thread -> Address \cup {NULL}] /\ h'[t] = a
      /\ \A u \in Thread \ {t} : h'[u] = h[u]
  BY <1>1, <1>2 DEF IInv, TypeOK
<1>5. /\ to' \in [Thread -> Member \cup {NULL}] /\ to'[t] = m
      /\ \A u \in Thread \ {t} : to'[u] = to[u]
      /\ pc' \in [Thread -> Label] /\ pc'[t] = "open"
      /\ \A u \in Thread \ {t} : pc'[u] = pc[u]
      /\ conn' = conn
  BY DEF IInv, TypeOK, Open, Goto
<1>6. \A u \in Thread : h[u] # a /\ (h[u] # NULL => info[h[u]] # NULL)
  BY <1>1 DEF IInv, NoUseAfterFree
<1>7. Users(a) = {}
  BY <1>6 DEF Users
<1>8. /\ Cardinality(Users(a)') = 1
      /\ \A b \in Address \ {a} : Users(b)' = Users(b)
  <2>1. Cardinality(Users(a)) = 0
    BY <1>7, FS_EmptySet
  <2>2. TypeOK
    BY DEF IInv
  <2>3. /\ Cardinality(Users(a)') = Cardinality(Users(a)) + 1
        /\ \A b \in Address \ {a} : Users(b)' = Users(b)
    BY <1>1, <1>2, <2>2, UserAdded
  <2> QED
    BY <2>1, <2>3
<1>9. \A b \in Address : info[b] # NULL => info[b].m \in Member /\ info[b].m # m
  BY <1>2 DEF IInv, MapOK, TypeOK, HInfo
<1>10. TypeOK'
  BY <1>4, <1>5 DEF IInv, TypeOK
<1>11. MapOK'
  BY <1>1, <1>2, <1>3, <1>4, <1>9 DEF IInv, MapOK, TypeOK
<1>12. HandleOK'
  BY <1>2, <1>4, <1>5, <1>6 DEF IInv, HandleOK, TypeOK
<1>13. NoUseAfterFree'
  BY <1>2, <1>3, <1>4, <1>5, <1>6, <1>9 DEF IInv, NoUseAfterFree, TypeOK
<1>14. RefcntExact'
  BY <1>3, <1>4, <1>8 DEF IInv, RefcntExact
<1>15. OneBinder'
  BY <1>4, <1>5, <1>6 DEF IInv, OneBinder, TypeOK
<1>16. DeletedIsReferenced'
  BY <1>1, <1>2, <1>3, <1>4 DEF IInv, DeletedIsReferenced, MapOK, TypeOK
<1>17. \A u \in Thread : pc'[u] = "calling" => conn'[u]
  BY <1>5 DEF IInv
<1> QED
  BY <1>10, <1>11, <1>12, <1>13, <1>14, <1>15, <1>16, <1>17 DEF IInv

(* get_handle adds one handle and one reference. *)
LEMMA GetKnownStep ==
  ASSUME IInv, NEW t \in Thread, NEW m \in Member, Open(t, m), GetKnown(t, m)
  PROVE  IInv'
<1>0. PICK a \in Address : a = hmap[m]
  BY DEF GetKnown, IInv, TypeOK
<1> DEFINE e == [info[a] EXCEPT !.refcnt = @ + 1]
<1>1. /\ info[a] \in HInfo /\ info[a] # NULL /\ info[a].m = m
      /\ h[t] = NULL /\ pc[t] = "idle" /\ hmap' = hmap
      /\ h' = [h EXCEPT ![t] = a] /\ info' = [info EXCEPT ![a] = e]
  BY <1>0 DEF GetKnown, Open, IInv, HandleOK, TypeOK, MapOK
<1>2. /\ e \in HInfo /\ e # NULL /\ e.refcnt = info[a].refcnt + 1
      /\ e.cl = info[a].cl /\ e.del = info[a].del /\ e.m = m
      /\ e.owner = info[a].owner
  BY <1>1 DEF HInfo
<1> HIDE DEF e
<1>3. /\ info' \in [Address -> HInfo \cup {NULL}] /\ info'[a] = e
      /\ \A b \in Address \ {a} : info'[b] = info[b]
      /\ h' \in [Thread -> Address \cup {NULL}] /\ h'[t] = a
      /\ \A u \in Thread \ {t} : h'[u] = h[u]
  BY <1>1, <1>2 DEF IInv, TypeOK
<1>4. /\ to' \in [Thread -> Member \cup {NULL}] /\ to'[t] = m
      /\ \A u \in Thread \ {t} : to'[u] = to[u]
      /\ pc' \in [Thread -> Label] /\ pc'[t] = "open"
      /\ \A u \in Thread \ {t} : pc'[u] = pc[u]
      /\ conn' = conn
  BY DEF IInv, TypeOK, Open, Goto
<1>5. /\ Cardinality(Users(a)') = Cardinality(Users(a)) + 1
      /\ \A b \in Address \ {a} : Users(b)' = Users(b)
  BY <1>1, UserAdded DEF IInv
<1>6. TypeOK'
  BY <1>1, <1>3, <1>4 DEF IInv, TypeOK
<1>7. MapOK'
  BY <1>1, <1>2, <1>3 DEF IInv, MapOK, TypeOK
<1>8. HandleOK'
  BY <1>1, <1>2, <1>3, <1>4 DEF IInv, HandleOK, TypeOK
<1>9. NoUseAfterFree'
  BY <1>0, <1>1, <1>2, <1>3, <1>4 DEF IInv, NoUseAfterFree, TypeOK
<1>10. RefcntExact'
  BY <1>1, <1>2, <1>3, <1>5 DEF IInv, RefcntExact
<1>11. OneBinder'
  BY <1>1, <1>2, <1>3, <1>4 DEF IInv, OneBinder, TypeOK
<1>12. DeletedIsReferenced'
  <2>1. ~info[a].del
    BY <1>0 DEF GetKnown
  <2> QED
    BY <1>1, <1>2, <1>3, <2>1 DEF IInv, DeletedIsReferenced, TypeOK
<1>13. \A u \in Thread : pc'[u] = "calling" => conn'[u]
  BY <1>4 DEF IInv
<1> QED
  BY <1>6, <1>7, <1>8, <1>9, <1>10, <1>11, <1>12, <1>13 DEF IInv

(* get_handle refuses an entry that is being deleted. *)
LEMMA GetDeletedStep ==
  ASSUME IInv, NEW t \in Thread, NEW m \in Member, Open(t, m), GetDeleted(t, m)
  PROVE  IInv'
<1>1. /\ to' \in [Thread -> Member \cup {NULL}]
      /\ \A u \in Thread \ {t} : to'[u] = to[u]
      /\ pc' \in [Thread -> Label] /\ pc'[t] = "open"
      /\ \A u \in Thread \ {t} : pc'[u] = pc[u]
      /\ UNCHANGED <<hmap, info, h, conn>> /\ h[t] = NULL
  BY DEF IInv, TypeOK, Open, Goto, GetDeleted, HandleOK
<1>2. TypeOK' /\ MapOK' /\ DeletedIsReferenced'
  BY <1>1 DEF IInv, TypeOK, MapOK, DeletedIsReferenced
<1>3. NoUseAfterFree' /\ HandleOK' /\ OneBinder'
  BY <1>1 DEF IInv, NoUseAfterFree, HandleOK, OneBinder
<1>4. RefcntExact' /\ \A u \in Thread : pc'[u] = "calling" => conn'[u]
  BY <1>1 DEF IInv, RefcntExact, Users
<1> QED
  BY <1>2, <1>3, <1>4 DEF IInv

(* What done_handle does to the thread. *)
LEMMA DoneMoves ==
  ASSUME IInv, NEW t \in Thread, Done(t)
  PROVE  /\ h' \in [Thread -> Address \cup {NULL}] /\ h'[t] = NULL
         /\ \A u \in Thread \ {t} : h'[u] = h[u]
         /\ to' \in [Thread -> Member \cup {NULL}]
         /\ \A u \in Thread \ {t} : to'[u] = to[u]
         /\ pc' \in [Thread -> Label] /\ pc'[t] = "idle"
         /\ \A u \in Thread \ {t} : pc'[u] = pc[u]
         /\ conn' \in [Thread -> BOOLEAN] /\ ~conn'[t]
         /\ \A u \in Thread \ {t} : conn'[u] = conn[u]
BY DEF IInv, TypeOK, Done, Goto

(* An empty handle goes away without a trace. *)
LEMMA DoneEmptyStep ==
  ASSUME IInv, NEW t \in Thread, Done(t), h[t] = NULL
  PROVE  IInv'
<1>1. UNCHANGED <<hmap, info, h>>
  BY DEF Done, IInv, TypeOK
<1>2. TypeOK' /\ MapOK' /\ DeletedIsReferenced'
  BY <1>1, DoneMoves DEF IInv, TypeOK, MapOK, DeletedIsReferenced
<1>3. NoUseAfterFree' /\ HandleOK' /\ OneBinder'
  BY <1>1, DoneMoves DEF IInv, NoUseAfterFree, HandleOK, OneBinder
<1>4. RefcntExact' /\ \A u \in Thread : pc'[u] = "calling" => conn'[u]
  BY <1>1, DoneMoves DEF IInv, RefcntExact, Users
<1> QED
  BY <1>2, <1>3, <1>4 DEF IInv

(* The last handle of a deleted entry frees it: no other handle refers to  *)
(* it, because refcnt is exact.                                            *)
LEMMA DoneFreesStep ==
  ASSUME IInv, NEW t \in Thread, Done(t), h[t] # NULL,
         info[h[t]].refcnt = 1, info[h[t]].del
  PROVE  IInv'
<1>1. PICK a \in Address : a = h[t]
  BY DEF IInv, TypeOK
<1>2. PICK m \in Member : m = info[a].m
  BY <1>1 DEF IInv, NoUseAfterFree, TypeOK, HInfo
<1>3. /\ info[a] # NULL /\ hmap[m] = a /\ to[t] = m /\ info[a].refcnt = 1
      /\ info' = [info EXCEPT ![a] = NULL] /\ hmap' = [hmap EXCEPT ![m] = NULL]
      /\ h' = [h EXCEPT ![t] = NULL]
  BY <1>1, <1>2 DEF Done, Free, IInv, NoUseAfterFree
<1>4. /\ info' \in [Address -> HInfo \cup {NULL}] /\ info'[a] = NULL
      /\ \A b \in Address \ {a} : info'[b] = info[b]
      /\ hmap' \in [Member -> Address \cup {NULL}] /\ hmap'[m] = NULL
      /\ \A n \in Member \ {m} : hmap'[n] = hmap[n]
  BY <1>3 DEF IInv, TypeOK
<1>5. Cardinality(Users(a)) = 1
  BY <1>3 DEF IInv, RefcntExact
<1>6. /\ \A b \in Address \ {a} : Users(b)' = Users(b)
      /\ \A u \in Thread \ {t} : h[u] # a
  BY <1>1, <1>3, <1>5, UserRemoved DEF IInv
<1>7. TypeOK'
  BY <1>4, DoneMoves DEF TypeOK
<1>8. MapOK'
  BY <1>2, <1>3, <1>4 DEF IInv, MapOK, TypeOK, HInfo
<1>9. HandleOK'
  BY <1>4, <1>6, DoneMoves DEF IInv, HandleOK, TypeOK
<1>10. NoUseAfterFree'
  BY <1>3, <1>4, <1>6, DoneMoves DEF IInv, NoUseAfterFree, TypeOK
<1>11. RefcntExact'
  BY <1>4, <1>6 DEF IInv, RefcntExact
<1>12. OneBinder'
  BY <1>4, <1>6, DoneMoves DEF IInv, OneBinder, TypeOK
<1>13. DeletedIsReferenced'
  BY <1>1, <1>3, <1>4, <1>6, DoneMoves DEF IInv, DeletedIsReferenced, MapOK, TypeOK
<1>14. \A u \in Thread : pc'[u] = "calling" => conn'[u]
  BY DoneMoves DEF IInv
<1> QED
  BY <1>7, <1>8, <1>9, <1>10, <1>11, <1>12, <1>13, <1>14 DEF IInv

(* Any other handle takes its reference with it; a deleted entry keeps at  *)
(* least one.                                                              *)
LEMMA DoneKeepsStep ==
  ASSUME IInv, NEW t \in Thread, Done(t), h[t] # NULL,
         ~(info[h[t]].refcnt = 1 /\ info[h[t]].del)
  PROVE  IInv'
<1>1. PICK a \in Address : a = h[t]
  BY DEF IInv, TypeOK
<1> DEFINE e == [info[a] EXCEPT !.refcnt = @ - 1]
<1>2. /\ info[a] \in HInfo /\ info[a] # NULL /\ hmap' = hmap
      /\ info' = [info EXCEPT ![a] = e] /\ h' = [h EXCEPT ![t] = NULL]
  BY <1>1 DEF Done, IInv, TypeOK, NoUseAfterFree
<1>3. /\ e \in HInfo /\ e # NULL /\ e.refcnt = info[a].refcnt - 1
      /\ e.cl = info[a].cl /\ e.del = info[a].del /\ e.m = info[a].m
      /\ e.owner = info[a].owner
  BY <1>2 DEF HInfo
<1> HIDE DEF e
<1>4. /\ info' \in [Address -> HInfo \cup {NULL}] /\ info'[a] = e
      /\ \A b \in Address \ {a} : info'[b] = info[b]
  BY <1>2, <1>3 DEF IInv, TypeOK
<1>5. /\ Cardinality(Users(a)') = Cardinality(Users(a)) - 1
      /\ \A b \in Address \ {a} : Users(b)' = Users(b)
      /\ Cardinality(Users(a)) # 1 => \E u \in Thread \ {t} : h[u] = a
  BY <1>1, <1>2, UserRemoved DEF IInv
<1>6. info[a].refcnt = Cardinality(Users(a))
  BY <1>2 DEF IInv, RefcntExact
<1>7. TypeOK'
  BY <1>2, <1>4, DoneMoves DEF IInv, TypeOK
<1>8. MapOK'
  BY <1>2, <1>3, <1>4 DEF IInv, MapOK, TypeOK
<1>9. HandleOK'
  BY <1>3, <1>4, DoneMoves DEF IInv, HandleOK, TypeOK
<1>10. NoUseAfterFree'
  BY <1>2, <1>3, <1>4, DoneMoves DEF IInv, NoUseAfterFree, TypeOK
<1>11. RefcntExact'
  BY <1>3, <1>4, <1>5, <1>6 DEF IInv, RefcntExact
<1>12. OneBinder'
  BY <1>3, <1>4, DoneMoves DEF IInv, OneBinder, TypeOK
<1>13. DeletedIsReferenced'
  <2> SUFFICES ASSUME NEW m \in Member, hmap[m] # NULL, info'[hmap[m]].del
               PROVE  \E u \in Thread : h'[u] = hmap[m]
    BY <1>2 DEF DeletedIsReferenced
  <2>1. info[hmap[m]].del
    BY <1>3, <1>4 DEF IInv, TypeOK
  <2>2. CASE hmap[m] = a
    BY <1>1, <1>5, <1>6, <2>1, <2>2, DoneMoves
  <2>3. CASE hmap[m] # a
    BY <1>1, <2>1, <2>3, DoneMoves DEF IInv, DeletedIsReferenced
  <2> QED
    BY <2>2, <2>3
<1>14. \A u \in Thread : pc'[u] = "calling" => conn'[u]
  BY DoneMoves DEF IInv
<1> QED
  BY <1>7, <1>8, <1>9, <1>10, <1>11, <1>12, <1>13, <1>14 DEF IInv

(* delete_handle frees an entry without handles, and marks any other. *)
LEMMA DeleteHandleStep ==
  ASSUME IInv, NEW m \in Member, DeleteHandle(m)
  PROVE  IInv'
<1>1. PICK a \in Address : a = hmap[m]
  BY DEF DeleteHandle, IInv, TypeOK
<1>2. info[a] \in HInfo /\ info[a] # NULL /\ info[a].m = m /\ UNCHANGED <<h, conn, to, pc>>
  BY <1>1 DEF DeleteHandle, IInv, TypeOK, MapOK
<1>3. info[a].refcnt = Cardinality(Users(a))
  BY <1>2 DEF IInv, RefcntExact
<1>4. CASE info[a].refcnt = 0
  <2>1. info' = [info EXCEPT ![a] = NULL] /\ hmap' = [hmap EXCEPT ![m] = NULL]
    BY <1>1, <1>2, <1>4 DEF DeleteHandle, Free
  <2>2. /\ info' \in [Address -> HInfo \cup {NULL}] /\ info'[a] = NULL
        /\ \A b \in Address \ {a} : info'[b] = info[b]
        /\ hmap' \in [Member -> Address \cup {NULL}] /\ hmap'[m] = NULL
        /\ \A n \in Member \ {m} : hmap'[n] = hmap[n]
    BY <2>1 DEF IInv, TypeOK
  <2>3. Users(a) = {}
    BY <1>3, <1>4, UsersFinite, FS_EmptySet
  <2>4. \A u \in Thread : h[u] # a
    BY <2>3 DEF Users
  <2>5. TypeOK'
    BY <1>2, <2>2 DEF IInv, TypeOK
  <2>6. MapOK'
    BY <1>1, <1>2, <2>2 DEF IInv, MapOK, TypeOK, HInfo
  <2>7. \A u \in Thread : h[u] # NULL => info'[h[u]] = info[h[u]]
    BY <2>2, <2>4 DEF IInv, TypeOK
  <2>12. HandleOK'
    BY <1>2, <2>7 DEF IInv, HandleOK
  <2>13. OneBinder'
    BY <1>2, <2>7 DEF IInv, OneBinder
  <2>8. NoUseAfterFree'
    <3> SUFFICES ASSUME NEW u \in Thread, h[u] # NULL
                 PROVE  /\ info'[h[u]] # NULL /\ info'[h[u]].m = to[u]
                        /\ hmap'[to[u]] = h[u]
      BY <1>2 DEF NoUseAfterFree
    <3>1. /\ info[h[u]] # NULL /\ info[h[u]].m = to[u] /\ hmap[to[u]] = h[u]
          /\ to[u] \in Member
      BY DEF IInv, NoUseAfterFree, TypeOK, HInfo
    <3>2. to[u] # m
      BY <1>1, <2>4, <3>1
    <3> QED
      BY <2>2, <2>7, <3>1, <3>2
  <2>9. RefcntExact'
    BY <1>2, <2>2 DEF IInv, RefcntExact, Users
  <2>10. DeletedIsReferenced'
    BY <1>1, <1>2, <2>2 DEF IInv, DeletedIsReferenced, MapOK, TypeOK
  <2>11. \A u \in Thread : pc'[u] = "calling" => conn'[u]
    BY <1>2 DEF IInv
  <2> QED
    BY <2>5, <2>6, <2>8, <2>9, <2>10, <2>11, <2>12, <2>13 DEF IInv
<1>5. CASE info[a].refcnt # 0
  <2> DEFINE e == [info[a] EXCEPT !.del = TRUE]
  <2>1. info' = [info EXCEPT ![a] = e] /\ hmap' = hmap
    BY <1>1, <1>5 DEF DeleteHandle
  <2>2. /\ e \in HInfo /\ e.refcnt = info[a].refcnt /\ e.m = info[a].m
        /\ e.cl = info[a].cl /\ e.owner = info[a].owner
    BY <1>2 DEF HInfo
  <2> HIDE DEF e
  <2>3. /\ info' \in [Address -> HInfo \cup {NULL}] /\ info'[a] = e
        /\ \A b \in Address \ {a} : info'[b] = info[b]
        /\ MapOK' /\ NoUseAfterFree' /\ RefcntExact'
    BY <1>2, <2>1, <2>2, EntryStep
  <2>4. \E u \in Thread : h[u] = a
    <3>1. Users(a) # {}
      BY <1>3, <1>5, FS_EmptySet
    <3> QED
      BY <3>1 DEF Users
  <2>5. TypeOK'
    BY <1>2, <2>1, <2>3 DEF IInv, TypeOK
  <2>6. HandleOK' /\ OneBinder'
    BY <1>2, <2>2, <2>3 DEF IInv, HandleOK, OneBinder, TypeOK
  <2>7. DeletedIsReferenced'
    BY <1>2, <2>1, <2>3, <2>4 DEF IInv, DeletedIsReferenced, TypeOK
  <2>8. \A u \in Thread : pc'[u] = "calling" => conn'[u]
    BY <1>2 DEF IInv
  <2> QED
    BY <2>3, <2>5, <2>6, <2>7, <2>8 DEF IInv
<1> QED
  BY <1>4, <1>5

(* Every critical section keeps the invariant. *)
LEMMA NextIInv == IInv /\ [Next]_vars => IInv'
<1> SUFFICES ASSUME IInv, [Next]_vars PROVE IInv'
  OBVIOUS
<1>1. ASSUME NEW t \in Thread, NEW m \in Member, Open(t, m) PROVE IInv'
  BY <1>1, GetNewStep, GetKnownStep, GetDeletedStep DEF Open
<1>2. ASSUME NEW t \in Thread, Done(t) PROVE IInv'
  BY <1>2, DoneEmptyStep, DoneFreesStep, DoneKeepsStep
<1>3. CASE UNCHANGED vars
  <2>1. TypeOK' /\ MapOK' /\ HandleOK' /\ NoUseAfterFree'
    BY <1>3 DEF vars, IInv, TypeOK, MapOK, HandleOK, NoUseAfterFree
  <2>2. OneBinder' /\ DeletedIsReferenced' /\ \A u \in Thread : pc'[u] = "calling" => conn'[u]
    BY <1>3 DEF vars, IInv, OneBinder, DeletedIsReferenced
  <2>3. RefcntExact'
    BY <1>3 DEF vars, IInv, RefcntExact, Users
  <2> QED
    BY <2>1, <2>2, <2>3 DEF IInv
<1>4. ASSUME NEW t \in Thread, SafebindAgain(t) \/ Call(t) \/ CallReturns(t)
      PROVE  IInv'
  BY <1>4, MoveStep
<1> QED
  BY <1>1, <1>2, <1>3, <1>4, SafebindKnownStep, SafebindNewStep, BindSucceedsStep,
     BindFailsStep, DeleteHandleStep DEF Next

(* The invariant holds in every reachable state. *)
LEMMA Invariance == Spec => []IInv
BY InitIInv, NextIInv, PTL DEF Spec

(* What a handle points to is live and is its member's entry: no entry is  *)
(* used after done_handle or delete_handle freed it.                       *)
THEOREM NoUseAfterFreeHolds == Spec => []NoUseAfterFree
BY Invariance, PTL DEF IInv

(* refcnt counts the handles that refer to the entry. *)
THEOREM RefcntExactHolds == Spec => []RefcntExact
BY Invariance, PTL DEF IInv

(* A deleted entry is not left behind in hmap by its last handle. *)
THEOREM DeletedIsReferencedHolds == Spec => []DeletedIsReferenced
BY Invariance, PTL DEF IInv

(* cl_mutex has one holder, the thread that binds. *)
THEOREM OneBinderHolds == Spec => []OneBinder
BY Invariance, PTL DEF IInv

(* A call goes through the connection of a live entry. *)
THEOREM CallsLiveConnectionHolds == Spec => []CallsLiveConnection
<1>1. IInv => CallsLiveConnection
  BY DEF IInv, HandleOK, CallsLiveConnection
<1> QED
  BY <1>1, Invariance, PTL

=============================================================================
