-------------------------------- MODULE Handle --------------------------------
(***************************************************************************)
(* The cache of RPC connections of src/handle.cc: hinfo entries that       *)
(* threads share through reference counts, bound on first use, marked del  *)
(* when a bind fails or delete_handle is called, freed with the last       *)
(* reference.                                                              *)
(*                                                                         *)
(* A step is one critical section under handle_mutex or cl_mutex; a bind,  *)
(* which may take long, is a section of its own with cl_mutex held.  Freed *)
(* memory may be handed out again by the next new.                         *)
(***************************************************************************)
EXTENDS Integers, FiniteSets

CONSTANTS
  Thread,     \* threads that talk to other processes
  Member,     \* destinations, host:port
  Address,    \* where an hinfo can live
  NULL

ASSUME NullAssumption ==
  /\ NULL \notin Member
  /\ NULL \notin Address
  /\ NULL \notin Thread
  /\ IsFiniteSet(Thread)

VARIABLES
  hmap,       \* handle_mgr::hmap: the entry of each member, or NULL
  info,       \* the hinfo at each address, or NULL when it is freed
  h,          \* handle::h of the handle each thread has
  conn,       \* what the thread's last safebind() returned
  to,         \* the member the thread talks to
  pc

vars == <<hmap, info, h, conn, to, pc>>

(* idle     no handle                                                      *)
(* open     handle(m) constructed                                          *)
(* binding  in rpcc::bind, with cl_mutex held                              *)
(* bound    safebind() returned                                            *)
(* calling  in conn->call(...)                                             *)
(* dead     a thread dereferenced the NULL that safebind() returned        *)
Label == {"idle", "open", "binding", "bound", "calling", "dead"}

(* cl: an rpcc is attached; owner: the thread that has cl_mutex. *)
HInfo == [cl : BOOLEAN, refcnt : Int, del : BOOLEAN,
          m : Member, owner : Thread \cup {NULL}]

ASSUME NullIsNoEntry == NULL \notin HInfo

TypeOK ==
  /\ hmap \in [Member -> Address \cup {NULL}]
  /\ info \in [Address -> HInfo \cup {NULL}]
  /\ h \in [Thread -> Address \cup {NULL}]
  /\ conn \in [Thread -> BOOLEAN]
  /\ to \in [Thread -> Member \cup {NULL}]
  /\ pc \in [Thread -> Label]

Init ==
  /\ hmap = [m \in Member |-> NULL]
  /\ info = [a \in Address |-> NULL]
  /\ h = [t \in Thread |-> NULL]
  /\ conn = [t \in Thread |-> FALSE]
  /\ to = [t \in Thread |-> NULL]
  /\ pc = [t \in Thread |-> "idle"]

Goto(t, l) == pc' = [pc EXCEPT ![t] = l]

-----------------------------------------------------------------------------
(* Mutants: how each operation below could plausibly be wrong. *)

(* get_handle that forgets refcnt++ for an entry it finds. *)
MutantGetKnown(t, m) ==
  /\ hmap[m] # NULL
  /\ ~info[hmap[m]].del
  /\ h' = [h EXCEPT ![t] = hmap[m]]
  /\ UNCHANGED <<hmap, info>>

(* done_handle without the test of del: a failed entry is never removed. *)
MutantDone(t) ==
  /\ pc[t] = "bound"
  /\ \/ h[t] = NULL /\ UNCHANGED <<hmap, info>>
     \/ /\ h[t] # NULL
        /\ info' = [info EXCEPT ![h[t]].refcnt = @ - 1]
        /\ UNCHANGED hmap
  /\ h' = [h EXCEPT ![t] = NULL]
  /\ conn' = [conn EXCEPT ![t] = FALSE]
  /\ to' = [to EXCEPT ![t] = NULL]
  /\ Goto(t, "idle")

(* delete_handle that frees the entry whatever its reference count. *)
MutantDeleteHandle(m) ==
  /\ hmap[m] # NULL
  /\ info' = [info EXCEPT ![hmap[m]] = NULL]
  /\ hmap' = [hmap EXCEPT ![m] = NULL]
  /\ UNCHANGED <<h, conn, to, pc>>

(* safebind that does not look whether another thread is binding. *)
MutantSafebindNew(t) ==
  /\ pc[t] = "open"
  /\ h[t] # NULL
  /\ ~info[h[t]].del /\ ~info[h[t]].cl
  /\ info' = [info EXCEPT ![h[t]].owner = t]
  /\ Goto(t, "binding")
  /\ UNCHANGED <<hmap, h, conn, to>>

(* safebind that ends in return cl, the rpcc it has just deleted. *)
MutantBindFails(t) ==
  /\ pc[t] = "binding"
  /\ info' = [info EXCEPT ![h[t]].del = TRUE, ![h[t]].owner = NULL]
  /\ conn' = [conn EXCEPT ![t] = TRUE]
  /\ Goto(t, "bound")
  /\ UNCHANGED <<hmap, h, to>>

-----------------------------------------------------------------------------
(* get_handle: no entry yet, a new one with one reference. *)
GetNew(t, m) ==
  /\ hmap[m] = NULL
  /\ \E a \in Address :
       /\ info[a] = NULL
       /\ info' = [info EXCEPT ![a] = [cl |-> FALSE, refcnt |-> 1, del |-> FALSE,
                                       m |-> m, owner |-> NULL]]
       /\ hmap' = [hmap EXCEPT ![m] = a]
       /\ h' = [h EXCEPT ![t] = a]

(* get_handle: one more reference to the entry there is. *)
GetKnown(t, m) ==
  /\ hmap[m] # NULL
  /\ ~info[hmap[m]].del
  /\ info' = [info EXCEPT ![hmap[m]].refcnt = @ + 1]
  /\ h' = [h EXCEPT ![t] = hmap[m]]
  /\ UNCHANGED hmap

(* get_handle: the entry is being deleted, the handle is empty. *)
GetDeleted(t, m) ==
  /\ hmap[m] # NULL
  /\ info[hmap[m]].del
  /\ UNCHANGED <<hmap, info, h>>

(* handle::handle(m). *)
Open(t, m) ==
  /\ pc[t] = "idle"
  /\ \/ GetNew(t, m)
     \/ GetKnown(t, m)
     \/ GetDeleted(t, m)
  /\ to' = [to EXCEPT ![t] = m]
  /\ Goto(t, "open")
  /\ UNCHANGED conn

(* safebind() that returns without binding: an empty handle, a deleted     *)
(* entry, or a connection that another handle made.                        *)
SafebindKnown(t) ==
  /\ pc[t] = "open"
  /\ h[t] # NULL => /\ info[h[t]].owner = NULL
                    /\ info[h[t]].del \/ info[h[t]].cl
  /\ conn' = [conn EXCEPT ![t] = h[t] # NULL /\ ~info[h[t]].del]
  /\ Goto(t, "bound")
  /\ UNCHANGED <<hmap, info, h, to>>

(* safebind() takes cl_mutex and starts to bind. *)
SafebindNew(t) ==
  /\ pc[t] = "open"
  /\ h[t] # NULL
  /\ info[h[t]].owner = NULL
  /\ ~info[h[t]].del /\ ~info[h[t]].cl
  /\ info' = [info EXCEPT ![h[t]].owner = t]
  /\ Goto(t, "binding")
  /\ UNCHANGED <<hmap, h, conn, to>>

(* rpcc::bind returns 0: the entry keeps the new rpcc. *)
BindSucceeds(t) ==
  /\ pc[t] = "binding"
  /\ info' = [info EXCEPT ![h[t]].cl = TRUE, ![h[t]].owner = NULL]
  /\ conn' = [conn EXCEPT ![t] = TRUE]
  /\ Goto(t, "bound")
  /\ UNCHANGED <<hmap, h, to>>

(* rpcc::bind fails: the entry is marked, safebind() returns NULL. *)
BindFails(t) ==
  /\ pc[t] = "binding"
  /\ info' = [info EXCEPT ![h[t]].del = TRUE, ![h[t]].owner = NULL]
  /\ conn' = [conn EXCEPT ![t] = FALSE]
  /\ Goto(t, "bound")
  /\ UNCHANGED <<hmap, h, to>>

(* The same handle is asked again, as in handle.h's example. *)
SafebindAgain(t) ==
  /\ pc[t] = "bound"
  /\ Goto(t, "open")
  /\ UNCHANGED <<hmap, info, h, conn, to>>

(* safebind()->call(...), as lock_server_cache and extent_server write it: *)
(* nobody looks whether safebind() returned NULL, which ends the process.  *)
Call(t) ==
  /\ pc[t] = "bound"
  /\ \/ conn[t] /\ Goto(t, "calling")
     \/ ~conn[t] /\ pc' = [u \in Thread |-> "dead"]
  /\ UNCHANGED <<hmap, info, h, conn, to>>

CallReturns(t) ==
  /\ pc[t] = "calling"
  /\ Goto(t, "bound")
  /\ UNCHANGED <<hmap, info, h, conn, to>>

(* delete_handle_wo with refcnt 0: the rpcc and the entry are freed. *)
Free(a) ==
  /\ info' = [info EXCEPT ![a] = NULL]
  /\ hmap' = [hmap EXCEPT ![info[a].m] = NULL]

(* handle::~handle and done_handle. *)
Done(t) ==
  /\ pc[t] = "bound"
  /\ \/ h[t] = NULL /\ UNCHANGED <<hmap, info>>
     \/ /\ h[t] # NULL
        /\ info[h[t]].refcnt = 1 /\ info[h[t]].del
        /\ Free(h[t])
     \/ /\ h[t] # NULL
        /\ ~(info[h[t]].refcnt = 1 /\ info[h[t]].del)
        /\ info' = [info EXCEPT ![h[t]].refcnt = @ - 1]
        /\ UNCHANGED hmap
  /\ h' = [h EXCEPT ![t] = NULL]
  /\ conn' = [conn EXCEPT ![t] = FALSE]
  /\ to' = [to EXCEPT ![t] = NULL]
  /\ Goto(t, "idle")

(* handle_mgr::delete_handle, of a member that is known. *)
DeleteHandle(m) ==
  /\ hmap[m] # NULL
  /\ \/ info[hmap[m]].refcnt = 0 /\ Free(hmap[m])
     \/ /\ info[hmap[m]].refcnt # 0
        /\ info' = [info EXCEPT ![hmap[m]].del = TRUE]
        /\ UNCHANGED hmap
  /\ UNCHANGED <<h, conn, to, pc>>

Next ==
  \/ \E t \in Thread :
       \/ \E m \in Member : Open(t, m)
       \/ SafebindKnown(t)
       \/ SafebindNew(t)
       \/ BindSucceeds(t)
       \/ BindFails(t)
       \/ SafebindAgain(t)
       \/ Call(t)
       \/ CallReturns(t)
       \/ Done(t)
  \/ \E m \in Member : DeleteHandle(m)

Spec == Init /\ [][Next]_vars

(* The scheduler runs every thread, a bind and a call return, and a handle *)
(* goes out of scope.                                                      *)
Fairness ==
  \A t \in Thread :
    /\ WF_vars(SafebindKnown(t)) /\ WF_vars(SafebindNew(t))
    /\ WF_vars(BindSucceeds(t) \/ BindFails(t))
    /\ WF_vars(CallReturns(t)) /\ SF_vars(Done(t))

FairSpec == Spec /\ Fairness

-----------------------------------------------------------------------------
(* The handles that refer to the entry at an address. *)
Users(a) == {t \in Thread : h[t] = a}

(* done_handle frees an entry only with its last handle: what a handle     *)
(* points to is live, is the entry of the member it was opened for, and    *)
(* cannot be memory that was freed and handed out again.                   *)
NoUseAfterFree ==
  \A t \in Thread : h[t] # NULL => /\ info[h[t]] # NULL
                                   /\ info[h[t]].m = to[t]
                                   /\ hmap[to[t]] = h[t]

(* refcnt counts the handles that point to the entry, whichever of get,    *)
(* done, delete and failing binds were interleaved.                        *)
RefcntExact ==
  \A a \in Address : info[a] # NULL => info[a].refcnt = Cardinality(Users(a))

(* An entry that was marked del is in hmap only as long as a handle refers *)
(* to it: a member whose bind failed once can be contacted again.          *)
DeletedIsReferenced ==
  \A m \in Member :
    (hmap[m] # NULL /\ info[hmap[m]].del) => \E t \in Thread : h[t] = hmap[m]

(* cl_mutex is held only by the thread that binds, through a handle that   *)
(* keeps the entry from being freed and the mutex from being destroyed.    *)
OneBinder ==
  \A t \in Thread :
    pc[t] = "binding" => /\ h[t] # NULL
                         /\ info[h[t]].owner = t
                         /\ ~info[h[t]].cl

(* A connection in use is that of a live entry. *)
CallsLiveConnection ==
  \A t \in Thread : pc[t] = "calling" => h[t] # NULL /\ info[h[t]].cl

(* A deleted member is forgotten at last, so that the next handle for it   *)
(* binds anew.                                                             *)
DeletedIsForgotten ==
  \A m \in Member :
    (hmap[m] # NULL /\ info[hmap[m]].del)
      ~> (\/ hmap[m] = NULL \/ ~info[hmap[m]].del
          \/ \E t \in Thread : pc[t] = "dead")

=============================================================================
