------------------------------ MODULE LockServer ------------------------------
(***************************************************************************)
(* The plain lock service of src/lock_server.cc behind the stubs of        *)
(* src/lock_client.cc, for one lock.  An acquire that finds the lock taken *)
(* blocks inside its handler, and so keeps the pool thread that runs it;   *)
(* the release that will wake it needs a pool thread as well.              *)
(*                                                                         *)
(* RPCs are synchronous, so a thread's call is one line of control that    *)
(* moves from the stub to the server and back; a step is one critical      *)
(* section under lock_server's mutex.                                      *)
(***************************************************************************)
EXTENDS Naturals, FiniteSets

CONSTANTS
  Thread,      \* client threads that use the lock
  PoolSize     \* threads of the RPC server's pool

(* lock_tester.cc: no more blocking calls than pool threads. *)
ASSUME PoolAssumption ==
  /\ IsFiniteSet(Thread)
  /\ PoolSize \in Nat
  /\ Cardinality(Thread) <= PoolSize

VARIABLES
  lock_map,    \* lock_map[lid]: "absent" before the first acquire, "free" (0), "taken" (1)
  signalled,   \* waiting handlers that pthread_cond_wait lets return
  pc           \* where each thread's line of control is

vars == <<lock_map, signalled, pc>>

(* idle      not using the lock                                            *)
(* acquire   acquire's request is sent and waits for a pool thread         *)
(* acquiring lock_server::acquire runs, before the mutex                   *)
(* waiting   lock_server::acquire is in pthread_cond_wait                  *)
(* granted   the handler returned, the reply is on its way                 *)
(* held      lock_client::acquire returned                                 *)
(* release   release's request is sent and waits for a pool thread         *)
(* releasing lock_server::release runs, before the mutex                   *)
(* released  the handler returned, the reply is on its way                 *)
Label == {"idle", "acquire", "acquiring", "waiting", "granted", "held",
          "release", "releasing", "released"}

(* Handlers that occupy a pool thread. *)
Busy == {t \in Thread : pc[t] \in {"acquiring", "waiting", "releasing"}}

Waiting == {t \in Thread : pc[t] = "waiting"}

TypeOK ==
  /\ lock_map \in {"absent", "free", "taken"}
  /\ signalled \subseteq Waiting
  /\ pc \in [Thread -> Label]

Init ==
  /\ lock_map = "absent"
  /\ signalled = {}
  /\ pc = [t \in Thread |-> "idle"]

Goto(t, l) == pc' = [pc EXCEPT ![t] = l]

-----------------------------------------------------------------------------
(* Mutants: how each operation below could plausibly be wrong. *)

(* The pool starts one thread too few. *)
MutantDispatch(t) ==
  /\ Cardinality(Busy) + 1 < PoolSize
  /\ \/ pc[t] = "acquire" /\ Goto(t, "acquiring")
     \/ pc[t] = "release" /\ Goto(t, "releasing")
  /\ UNCHANGED <<lock_map, signalled>>

(* pthread_cond_wait under an if instead of a while. *)
MutantWake(t) ==
  /\ t \in signalled
  /\ signalled' = signalled \ {t}
  /\ lock_map' = "taken"
  /\ Goto(t, "granted")

(* A release that forgets pthread_cond_signal. *)
MutantServeRelease(t) ==
  /\ pc[t] = "releasing"
  /\ lock_map' = "free"
  /\ UNCHANGED signalled
  /\ Goto(t, "released")

-----------------------------------------------------------------------------
(* lock_client::acquire sends its request. *)
CallAcquire(t) ==
  /\ pc[t] = "idle"
  /\ Goto(t, "acquire")
  /\ UNCHANGED <<lock_map, signalled>>

(* A pool thread of the RPC library takes a request. *)
Dispatch(t) ==
  /\ Cardinality(Busy) < PoolSize
  /\ \/ pc[t] = "acquire" /\ Goto(t, "acquiring")
     \/ pc[t] = "release" /\ Goto(t, "releasing")
  /\ UNCHANGED <<lock_map, signalled>>

(* lock_server::acquire up to its return or to pthread_cond_wait.  The     *)
(* first acquire creates the entry, already taken.                         *)
ServeAcquire(t) ==
  /\ pc[t] = "acquiring"
  /\ \/ /\ lock_map # "taken"
        /\ lock_map' = "taken"
        /\ Goto(t, "granted")
     \/ /\ lock_map = "taken"
        /\ UNCHANGED lock_map
        /\ Goto(t, "waiting")
  /\ UNCHANGED signalled

(* pthread_cond_wait returns; the while loop looks at lock_map again. *)
Wake(t) ==
  /\ t \in signalled
  /\ signalled' = signalled \ {t}
  /\ \/ /\ lock_map = "taken"
        /\ UNCHANGED <<lock_map, pc>>
     \/ /\ lock_map # "taken"
        /\ lock_map' = "taken"
        /\ Goto(t, "granted")

(* POSIX lets pthread_cond_wait return without a signal. *)
SpuriousWakeup(t) ==
  /\ t \in Waiting \ signalled
  /\ signalled' = signalled \cup {t}
  /\ UNCHANGED <<lock_map, pc>>

(* The reply arrives and lock_client::acquire or ::release returns. *)
Return(t) ==
  /\ \/ pc[t] = "granted" /\ Goto(t, "held")
     \/ pc[t] = "released" /\ Goto(t, "idle")
  /\ UNCHANGED <<lock_map, signalled>>

(* lock_client::release sends its request. *)
CallRelease(t) ==
  /\ pc[t] = "held"
  /\ Goto(t, "release")
  /\ UNCHANGED <<lock_map, signalled>>

(* lock_server::release: it frees the lock and signals one waiter, if any. *)
ServeRelease(t) ==
  /\ pc[t] = "releasing"
  /\ lock_map' = "free"
  /\ \/ /\ Waiting \ signalled # {}
        /\ \E u \in Waiting \ signalled : signalled' = signalled \cup {u}
     \/ /\ Waiting \ signalled = {}
        /\ UNCHANGED signalled
  /\ Goto(t, "released")

Next ==
  \E t \in Thread :
    \/ CallAcquire(t)
    \/ Dispatch(t)
    \/ ServeAcquire(t)
    \/ Wake(t)
    \/ SpuriousWakeup(t)
    \/ Return(t)
    \/ CallRelease(t)
    \/ ServeRelease(t)

Spec == Init /\ [][Next]_vars

(* The RPC library delivers, the scheduler runs every handler, and a       *)
(* holder releases.  Nothing obliges a thread to acquire.                  *)
Fairness ==
  \A t \in Thread :
    /\ WF_vars(Dispatch(t)) /\ WF_vars(ServeAcquire(t)) /\ WF_vars(Wake(t))
    /\ WF_vars(Return(t)) /\ WF_vars(CallRelease(t))
    /\ WF_vars(ServeRelease(t))

FairSpec == Spec /\ Fairness

-----------------------------------------------------------------------------
(* Threads that have the lock as the server sees it: from the grant until  *)
(* the release handler runs.                                               *)
Owner ==
  {t \in Thread : pc[t] \in {"granted", "held", "release", "releasing"}}

(* The server never grants the lock to two threads, and lock_map[lid] says *)
(* 1 exactly while a thread owns it, although pthread_cond_wait may return *)
(* at any time and a waiter may find the lock taken again.                 *)
OneOwner ==
  /\ \A t, u \in Owner : t = u
  /\ (lock_map = "taken") <=> (Owner # {})

(* release signals a single waiter, and a thread that never waited may     *)
(* take the lock before the one that was signalled.  Still a free lock is  *)
(* never left with waiters none of whom is going to wake up.               *)
NoLostWakeup ==
  (lock_map # "taken" /\ Waiting # {}) => signalled # {}

(* The threads' view: lock_client::acquire and release form a mutex. *)
Mutex == INSTANCE Mutex WITH
  asking <- {t \in Thread : pc[t] \in {"acquire", "acquiring", "waiting", "granted"}},
  holding <- {t \in Thread : pc[t] = "held"}

(* What lock_client's users see implements the abstract mutex. *)
ImplementsMutex == Mutex!MutexSpec

(* The comment on nt in lock_tester.cc: with no more threads than the pool *)
(* has, a release is always served, so waiting handlers never use up the   *)
(* threads that the release which would wake them needs.                   *)
ReleaseServed ==
  \A t \in Thread : (pc[t] = "release") ~> (pc[t] = "idle")

(* The lock does not stay free while a thread wants it.  (Which thread     *)
(* gets it is open: a waiter may be overtaken for ever.)                   *)
LockMovesOn ==
  (lock_map # "taken" /\ \E t \in Thread : pc[t] \in {"acquire", "acquiring", "waiting"})
    ~> (lock_map = "taken")

=============================================================================
