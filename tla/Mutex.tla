-------------------------------- MODULE Mutex --------------------------------
(***************************************************************************)
(* What a lock service promises the threads that use one lock through      *)
(* lock_client's interface, acquire and release, whatever is cached where. *)
(* Sets of threads, so that a thread's position maps to its membership.    *)
(***************************************************************************)
CONSTANT Thread

VARIABLES
  asking,     \* threads inside acquire
  holding     \* threads whose acquire returned and that did not call release

mutexVars == <<asking, holding>>

MutexInit ==
  /\ asking = {}
  /\ holding = {}

(* acquire is called and does not return at once. *)
Ask(t) ==
  /\ t \notin asking \cup holding
  /\ asking' = asking \cup {t}
  /\ UNCHANGED holding

(* acquire returns, also straight from the call: nobody else has the lock. *)
Grant(t) ==
  /\ holding = {}
  /\ holding' = {t}
  /\ asking' = asking \ {t}

(* release is called by a thread that has the lock. *)
Return(t) ==
  /\ t \in holding
  /\ holding' = holding \ {t}
  /\ UNCHANGED asking

MutexNext == \E t \in Thread : Ask(t) \/ Grant(t) \/ Return(t)

MutexSpec == MutexInit /\ [][MutexNext]_mutexVars

=============================================================================
