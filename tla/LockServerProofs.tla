--------------------------- MODULE LockServerProofs ---------------------------
(***************************************************************************)
(* The plain lock service is safe and implements a mutex for every set of  *)
(* threads and every size of the pool.                                     *)
(***************************************************************************)
EXTENDS LockServer, TLAPS

(* The three facts support each other: a waiter that wakes up may take the *)
(* lock only because lock_map tells the truth about the owner, and a free  *)
(* lock has a signalled waiter only because signalled holds only waiters.  *)
IInv == TypeOK /\ OneOwner /\ NoLostWakeup

USE DEF Label

(* Initially nobody owns the lock and nobody waits. *)
LEMMA InitIInv == Init => IInv
BY DEF Init, IInv, TypeOK, OneOwner, NoLostWakeup, Owner, Waiting

(* Every critical section of the server, and every step of the stubs,      *)
(* keeps the invariant.                                                    *)
LEMMA NextIInv == IInv /\ [Next]_vars => IInv'
<1> SUFFICES ASSUME IInv, [Next]_vars PROVE IInv'
  OBVIOUS
<1> USE DEF IInv, TypeOK, OneOwner, NoLostWakeup, Owner, Waiting
<1>1. ASSUME NEW t \in Thread, CallAcquire(t) PROVE IInv'
  BY <1>1 DEF CallAcquire, Goto
<1>2. ASSUME NEW t \in Thread, Dispatch(t) PROVE IInv'
  BY <1>2 DEF Dispatch, Goto
<1>3. ASSUME NEW t \in Thread, ServeAcquire(t) PROVE IInv'
  BY <1>3 DEF ServeAcquire, Goto
<1>4. ASSUME NEW t \in Thread, Wake(t) PROVE IInv'
  BY <1>4 DEF Wake, Goto
<1>5. ASSUME NEW t \in Thread, SpuriousWakeup(t) PROVE IInv'
  BY <1>5 DEF SpuriousWakeup
<1>6. ASSUME NEW t \in Thread, Return(t) PROVE IInv'
  BY <1>6 DEF Return, Goto
<1>7. ASSUME NEW t \in Thread, CallRelease(t) PROVE IInv'
  BY <1>7 DEF CallRelease, Goto
<1>8. ASSUME NEW t \in Thread, ServeRelease(t) PROVE IInv'
  BY <1>8 DEF ServeRelease, Goto
<1>9. CASE UNCHANGED vars
  BY <1>9 DEF vars
<1> QED
  BY <1>1, <1>2, <1>3, <1>4, <1>5, <1>6, <1>7, <1>8, <1>9 DEF Next

(* The invariant holds in every reachable state. *)
LEMMA Invariance == Spec => []IInv
BY InitIInv, NextIInv, PTL DEF Spec

(* The server never grants the lock to two threads, and lock_map tells     *)
(* whether it is granted.                                                  *)
THEOREM OneOwnerHolds == Spec => []OneOwner
BY Invariance, PTL DEF IInv

(* release never leaves a free lock with waiters none of whom wakes up. *)
THEOREM NoLostWakeupHolds == Spec => []NoLostWakeup
BY Invariance, PTL DEF IInv

(* Every step is, for the users of lock_client, a step of the abstract     *)
(* mutex or no step at all.                                                *)
LEMMA StepRefines == IInv /\ [Next]_vars => [Mutex!MutexNext]_(Mutex!mutexVars)
<1> SUFFICES ASSUME IInv, [Next]_vars
             PROVE  [Mutex!MutexNext]_(Mutex!mutexVars)
  OBVIOUS
<1> USE DEF IInv, TypeOK, Mutex!mutexVars
<1>1. ASSUME NEW t \in Thread, CallAcquire(t) PROVE Mutex!Ask(t)
  BY <1>1 DEF CallAcquire, Goto, Mutex!Ask
<1>2. ASSUME NEW t \in Thread, Dispatch(t) PROVE UNCHANGED Mutex!mutexVars
  BY <1>2 DEF Dispatch, Goto
<1>3. ASSUME NEW t \in Thread, ServeAcquire(t) PROVE UNCHANGED Mutex!mutexVars
  BY <1>3 DEF ServeAcquire, Goto
<1>4. ASSUME NEW t \in Thread, Wake(t) PROVE UNCHANGED Mutex!mutexVars
  BY <1>4 DEF Wake, Goto, Waiting
<1>5. ASSUME NEW t \in Thread, SpuriousWakeup(t) PROVE UNCHANGED Mutex!mutexVars
  BY <1>5 DEF SpuriousWakeup
<1>6. ASSUME NEW t \in Thread, Return(t)
      PROVE  Mutex!Grant(t) \/ UNCHANGED Mutex!mutexVars
  <2>1. CASE pc[t] = "granted"
    BY <1>6, <2>1 DEF Return, Goto, Mutex!Grant, OneOwner, Owner
  <2>2. CASE pc[t] = "released"
    BY <1>6, <2>2 DEF Return, Goto
  <2> QED
    BY <1>6, <2>1, <2>2 DEF Return
<1>7. ASSUME NEW t \in Thread, CallRelease(t) PROVE Mutex!Return(t)
  BY <1>7 DEF CallRelease, Goto, Mutex!Return
<1>8. ASSUME NEW t \in Thread, ServeRelease(t) PROVE UNCHANGED Mutex!mutexVars
  BY <1>8 DEF ServeRelease, Goto
<1>9. CASE UNCHANGED vars
  BY <1>9 DEF vars
<1> QED
  BY <1>1, <1>2, <1>3, <1>4, <1>5, <1>6, <1>7, <1>8, <1>9
  DEF Next, Mutex!MutexNext

(* lock_client's acquire and release, served by lock_server, implement the *)
(* abstract mutex.                                                         *)
THEOREM MutexHolds == Spec => ImplementsMutex
<1>1. Init => Mutex!MutexInit
  BY DEF Init, Mutex!MutexInit
<1> QED
  BY <1>1, StepRefines, Invariance, PTL DEF Spec, ImplementsMutex, Mutex!MutexSpec

=============================================================================
