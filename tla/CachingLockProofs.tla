-------------------------- MODULE CachingLockProofs --------------------------
(***************************************************************************)
(* The theorems about the caching lock service.                            *)
(***************************************************************************)
EXTENDS CachingLockServerProofs, CachingLockHandlerProofs

(* The invariant holds initially. *)
LEMMA InitInv == Init => Inv
<1> SUFFICES ASSUME Init PROVE Inv
  OBVIOUS
<1>1. TypeOK
  <2>1. ServerTypeOK
    BY Zenon DEF Init, ServerInit, ServerTypeOK, Status
  <2>2. ClientTypeOK
    BY DEF Init, ClientInit, ClientTypeOK, State, Message
  <2> QED BY <2>1, <2>2, Zenon DEF Init, TypeOK, Label, Reply
<1>2. /\ status = "NONE" /\ owner = NoClient /\ retrying = NoClient /\ waiting = {}
      /\ signalled = {} /\ exited = {}
      /\ \A c \in Client : state[c] = "NONE" /\ message[c] = "EMPTY"
      /\ \A t \in Thread : pc[t] = "idle" /\ ret[t] = "RETRY"
  BY Zenon DEF Init, ServerInit, ClientInit
<1>3. \A c \in Client : Empty(c) /\ Len(threads[c]) = 0
  BY Zenon DEF Init, ClientInit, Empty
<1>4. QueueOK
  <2>1. 1 .. 0 = {} /\ 2 .. 0 = {}
    OBVIOUS
  <2> QED BY <2>1, <1>3, Zenon DEF QueueOK
<1>5. ActiveIsFront /\ EmptyOK /\ FrontOK
  BY <1>2, <1>3, Zenon DEF ActiveIsFront, Active, EmptyOK, FrontOK
<1>6. PhaseOK
  BY <1>2, Zenon DEF PhaseOK, Phase, InAcquireRPC
<1>7. ServerOK /\ GrantOK /\ OwnerOK
  BY <1>2, ClientAssumption, Zenon DEF ServerOK, GrantOK, OwnerOK
<1>8. RevokingOK /\ RevokeOK /\ MessageOK
  BY <1>2, Zenon DEF RevokingOK, RevokeOK, MessageOK, HandingBack, RevokeInFlight
<1>9. WaitingOK /\ RetryOK /\ KnownOK /\ NotLostOK
  BY <1>2, Zenon DEF WaitingOK, RetryOK, KnownOK, NotLostOK, RetryInFlight, ToldRetry
<1> QED BY <1>1, <1>2, <1>4, <1>5, <1>6, <1>7, <1>8, <1>9, Zenon DEF Inv

(* The invariant survives a step that changes nothing. *)
LEMMA StutterInv == Inv /\ UNCHANGED vars => Inv'
<1> SUFFICES ASSUME Inv, UNCHANGED vars PROVE Inv'
  OBVIOUS
<1>1. UNCHANGED <<status, owner, retrying, waiting, state, message, threads, signalled,
                  exited, pc, ret, dst, nxt>>
  BY Zenon DEF vars
<1>2. TypeOK' /\ QueueOK'
  BY <1>1 DEF Inv, TypeOK, ServerTypeOK, ClientTypeOK, QueueOK
<1>3. ActiveIsFront' /\ EmptyOK' /\ FrontOK'
  BY <1>1, Zenon DEF Inv, ActiveIsFront, Active, EmptyOK, FrontOK, Empty, Front
<1>4. PhaseOK' /\ ServerOK' /\ GrantOK' /\ OwnerOK'
  BY <1>1 DEF Inv, PhaseOK, Phase, ServerOK, GrantOK, OwnerOK
<1>5. RevokingOK' /\ RevokeOK' /\ MessageOK'
  BY <1>1
  DEF Inv, RevokingOK, RevokeOK, MessageOK, HandingBack, RevokeInFlight, Empty, Front
<1>6. WaitingOK' /\ RetryOK' /\ KnownOK' /\ NotLostOK'
  BY <1>1, Zenon
  DEF Inv, WaitingOK, RetryOK, KnownOK, NotLostOK, RevokeInFlight, RetryInFlight
<1> QED BY <1>1, <1>2, <1>3, <1>4, <1>5, <1>6, Zenon DEF Inv

(* The invariant survives every step: one case per action. *)
LEMMA NextInv == Inv /\ Next => Inv'
<1> SUFFICES ASSUME Inv, NEW t \in Thread, CallAcquire(t) \/ Progress(t) PROVE Inv'
  BY Zenon DEF Next
<1> DEFINE c == Home[t]
<1>0. c \in Client
  BY HomeAssumption, Zenon
<1>a. /\ state[c] \in {"NONE", "ACQUIRING", "FREE", "RELEASING", "LOCKED"}
      /\ Empty(c) => state[c] \in {"NONE", "FREE", "RELEASING"}
  BY <1>0, Zenon DEF Inv, TypeOK, ClientTypeOK, State, EmptyOK
<1>1. CASE CallAcquire(t)
  BY <1>0, <1>1, <1>a, AcquireFreeStep, AcquireNoneStep, AcquireParkStep,
     AcquireQueueStep, Zenon
<1>2. CASE WakeParked(t)
  BY <1>0, <1>2, WakeParkedStep, Zenon
<1>3. CASE WakeQueued(t)
  <2>1. pc[t] = "queued" /\ t \in signalled
    BY <1>3, Zenon DEF WakeQueued, CltWakeQueued, WakeUp, Goto
  <2>2. ~Empty(c) /\ t = Front(c)
    BY <2>1, OneActive, Zenon DEF Active
  <2>3. state[c] \in {"LOCKED", "NONE"}
    BY <2>1, <2>2, <1>0, Zenon DEF Inv, FrontOK
  <2> QED BY <2>3, <1>0, <1>3, WakeQueuedLockedStep, WakeQueuedNoneStep, Zenon
<1>4. CASE RecvReply(t)
  BY <1>0, <1>4, RecvOKStep, RecvRetrySleepStep, RecvRetryAgainStep, Zenon
<1>5. CASE WakeWait(t)
  BY <1>0, <1>5, WakeWaitStep, Zenon
<1>6. CASE CallRelease(t)
  BY <1>0, <1>6, ReleaseKeepLastStep, ReleaseKeepNextStep, ReleaseRevokedStep, Zenon
<1>7. CASE ReleaseReturn(t)
  BY <1>0, <1>7, ReleaseReturnLastStep, ReleaseReturnNextStep, Zenon
<1>8. CASE ServeAcquire(t)
  <2>1. status \in {"NONE", "LOCKED", "REVOKING", "RETRYING"}
    BY Zenon DEF Inv, TypeOK, ServerTypeOK, Status
  <2> QED BY <2>1, <1>0, <1>8, ServeNoneStep, ServeLockedStep, ServeWaitStep,
             ServeRetryingLastStep, ServeRetryingMoreStep, Zenon
<1>9. CASE ReadOwner(t)
  BY <1>0, <1>9, ReadOwnerStep, Zenon
<1>10. CASE ServeRelease(t)
  <2>1. pc[t] = "release" \/ pc[t] = "rv_release"
    BY <1>10, Zenon DEF ServeRelease, Goto
  <2> QED BY <2>1, <1>0, <1>10, ServeReleaseStep, ServeReleaseRevokedStep, Zenon
<1>11. CASE RevokeHandler(t)
  <2>1. dst[t] \in Client
    BY <1>11, Zenon DEF RevokeHandler
  <2> QED BY <2>1, <1>0, <1>11, RevokeFreeStep, RevokeBusyStep, Zenon
<1>12. CASE RevokeReturn(t)
  <2>1. pc[t] = "rv_return"
    BY <1>12, Zenon DEF RevokeReturn, Goto
  <2>2. dst[t] \in Client
    BY <2>1, Zenon DEF Inv, RevokingOK, HandingBack
  <2> QED BY <2>2, <1>0, <1>12, RevokeReturnEmptyStep, RevokeReturnParkedStep, Zenon
<1>13. CASE RetryHandler(t)
  <2>1. pc[t] = "retry" \/ pc[t] = "rv_retry"
    BY <1>13, Zenon DEF RetryHandler, Goto
  <2> QED BY <2>1, <1>0, <1>13, RetryHandlerStep, RetryHandlerRevokedStep, Zenon
<1> QED BY <1>1, <1>2, <1>3, <1>4, <1>5, <1>6, <1>7, <1>8, <1>9, <1>10, <1>11, <1>12,
           <1>13, Zenon DEF Progress, Continue

(* Inv is an invariant of the caching lock service, for every set of       *)
(* clients and threads.                                                    *)
THEOREM Invariance == Spec => []Inv
<1>1. Inv /\ [Next]_vars => Inv'
  BY NextInv, StutterInv, Zenon
<1> QED BY InitInv, <1>1, PTL DEF Spec

-----------------------------------------------------------------------------
(* The safety properties follow from the invariant.                        *)

(* Two threads that have the lock belong to the client that owns it, and   *)
(* are both the front of its queue.                                        *)
LEMMA InvMutualExclusion == Inv => MutualExclusion
<1> SUFFICES ASSUME Inv, NEW t \in Thread, NEW u \in Thread,
                    pc[t] = "held", pc[u] = "held"
             PROVE  t = u
  BY Zenon DEF MutualExclusion
<1>1. state[Home[t]] = "LOCKED" /\ state[Home[u]] = "LOCKED"
  BY Zenon DEF Inv, PhaseOK, Phase
<1>2. owner = Home[t] /\ owner = Home[u]
  BY <1>1, HomeAssumption, Zenon DEF Inv, GrantOK
<1>3. Active(t) /\ Active(u)
  BY Zenon DEF Active
<1> QED BY <1>2, <1>3, OneActive, Zenon

(* A thread on its way to revoke has not been granted the lock, so its     *)
(* client is not the owner it reads.                                       *)
LEMMA InvRevokeReachesOwner == Inv => RevokeReachesOwner
<1> SUFFICES ASSUME Inv, NEW t \in Thread
             PROVE  /\ pc[t] = "revoke_read" => owner # NoClient /\ owner # Home[t]
                    /\ pc[t] = "revoke" => dst[t] = owner /\ message[dst[t]] # "REVOKE"
  BY Zenon DEF RevokeReachesOwner
<1>1. ASSUME pc[t] = "revoke_read"
      PROVE  owner # NoClient /\ owner # Home[t]
  <2>1. owner # NoClient
    BY <1>1, Zenon DEF Inv, RevokeOK, RevokeInFlight, ServerOK
  <2>2. ret[t] = "RETRY" /\ state[Home[t]] = "ACQUIRING" /\ Active(t)
    BY <1>1, Zenon DEF Inv, GrantOK, TypeOK, Reply, PhaseOK, Phase, InAcquireRPC, Active
  <2>3. ~Empty(Home[t]) /\ t = Front(Home[t]) /\ Home[t] \in Client
    BY <2>2, OneActive, HomeAssumption, Zenon
  <2> QED BY <1>1, <2>1, <2>2, <2>3, NotOwner, Zenon
<1>2. ASSUME pc[t] = "revoke"
      PROVE  dst[t] = owner /\ message[dst[t]] # "REVOKE"
  BY <1>2, Zenon DEF Inv, RevokeOK, RevokeInFlight
<1> QED BY <1>1, <1>2, Zenon

(* A release RPC is under way only while the server is revoking, and then  *)
(* some client waits.                                                      *)
LEMMA InvReleaseFindsWaiter == Inv => ReleaseFindsWaiter
BY Zenon DEF Inv, ReleaseFindsWaiter, GrantOK, RevokeOK, RevokeInFlight, ServerOK

(* A retry goes to a client whose front thread was told RETRY. *)
LEMMA InvRetryFindsAcquirer == Inv => RetryFindsAcquirer
<1> SUFFICES ASSUME Inv, NEW t \in Thread, RetryInFlight(t), NEW n, n = nxt[t]
             PROVE  /\ threads[n] # <<>>
                    /\ state[n] = "ACQUIRING"
                    /\ pc[Head(threads[n])] \in InAcquireRPC \cup {"waiting"}
                    /\ message[n] = "EMPTY"
  BY Zenon DEF RetryFindsAcquirer, RetryInFlight
<1>1. /\ ~Empty(n) /\ message[n] = "EMPTY" /\ Front(n) \in Thread
      /\ Home[Front(n)] = n /\ pc[Front(n)] \in ToldRetry
  BY RetryFacts, Zenon
<1>2. pc[Front(n)] \in InAcquireRPC \cup {"waiting"}
  BY <1>1, Zenon DEF ToldRetry, InAcquireRPC
<1>3. state[n] = "ACQUIRING"
  BY <1>1, <1>2, Zenon DEF Inv, PhaseOK, Phase
<1> QED BY <1>1, <1>2, <1>3, Zenon DEF Empty, Front

(* A thread asleep in wait is known to the server as waiting, or as the    *)
(* one told to retry, and then its retry is under way or has signalled it. *)
LEMMA InvSleeperIsKnown == Inv => SleeperIsKnown
<1> SUFFICES ASSUME Inv, NEW t \in Thread, pc[t] = "waiting", Home[t] \notin waiting
             PROVE  \/ t \in signalled
                    \/ \E u \in Thread : RetryInFlight(u) /\ nxt[u] = Home[t]
  BY Zenon DEF SleeperIsKnown, RetryInFlight
<1>1. ret[t] = "RETRY"
  BY Zenon DEF Inv, GrantOK, TypeOK, Reply
<1>2. Home[t] = retrying /\ Home[t] # NoClient
  BY <1>1, HomeAssumption, ClientAssumption, Zenon DEF Inv, KnownOK, ToldRetry
<1>3. status = "RETRYING"
  BY <1>2, Zenon DEF Inv, ServerOK, TypeOK, ServerTypeOK, Status
<1>4. PICK w \in Thread :
        /\ Home[w] = retrying
        /\ \/ \E u \in Thread : RetryInFlight(u)
           \/ pc[w] \in ToldRetry /\ (pc[w] = "waiting" => w \in signalled)
           \/ pc[w] = "acquire"
  BY <1>3, Zenon DEF Inv, RetryOK
<1>5. CASE \E u \in Thread : RetryInFlight(u)
  BY <1>2, <1>5, Zenon DEF Inv, RetryOK
<1>6. CASE \/ pc[w] \in ToldRetry /\ (pc[w] = "waiting" => w \in signalled)
           \/ pc[w] = "acquire"
  <2>1. Active(w) /\ Active(t)
    BY <1>6, Zenon DEF Active, ToldRetry
  <2>2. w = t
    BY <2>1, <1>2, <1>4, OneActive, Zenon
  <2> QED BY <2>2, <1>6, Zenon
<1> QED BY <1>4, <1>5, <1>6, Zenon

(* A revoke that is not in flight is recorded in the message of an owner   *)
(* that is about to get the lock, has it, or is giving it back.            *)
LEMMA InvRevokeNotLost == Inv => RevokeNotLost
<1> SUFFICES ASSUME Inv, status = "REVOKING", message[owner] = "REVOKE"
             PROVE  state[owner] \in {"ACQUIRING", "LOCKED", "RELEASING"}
  BY Zenon DEF Inv, NotLostOK, RevokeNotLost, RevokeInFlight
<1>1. owner \in Client
  BY Zenon DEF Inv, ServerOK, TypeOK, ServerTypeOK
<1>2. CASE state[owner] = "LOCKED"
  BY <1>2, Zenon
<1>3. ASSUME NEW t \in Thread, Home[t] = owner, ret[t] = "OK"
      PROVE  state[owner] = "ACQUIRING"
  BY <1>3, Zenon DEF Inv, GrantOK, PhaseOK, Phase, InAcquireRPC
<1>4. ASSUME NEW t \in Thread, Home[t] = owner, pc[t] \in {"release", "retry", "return"}
      PROVE  state[owner] = "RELEASING"
  BY <1>4, Zenon DEF Inv, PhaseOK, Phase
<1> QED BY <1>1, <1>2, <1>3, <1>4, Zenon DEF Inv, MessageOK

(* The fields of both lock_states, the queues and the positions of the     *)
(* threads keep their types.                                               *)
THEOREM TypeCorrect == Spec => []TypeOK
BY Invariance, PTL DEF Inv

(* No lock is granted twice, for any number of clients and threads.        *)
THEOREM MutualExclusionHolds == Spec => []MutualExclusion
BY Invariance, InvMutualExclusion, PTL

(* A lock a client hands out from its cache is one the server says it has. *)
THEOREM CachedLockIsOwnedHolds == Spec => []CachedLockIsOwned
<1>1. Inv => CachedLockIsOwned
  BY Zenon DEF Inv, GrantOK, CachedLockIsOwned
<1> QED BY Invariance, <1>1, PTL

(* The owner that the server's acquire reads without its mutex is the      *)
(* client to revoke, and is so until the revoke arrives.                   *)
THEOREM RevokeReachesOwnerHolds == Spec => []RevokeReachesOwner
BY Invariance, InvRevokeReachesOwner, PTL

(* The server's release never dereferences begin() of an empty set.        *)
THEOREM ReleaseFindsWaiterHolds == Spec => []ReleaseFindsWaiter
BY Invariance, InvReleaseFindsWaiter, PTL

(* retry_handler never takes front() of an empty list, and never overwrites *)
(* a revoke.                                                               *)
THEOREM RetryFindsAcquirerHolds == Spec => []RetryFindsAcquirer
BY Invariance, InvRetryFindsAcquirer, PTL

(* No client reaches one of its exit(0) and the server's assert holds.     *)
THEOREM NeverExitsHolds == Spec => []NeverExits
<1>1. Inv => NeverExits
  BY Zenon DEF Inv, ServerOK, NeverExits
<1> QED BY Invariance, <1>1, PTL

(* No wake-up of a thread asleep in wait is lost.                          *)
THEOREM SleeperIsKnownHolds == Spec => []SleeperIsKnown
BY Invariance, InvSleeperIsKnown, PTL

(* No revoke is lost, in whatever order it and the reply to acquire come.  *)
THEOREM RevokeNotLostHolds == Spec => []RevokeNotLost
BY Invariance, InvRevokeNotLost, PTL

-----------------------------------------------------------------------------
(* The caching lock service implements a mutex.                            *)

(* How a step moves a thread: into acquire, out of acquire with the lock,  *)
(* out of the critical section, or within one of the three.                *)
LEMMA Moves ==
  ASSUME Inv, NEW t \in Thread, CallAcquire(t) \/ Progress(t)
  PROVE  \E x : /\ pc' = [pc EXCEPT ![t] = x]
                /\ \/ pc[t] = "idle" /\ x \in Asking
                   \/ pc[t] \in Asking \cup {"idle"} /\ x = "held"
                   \/ pc[t] = "held" /\ x \notin Asking \cup {"held"}
                   \/ pc[t] \in Asking /\ x \in Asking
                   \/ pc[t] \notin Asking \cup {"held"} /\ x \notin Asking \cup {"held"}
<1> USE DEF Goto, Asking, InAcquireRPC
<1>1. CASE CallAcquire(t)
  BY <1>1, Zenon DEF CallAcquire
<1>2. CASE WakeParked(t) \/ WakeWait(t) \/ RecvReply(t)
  BY <1>2, Zenon DEF WakeParked, WakeWait, RecvReply
<1>3. CASE WakeQueued(t)
  <2> DEFINE x == CASE state[Home[t]] \in {"FREE", "LOCKED"} -> "held"
                    [] state[Home[t]] = "NONE" -> "acquire"
                    [] OTHER -> "queued"
  <2>1. pc[t] = "queued" /\ pc' = [pc EXCEPT ![t] = x]
    BY <1>3, Zenon DEF WakeQueued
  <2>2. x \in {"held", "acquire", "queued"}
    OBVIOUS
  <2> HIDE DEF x
  <2> QED BY <2>1, <2>2, Zenon
<1>4. CASE CallRelease(t) \/ ReleaseReturn(t) \/ ReadOwner(t)
  BY <1>4, Zenon DEF CallRelease, ReleaseReturn, ReadOwner
<1>5. CASE ServeAcquire(t)
  <2>1. \E x \in {"reply", "revoke_read", "revoke"} :
          pc[t] = "acquire" /\ pc' = [pc EXCEPT ![t] = x]
    BY <1>5 DEF ServeAcquire
  <2> QED BY <2>1, Zenon
<1>6. CASE ServeRelease(t) \/ RevokeHandler(t) \/ RevokeReturn(t) \/ RetryHandler(t)
  BY <1>6, Zenon DEF ServeRelease, RevokeHandler, RevokeReturn, RetryHandler
<1> QED BY <1>1, <1>2, <1>3, <1>4, <1>5, <1>6, Zenon DEF Progress, Continue

(* A step of the service is a step of the mutex or leaves it alone: when   *)
(* acquire returns, mutual exclusion in the new state says that nobody had *)
(* the lock in the old one.                                                *)
LEMMA MutexStep ==
  ASSUME Inv, MutualExclusion', [Next]_vars
  PROVE  [Lock!MutexNext]_(Lock!mutexVars)
<1> DEFINE A == {u \in Thread : pc[u] \in Asking}
           H == {u \in Thread : pc[u] = "held"}
<1>1. CASE UNCHANGED vars
  <2>1. A' = A /\ H' = H
    BY <1>1, Zenon DEF vars
  <2> QED BY <2>1, Zenon DEF Lock!mutexVars
<1>2. CASE Next
  <2>1. PICK t \in Thread : CallAcquire(t) \/ Progress(t)
    BY <1>2, Zenon DEF Next
  <2>2. PICK x : /\ pc' = [pc EXCEPT ![t] = x]
                 /\ \/ pc[t] = "idle" /\ x \in Asking
                    \/ pc[t] \in Asking \cup {"idle"} /\ x = "held"
                    \/ pc[t] = "held" /\ x \notin Asking \cup {"held"}
                    \/ pc[t] \in Asking /\ x \in Asking
                    \/ pc[t] \notin Asking \cup {"held"} /\ x \notin Asking \cup {"held"}
    BY <2>1, Moves, Zenon
  <2>3. \A u \in Thread : pc'[u] = IF u = t THEN x ELSE pc[u]
    BY <2>2, Zenon DEF Inv, TypeOK
  <2>4. "held" \notin Asking /\ "idle" \notin Asking
    BY Zenon DEF Asking, InAcquireRPC
  <2>5. CASE pc[t] = "idle" /\ x \in Asking
    <3>1. t \notin A \cup H /\ A' = A \cup {t} /\ H' = H
      BY <2>3, <2>4, <2>5
    <3> QED BY <3>1, Zenon DEF Lock!MutexNext, Lock!Ask
  <2>6. CASE pc[t] \in Asking \cup {"idle"} /\ x = "held"
    <3>1. pc[t] # "held" /\ pc'[t] = "held"
      BY <2>3, <2>4, <2>6, Zenon
    <3>2. \A u \in Thread : pc[u] # "held"
      BY <2>3, <3>1, Zenon DEF MutualExclusion
    <3>3. H = {} /\ H' = {t} /\ A' = A \ {t}
      BY <2>3, <2>4, <2>6, <3>2
    <3> QED BY <3>3, Zenon DEF Lock!MutexNext, Lock!Grant
  <2>7. CASE pc[t] = "held" /\ x \notin Asking \cup {"held"}
    <3>1. t \in H /\ H' = H \ {t} /\ A' = A
      BY <2>3, <2>4, <2>7
    <3> QED BY <3>1, Zenon DEF Lock!MutexNext, Lock!Return
  <2>8. CASE \/ pc[t] \in Asking /\ x \in Asking
             \/ pc[t] \notin Asking \cup {"held"} /\ x \notin Asking \cup {"held"}
    <3>1. A' = A /\ H' = H
      BY <2>3, <2>4, <2>8
    <3> QED BY <3>1, Zenon DEF Lock!mutexVars
  <2> QED BY <2>2, <2>5, <2>6, <2>7, <2>8, Zenon
<1> QED BY <1>1, <1>2, Zenon

(* The callers of acquire and release, of whatever client, see one mutex.  *)
THEOREM Refinement == Spec => ImplementsMutex
<1>1. Init => Lock!MutexInit
  <2> SUFFICES ASSUME Init PROVE Lock!MutexInit
    OBVIOUS
  <2>1. \A t \in Thread : pc[t] = "idle"
    BY Zenon DEF Init
  <2> QED BY <2>1 DEF Lock!MutexInit, Asking, InAcquireRPC
<1>2. Inv /\ MutualExclusion' /\ [Next]_vars => [Lock!MutexNext]_(Lock!mutexVars)
  BY MutexStep, Zenon
<1> QED BY <1>1, <1>2, Invariance, MutualExclusionHolds, PTL
        DEF Spec, ImplementsMutex, Lock!MutexSpec

=============================================================================
