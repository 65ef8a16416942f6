----------------------------- MODULE CachingLock -----------------------------
(***************************************************************************)
(* The caching lock service: one lock of lock_server_cache together with   *)
(* every lock_client_cache and the threads that use it.                    *)
(*                                                                         *)
(* RPCs are synchronous: a caller is blocked until the handler returns, and *)
(* a handler that calls back is blocked too.  A thread's acquire or release *)
(* is thus one line of control that moves from the client to the server,   *)
(* on to another client and back, and pc says where it is.  A step is one  *)
(* critical section of a mutex; between two steps every other thread may   *)
(* run, which covers every delay of a request or a reply.  The RPC library *)
(* (retransmission, at-most-once execution) is taken as reliable.          *)
(*                                                                         *)
(*   idle         outside acquire and release                              *)
(*   parked       acquire, cond_wait on an empty queue                     *)
(*   queued       acquire, cond_wait behind other threads                  *)
(*   acquire      wait, acquire RPC on its way to the server               *)
(*   revoke_read    server acquire, unlocked, about to read ls->owner      *)
(*   revoke         revoke RPC on its way to client dst                    *)
(*   rv_release     revoke_handler's release RPC on its way to the server  *)
(*   rv_retry       server release, retry RPC on its way to client nxt     *)
(*   rv_return      release RPC on its way back to revoke_handler          *)
(*   reply        acquire RPC on its way back with the value ret           *)
(*   waiting      wait, cond_wait for a retry                              *)
(*   held         acquire returned, the caller has the lock                *)
(*   release      release RPC on its way to the server                     *)
(*   retry          server release, retry RPC on its way to client nxt     *)
(*   return       release RPC on its way back to release                   *)
(***************************************************************************)
EXTENDS LockServerCache, LockClientCache

VARIABLES
  ret,        \* what the thread's acquire RPC returns
  dst,        \* the client the thread's acquire RPC revokes
  nxt         \* the client the thread's release RPC tells to retry

vars == <<status, owner, retrying, waiting,
          state, message, threads, signalled, exited, pc, ret, dst, nxt>>

Label == {"idle", "parked", "queued", "acquire", "revoke_read", "revoke",
          "rv_release", "rv_retry", "rv_return", "reply", "waiting", "held",
          "release", "retry", "return"}

TypeOK ==
  /\ ServerTypeOK
  /\ ClientTypeOK
  /\ pc \in [Thread -> Label]
  /\ ret \in [Thread -> Reply]
  /\ dst \in [Thread -> Client \cup {NoClient}]
  /\ nxt \in [Thread -> Client \cup {NoClient}]

Init ==
  /\ ServerInit
  /\ ClientInit
  /\ pc = [t \in Thread |-> "idle"]
  /\ ret = [t \in Thread |-> "RETRY"]
  /\ dst = [t \in Thread |-> NoClient]
  /\ nxt = [t \in Thread |-> NoClient]

Goto(t, from, to) == pc[t] = from /\ pc' = [pc EXCEPT ![t] = to]

(* The code of client c can run: its process has not called exit(0). *)
Alive(c) == c \notin exited

-----------------------------------------------------------------------------
(* lock_client_cache::acquire and wait, in the calling thread.             *)

CallAcquire(t) ==
  /\ Alive(Home[t])
  /\ \/ Goto(t, "idle", "held") /\ CltAcquireFree(Home[t], t)
     \/ Goto(t, "idle", "acquire") /\ CltAcquireNone(Home[t], t)
     \/ Goto(t, "idle", "parked") /\ CltAcquirePark(Home[t], t)
     \/ Goto(t, "idle", "queued") /\ CltAcquireQueue(Home[t], t)
  /\ UNCHANGED <<serverVars, ret, dst, nxt>>

WakeParked(t) ==
  /\ Alive(Home[t])
  /\ Goto(t, "parked", "acquire")
  /\ CltWakeParked(Home[t], t)
  /\ UNCHANGED <<serverVars, ret, dst, nxt>>

WakeQueued(t) ==
  /\ Alive(Home[t])
  /\ Goto(t, "queued", CASE state[Home[t]] \in {"FREE", "LOCKED"} -> "held"
                          [] state[Home[t]] = "NONE" -> "acquire"
                          [] OTHER -> "queued")
  /\ CltWakeQueued(Home[t], t)
  /\ UNCHANGED <<serverVars, ret, dst, nxt>>

RecvReply(t) ==
  /\ Alive(Home[t])
  /\ \/ /\ ret[t] = "OK"
        /\ Goto(t, "reply", "held")
        /\ CltReplyOK(Home[t])
     \/ /\ ret[t] # "OK"
        /\ Goto(t, "reply", "waiting")
        /\ CltReplyRetrySleep(Home[t])
     \/ /\ ret[t] # "OK"
        /\ Goto(t, "reply", "acquire")
        /\ CltReplyRetryAgain(Home[t])
  /\ ret' = [ret EXCEPT ![t] = "RETRY"]
  /\ UNCHANGED <<serverVars, dst, nxt>>

WakeWait(t) ==
  /\ Alive(Home[t])
  /\ Goto(t, "waiting", "acquire")
  /\ CltWakeWait(Home[t], t)
  /\ UNCHANGED <<serverVars, ret, dst, nxt>>

-----------------------------------------------------------------------------
(* lock_client_cache::release, in the calling thread.                      *)

CallRelease(t) ==
  /\ Alive(Home[t])
  /\ \/ Goto(t, "held", "idle") /\ CltReleaseKeep(Home[t])
     \/ Goto(t, "held", "release") /\ CltReleaseRevoked(Home[t])
  /\ UNCHANGED <<serverVars, ret, dst, nxt>>

ReleaseReturn(t) ==
  /\ Alive(Home[t])
  /\ Goto(t, "return", "idle")
  /\ CltReleaseReturn(Home[t])
  /\ UNCHANGED <<serverVars, ret, dst, nxt>>

-----------------------------------------------------------------------------
(* lock_server_cache::acquire, in the server thread that serves t's call.  *)

ServeAcquire(t) ==
  /\ \/ /\ SrvAcquireNone(Home[t])
        /\ ret' = [ret EXCEPT ![t] = "OK"]
        /\ Goto(t, "acquire", "reply")
        /\ UNCHANGED dst
     \/ /\ SrvAcquireLocked(Home[t])
        /\ ret' = [ret EXCEPT ![t] = "RETRY"]
        /\ Goto(t, "acquire", "revoke_read")
        /\ UNCHANGED dst
     \/ /\ SrvAcquireRevoking(Home[t]) \/ SrvAcquireOther(Home[t])
        /\ ret' = [ret EXCEPT ![t] = "RETRY"]
        /\ Goto(t, "acquire", "reply")
        /\ UNCHANGED dst
     \/ /\ SrvAcquireRetrying(Home[t])
        /\ ret' = [ret EXCEPT ![t] = "OK"]
        /\ Goto(t, "acquire", IF waiting = {} THEN "reply" ELSE "revoke")
        /\ dst' = IF waiting = {} THEN dst ELSE [dst EXCEPT ![t] = Home[t]]
  /\ UNCHANGED <<clientVars, nxt>>

(* case LOCKED reads ls->owner after unlocking the server's mutex. *)
ReadOwner(t) ==
  /\ Goto(t, "revoke_read", "revoke")
  /\ dst' = [dst EXCEPT ![t] = owner]
  /\ UNCHANGED <<serverVars, clientVars, ret, nxt>>

(* lock_server_cache::release, called by release or by revoke_handler. *)
ServeRelease(t) ==
  /\ Goto(t, "release", "retry") \/ Goto(t, "rv_release", "rv_retry")
  /\ SrvRelease
  /\ nxt' = [nxt EXCEPT ![t] = Begin(waiting)]
  /\ UNCHANGED <<clientVars, ret, dst>>

-----------------------------------------------------------------------------
(* lock_client_cache's RPC handlers, in the client the server called.      *)

RevokeHandler(t) ==
  /\ Alive(dst[t]) /\ dst[t] \in Client
  /\ \/ /\ Goto(t, "revoke", "rv_release")
        /\ CltRevokeFree(dst[t])
        /\ UNCHANGED dst
     \/ /\ Goto(t, "revoke", "reply")
        /\ CltRevokeBusy(dst[t])
        /\ dst' = [dst EXCEPT ![t] = NoClient]
  /\ UNCHANGED <<serverVars, ret, nxt>>

RevokeReturn(t) ==
  /\ Alive(dst[t])
  /\ Goto(t, "rv_return", "reply")
  /\ CltRevokeReturn(dst[t])
  /\ dst' = [dst EXCEPT ![t] = NoClient]
  /\ UNCHANGED <<serverVars, ret, nxt>>

RetryHandler(t) ==
  /\ Alive(nxt[t])
  /\ Goto(t, "retry", "return") \/ Goto(t, "rv_retry", "rv_return")
  /\ CltRetry(nxt[t])
  /\ nxt' = [nxt EXCEPT ![t] = NoClient]
  /\ UNCHANGED <<serverVars, ret, dst>>

-----------------------------------------------------------------------------
(* The steps inside acquire and release, after the call and until it       *)
(* returns.                                                                *)
Continue(t) ==
  \/ WakeParked(t) \/ WakeQueued(t) \/ RecvReply(t) \/ WakeWait(t)
  \/ ReleaseReturn(t)
  \/ ServeAcquire(t) \/ ReadOwner(t) \/ ServeRelease(t)
  \/ RevokeHandler(t) \/ RevokeReturn(t) \/ RetryHandler(t)

(* A thread that has entered acquire goes on, until it is out of release. *)
Progress(t) == Continue(t) \/ CallRelease(t)

Next == \E t \in Thread : CallAcquire(t) \/ Progress(t)

Spec == Init /\ [][Next]_vars

(* Every runnable thread eventually runs, every RPC is eventually served,  *)
(* and a caller that got the lock eventually calls release.                *)
FairSpec == Spec /\ \A t \in Thread : WF_vars(Progress(t))

(* pthread_cond_wait may return without a signal (POSIX permits it): the   *)
(* sleeping thread becomes runnable as if it had been signalled.           *)
SpuriousWakeup(t) ==
  /\ t \in Asleep \ signalled
  /\ signalled' = signalled \cup {t}
  /\ UNCHANGED <<serverVars, state, message, threads, exited, pc, ret, dst, nxt>>

SpuriousSpec ==
  Init /\ [][Next \/ \E t \in Thread : SpuriousWakeup(t)]_vars

-----------------------------------------------------------------------------
(* Properties.                                                             *)

(* Steps of a thread's acquire RPC, from the request to the reply. *)
InAcquireRPC == {"acquire", "revoke_read", "revoke", "rv_release", "rv_retry",
                 "rv_return", "reply"}

(* Every step of acquire after the call, up to its return. *)
Asking == InAcquireRPC \cup {"parked", "queued", "waiting"}

(* What the callers of acquire and release see is a plain mutex: whatever  *)
(* is cached, revoked or retried underneath, acquire returns only while no *)
(* thread of any client has the lock.                                      *)
Lock == INSTANCE Mutex WITH
          asking <- {t \in Thread : pc[t] \in Asking},
          holding <- {t \in Thread : pc[t] = "held"}

ImplementsMutex == Lock!MutexSpec

(* No lock is granted twice: at most one thread of all the clients is      *)
(* between the return of acquire and its call of release, which is what    *)
(* check_grant and check_release in lock_tester.cc count.                  *)
MutualExclusion ==
  \A t, u \in Thread : pc[t] = "held" /\ pc[u] = "held" => t = u

(* A client that hands its lock out locally, without asking the server, is *)
(* the owner the server has on record: the two lock_states agree whenever  *)
(* acquire may return OK from the cache.                                   *)
CachedLockIsOwned ==
  \A c \in Client : state[c] \in {"FREE", "LOCKED"} => owner = c

(* acquire's case LOCKED reads ls->owner after it unlocked the mutex.  The *)
(* read still finds the client that made it revoke, and the revoke reaches *)
(* that client while it is the owner: no stale revoke is ever delivered.   *)
RevokeReachesOwner ==
  \A t \in Thread :
    /\ pc[t] = "revoke_read" => owner # NoClient /\ owner # Home[t]
    /\ pc[t] = "revoke" => dst[t] = owner /\ message[dst[t]] # "REVOKE"

(* release dereferences waiting.begin() without looking at the set, the    *)
(* state or the caller.  Whenever a release RPC is under way it comes from *)
(* the owner and some client waits.                                        *)
ReleaseFindsWaiter ==
  \A t \in Thread :
    /\ pc[t] = "release" => owner = Home[t] /\ waiting # {}
    /\ pc[t] = "rv_release" => owner = dst[t] /\ waiting # {}

(* retry_handler signals threads.front() without looking at the list.      *)
(* Whenever a retry RPC is under way, the front of the list it will signal *)
(* is the thread inside wait that was told RETRY, and no revoke is pending *)
(* in the message it overwrites.                                           *)
RetryFindsAcquirer ==
  \A t \in Thread : pc[t] \in {"retry", "rv_retry"} =>
    LET c == nxt[t] IN
      /\ threads[c] # <<>>
      /\ state[c] = "ACQUIRING"
      /\ pc[Head(threads[c])] \in InAcquireRPC \cup {"waiting"}
      /\ message[c] = "EMPTY"

(* The exits the code takes when its protocol is broken are never taken:   *)
(* acquire's default: exit(0), the exit(0) after wait's loop, and the      *)
(* server's assert that a retrying client is not also waiting.             *)
NeverExits ==
  /\ exited = {}
  /\ retrying \notin waiting

(* A wake-up is never lost: a thread asleep in wait is still recorded by   *)
(* the server as waiting, or the retry that will wake it is under way, or  *)
(* it has been signalled.                                                  *)
SleeperIsKnown ==
  \A t \in Thread : pc[t] = "waiting" =>
    \/ t \in signalled
    \/ Home[t] \in waiting
    \/ \E u \in Thread : pc[u] \in {"retry", "rv_retry"} /\ nxt[u] = Home[t]

(* A revoke is never lost: while clients wait, the revoke is on its way to *)
(* the owner, or is recorded in the owner's message, or the owner's        *)
(* release is on its way to the server.                                    *)
RevokeNotLost ==
  status = "REVOKING" =>
    \/ \E t \in Thread : pc[t] \in {"revoke_read", "revoke"}
    \/ message[owner] = "REVOKE" /\ state[owner] \in {"ACQUIRING", "LOCKED", "RELEASING"}
    \/ \E t \in Thread : pc[t] = "rv_release"

(* Every acquire returns: a thread that has called acquire eventually has  *)
(* the lock, provided holders release.                                     *)
AcquireReturns ==
  \A t \in Thread : pc[t] \in Asking ~> pc[t] = "held"

=============================================================================
