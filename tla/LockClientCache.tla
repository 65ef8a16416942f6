--------------------------- MODULE LockClientCache ---------------------------
(***************************************************************************)
(* The lock_state of one lock in every lock_client_cache, and the critical *)
(* sections of acquire, wait, release, revoke_handler and retry_handler:   *)
(* what each does between taking the client's mutex and giving it up, at   *)
(* an unlock, a pthread_cond_wait or a return.  Module CachingLock strings *)
(* the sections together and adds the RPCs between them.                   *)
(*                                                                         *)
(* Every thread waits on a condition variable of its own, queued in        *)
(* threads, so the queue holds the threads themselves.  A signal puts a    *)
(* thread that is inside pthread_cond_wait in signalled, where it stays    *)
(* until it runs again, and has no effect on any other thread.             *)
(***************************************************************************)
EXTENDS LockProtocol, Sequences

VARIABLES
  state,      \* lock_state::state of each client
  message,    \* lock_state::message of each client
  threads,    \* lock_state::threads of each client
  signalled,  \* sleeping threads whose condition variable was signalled
  exited,     \* clients whose process called exit(0)
  pc          \* where each thread is; CachingLock moves it

clientVars == <<state, message, threads, signalled, exited>>

(* The three calls of pthread_cond_wait: acquire on an empty and on a      *)
(* non-empty queue, and wait.                                              *)
Asleep == {t \in Thread : pc[t] \in {"parked", "queued", "waiting"}}

State == {"NONE", "ACQUIRING", "FREE", "RELEASING", "LOCKED"}
Message == {"EMPTY", "RETRY", "REVOKE"}

ClientTypeOK ==
  /\ state \in [Client -> State]
  /\ message \in [Client -> Message]
  /\ threads \in [Client -> Seq(Thread)]
  /\ signalled \in SUBSET Thread
  /\ exited \in SUBSET Client

ClientInit ==
  /\ state = [c \in Client |-> "NONE"]
  /\ message = [c \in Client |-> "EMPTY"]
  /\ threads = [c \in Client |-> <<>>]
  /\ signalled = {}
  /\ exited = {}

Push(c, t) == threads' = [threads EXCEPT ![c] = Append(@, t)]

(* pthread_cond_signal on the condition variable of the queue's front. *)
SignalFront(q) ==
  signalled' = IF q # <<>> /\ Head(q) \in Asleep
               THEN signalled \cup {Head(q)} ELSE signalled

(* pthread_cond_wait returns: t was signalled and has the mutex again. *)
WakeUp(t) ==
  /\ t \in signalled
  /\ signalled' = signalled \ {t}

-----------------------------------------------------------------------------
(* acquire, up to its first unlock or cond_wait.                           *)

CltAcquireFree(c, t) ==
  /\ threads[c] = <<>> /\ state[c] = "FREE"
  /\ Push(c, t)
  /\ state' = [state EXCEPT ![c] = "LOCKED"]
  /\ UNCHANGED <<message, signalled, exited>>

(* calls wait, which sets ACQUIRING and unlocks for the acquire RPC. *)
CltAcquireNone(c, t) ==
  /\ threads[c] = <<>> /\ state[c] = "NONE"
  /\ Push(c, t)
  /\ state' = [state EXCEPT ![c] = "ACQUIRING"]
  /\ UNCHANGED <<message, signalled, exited>>

(* the queue is empty but the lock is on its way back to the server. *)
CltAcquirePark(c, t) ==
  /\ threads[c] = <<>> /\ state[c] \notin {"FREE", "NONE"}
  /\ Push(c, t)
  /\ UNCHANGED <<state, message, signalled, exited>>

CltAcquireQueue(c, t) ==
  /\ threads[c] # <<>>
  /\ Push(c, t)
  /\ UNCHANGED <<state, message, signalled, exited>>

(* the parked thread wakes and calls wait without looking at the state. *)
CltWakeParked(c, t) ==
  /\ WakeUp(t)
  /\ state' = [state EXCEPT ![c] = "ACQUIRING"]
  /\ UNCHANGED <<message, threads, exited>>

(* a queued thread wakes and the switch on the state decides: it has the   *)
(* lock, it calls wait, or the process exits.                              *)
CltWakeQueued(c, t) ==
  /\ WakeUp(t)
  /\ state' = [state EXCEPT ![c] = CASE @ \in {"FREE", "LOCKED"} -> "LOCKED"
                                     [] @ = "NONE" -> "ACQUIRING"
                                     [] OTHER -> @]
  /\ exited' = IF state[c] \in {"FREE", "LOCKED", "NONE"}
               THEN exited ELSE exited \cup {c}
  /\ UNCHANGED <<message, threads>>

-----------------------------------------------------------------------------
(* wait, from the return of the acquire RPC.                               *)

(* The end of wait's loop body: message becomes EMPTY, and the loop goes   *)
(* round while the state is ACQUIRING and runs into exit(0) otherwise.     *)
CltLoop(c) ==
  /\ message' = [message EXCEPT ![c] = "EMPTY"]
  /\ exited' = IF state[c] = "ACQUIRING" THEN exited ELSE exited \cup {c}

(* Mutant: a reply OK clears the message, with a revoke that came first. *)
MutantReplyOKClears(c) ==
  /\ state' = [state EXCEPT ![c] = "LOCKED"]
  /\ message' = [message EXCEPT ![c] = "EMPTY"]
  /\ UNCHANGED <<threads, signalled, exited>>

CltReplyOK(c) ==
  /\ state' = [state EXCEPT ![c] = "LOCKED"]
  /\ UNCHANGED <<message, threads, signalled, exited>>

CltReplyRetrySleep(c) ==
  /\ message[c] = "EMPTY"
  /\ UNCHANGED clientVars

CltReplyRetryAgain(c) ==
  /\ message[c] # "EMPTY"
  /\ CltLoop(c)
  /\ UNCHANGED <<state, threads, signalled>>

CltWakeWait(c, t) ==
  /\ WakeUp(t)
  /\ CltLoop(c)
  /\ UNCHANGED <<state, threads>>

-----------------------------------------------------------------------------
(* release.                                                                *)

(* no revoke came: the lock stays here, free or handed to the next thread. *)
CltReleaseKeep(c) ==
  /\ message[c] # "REVOKE"
  /\ threads' = [threads EXCEPT ![c] = Tail(@)]
  /\ state' = [state EXCEPT ![c] = IF Tail(threads[c]) = <<>>
                                   THEN "FREE" ELSE "LOCKED"]
  /\ SignalFront(Tail(threads[c]))
  /\ UNCHANGED <<message, exited>>

(* a revoke came: unlock and call the server's release. *)
CltReleaseRevoked(c) ==
  /\ message[c] = "REVOKE"
  /\ state' = [state EXCEPT ![c] = "RELEASING"]
  /\ UNCHANGED <<message, threads, signalled, exited>>

(* Mutant: the revoke that has been obeyed is not cleared. *)
MutantReleaseKeepsRevoke(c) ==
  /\ state' = [state EXCEPT ![c] = "NONE"]
  /\ threads' = [threads EXCEPT ![c] = Tail(@)]
  /\ SignalFront(Tail(threads[c]))
  /\ UNCHANGED <<message, exited>>

(* Mutant: the state is not set to NONE. *)
MutantReleaseLeavesState(c) ==
  /\ message' = [message EXCEPT ![c] = "EMPTY"]
  /\ threads' = [threads EXCEPT ![c] = Tail(@)]
  /\ SignalFront(Tail(threads[c]))
  /\ UNCHANGED <<state, exited>>

(* Mutant: the next queued thread is not signalled. *)
MutantReleaseNoSignal(c) ==
  /\ message' = [message EXCEPT ![c] = "EMPTY"]
  /\ state' = [state EXCEPT ![c] = "NONE"]
  /\ threads' = [threads EXCEPT ![c] = Tail(@)]
  /\ UNCHANGED <<signalled, exited>>

(* the rest of release once that RPC returned. *)
CltReleaseReturn(c) ==
  /\ message' = [message EXCEPT ![c] = "EMPTY"]
  /\ state' = [state EXCEPT ![c] = "NONE"]
  /\ threads' = [threads EXCEPT ![c] = Tail(@)]
  /\ SignalFront(Tail(threads[c]))
  /\ UNCHANGED <<exited>>

-----------------------------------------------------------------------------
(* revoke_handler and retry_handler.                                       *)

(* Mutant: a lock that is in use is given back as well. *)
MutantRevokeLocked(c) ==
  /\ state[c] \in {"FREE", "LOCKED"}
  /\ state' = [state EXCEPT ![c] = "RELEASING"]
  /\ UNCHANGED <<message, threads, signalled, exited>>

(* Mutant: the lock is still marked free during the release RPC. *)
MutantRevokeStaysFree(c) ==
  /\ state[c] = "FREE"
  /\ UNCHANGED clientVars

(* the lock is cached and free: unlock and call the server's release. *)
CltRevokeFree(c) ==
  /\ state[c] = "FREE"
  /\ state' = [state EXCEPT ![c] = "RELEASING"]
  /\ UNCHANGED <<message, threads, signalled, exited>>

CltRevokeBusy(c) ==
  /\ state[c] # "FREE"
  /\ message' = [message EXCEPT ![c] = "REVOKE"]
  /\ UNCHANGED <<state, threads, signalled, exited>>

(* Mutant: the parked thread is not signalled. *)
MutantRevokeNoSignal(c) ==
  /\ state' = [state EXCEPT ![c] = "NONE"]
  /\ UNCHANGED <<message, threads, signalled, exited>>

(* the rest of revoke_handler once the release RPC returned. *)
CltRevokeReturn(c) ==
  /\ state' = [state EXCEPT ![c] = "NONE"]
  /\ SignalFront(threads[c])
  /\ UNCHANGED <<message, threads, exited>>

(* Mutant: the retry is only signalled, not left as a message. *)
MutantRetryNoMessage(c) ==
  /\ threads[c] # <<>>
  /\ SignalFront(threads[c])
  /\ UNCHANGED <<state, message, threads, exited>>

(* front() of an empty list is undefined; the guard stands for the         *)
(* executions that are defined.                                            *)
CltRetry(c) ==
  /\ threads[c] # <<>>
  /\ message' = [message EXCEPT ![c] = "RETRY"]
  /\ SignalFront(threads[c])
  /\ UNCHANGED <<state, threads, exited>>

=============================================================================
