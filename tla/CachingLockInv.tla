---------------------------- MODULE CachingLockInv ----------------------------
(***************************************************************************)
(* The inductive invariant of CachingLock, as a conjunction of named       *)
(* parts.  The safety properties of CachingLock follow from it, and        *)
(* CachingLockProofs proves both.                                          *)
(***************************************************************************)
EXTENDS CachingLock

(* The queue of client c, and the thread at its front. *)
Empty(c) == threads[c] = <<>>
Front(c) == Head(threads[c])

(* What is left of a queue when its front leaves. *)
Single(c) == Tail(threads[c]) = <<>>
Second(c) == Head(Tail(threads[c]))

(* Where a thread that was told RETRY is, until it asks again. *)
ToldRetry == {"revoke_read", "revoke", "rv_release", "rv_retry", "rv_return",
              "reply", "waiting"}

(* Where a thread is that has been queued and is no longer a mere waiter. *)
Active(t) == pc[t] \notin {"idle", "queued"} \/ t \in signalled

(* A revoke that has not yet had its effect. *)
RevokeInFlight(t) == pc[t] \in {"revoke_read", "revoke", "rv_release"}

(* A revoke_handler call for t is handing dst's lock back. *)
HandingBack(t) == pc[t] \in {"rv_release", "rv_retry", "rv_return"}

RetryInFlight(t) == pc[t] \in {"retry", "rv_retry"}

-----------------------------------------------------------------------------
(* The queue of a client holds threads of that client, each once, all but  *)
(* the first asleep behind it.                                             *)
QueueOK ==
  \A c \in Client :
    /\ \A i \in 1 .. Len(threads[c]) :
         Home[threads[c][i]] = c /\ pc[threads[c][i]] # "idle"
    /\ \A i \in 2 .. Len(threads[c]) :
         pc[threads[c][i]] = "queued" /\ threads[c][i] \notin signalled
    /\ \A i, j \in 1 .. Len(threads[c]) : threads[c][i] = threads[c][j] => i = j

(* A thread that is active is the first of its client's queue. *)
ActiveIsFront ==
  \A t \in Thread : Active(t) =>
    ~Empty(Home[t]) /\ t = Front(Home[t])

(* A client with an empty queue is not acquiring and not locked. *)
EmptyOK ==
  \A c \in Client : Empty(c) =>
    /\ state[c] \in {"NONE", "FREE", "RELEASING"}
    /\ message[c] = "EMPTY"

(* A first thread that still is in acquire's second cond_wait has been     *)
(* signalled, and finds a state it can go on from.                         *)
FrontOK ==
  \A c \in Client : ~Empty(c) /\ pc[Front(c)] = "queued" =>
    Front(c) \in signalled /\ state[c] \in {"LOCKED", "NONE"}

(* The position of a client's first thread determines the client's state. *)
Phase(t) ==
  /\ t \in signalled => pc[t] \in {"parked", "queued", "waiting"}
  /\ pc[t] = "parked" => IF t \in signalled THEN state[Home[t]] = "NONE"
                                            ELSE state[Home[t]] = "RELEASING"
  /\ pc[t] \in InAcquireRPC \cup {"waiting"} => state[Home[t]] = "ACQUIRING"
  /\ pc[t] = "held" => state[Home[t]] = "LOCKED"
  /\ pc[t] \in {"release", "retry", "return"} => state[Home[t]] = "RELEASING"

PhaseOK == \A t \in Thread : Phase(t)

(* The fields of the server's lock_state fit together. *)
ServerOK ==
  /\ status = "NONE" => owner = NoClient /\ retrying = NoClient /\ waiting = {}
  /\ status = "LOCKED" => owner # NoClient /\ retrying = NoClient /\ waiting = {}
  /\ status = "REVOKING" => owner # NoClient /\ retrying = NoClient /\ waiting # {}
  /\ status = "RETRYING" => owner = NoClient /\ retrying # NoClient
  /\ retrying \notin waiting
  /\ owner \notin waiting

(* Who has been granted the lock and has not yet given it back is owner. *)
GrantOK ==
  /\ \A c \in Client : state[c] \in {"FREE", "LOCKED"} => owner = c
  /\ \A t \in Thread :
       ret[t] = "OK" => pc[t] \in {"revoke", "reply"} /\ owner = Home[t]
  /\ \A t \in Thread : pc[t] = "release" => owner = Home[t] /\ status = "REVOKING"

(* ... and the owner has been granted the lock and not yet given it back. *)
OwnerOK ==
  \A c \in Client : owner = c =>
    \/ state[c] \in {"FREE", "LOCKED"}
    \/ \E t \in Thread : Home[t] = c /\ (ret[t] = "OK" \/ pc[t] = "release")
    \/ \E t \in Thread : pc[t] = "rv_release" /\ dst[t] = c

(* A revoke_handler that gives the lock back works for one client, whose   *)
(* queue is empty or begins with a thread parked until it is done.         *)
RevokingOK ==
  /\ \A t \in Thread : HandingBack(t) =>
       /\ dst[t] \in Client
       /\ state[dst[t]] = "RELEASING"
       /\ ~Empty(dst[t]) => pc[Front(dst[t])] = "parked"
  /\ \A t, u \in Thread :
       HandingBack(t) /\ HandingBack(u) /\ dst[t] = dst[u] => t = u

(* At most one revoke is in flight, to the owner, who does not yet know. *)
RevokeOK ==
  /\ \A t \in Thread : RevokeInFlight(t) =>
       /\ status = "REVOKING"
       /\ message[owner] # "REVOKE"
       /\ pc[t] # "revoke_read" => dst[t] = owner
  /\ \A t, u \in Thread : RevokeInFlight(t) /\ RevokeInFlight(u) => t = u

(* A recorded revoke is for the present ownership, or for the one release  *)
(* is just giving back; release keeps it until it is done.                 *)
MessageOK ==
  /\ \A c \in Client : message[c] = "REVOKE" =>
       \/ /\ owner = c /\ status = "REVOKING"
          /\ \/ state[c] = "LOCKED"
             \/ \E t \in Thread : Home[t] = c /\ (ret[t] = "OK" \/ pc[t] = "release")
       \/ \E t \in Thread : Home[t] = c /\ pc[t] \in {"retry", "return"}
  /\ \A t \in Thread :
       pc[t] \in {"release", "retry", "return"} => message[Home[t]] = "REVOKE"
  /\ \A c \in Client : message[c] = "RETRY" => retrying = c

(* A client the server lists as waiting has a thread that was told RETRY   *)
(* and that nothing has woken yet.                                         *)
WaitingOK ==
  \A c \in waiting :
    /\ message[c] = "EMPTY"
    /\ \E t \in Thread :
         Home[t] = c /\ pc[t] \in ToldRetry /\ ret[t] = "RETRY" /\ t \notin signalled

(* The client told to retry: its retry is under way, or has arrived and is *)
(* not yet acted on, or its thread is asking again.                        *)
RetryOK ==
  /\ \A t \in Thread : RetryInFlight(t) => status = "RETRYING" /\ nxt[t] = retrying
  /\ \A t, u \in Thread : RetryInFlight(t) /\ RetryInFlight(u) => t = u
  /\ status = "RETRYING" =>
       \E t \in Thread :
         /\ Home[t] = retrying /\ ret[t] = "RETRY"
         /\ \/ /\ \E u \in Thread : RetryInFlight(u)
               /\ pc[t] \in ToldRetry /\ t \notin signalled
               /\ message[retrying] = "EMPTY"
            \/ /\ \A u \in Thread : ~RetryInFlight(u)
               /\ pc[t] \in ToldRetry /\ (pc[t] = "waiting" => t \in signalled)
               /\ message[retrying] = "RETRY"
            \/ /\ \A u \in Thread : ~RetryInFlight(u)
               /\ pc[t] = "acquire"
               /\ message[retrying] = "EMPTY"

(* A thread told RETRY is known to the server. *)
KnownOK ==
  \A t \in Thread : pc[t] \in ToldRetry /\ ret[t] = "RETRY" =>
    Home[t] \in waiting \/ Home[t] = retrying

(* While clients wait the owner has been told, or is being told. *)
NotLostOK ==
  status = "REVOKING" =>
    message[owner] = "REVOKE" \/ \E t \in Thread : RevokeInFlight(t)

(* The inductive invariant: the parts above and that no client has exited. *)
(* It ties each client's lock_state, the position of its first thread and  *)
(* the server's lock_state together across every RPC in flight.            *)
Inv ==
  /\ TypeOK
  /\ QueueOK /\ ActiveIsFront /\ EmptyOK /\ FrontOK /\ PhaseOK
  /\ ServerOK /\ GrantOK /\ OwnerOK
  /\ RevokingOK /\ RevokeOK /\ MessageOK /\ WaitingOK /\ RetryOK
  /\ KnownOK /\ NotLostOK
  /\ exited = {}

=============================================================================
