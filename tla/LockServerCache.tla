--------------------------- MODULE LockServerCache ---------------------------
(***************************************************************************)
(* The lock_state of one lock in lock_server_cache and what the acquire    *)
(* and release RPC handlers do to it while they hold the server mutex.     *)
(* The calls the handlers make after unlocking (revoke, retry) belong to   *)
(* module CachingLock, which composes the server with its clients.         *)
(*                                                                         *)
(* lock_map keeps one independent lock_state per lock id and no handler    *)
(* touches two of them, so one lock is modelled.  A lock_state is created  *)
(* on first use with the values Init gives it.                             *)
(***************************************************************************)
EXTENDS LockProtocol

VARIABLES
  status,     \* lock_state::state
  owner,      \* lock_state::owner
  retrying,   \* lock_state::retrying
  waiting     \* lock_state::waiting

serverVars == <<status, owner, retrying, waiting>>

Status == {"NONE", "LOCKED", "REVOKING", "RETRYING"}

ServerTypeOK ==
  /\ status \in Status
  /\ owner \in Client \cup {NoClient}
  /\ retrying \in Client \cup {NoClient}
  /\ waiting \in SUBSET Client

ServerInit ==
  /\ status = "NONE"
  /\ owner = NoClient
  /\ retrying = NoClient
  /\ waiting = {}

(* waiting.begin(): std::set<std::string> iterates in increasing order. *)
Begin(S) == CHOOSE c \in S : \A d \in S : c <= d

-----------------------------------------------------------------------------
(* acquire, one operator per case of its switch.                           *)

(* case NONE: granted. *)
SrvAcquireNone(c) ==
  /\ status = "NONE"
  /\ status' = "LOCKED"
  /\ owner' = c
  /\ UNCHANGED <<retrying, waiting>>

(* Mutant: the caller is not recorded as waiting. *)
MutantLockedForgetsCaller(c) ==
  /\ status = "LOCKED"
  /\ status' = "REVOKING"
  /\ UNCHANGED <<owner, retrying, waiting>>

(* case LOCKED: c waits and the handler goes on to revoke the owner. *)
SrvAcquireLocked(c) ==
  /\ status = "LOCKED"
  /\ waiting' = waiting \cup {c}
  /\ status' = "REVOKING"
  /\ UNCHANGED <<owner, retrying>>

(* case REVOKING: c waits, a revoke is already under way. *)
SrvAcquireRevoking(c) ==
  /\ status = "REVOKING"
  /\ waiting' = waiting \cup {c}
  /\ UNCHANGED <<status, owner, retrying>>

(* Mutant: retrying is not cleared. *)
MutantRetryingNotCleared(c) ==
  /\ status = "RETRYING"
  /\ c = retrying
  /\ owner' = c
  /\ status' = IF waiting = {} THEN "LOCKED" ELSE "REVOKING"
  /\ UNCHANGED <<retrying, waiting>>

(* case RETRYING for the client that was told to retry, past the assert:   *)
(* granted, and revoked at once when others wait.                          *)
SrvAcquireRetrying(c) ==
  /\ status = "RETRYING"
  /\ c = retrying
  /\ c \notin waiting
  /\ retrying' = NoClient
  /\ owner' = c
  /\ status' = IF waiting = {} THEN "LOCKED" ELSE "REVOKING"
  /\ UNCHANGED waiting

(* case RETRYING for any other client: c waits. *)
SrvAcquireOther(c) ==
  /\ status = "RETRYING"
  /\ c # retrying
  /\ waiting' = waiting \cup {c}
  /\ UNCHANGED <<status, owner, retrying>>

-----------------------------------------------------------------------------
(* Mutant: the first waiting client is made the owner at once. *)
MutantReleaseHandsOver ==
  /\ waiting # {}
  /\ owner' = Begin(waiting)
  /\ waiting' = waiting \ {Begin(waiting)}
  /\ status' = "LOCKED"
  /\ UNCHANGED retrying

(* release: the first waiting client becomes the one told to retry.        *)
(* Neither the state nor the caller is looked at; begin() of an empty set  *)
(* is undefined, and the guard stands for the executions that are defined. *)
SrvRelease ==
  /\ waiting # {}
  /\ retrying' = Begin(waiting)
  /\ waiting' = waiting \ {Begin(waiting)}
  /\ owner' = NoClient
  /\ status' = "RETRYING"

=============================================================================
