----------------------------- MODULE LockProtocol -----------------------------
(***************************************************************************)
(* What the caching lock server and its clients share: the participants    *)
(* and the values an acquire RPC returns.                                  *)
(***************************************************************************)
EXTENDS Naturals

CONSTANTS
  Client,     \* ids of the lock clients, in the order std::string gives them
  NoClient,   \* the empty string of a cleared owner or retrying
  Thread,     \* the threads that call acquire and release
  Home        \* the client object each thread calls

ASSUME ClientAssumption == NoClient \notin Client

(* std::set<std::string> is ordered: every non-empty set has a begin(). *)
ASSUME OrderAssumption ==
  \A S \in SUBSET Client : S # {} => \E c \in S : \A d \in S : c <= d

ASSUME HomeAssumption == Home \in [Thread -> Client]

(* lock_protocol::xxstatus, as far as acquire returns it. *)
Reply == {"OK", "RETRY"}

=============================================================================
