----------------------------- MODULE LockTester -----------------------------
(***************************************************************************)
(* lock_tester.cc on the caching lock: threads that acquire and release    *)
(* one lock a number of times, through one client each (test3), through    *)
(* the same client (test4) or both (test5), as Home says, and the counter  *)
(* ct with which check_grant and check_release watch the lock.             *)
(***************************************************************************)
EXTENDS CachingLock

CONSTANT Rounds     \* the 10 of for (int j = 0; j < 10; j++)

ASSUME RoundsAssumption == Rounds \in Nat \ {0}

VARIABLES
  ct,         \* ct[a]
  line,       \* the statement of the loop body each thread is at
  round,      \* j
  failed      \* the tester called exit(1)

testerVars == <<ct, line, round, failed>>

TesterInit ==
  /\ Init
  /\ ct = 0
  /\ line = [t \in Thread |-> "acquire"]
  /\ round = [t \in Thread |-> 0]
  /\ failed = FALSE

At(t, from, to) == line[t] = from /\ line' = [line EXCEPT ![t] = to]

LoopAcquire(t) ==
  /\ round[t] < Rounds
  /\ At(t, "acquire", "check_grant")
  /\ CallAcquire(t)
  /\ UNCHANGED <<ct, round, failed>>

CheckGrant(t) ==
  /\ pc[t] = "held"
  /\ At(t, "check_grant", "check_release")
  /\ ct' = IF ct = 0 THEN ct + 1 ELSE ct
  /\ failed' = (ct # 0)
  /\ UNCHANGED <<vars, round>>

CheckRelease(t) ==
  /\ At(t, "check_release", "release")
  /\ ct' = IF ct = 1 THEN ct - 1 ELSE ct
  /\ failed' = (ct # 1)
  /\ UNCHANGED <<vars, round>>

LoopRelease(t) ==
  /\ At(t, "release", "acquire")
  /\ CallRelease(t)
  /\ round' = [round EXCEPT ![t] = @ + 1]
  /\ UNCHANGED <<ct, failed>>

Library(t) == Continue(t) /\ UNCHANGED testerVars

TesterStep(t) ==
  /\ ~failed
  /\ LoopAcquire(t) \/ CheckGrant(t) \/ CheckRelease(t) \/ LoopRelease(t) \/ Library(t)

(* Every thread of the test is scheduled as long as it can run. *)
TesterSpec ==
  /\ TesterInit
  /\ [][\E t \in Thread : TesterStep(t)]_<<vars, testerVars>>
  /\ \A t \in Thread : WF_<<vars, testerVars>>(TesterStep(t))

(* The tester ends and passes: every pthread_join returns, with the lock   *)
(* never seen granted twice or released while not held.  The server picks  *)
(* the next owner by the order of its name and may pass a client over as   *)
(* long as others keep asking, but with finitely many rounds everybody's   *)
(* turn comes.                                                             *)
TesterPasses ==
  <>[](~failed /\ \A t \in Thread : round[t] = Rounds /\ pc[t] = "idle")

=============================================================================
