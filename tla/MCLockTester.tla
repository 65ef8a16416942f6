---------------------------- MODULE MCLockTester ----------------------------
(* test5 with a third client: two threads share client 1, clients 2 and 3  *)
(* have one thread each.                                                   *)
EXTENDS LockTester, CachingLockInv

MCThread == 1 .. 4
MCHome == <<1, 1, 2, 3>>

=============================================================================
