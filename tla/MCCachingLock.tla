---------------------------- MODULE MCCachingLock ----------------------------
(* Small instances of CachingLock: threads <<c, i>> call the client c.     *)
EXTENDS CachingLockInv

CONSTANT ThreadsPerClient

MCThread == {<<c, i>> : c \in Client, i \in 1 .. ThreadsPerClient}
MCHome == [t \in MCThread |-> t[1]]

=============================================================================
