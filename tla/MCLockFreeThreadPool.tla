------------------------ MODULE MCLockFreeThreadPool -------------------------
(* Small instances of LockFreeThreadPool for TLC.                           *)
EXTENDS LockFreeThreadPool

PoolThreads == Producers \cup Workers

=============================================================================
