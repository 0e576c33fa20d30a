---------------------------- MODULE MCSharedMutex ----------------------------
(* The lock with three threads in the roles its users give them.           *)
EXTENDS SharedMutex

CONSTANTS t1, t2, t3

(* Two threads that only read, write or do both, and a reader that nests.  *)
AllThreads == {t1, t2, t3}
TwoThreads == {t1, t2}
OneThread  == {t1}
OtherThread == {t2}
==============================================================================
