----------------------------- MODULE MCSvcWait -----------------------------
(* Threads of one process that establish connections at the same time.      *)
EXTENDS SvcWait

CONSTANTS c1, c2

OneCaller  == {c1}
TwoCallers == {c1, c2}
==============================================================================
