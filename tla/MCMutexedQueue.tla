--------------------------- MODULE MCMutexedQueue ---------------------------
(* A queue as the daemon uses it and one as listenConnection uses it.       *)
EXTENDS MutexedQueue

CONSTANTS p1, p2, p3, c1, w1, w2

(* inQueue: the two processing threads and the periodic worker enqueue.     *)
ThreeProducers == {p1, p2, p3}
OneProducer == {p1}
TwoProducers == {p1, p2}
Sender == {c1}
Listeners == {w1, w2}
OneListener == {w1}
None == {}
==============================================================================
