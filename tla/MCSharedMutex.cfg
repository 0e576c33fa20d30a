SPECIFICATION Spec
CONSTANTS
  t1 = t1
  t2 = t2
  t3 = t3
  Readers <- AllThreads
  Writers <- TwoThreads
  MaxDepth = 2
INVARIANTS
  TypeOK
  CountersMatch
  SignalsReachWaiters
CHECK_DEADLOCK FALSE
