SPECIFICATION Spec
CONSTANTS
  t1 = t1
  t2 = t2
  t3 = t3
  Readers <- AllThreads
  Writers <- TwoThreads
  MaxDepth = 1
INVARIANT WriterAlone
CHECK_DEADLOCK FALSE
